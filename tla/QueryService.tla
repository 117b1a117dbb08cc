---------------------------- MODULE QueryService ----------------------------
(***************************************************************************)
(* What Beacon DNS promises a client that sends it a query, without cache, *)
(* goroutines or upstreams: the filter judges the query once, under the    *)
(* policy in force at that instant; a blocked query is refused, another    *)
(* one is answered with what an upstream said about that question, or with *)
(* SERVFAIL.  Resolver.tla is shown to implement this.                     *)
(***************************************************************************)
CONSTANTS Conn, Name, Client, Private, Policies, Nil

VARIABLES
  policy,   \* the blocked <<client, name>> pairs of now
  asked,    \* the question of each query
  verdict,  \* what the filter said of it
  known,    \* questions an upstream has answered
  reply     \* what the client received

vars == <<policy, asked, verdict, known, reply>>

Init ==
  /\ policy \in Policies
  /\ asked = [c \in Conn |-> Nil]
  /\ verdict = [c \in Conn |-> Nil]
  /\ known = {}
  /\ reply = [c \in Conn |-> Nil]

Ask(c) ==
  /\ asked[c] = Nil
  /\ \E n \in Name, client \in Client :
       asked' = [asked EXCEPT ![c] = [name |-> n, client |-> client]]
  /\ UNCHANGED <<policy, verdict, known, reply>>

Refuses(q) == q.name \in Private \/ <<q.client, q.name>> \in policy

Judge(c) ==
  /\ asked[c] # Nil /\ verdict[c] = Nil
  /\ verdict' = [verdict EXCEPT ![c] = IF Refuses(asked[c]) THEN "blocked" ELSE "passed"]
  /\ UNCHANGED <<policy, asked, known, reply>>

Learn(n) ==
  /\ known' = known \cup {n}
  /\ UNCHANGED <<policy, asked, verdict, reply>>

\* The reply names the question the answer is about.
Answer(c) ==
  /\ verdict[c] = "passed" /\ reply[c] = Nil
  /\ asked[c].name \in known
  /\ reply' = [reply EXCEPT ![c] = [kind |-> "answer", name |-> asked[c].name]]
  /\ UNCHANGED <<policy, asked, verdict, known>>

Refuse(c) ==
  /\ verdict[c] = "blocked" /\ reply[c] = Nil
  /\ reply' = [reply EXCEPT ![c] = [kind |-> "blocked", name |-> Nil]]
  /\ UNCHANGED <<policy, asked, verdict, known>>

Fail(c) ==
  /\ verdict[c] = "passed" /\ reply[c] = Nil
  /\ reply' = [reply EXCEPT ![c] = [kind |-> "servfail", name |-> Nil]]
  /\ UNCHANGED <<policy, asked, verdict, known>>

ChangePolicy ==
  /\ policy' \in Policies
  /\ UNCHANGED <<asked, verdict, known, reply>>

Next ==
  \/ \E c \in Conn : Ask(c) \/ Judge(c) \/ Answer(c) \/ Refuse(c) \/ Fail(c)
  \/ \E n \in Name : Learn(n)
  \/ ChangePolicy

Spec == Init /\ [][Next]_vars
=============================================================================
