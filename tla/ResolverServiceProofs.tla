----------------------- MODULE ResolverServiceProofs -----------------------
(* More theorems about Resolver, for every value of its constants: that it     *)
(* implements QueryService, the number of prefetchers, and that the statistics  *)
(* of what it logs add up.                                                      *)
EXTENDS ResolverSafetyProofs, SelectionProofs, Statistics

-----------------------------------------------------------------------------
(* The strengthenings *)

\* A question some upstream has answered.
Known(n) == \E t \in Task : heap[<<t, n>>] # Nil

\* A handler has a response exactly while it returns: an answer has a message, by
\* value or by reference, to a question that was answered; a refusal has none.
ReplyGrounded ==
  \A c \in Conn :
    /\ pc[c] # "return" => resp[c] = Nil
    /\ (pc[c] = "return" /\ resp[c].kind = "answer") =>
         /\ resp[c].ref = Nil => resp[c].msg \in Message
         /\ Known(call[c].name)
    /\ (pc[c] = "return" /\ resp[c].kind # "answer") =>
         resp[c].ref = Nil /\ resp[c].msg = Nil

-----------------------------------------------------------------------------
(* The resolver implements the query service. *)

\* An object is never freed: what was answered once stays known.
LEMMA HeapGrows ==
  ASSUME IInv, [Next]_vars, NEW o \in Obj, heap[o] # Nil
  PROVE  heap'[o] # Nil
<1> USE TaskFacts, NilAssumption DEF IInv, env, store, bgv, vars
<1>1. ASSUME heap' = heap PROVE heap'[o] # Nil
  BY <1>1
<1>2. ASSUME NEW t \in Task, Touch(t) PROVE heap'[o] # Nil
  BY <1>2, TouchFacts DEF TouchEffect, Kept
<1>3. ASSUME NEW t \in Task, TouchEnd(t) PROVE heap'[o] # Nil
  BY <1>1, <1>3, TouchEndEffect
<1>4. ASSUME NEW t \in Task, Store(t) PROVE heap'[o] # Nil
  BY <1>4, StoreEffect
<1>5. CASE UNCHANGED vars
  BY <1>5, <1>1
<1>6. CASE \E c \in Conn : HandleRequest(c) \/ WriteMsg(c)
  BY <1>6, <1>1 DEF HandleRequest, WriteMsg
<1>7. CASE \E b \in Bg : Background(b)
  BY <1>7, <1>1 DEF Background, RefreshDone, PlanPrefetch, PrefetchNext, PrefetchEnd
<1>8. CASE \E t \in Task : Process(t)
  BY <1>8, <1>1, <1>2, <1>3, <1>4
     DEF Process, Check, Lookup, PrefetchOnHit, Copy, Exchange
<1>9. CASE Environment
  BY <1>9, <1>1 DEF Environment, Tick, PolicyChange, LoadQueryPatterns, Evict
<1> QED BY <1>5, <1>6, <1>7, <1>8, <1>9 DEF Next

\* A response exists exactly while its handler returns it.
LEMMA ReplyGroundedStep == IInv /\ Unstarted /\ OwnObject /\ ReplyGrounded /\ [Next]_vars => ReplyGrounded'
<1> SUFFICES ASSUME IInv, Unstarted, OwnObject, ReplyGrounded, [Next]_vars PROVE ReplyGrounded'
  OBVIOUS
<1> USE TaskFacts, NilAssumption DEF IInv, env, store, bgv, vars
<1>1. ASSUME NEW c \in Conn, HandleRequest(c) PROVE ReplyGrounded'
  <2>1. /\ pc[c] = "idle" /\ pc'[c] = "check" /\ UNCHANGED <<heap, resp>>
        /\ \A d \in Conn \ {c} : pc'[d] = pc[d] /\ call'[d] = call[d]
    BY <1>1 DEF HandleRequest, Goto, TypeOK
  <2>2. resp'[c] = Nil
    BY <2>1 DEF ReplyGrounded
  <2> QED BY <2>1, <2>2 DEF ReplyGrounded, Known
<1>2. ASSUME NEW c \in Conn, WriteMsg(c) PROVE ReplyGrounded'
  <2>1. /\ UNCHANGED <<heap, call>> /\ resp'[c] = Nil /\ pc'[c] = "done"
        /\ \A d \in Conn \ {c} : pc'[d] = pc[d] /\ resp'[d] = resp[d]
    BY <1>2 DEF WriteMsg, Goto, TypeOK
  <2> QED BY <2>1 DEF ReplyGrounded, Known
<1>3. ASSUME NEW b \in Bg, RefreshDone(b) PROVE ReplyGrounded'
  <2>1. UNCHANGED <<heap, call>> /\ \A d \in Conn : pc'[d] = pc[d] /\ resp'[d] = resp[d]
    BY <1>3 DEF RefreshDone, Goto, TypeOK
  <2> QED BY <2>1 DEF ReplyGrounded, Known
<1>4. ASSUME NEW b \in Bg, PlanPrefetch(b) PROVE ReplyGrounded'
  BY <1>4 DEF PlanPrefetch, Goto, ReplyGrounded, Known, TypeOK
<1>5. ASSUME NEW b \in Bg, PrefetchNext(b) PROVE ReplyGrounded'
  <2>1. UNCHANGED heap /\ \A d \in Conn : pc'[d] = pc[d] /\ resp'[d] = resp[d] /\ call'[d] = call[d]
    BY <1>5 DEF PrefetchNext, Goto, Claim, TypeOK
  <2> QED BY <2>1 DEF ReplyGrounded, Known
<1>6. ASSUME NEW b \in Bg, PrefetchEnd(b) PROVE ReplyGrounded'
  BY ZenonT(60), <1>6 DEF PrefetchEnd, Goto, ReplyGrounded, Known, TypeOK
<1>7. ASSUME NEW t \in Task, Check(t) PROVE ReplyGrounded'
  <2> DEFINE r == NoAnswer("blocked")
  <2>1. r.kind # "answer" /\ r.ref = Nil /\ r.msg = Nil
    BY DEF NoAnswer
  <2> HIDE DEF r
  <2>2. /\ UNCHANGED <<heap, call>>
        /\ \A u \in Task \ {t} : resp'[u] = resp[u] /\ pc'[u] = pc[u]
        /\ pc[t] = "check"
        /\ \/ resp'[t] = r /\ pc'[t] = "return"
           \/ resp'[t] = resp[t] /\ pc'[t] = "lookup"
    BY <1>7 DEF Check, Return, Goto, blockFQDN, r, TypeOK
  <2> QED BY <2>1, <2>2 DEF ReplyGrounded, Known
<1>8. ASSUME NEW t \in Task, Lookup(t) PROVE ReplyGrounded'
  BY ZenonT(60), <1>8 DEF Lookup, Goto, ReplyGrounded, Known, TypeOK
<1>9. ASSUME NEW t \in Task, Touch(t) PROVE ReplyGrounded'
  <2>1. TouchEffect(t)
    BY <1>9, TouchFacts
  <2>2. \A o \in Obj : heap[o] # Nil => heap'[o] # Nil
    BY HeapGrows
  <2>3. UNCHANGED <<call, resp>> /\ \A d \in Conn : pc'[d] = "return" <=> pc[d] = "return"
    BY <2>1 DEF TouchEffect, NothingElse, InTouch, InRecord
  <2>4. \A d \in Conn : (pc[d] = "return" /\ Known(call[d].name)) => Known(call[d].name)'
    BY <2>2, <2>3 DEF Known, CallOK, Call, Obj
  <2> QED BY <2>3, <2>4 DEF ReplyGrounded
<1>10. ASSUME NEW t \in Task, TouchEnd(t) PROVE ReplyGrounded'
  <2>1. /\ pc[t] = "report" /\ UNCHANGED resp
        /\ Starts(t, "related", "check", RefreshCall(t), loc[t].obj)
    BY <1>10, TouchEndEffect
  <2>2. \A o \in Obj : heap[o] # Nil => heap'[o] # Nil
    BY HeapGrows
  <2>3. \A d \in Conn : /\ pc'[d] = "return" <=> pc[d] = "return"
                        /\ call'[d] = call[d]
    BY <2>1 DEF Starts
  <2>4. \A d \in Conn : (pc[d] = "return" /\ Known(call[d].name)) => Known(call[d].name)'
    BY <2>3, <2>2 DEF Known, CallOK, Call, Obj
  <2> QED BY <2>1, <2>3, <2>4 DEF ReplyGrounded
<1>11. ASSUME NEW t \in Task, PrefetchOnHit(t) PROVE ReplyGrounded'
  <2>1. /\ pc[t] = "related" /\ UNCHANGED <<heap, resp>>
        /\ Starts(t, "copy", "plan", call[t], Nil)
    BY <1>11, PrefetchOnHitEffect
  <2>2. \A d \in Conn : /\ pc'[d] = "return" <=> pc[d] = "return"
                        /\ call'[d] = call[d]
    BY <2>1 DEF Starts
  <2> QED BY <2>1, <2>2 DEF ReplyGrounded, Known
<1>12. ASSUME NEW t \in Task, Copy(t) PROVE ReplyGrounded'
  <2>1. \A u \in Task \ {t} : resp'[u] = resp[u] /\ pc'[u] = pc[u]
    BY <1>12 DEF Copy, Return, Goto, TypeOK
  <2>2. UNCHANGED <<call, heap>> /\ call[t] \in Call
    BY <1>12 DEF Copy, CallOK
  <2>3. /\ loc[t].obj \in Obj /\ loc[t].obj[2] = call[t].name
        /\ heap[loc[t].obj] \in Cached
    BY <1>12 DEF Copy, OwnObject, TouchOK, Touching
  <2>4. Known(call[t].name)
    BY <2>3 DEF Known, Obj
  <2>5. [name |-> loc[t].obj[2], id |-> call[t].id, ttls |-> heap[loc[t].obj].ttls] \in Message
    BY <2>2, <2>3 DEF Message, Call, Cached, Obj
  <2> DEFINE m == [name |-> loc[t].obj[2], id |-> call[t].id, ttls |-> heap[loc[t].obj].ttls]
  <2>6. pc'[t] = "return" /\ resp'[t].kind = "answer" /\ resp'[t].msg = m
    BY <1>12 DEF Copy, Return, Goto, TypeOK
  <2> QED BY <2>1, <2>2, <2>4, <2>5, <2>6 DEF ReplyGrounded, Known
<1>13. ASSUME NEW t \in Task, Exchange(t) PROVE ReplyGrounded'
  <2> DEFINE r == NoAnswer("servfail")
  <2>1. r.kind # "answer" /\ r.ref = Nil /\ r.msg = Nil
    BY DEF NoAnswer
  <2> HIDE DEF r
  <2>2. /\ UNCHANGED <<heap, call>>
        /\ \A u \in Task \ {t} : resp'[u] = resp[u] /\ pc'[u] = pc[u]
        /\ pc[t] = "exchange"
        /\ \/ resp'[t] = r /\ pc'[t] = "return"
           \/ resp'[t] = resp[t] /\ pc'[t] \in {"store", "exchange"}
    BY <1>13 DEF Exchange, Replied, GetsNoReply, Return, Goto, r, TypeOK
  <2> QED BY <2>1, <2>2 DEF ReplyGrounded, Known
<1>14. ASSUME NEW t \in Task, Store(t) PROVE ReplyGrounded'
  <2>1. /\ pc[t] = "store" /\ Starts(t, "return", "plan", call[t], Nil)
    BY <1>14, StoreStarts
  <2>2. /\ <<t, call[t].name>> \in Obj
        /\ heap'[<<t, call[t].name>>] \in Cached
        /\ resp'[t].kind = "answer" /\ resp'[t].ref = <<t, call[t].name>>
        /\ \A u \in Task \ {t} : resp'[u] = resp[u]
    BY <1>14, StoreEffect
  <2>3. /\ pc'[t] = "return" /\ call'[t] = call[t]
        /\ \A d \in Conn \ {t} : /\ pc'[d] = "return" <=> pc[d] = "return"
                                 /\ call'[d] = call[d]
    BY <2>1 DEF Starts
  <2>4. \A o \in Obj : heap[o] # Nil => heap'[o] # Nil
    BY HeapGrows
  <2>5. \A d \in Conn \ {t} : (pc[d] = "return" /\ Known(call[d].name)) => Known(call[d].name)'
    BY <2>3, <2>4 DEF Known, CallOK, Call, Obj
  <2>6. Known(call[t].name)'
    BY <2>2, <2>3 DEF Known
  <2>7. resp'[t].ref # Nil
    BY <2>2
  <2> QED BY <2>2, <2>3, <2>5, <2>6, <2>7 DEF ReplyGrounded
<1>15. ASSUME Tick PROVE ReplyGrounded'
  BY <1>15 DEF Tick, ReplyGrounded, Known, TypeOK
<1>16. ASSUME PolicyChange PROVE ReplyGrounded'
  BY <1>16 DEF PolicyChange, ReplyGrounded, Known, TypeOK
<1>17. ASSUME LoadQueryPatterns PROVE ReplyGrounded'
  BY <1>17 DEF LoadQueryPatterns, ReplyGrounded, Known, TypeOK
<1>18. ASSUME NEW n \in Name, Evict(n) PROVE ReplyGrounded'
  BY <1>18 DEF Evict, ReplyGrounded, Known, TypeOK
<1>19. ASSUME UNCHANGED vars PROVE ReplyGrounded'
  BY <1>19 DEF ReplyGrounded, Known, TypeOK
<1> QED
  BY <1>1, <1>2, <1>3, <1>4, <1>5, <1>6, <1>7, <1>8, <1>9, <1>10,
     <1>11, <1>12, <1>13, <1>14, <1>15, <1>16, <1>17, <1>18, <1>19
     DEF Next, Process, Background, Environment

\* The invariants that the refinement rests on.
RefinementInv == IInv /\ Unstarted /\ OwnObject /\ ReplyReady /\ ReplyGrounded

\* What a client sees does not change.
Unseen(c) ==
  call'[c] = call[c] /\ sent'[c] = sent[c] /\ FilterVerdict(c)' = FilterVerdict(c)

\* A step that no client sees, and that answers no new question, is a stutter.
LEMMA UnseenStutters ==
  ASSUME RefinementInv, blocked' = blocked, \A c \in Conn : Unseen(c),
         \A o \in Obj : heap'[o] = Nil <=> heap[o] = Nil
  PROVE  UNCHANGED Service!vars
<1>1. \A n \in Name, t \in Task : heap'[<<t, n>>] = Nil <=> heap[<<t, n>>] = Nil
  BY DEF Obj
<1>2. {n \in Name : \E t \in Task : heap'[<<t, n>>] # Nil}
        = {n \in Name : \E t \in Task : heap[<<t, n>>] # Nil}
  BY <1>1
<1>3. [c \in Conn |-> FilterVerdict(c)]' = [c \in Conn |-> FilterVerdict(c)]
  BY DEF Unseen
<1>4. [c \in Conn |-> Reply(c)]' = [c \in Conn |-> Reply(c)]
  BY DEF Unseen, Reply
<1>5. [c \in Conn |-> IF call[c] = Nil THEN Nil
                       ELSE [name |-> call[c].name, client |-> call[c].client]]'
        = [c \in Conn |-> IF call[c] = Nil THEN Nil
                           ELSE [name |-> call[c].name, client |-> call[c].client]]
  BY DEF Unseen
<1> QED BY <1>2, <1>3, <1>4, <1>5 DEF Service!vars

\* A client sees nothing of what leaves its handler where it is.
LEMMA IdleIsUnseen ==
  ASSUME NEW c \in Conn, pc'[c] = pc[c], call'[c] = call[c], resp'[c] = resp[c],
         sent'[c] = sent[c]
  PROVE  Unseen(c)
BY DEF Unseen, FilterVerdict

\* Once past the filter, a handler that comes back with no refusal stays past it.
LEMMA PassedIsUnseen ==
  ASSUME RefinementInv, NEW c \in Conn, pc[c] \notin {"idle", "check", "return", "done"},
         pc'[c] \notin {"idle", "check"}, call'[c] = call[c], sent'[c] = sent[c],
         resp'[c] = Nil \/ resp'[c].kind # "blocked"
  PROVE  Unseen(c)
<1>1. resp[c] = Nil /\ sent[c] = Nil
  BY DEF RefinementInv, ReplyGrounded, Unstarted
<1> QED BY <1>1, NilAssumption DEF Unseen, FilterVerdict

\* Every step of the resolver is a step of the query service, or one that no client
\* sees.
LEMMA RefinementStep == RefinementInv /\ [Next]_vars => [Service!Next]_(Service!vars)
<1> SUFFICES ASSUME RefinementInv, [Next]_vars PROVE [Service!Next]_(Service!vars)
  OBVIOUS
<1> USE TaskFacts, NilAssumption DEF IInv, env, store, bgv, vars, RefinementInv
<1>1. ASSUME NEW c \in Conn, HandleRequest(c) PROVE [Service!Next]_(Service!vars)
  <2>1. /\ pc[c] = "idle" /\ pc'[c] = "check" /\ call[c] = Nil
        /\ \A d \in Conn \ {c} : pc'[d] = pc[d]
        /\ UNCHANGED <<blocked, heap, resp, sent>>
    BY <1>1 DEF HandleRequest, Goto, TypeOK, Unstarted
  <2>2. PICK n \in Name, client \in Client :
          call' = [call EXCEPT ![c] = [name |-> n, client |-> client,
                                       prefetch |-> TRUE, id |-> c]]
    BY <1>1 DEF HandleRequest
  <2>3. /\ call'[c].name = n /\ call'[c].client = client /\ call'[c] \in Call
        /\ \A d \in Conn \ {c} : call'[d] = call[d]
    BY <2>2 DEF TypeOK, Call
  <2>4. call'[c] # Nil
    BY <2>3
  <2>5. \A d \in Conn : FilterVerdict(d)' = FilterVerdict(d)
    BY <2>1 DEF FilterVerdict
  <2>6. \A d \in Conn : Reply(d)' = Reply(d)
    BY <2>1 DEF Reply
  <2> DEFINE asked == [d \in Conn |-> IF call[d] = Nil THEN Nil
                              ELSE [name |-> call[d].name, client |-> call[d].client]]
             q == [name |-> n, client |-> client]
  <2>7. asked[c] = Nil /\ asked' = [asked EXCEPT ![c] = q]
    <3>1. \A d \in Conn \ {c} : asked'[d] = asked[d]
      BY <2>3
    <3>2. asked'[c] = q
      BY <2>3, <2>4
    <3>3. asked' = [d \in Conn |-> asked'[d]] /\ asked = [d \in Conn |-> asked[d]]
      OBVIOUS
    <3>4. asked[c] = Nil
      BY <2>1
    <3> HIDE DEF asked, q
    <3> QED BY <3>1, <3>2, <3>3, <3>4
  <2>8. Service!Ask(c)
    BY <2>1, <2>5, <2>6, <2>7 DEF Service!Ask
  <2> QED BY <2>8 DEF Service!Next
<1>2. ASSUME NEW c \in Conn, WriteMsg(c) PROVE [Service!Next]_(Service!vars)
  <2> DEFINE r == resp[c]
             q == call[c]
  <2>1. /\ pc[c] = "return" /\ pc'[c] = "done" /\ sent[c] = Nil
        /\ r \in Response /\ resp'[c] = Nil /\ q \in Call
        /\ \A d \in Conn \ {c} : pc'[d] = pc[d] /\ resp'[d] = resp[d] /\ sent'[d] = sent[d]
        /\ UNCHANGED <<blocked, heap, call>>
    BY <1>2 DEF WriteMsg, Goto, TypeOK, Unstarted, RespOK, CallOK
  <2>2. /\ sent'[c] # Nil /\ sent'[c].kind = r.kind
        /\ r.ref = Nil => sent'[c].msg = r.msg
        /\ r.ref # Nil => /\ sent'[c].msg.name = r.ref[2]
                          /\ sent'[c].msg \in Message
    <3> DEFINE shared == [name |-> r.ref[2], id |-> heap[r.ref].id, ttls |-> heap[r.ref].ttls]
               m == IF r.ref = Nil THEN r.msg ELSE shared
               s == [kind |-> r.kind, cached |-> r.cached, prefetched |-> r.prefetched,
                     forwarded |-> r.forwarded, msg |-> m]
    <3>1. sent' = [sent EXCEPT ![c] = s]
      BY <1>2 DEF WriteMsg
    <3>2. r.ref # Nil => shared \in Message
      BY <2>1 DEF RespOK, Response, TypeOK, Obj, Cached, Message
    <3>3. m \in Message \cup {Nil} /\ r.kind \in {"blocked", "servfail", "answer"}
          /\ r.cached \in BOOLEAN /\ r.prefetched \in BOOLEAN /\ r.forwarded \in BOOLEAN
      BY <2>1, <3>2 DEF Response
    <3>4. shared.name = r.ref[2]
      OBVIOUS
    <3>5. r.ref = Nil => m = r.msg
      OBVIOUS
    <3>6. r.ref # Nil => m = shared
      OBVIOUS
    <3> HIDE DEF m, shared, r
    <3>7. s \in Sent /\ s.kind = r.kind /\ s.msg = m
      BY <3>3 DEF Sent
    <3> HIDE DEF s
    <3>8. sent'[c] = s
      BY <3>1 DEF TypeOK
    <3> QED BY <3>2, <3>4, <3>5, <3>6, <3>7, <3>8
  <2> HIDE DEF r, q
  <2>3. /\ \A d \in Conn \ {c} : /\ FilterVerdict(d)' = FilterVerdict(d)
                                 /\ Reply(d)' = Reply(d)
        /\ FilterVerdict(c) = IF r.kind = "blocked" THEN "blocked" ELSE "passed"
        /\ FilterVerdict(c)' = FilterVerdict(c)
        /\ Reply(c) = Nil
    BY <2>1, <2>2 DEF FilterVerdict, Reply, r
  <2>4. q # Nil
    BY <2>1
  <2>5. CASE r.kind = "answer"
    <3>1. /\ Known(q.name) /\ q.name \in Name
      BY <2>1, <2>5 DEF ReplyGrounded, r, q, Call
    <3>a. /\ r.ref = Nil => r.msg \in Message
          /\ \/ r.ref = Nil /\ r.msg.name = q.name
             \/ r.ref = <<c, q.name>>
      BY <2>1, <2>5 DEF ReplyGrounded, ReplyReady, r, q
    <3>2. sent'[c].msg \in Message /\ sent'[c].msg.name = q.name
      <4>1. CASE r.ref = Nil
        <5>1. r.msg \in Message
          BY <3>a, <4>1
        <5>2. c \in Task /\ q.name \in Name
          BY <3>1
        <5>3. r.ref # <<c, q.name>>
          BY <4>1, <5>2 DEF Obj
        <5> QED BY <2>2, <3>a, <4>1, <5>1, <5>3
      <4>2. CASE r.ref # Nil
        BY <2>2, <3>a, <4>2
      <4> QED BY <4>1, <4>2
    <3>3. Reply(c)' = [kind |-> "answer", name |-> q.name]
      BY <2>2, <2>5, <3>2 DEF Reply
    <3>4. Service!Answer(c)
      BY <2>1, <2>3, <2>4, <2>5, <3>1, <3>3 DEF Service!Answer, q, Known
    <3> QED BY <3>4 DEF Service!Next
  <2>6. CASE r.kind # "answer"
    <3>1. r.ref = Nil /\ r.msg = Nil
      BY <2>1, <2>6 DEF ReplyGrounded, r
    <3>2. Reply(c)' = [kind |-> r.kind, name |-> Nil]
      BY <2>2, <3>1 DEF Reply
    <3>3. CASE r.kind = "blocked"
      <4>1. Service!Refuse(c)
        BY <2>1, <2>3, <3>2, <3>3 DEF Service!Refuse
      <4> QED BY <4>1 DEF Service!Next
    <3>4. CASE r.kind = "servfail"
      <4>1. Service!Fail(c)
        BY <2>1, <2>3, <3>2, <3>4 DEF Service!Fail
      <4> QED BY <4>1 DEF Service!Next
    <3> QED BY <2>1, <2>6, <3>3, <3>4 DEF Response
  <2> QED BY <2>5, <2>6
<1>3. ASSUME NEW b \in Bg, RefreshDone(b) PROVE [Service!Next]_(Service!vars)
  <2>1. /\ blocked' = blocked /\ heap' = heap
        /\ \A d \in Conn : /\ pc'[d] = pc[d] /\ call'[d] = call[d]
                           /\ resp'[d] = resp[d] /\ sent'[d] = sent[d]
    BY <1>3 DEF RefreshDone, Goto, TypeOK
  <2> QED BY <2>1, IdleIsUnseen, UnseenStutters
<1>4. ASSUME NEW b \in Bg, PlanPrefetch(b) PROVE [Service!Next]_(Service!vars)
  <2>1. /\ blocked' = blocked /\ heap' = heap
        /\ \A d \in Conn : /\ pc'[d] = pc[d] /\ call'[d] = call[d]
                           /\ resp'[d] = resp[d] /\ sent'[d] = sent[d]
    BY <1>4 DEF PlanPrefetch, Goto, TypeOK
  <2> QED BY <2>1, IdleIsUnseen, UnseenStutters
<1>5. ASSUME NEW b \in Bg, PrefetchNext(b) PROVE [Service!Next]_(Service!vars)
  <2>1. /\ blocked' = blocked /\ heap' = heap
        /\ \A d \in Conn : /\ pc'[d] = pc[d] /\ call'[d] = call[d]
                           /\ resp'[d] = resp[d] /\ sent'[d] = sent[d]
    BY <1>5 DEF PrefetchNext, Goto, Claim, TypeOK
  <2> QED BY <2>1, IdleIsUnseen, UnseenStutters
<1>6. ASSUME NEW b \in Bg, PrefetchEnd(b) PROVE [Service!Next]_(Service!vars)
  <2>1. /\ blocked' = blocked /\ heap' = heap
        /\ \A d \in Conn : /\ pc'[d] = pc[d] /\ call'[d] = call[d]
                           /\ resp'[d] = resp[d] /\ sent'[d] = sent[d]
    BY <1>6 DEF PrefetchEnd, Goto, TypeOK
  <2> QED BY <2>1, IdleIsUnseen, UnseenStutters
<1>7. ASSUME NEW t \in Task, Check(t) PROVE [Service!Next]_(Service!vars)
  <2> DEFINE r == NoAnswer("blocked")
  <2>1. r.kind = "blocked" /\ r # Nil
    <3>1. r \in Response
      BY DEF NoAnswer, Response
    <3> QED BY <3>1 DEF NoAnswer
  <2> HIDE DEF r
  <2>2. /\ UNCHANGED <<blocked, heap, call, sent>> /\ pc[t] = "check" /\ call[t] \in Call
        /\ \A u \in Task \ {t} : resp'[u] = resp[u] /\ pc'[u] = pc[u]
        /\ \/ Refused(t) /\ resp'[t] = r /\ pc'[t] = "return"
           \/ ~Refused(t) /\ resp'[t] = resp[t] /\ pc'[t] = "lookup"
    BY <1>7 DEF Check, Return, Goto, blockFQDN, r, TypeOK, CallOK
  <2>3. CASE t \in Bg
    BY <2>2, <2>3, IdleIsUnseen, UnseenStutters
  <2>4. CASE t \in Conn
    <3>1. resp[t] = Nil /\ sent[t] = Nil
      BY <2>2, <2>4 DEF ReplyGrounded, Unstarted
    <3>2. /\ FilterVerdict(t) = Nil
          /\ FilterVerdict(t)' = IF Refused(t) THEN "blocked" ELSE "passed"
          /\ \A d \in Conn \ {t} : FilterVerdict(d)' = FilterVerdict(d)
      BY <2>1, <2>2, <3>1 DEF FilterVerdict
    <3>3. \A d \in Conn : Reply(d)' = Reply(d)
      BY <2>2 DEF Reply
    <3> DEFINE q == [name |-> call[t].name, client |-> call[t].client]
    <3>4. /\ q # Nil /\ call[t] # Nil /\ q.name = call[t].name /\ q.client = call[t].client
      BY <2>2 DEF Call
    <3> HIDE DEF q
    <3>5. (q.name \in PrivatePtr \/ <<q.client, q.name>> \in blocked) <=> Refused(t)
      BY <3>4 DEF Refused, IsPrivateReverse, isBlocked
    <3> DEFINE asked == [c \in Conn |-> IF call[c] = Nil THEN Nil
                              ELSE [name |-> call[c].name, client |-> call[c].client]]
    <3>6. asked[t] = q
      BY <2>4, <3>4 DEF q
    <3>7. Service!Judge(t)
      BY <2>2, <2>4, <3>2, <3>3, <3>4, <3>5, <3>6 DEF Service!Judge, Service!Refuses
    <3> QED BY <2>4, <3>7 DEF Service!Next
  <2> QED BY <2>3, <2>4 DEF Task
<1>8. ASSUME NEW t \in Task, Lookup(t) PROVE [Service!Next]_(Service!vars)
  <2>1. /\ pc[t] = "lookup" /\ pc'[t] \in {"touch", "exchange"}
        /\ UNCHANGED <<blocked, heap, call, resp, sent>>
        /\ \A u \in Task \ {t} : pc'[u] = pc[u]
    BY <1>8 DEF Lookup, Goto, TypeOK
  <2>2. t \in Conn => resp'[t] = Nil
    BY <2>1 DEF ReplyGrounded
  <2>3. \A d \in Conn : Unseen(d)
    BY <2>1, <2>2, IdleIsUnseen, PassedIsUnseen
  <2> QED BY <2>1, <2>3, UnseenStutters
<1>9. ASSUME NEW t \in Task, Touch(t) PROVE [Service!Next]_(Service!vars)
  <2>1. TouchEffect(t)
    BY <1>9, TouchFacts
  <2>2. /\ pc[t] \in InTouch /\ pc'[t] \in InTouch
        /\ UNCHANGED <<blocked, call, resp, sent>>
        /\ \A u \in Task \ {t} : pc'[u] = pc[u]
    BY <2>1 DEF TouchEffect, NothingElse
  <2>3. \A p \in Obj : heap'[p] = Nil <=> heap[p] = Nil
    BY <2>1 DEF TouchEffect, Kept
  <2>4. t \in Conn => resp'[t] = Nil
    BY <2>2 DEF ReplyGrounded, InTouch, InRecord
  <2>5. {"idle", "check", "return", "done"} \cap InTouch = {}
    BY DEF InTouch, InRecord
  <2>6. \A d \in Conn : Unseen(d)
    BY <2>2, <2>4, <2>5, IdleIsUnseen, PassedIsUnseen
  <2> QED BY <2>2, <2>3, <2>6, UnseenStutters
<1>10. ASSUME NEW t \in Task, TouchEnd(t) PROVE [Service!Next]_(Service!vars)
  <2>1. /\ pc[t] = "report" /\ UNCHANGED <<blocked, heap, resp, sent>>
        /\ Starts(t, "related", "check", RefreshCall(t), loc[t].obj)
    BY <1>10, TouchEndEffect
  <2>2. /\ pc'[t] = "related" /\ call'[t] = call[t]
        /\ \A d \in Conn \ {t} : pc'[d] = pc[d] /\ call'[d] = call[d]
    BY <2>1 DEF Starts
  <2>3. t \in Conn => resp'[t] = Nil
    BY <2>1 DEF ReplyGrounded
  <2>4. \A d \in Conn : Unseen(d)
    BY <2>1, <2>2, <2>3, IdleIsUnseen, PassedIsUnseen
  <2> QED BY <2>1, <2>4, UnseenStutters
<1>11. ASSUME NEW t \in Task, PrefetchOnHit(t) PROVE [Service!Next]_(Service!vars)
  <2>1. /\ pc[t] = "related" /\ UNCHANGED <<blocked, heap, resp, sent>>
        /\ Starts(t, "copy", "plan", call[t], Nil)
    BY <1>11, PrefetchOnHitEffect
  <2>2. /\ pc'[t] = "copy" /\ call'[t] = call[t]
        /\ \A d \in Conn \ {t} : pc'[d] = pc[d] /\ call'[d] = call[d]
    BY <2>1 DEF Starts
  <2>3. t \in Conn => resp'[t] = Nil
    BY <2>1 DEF ReplyGrounded
  <2>4. \A d \in Conn : Unseen(d)
    BY <2>1, <2>2, <2>3, IdleIsUnseen, PassedIsUnseen
  <2> QED BY <2>1, <2>4, UnseenStutters
<1>12. ASSUME NEW t \in Task, Copy(t) PROVE [Service!Next]_(Service!vars)
  <2>1. /\ pc[t] = "copy" /\ pc'[t] = "return" /\ resp'[t].kind = "answer"
        /\ \A u \in Task \ {t} : resp'[u] = resp[u] /\ pc'[u] = pc[u]
        /\ UNCHANGED <<blocked, heap, call, sent>>
    BY <1>12 DEF Copy, Return, Goto, TypeOK
  <2>2. \A d \in Conn : Unseen(d)
    BY <2>1, IdleIsUnseen, PassedIsUnseen
  <2> QED BY <2>1, <2>2, UnseenStutters
<1>13. ASSUME NEW t \in Task, Exchange(t) PROVE [Service!Next]_(Service!vars)
  <2> DEFINE r == NoAnswer("servfail")
  <2>1. r.kind # "blocked"
    BY DEF NoAnswer
  <2> HIDE DEF r
  <2>2. /\ UNCHANGED <<blocked, heap, call, sent>>
        /\ \A u \in Task \ {t} : resp'[u] = resp[u] /\ pc'[u] = pc[u]
        /\ pc[t] = "exchange"
        /\ \/ resp'[t] = r /\ pc'[t] = "return"
           \/ resp'[t] = resp[t] /\ pc'[t] \in {"store", "exchange"}
    BY <1>13 DEF Exchange, Replied, GetsNoReply, Return, Goto, r, TypeOK
  <2>3. t \in Conn => resp'[t] = Nil \/ resp'[t].kind # "blocked"
    BY <2>1, <2>2 DEF ReplyGrounded
  <2>4. \A d \in Conn : Unseen(d)
    BY <2>2, <2>3, IdleIsUnseen, PassedIsUnseen
  <2> QED BY <2>2, <2>4, UnseenStutters
<1>14. ASSUME NEW t \in Task, Store(t) PROVE [Service!Next]_(Service!vars)
  <2>0. PICK n \in Name : n = call[t].name
    BY <1>14, StoreEffect DEF Call
  <2>1. /\ pc[t] = "store" /\ Starts(t, "return", "plan", call[t], Nil)
    BY <1>14, StoreStarts
  <2>2. /\ <<t, n>> \in Obj /\ UNCHANGED <<blocked, sent>>
        /\ heap'[<<t, n>>] \in Cached /\ resp'[t].kind = "answer"
        /\ \A p \in Obj : p # <<t, n>> => heap'[p] = heap[p]
        /\ \A u \in Task \ {t} : resp'[u] = resp[u]
    BY <1>14, <2>0, StoreEffect
  <2>3. /\ pc'[t] = "return" /\ call'[t] = call[t]
        /\ \A d \in Conn \ {t} : pc'[d] = pc[d] /\ call'[d] = call[d]
    BY <2>1 DEF Starts
  <2>4. \A d \in Conn : Unseen(d)
    BY <2>1, <2>2, <2>3, IdleIsUnseen, PassedIsUnseen
  <2>5. \A m \in Name : Known(m)' <=> Known(m) \/ m = n
    BY <2>2 DEF Known, Obj
  <2>6. {m \in Name : \E u \in Task : heap'[<<u, m>>] # Nil}
          = {m \in Name : \E u \in Task : heap[<<u, m>>] # Nil} \cup {n}
    BY <2>2, <2>5 DEF Known
  <2>7. \A d \in Conn : Reply(d)' = Reply(d)
    BY <2>4 DEF Unseen, Reply
  <2>8. Service!Learn(n)
    BY <2>2, <2>4, <2>6, <2>7 DEF Service!Learn, Unseen
  <2> QED BY <2>8 DEF Service!Next
<1>15. ASSUME Tick PROVE [Service!Next]_(Service!vars)
  <2>1. UNCHANGED <<blocked, heap, pc, call, resp, sent>>
    BY <1>15 DEF Tick
  <2> QED BY <2>1, IdleIsUnseen, UnseenStutters
<1>16. ASSUME PolicyChange PROVE [Service!Next]_(Service!vars)
  <2>1. blocked' \in Policies /\ UNCHANGED <<heap, pc, call, resp, sent>>
    BY <1>16 DEF PolicyChange
  <2>2. \A d \in Conn : FilterVerdict(d)' = FilterVerdict(d) /\ Reply(d)' = Reply(d)
    BY <2>1 DEF FilterVerdict, Reply
  <2>3. Service!ChangePolicy
    BY <2>1, <2>2 DEF Service!ChangePolicy
  <2> QED BY <2>3 DEF Service!Next
<1>17. ASSUME LoadQueryPatterns PROVE [Service!Next]_(Service!vars)
  <2>1. UNCHANGED <<blocked, heap, pc, call, resp, sent>>
    BY <1>17 DEF LoadQueryPatterns
  <2> QED BY <2>1, IdleIsUnseen, UnseenStutters
<1>18. ASSUME NEW n \in Name, Evict(n) PROVE [Service!Next]_(Service!vars)
  <2>1. UNCHANGED <<blocked, heap, pc, call, resp, sent>>
    BY <1>18 DEF Evict
  <2> QED BY <2>1, IdleIsUnseen, UnseenStutters
<1>19. ASSUME UNCHANGED vars PROVE [Service!Next]_(Service!vars)
  BY <1>19, IdleIsUnseen, UnseenStutters
<1> QED
  BY <1>1, <1>2, <1>3, <1>4, <1>5, <1>6, <1>7, <1>8, <1>9, <1>10,
     <1>11, <1>12, <1>13, <1>14, <1>15, <1>16, <1>17, <1>18, <1>19
     DEF Next, Process, Background, Environment

\* Clients of Beacon see the query service, however their handlers share and age
\* cached messages with each other, with refreshes and with prefetches: each query
\* is judged once, under the policy of one instant, and answered once, by a refusal
\* or with something an upstream said about that very question.
THEOREM ResolverImplementsQueryService == Spec => ImplementsQueryService
<1>1. Init => RefinementInv /\ Service!Init
  <2> SUFFICES ASSUME Init PROVE RefinementInv /\ Service!Init
    OBVIOUS
  <2>1. IInv
    BY TypeInit
  <2>2. Unstarted /\ OwnObject /\ ReplyReady /\ ReplyGrounded
    BY TaskFacts DEF Init, Unstarted, OwnObject, Touching, InTouch, InRecord, ReplyReady, ReplyGrounded
  <2>3. \A c \in Conn : FilterVerdict(c) = Nil /\ Reply(c) = Nil /\ call[c] = Nil
    BY TaskFacts DEF Init, FilterVerdict, Reply
  <2>4. blocked \in Policies /\ \A n \in Name : ~Known(n)
    BY DEF Init, Known, Obj
  <2>5. Service!Init
    BY <2>3, <2>4 DEF Service!Init, Known
  <2> QED BY <2>1, <2>2, <2>5 DEF RefinementInv
<1>2. Spec => []OwnId
  <2>1. Init => OwnId
    BY TaskFacts DEF Init, OwnId
  <2> QED BY <2>1, OwnIdStep, Invariance, PTL DEF Spec
<1>3. Spec => []RefinementInv
  <2>1. RefinementInv /\ Unborn /\ OwnId /\ [Next]_vars => RefinementInv'
    BY TypeStep, UnstartedStep, OwnObjectStep, ReplyReadyStep, ReplyGroundedStep
       DEF RefinementInv
  <2> QED BY <1>1, <1>2, <2>1, UnbornInvariance, PTL DEF Spec
<1> QED BY <1>1, <1>3, RefinementStep, PTL DEF Spec, ImplementsQueryService, Service!Spec

-----------------------------------------------------------------------------
(* Prefetching does not cascade. *)

Started == {c \in Conn : pc[c] # "idle"}
Served == {c \in Conn : pc[c] \in {"copy", "return", "done"}}
Prefetchers == {b \in Bg : pc[b] # "idle" /\ cause[b] = Nil}

\* Only finitely many queries have arrived.
StartedFinite == IsFiniteSet(Started)

\* What a refresh or a prefetch processes starts no prefetch in turn.
FollowUpsAreQuiet ==
  \A b \in Bg : pc[b] \in Before \cup {"return"} => ~call[b].prefetch

\* Follow ups are processed with prefetch = false.
LEMMA FollowUpsAreQuietStep == IInv /\ FollowUpsAreQuiet /\ [Next]_vars => FollowUpsAreQuiet'
<1> SUFFICES ASSUME IInv, FollowUpsAreQuiet, [Next]_vars PROVE FollowUpsAreQuiet'
  OBVIOUS
<1> USE TaskFacts, NilAssumption DEF IInv, env, store, bgv, vars
<1>1. ASSUME NEW c \in Conn, HandleRequest(c) PROVE FollowUpsAreQuiet'
  BY <1>1 DEF HandleRequest, Goto, FollowUpsAreQuiet, Before, Touching, InTouch, InRecord, TypeOK
<1>2. ASSUME NEW c \in Conn, WriteMsg(c) PROVE FollowUpsAreQuiet'
  BY <1>2 DEF WriteMsg, Goto, FollowUpsAreQuiet, Before, Touching, InTouch, InRecord, TypeOK
<1>3. ASSUME NEW b \in Bg, RefreshDone(b) PROVE FollowUpsAreQuiet'
  BY <1>3 DEF RefreshDone, Goto, FollowUpsAreQuiet, Before, Touching, InTouch, InRecord, TypeOK
<1>4. ASSUME NEW b \in Bg, PlanPrefetch(b) PROVE FollowUpsAreQuiet'
  BY <1>4 DEF PlanPrefetch, Goto, FollowUpsAreQuiet, Before, Touching, InTouch, InRecord, TypeOK
<1>5. ASSUME NEW b \in Bg, PrefetchNext(b) PROVE FollowUpsAreQuiet'
  <2>1. pc[b] \in {"next", "return"} /\ call[b] \in Call
    BY <1>5 DEF PrefetchNext, CallOK
  <2>2. \A a \in Bg \ {b} : pc'[a] = pc[a] /\ call'[a] = call[a]
    BY <1>5 DEF PrefetchNext, Claim, Goto, TypeOK
  <2>3. \/ pc'[b] = "next"
        \/ pc'[b] = "check" /\ \E n \in Name : call'[b] = PrefetchCall(b, n)
    BY <1>5 DEF PrefetchNext, Goto, TypeOK
  <2>4. \A n \in Name : ~PrefetchCall(b, n).prefetch
    BY <2>1 DEF PrefetchCall, Call
  <2> QED BY <2>2, <2>3, <2>4 DEF FollowUpsAreQuiet, Before, Touching, InTouch, InRecord
<1>6. ASSUME NEW b \in Bg, PrefetchEnd(b) PROVE FollowUpsAreQuiet'
  BY <1>6 DEF PrefetchEnd, Goto, FollowUpsAreQuiet, Before, Touching, InTouch, InRecord, TypeOK
<1>7. ASSUME NEW t \in Task, Check(t) PROVE FollowUpsAreQuiet'
  BY <1>7 DEF Check, Goto, Return, blockFQDN, NoAnswer, FollowUpsAreQuiet,
         Before, Touching, InTouch, InRecord, TypeOK
<1>8. ASSUME NEW t \in Task, Lookup(t) PROVE FollowUpsAreQuiet'
  BY <1>8 DEF Lookup, Goto, FollowUpsAreQuiet, Before, Touching, InTouch, InRecord, TypeOK
<1>9. ASSUME NEW t \in Task, Touch(t) PROVE FollowUpsAreQuiet'
  <2>1. TouchEffect(t)
    BY <1>9, TouchFacts
  <2>2. call' = call /\ \A b \in Bg : pc'[b] \in Before \cup {"return"} => pc[b] \in Before \cup {"return"}
    BY <2>1 DEF TouchEffect, NothingElse, Before, Touching, InTouch, InRecord
  <2> QED BY <2>2 DEF FollowUpsAreQuiet
<1>10. ASSUME NEW t \in Task, TouchEnd(t) PROVE FollowUpsAreQuiet'
  <2>1. /\ pc[t] = "report" /\ loc[t].obj \in Obj
        /\ Starts(t, "related", "check", RefreshCall(t), loc[t].obj)
    BY <1>10, TouchEndEffect
  <2> DEFINE args == RefreshCall(t)
             o == loc[t].obj
  <2>2. call[t] \in Call
    BY <2>1 DEF CallOK
  <2>3. args \in Call /\ args.prefetch = FALSE /\ [args EXCEPT !.id = args.id] = args
    BY <2>2 DEF Call, RefreshCall
  <2>4. o # Nil
    BY <2>1
  <2> HIDE DEF args, o
  <2>5. Starts(t, "related", "check", args, o)
    BY <2>1 DEF args, o
  <2>6. \A u \in Bg \ {t} : \/ pc'[u] = pc[u] /\ call'[u] = call[u]
                            \/ ~call'[u].prefetch
    BY <2>3, <2>4, <2>5 DEF Starts
  <2>7. call'[t] = call[t]
    BY <2>5 DEF Starts
  <2> QED BY <2>1, <2>6, <2>7 DEF FollowUpsAreQuiet, Before, Touching, InTouch, InRecord
<1>11. ASSUME NEW t \in Task, PrefetchOnHit(t) PROVE FollowUpsAreQuiet'
  <2>1. pc[t] = "related" /\ Starts(t, "copy", "plan", call[t], Nil)
    BY <1>11, PrefetchOnHitEffect
  <2>2. \A u \in Bg \ {t} : \/ pc'[u] = pc[u] /\ call'[u] = call[u]
                            \/ pc'[u] = "plan"
    BY <2>1 DEF Starts
  <2>3. call'[t] = call[t]
    BY <2>1 DEF Starts
  <2> QED BY <2>1, <2>2, <2>3 DEF FollowUpsAreQuiet, Before, Touching, InTouch, InRecord
<1>12. ASSUME NEW t \in Task, Copy(t) PROVE FollowUpsAreQuiet'
  BY <1>12 DEF Copy, Goto, Return, FollowUpsAreQuiet, Before, Touching, InTouch, InRecord, TypeOK
<1>13. ASSUME NEW t \in Task, Exchange(t) PROVE FollowUpsAreQuiet'
  BY <1>13 DEF Exchange, Replied, GetsNoReply, Goto, Return, NoAnswer,
         FollowUpsAreQuiet, Before, Touching, InTouch, InRecord, TypeOK
<1>14. ASSUME NEW t \in Task, Store(t) PROVE FollowUpsAreQuiet'
  <2>1. pc[t] = "store" /\ Starts(t, "return", "plan", call[t], Nil)
    BY <1>14, StoreStarts
  <2>2. \A u \in Bg \ {t} : \/ pc'[u] = pc[u] /\ call'[u] = call[u]
                            \/ pc'[u] = "plan"
    BY <2>1 DEF Starts
  <2>3. call'[t] = call[t]
    BY <2>1 DEF Starts
  <2> QED BY <2>1, <2>2, <2>3 DEF FollowUpsAreQuiet, Before, Touching, InTouch, InRecord
<1>15. ASSUME Tick PROVE FollowUpsAreQuiet'
  BY <1>15 DEF Tick, FollowUpsAreQuiet, Before, Touching, InTouch, InRecord, TypeOK
<1>16. ASSUME PolicyChange PROVE FollowUpsAreQuiet'
  BY <1>16 DEF PolicyChange, FollowUpsAreQuiet, Before, Touching, InTouch, InRecord, TypeOK
<1>17. ASSUME LoadQueryPatterns PROVE FollowUpsAreQuiet'
  BY <1>17 DEF LoadQueryPatterns, FollowUpsAreQuiet, Before, Touching, InTouch, InRecord, TypeOK
<1>18. ASSUME NEW n \in Name, Evict(n) PROVE FollowUpsAreQuiet'
  BY <1>18 DEF Evict, FollowUpsAreQuiet, Before, Touching, InTouch, InRecord, TypeOK
<1>19. ASSUME UNCHANGED vars PROVE FollowUpsAreQuiet'
  BY <1>19 DEF FollowUpsAreQuiet, Before, Touching, InTouch, InRecord, TypeOK
<1> QED
  BY <1>1, <1>2, <1>3, <1>4, <1>5, <1>6, <1>7, <1>8, <1>9, <1>10,
     <1>11, <1>12, <1>13, <1>14, <1>15, <1>16, <1>17, <1>18, <1>19
     DEF Next, Process, Background, Environment

\* Queries arrive one at a time.
LEMMA StaysFinite ==
  ASSUME StartedFinite, NEW c, \A d \in Conn \ {c} : pc'[d] # "idle" => pc[d] # "idle"
  PROVE  StartedFinite'
<1>1. Started' \subseteq Started \cup {c}
  BY DEF Started
<1>2. IsFiniteSet(Started \cup {c})
  BY FS_AddElement DEF StartedFinite
<1> QED BY <1>1, <1>2, FS_Subset DEF StartedFinite

\* At any time only finitely many queries have arrived.
LEMMA StartedFiniteStep == IInv /\ StartedFinite /\ [Next]_vars => StartedFinite'
<1> SUFFICES ASSUME IInv, StartedFinite, [Next]_vars PROVE StartedFinite'
  OBVIOUS
<1> USE TaskFacts, NilAssumption DEF IInv, env, store, bgv, vars
<1>1. ASSUME NEW c \in Conn, HandleRequest(c) PROVE StartedFinite'
  <2>1. \A d \in Conn \ {c} : pc'[d] = pc[d]
    BY <1>1 DEF HandleRequest, Goto, TypeOK
  <2> QED BY <2>1, StaysFinite
<1>2. ASSUME NEW c \in Conn, WriteMsg(c) PROVE StartedFinite'
  <2>1. \A d \in Conn : pc'[d] # "idle" => pc[d] # "idle"
    BY <1>2 DEF WriteMsg, Goto, TypeOK
  <2> QED BY <2>1, StaysFinite
<1>3. ASSUME NEW b \in Bg, RefreshDone(b) PROVE StartedFinite'
  <2>1. \A d \in Conn : pc'[d] # "idle" => pc[d] # "idle"
    BY <1>3 DEF RefreshDone, Goto, TypeOK
  <2> QED BY <2>1, StaysFinite
<1>4. ASSUME NEW b \in Bg, PlanPrefetch(b) PROVE StartedFinite'
  <2>1. \A d \in Conn : pc'[d] # "idle" => pc[d] # "idle"
    BY <1>4 DEF PlanPrefetch, Goto, TypeOK
  <2> QED BY <2>1, StaysFinite
<1>5. ASSUME NEW b \in Bg, PrefetchNext(b) PROVE StartedFinite'
  <2>1. \A d \in Conn : pc'[d] # "idle" => pc[d] # "idle"
    BY <1>5 DEF PrefetchNext, Goto, TypeOK
  <2> QED BY <2>1, StaysFinite
<1>6. ASSUME NEW b \in Bg, PrefetchEnd(b) PROVE StartedFinite'
  <2>1. \A d \in Conn : pc'[d] # "idle" => pc[d] # "idle"
    BY <1>6 DEF PrefetchEnd, Goto, TypeOK
  <2> QED BY <2>1, StaysFinite
<1>7. ASSUME NEW t \in Task, Check(t) PROVE StartedFinite'
  <2>1. \A d \in Conn : pc'[d] # "idle" => pc[d] # "idle"
    BY <1>7 DEF Check, Goto, Return, TypeOK
  <2> QED BY <2>1, StaysFinite
<1>8. ASSUME NEW t \in Task, Lookup(t) PROVE StartedFinite'
  <2>1. \A d \in Conn : pc'[d] # "idle" => pc[d] # "idle"
    BY <1>8 DEF Lookup, Goto, TypeOK
  <2> QED BY <2>1, StaysFinite
<1>9. ASSUME NEW t \in Task, Touch(t) PROVE StartedFinite'
  <2>1. TouchEffect(t)
    BY <1>9, TouchFacts
  <2>2. \A d \in Conn : pc'[d] # "idle" => pc[d] # "idle"
    BY <2>1 DEF TouchEffect, InTouch, InRecord
  <2> QED BY <2>2, StaysFinite
<1>10. ASSUME NEW t \in Task, TouchEnd(t) PROVE StartedFinite'
  <2>1. pc[t] = "report"
    BY <1>10, TouchEndEffect
  <2>2. \A d \in Conn : pc'[d] # "idle" => pc[d] # "idle"
    BY <1>10, <2>1, TouchEndEffect DEF Starts
  <2> QED BY <2>2, StaysFinite
<1>11. ASSUME NEW t \in Task, PrefetchOnHit(t) PROVE StartedFinite'
  <2>1. pc[t] = "related"
    BY <1>11, PrefetchOnHitEffect
  <2>2. \A d \in Conn : pc'[d] # "idle" => pc[d] # "idle"
    BY <1>11, <2>1, PrefetchOnHitEffect DEF Starts
  <2> QED BY <2>2, StaysFinite
<1>12. ASSUME NEW t \in Task, Copy(t) PROVE StartedFinite'
  <2>1. \A d \in Conn : pc'[d] # "idle" => pc[d] # "idle"
    BY <1>12 DEF Copy, Goto, Return, TypeOK
  <2> QED BY <2>1, StaysFinite
<1>13. ASSUME NEW t \in Task, Exchange(t) PROVE StartedFinite'
  <2>1. \A d \in Conn : pc'[d] # "idle" => pc[d] # "idle"
    BY <1>13 DEF Exchange, Replied, GetsNoReply, Goto, Return, TypeOK
  <2> QED BY <2>1, StaysFinite
<1>14. ASSUME NEW t \in Task, Store(t) PROVE StartedFinite'
  <2>1. pc[t] = "store"
    BY <1>14, StoreStarts
  <2>2. \A d \in Conn : pc'[d] # "idle" => pc[d] # "idle"
    BY <1>14, <2>1, StoreStarts DEF Starts
  <2> QED BY <2>2, StaysFinite
<1>15. ASSUME Tick PROVE StartedFinite'
  <2>1. \A d \in Conn : pc'[d] # "idle" => pc[d] # "idle"
    BY <1>15 DEF Tick, TypeOK
  <2> QED BY <2>1, StaysFinite
<1>16. ASSUME PolicyChange PROVE StartedFinite'
  <2>1. \A d \in Conn : pc'[d] # "idle" => pc[d] # "idle"
    BY <1>16 DEF PolicyChange, TypeOK
  <2> QED BY <2>1, StaysFinite
<1>17. ASSUME LoadQueryPatterns PROVE StartedFinite'
  <2>1. \A d \in Conn : pc'[d] # "idle" => pc[d] # "idle"
    BY <1>17 DEF LoadQueryPatterns, TypeOK
  <2> QED BY <2>1, StaysFinite
<1>18. ASSUME NEW n \in Name, Evict(n) PROVE StartedFinite'
  <2>1. \A d \in Conn : pc'[d] # "idle" => pc[d] # "idle"
    BY <1>18 DEF Evict, TypeOK
  <2> QED BY <2>1, StaysFinite
<1>19. ASSUME UNCHANGED vars PROVE StartedFinite'
  BY <1>19, StaysFinite
<1> QED
  BY <1>1, <1>2, <1>3, <1>4, <1>5, <1>6, <1>7, <1>8, <1>9, <1>10,
     <1>11, <1>12, <1>13, <1>14, <1>15, <1>16, <1>17, <1>18, <1>19
     DEF Next, Process, Background, Environment

\* Served queries are among those that have arrived, and goroutines are finite.
CountsOK ==
  /\ IsFiniteSet(Served) /\ Cardinality(Served) \in Nat
  /\ IsFiniteSet(Prefetchers) /\ Cardinality(Prefetchers) \in Nat

\* With finitely many goroutines started, all three sets have a size.
LEMMA CountsAreFinite == StartedFinite => CountsOK
<1>1. Served \subseteq Started /\ Prefetchers \subseteq 1..MaxGoroutines
  BY DEF Served, Started, Prefetchers, Bg
<1>2. IsFiniteSet(1..MaxGoroutines)
  BY FS_Interval, ResolverAssumption
<1> QED BY <1>1, <1>2, FS_Subset, FS_CardinalityType DEF StartedFinite, CountsOK

\* A step that starts no prefetcher keeps the balance.
LEMMA NoNewPrefetcher ==
  ASSUME StartedFinite, StartedFinite', NoPrefetchCascade,
         Prefetchers' \subseteq Prefetchers, Served \subseteq Served'
  PROVE  NoPrefetchCascade'
<1>0. CountsOK /\ CountsOK'
  BY CountsAreFinite, PTL
<1>1. /\ IsFiniteSet(Served') /\ Cardinality(Served') \in Nat
      /\ Cardinality(Prefetchers') \in Nat
  BY <1>0 DEF CountsOK
<1>2. Cardinality(Prefetchers') <= Cardinality(Prefetchers)
  BY <1>0, FS_Subset DEF CountsOK
<1>3. Cardinality(Served) <= Cardinality(Served')
  BY <1>1, FS_Subset
<1>4. Cardinality(Prefetchers) <= Cardinality(Served)
  BY DEF NoPrefetchCascade, Prefetchers, Served
<1>5. Cardinality(Prefetchers') <= Cardinality(Served')
  BY <1>0, <1>1, <1>2, <1>3, <1>4 DEF CountsOK
<1> QED BY <1>5 DEF NoPrefetchCascade, Prefetchers, Served

\* A client's query that is now served may bring one prefetcher along.
LEMMA OnePrefetcherEach ==
  ASSUME StartedFinite, NoPrefetchCascade,
         NEW b \in Bg, NEW c \in Conn, c \notin Served,
         Prefetchers' \subseteq Prefetchers \cup {b},
         Served' = Served \cup {c}
  PROVE  NoPrefetchCascade'
<1>0. CountsOK
  BY CountsAreFinite
<1>1. Cardinality(Served') = Cardinality(Served) + 1
  BY <1>0, FS_AddElement DEF CountsOK
<1> DEFINE P == Prefetchers
<1>2. /\ IsFiniteSet(P \cup {b}) /\ Cardinality(P \cup {b}) \in Nat
      /\ Cardinality(P \cup {b}) <= Cardinality(P) + 1
  <2>1. IsFiniteSet(P) /\ Cardinality(P) \in Nat
    BY <1>0 DEF CountsOK
  <2> HIDE DEF P
  <2>2. /\ IsFiniteSet(P \cup {b})
        /\ Cardinality(P \cup {b}) = IF b \in P THEN Cardinality(P) ELSE Cardinality(P) + 1
    BY <2>1, FS_AddElement, Zenon
  <2> QED BY <2>1, <2>2
<1>3. /\ Cardinality(Prefetchers') <= Cardinality(Prefetchers \cup {b})
      /\ Cardinality(Prefetchers') \in Nat
  BY <1>2, FS_Subset, FS_CardinalityType
<1>4. Cardinality(Prefetchers) <= Cardinality(Served)
  BY DEF NoPrefetchCascade, Prefetchers, Served
<1>5. Cardinality(Prefetchers') <= Cardinality(Served')
  BY <1>0, <1>1, <1>2, <1>3, <1>4 DEF CountsOK
<1> QED BY <1>5 DEF NoPrefetchCascade, Prefetchers, Served

\* Every prefetcher is started by a client's query that goes on to its reply.
LEMMA NoCascadeStep == IInv /\ FollowUpsAreQuiet /\ StartedFinite /\ StartedFinite' /\ NoPrefetchCascade /\ [Next]_vars => NoPrefetchCascade'
<1> SUFFICES ASSUME IInv, FollowUpsAreQuiet, StartedFinite, StartedFinite', NoPrefetchCascade, [Next]_vars PROVE NoPrefetchCascade'
  OBVIOUS
<1> USE TaskFacts, NilAssumption DEF IInv, env, store, bgv, vars
<1>1. ASSUME NEW c \in Conn, HandleRequest(c) PROVE NoPrefetchCascade'
  <2>1. Prefetchers' \subseteq Prefetchers /\ Served \subseteq Served'
    BY <1>1 DEF HandleRequest, Goto, Prefetchers, Served, TypeOK
  <2> QED BY <2>1, NoNewPrefetcher
<1>2. ASSUME NEW c \in Conn, WriteMsg(c) PROVE NoPrefetchCascade'
  <2>1. Prefetchers' \subseteq Prefetchers /\ Served \subseteq Served'
    BY <1>2 DEF WriteMsg, Goto, Prefetchers, Served, TypeOK
  <2> QED BY <2>1, NoNewPrefetcher
<1>3. ASSUME NEW b \in Bg, RefreshDone(b) PROVE NoPrefetchCascade'
  <2>1. Prefetchers' \subseteq Prefetchers /\ Served \subseteq Served'
    BY <1>3 DEF RefreshDone, Goto, Prefetchers, Served, TypeOK
  <2> QED BY <2>1, NoNewPrefetcher
<1>4. ASSUME NEW b \in Bg, PlanPrefetch(b) PROVE NoPrefetchCascade'
  <2>1. Prefetchers' \subseteq Prefetchers /\ Served \subseteq Served'
    BY <1>4 DEF PlanPrefetch, Goto, Prefetchers, Served, TypeOK
  <2> QED BY <2>1, NoNewPrefetcher
<1>5. ASSUME NEW b \in Bg, PrefetchNext(b) PROVE NoPrefetchCascade'
  <2>1. Prefetchers' \subseteq Prefetchers /\ Served \subseteq Served'
    BY <1>5 DEF PrefetchNext, Goto, Prefetchers, Served, TypeOK
  <2> QED BY <2>1, NoNewPrefetcher
<1>6. ASSUME NEW b \in Bg, PrefetchEnd(b) PROVE NoPrefetchCascade'
  <2>1. Prefetchers' \subseteq Prefetchers /\ Served \subseteq Served'
    BY <1>6 DEF PrefetchEnd, Goto, Prefetchers, Served, TypeOK
  <2> QED BY <2>1, NoNewPrefetcher
<1>7. ASSUME NEW t \in Task, Check(t) PROVE NoPrefetchCascade'
  <2>1. Prefetchers' \subseteq Prefetchers /\ Served \subseteq Served'
    BY <1>7 DEF Check, Goto, Return, Prefetchers, Served, TypeOK
  <2> QED BY <2>1, NoNewPrefetcher
<1>8. ASSUME NEW t \in Task, Lookup(t) PROVE NoPrefetchCascade'
  <2>1. Prefetchers' \subseteq Prefetchers /\ Served \subseteq Served'
    BY <1>8 DEF Lookup, Goto, Prefetchers, Served, TypeOK
  <2> QED BY <2>1, NoNewPrefetcher
<1>9. ASSUME NEW t \in Task, Touch(t) PROVE NoPrefetchCascade'
  <2>1. TouchEffect(t)
    BY <1>9, TouchFacts
  <2>2. cause' = cause
    BY <2>1 DEF TouchEffect, NothingElse
  <2>3. /\ pc[t] \in InTouch /\ pc'[t] \in InTouch
        /\ \A u \in Task \ {t} : pc'[u] = pc[u]
    BY <2>1 DEF TouchEffect
  <2>4. {"idle", "copy", "return", "done"} \cap InTouch = {}
    BY DEF InTouch, InRecord
  <2>5. \A b \in Bg : pc[b] = "idle" => pc'[b] = "idle"
    BY <2>3, <2>4
  <2>6. \A c \in Conn : pc[c] \in {"copy", "return", "done"} => pc'[c] = pc[c]
    BY <2>3, <2>4
  <2>7. Prefetchers' \subseteq Prefetchers /\ Served \subseteq Served'
    BY <2>2, <2>5, <2>6 DEF Prefetchers, Served
  <2> QED BY <2>7, NoNewPrefetcher
<1>10. ASSUME NEW t \in Task, TouchEnd(t) PROVE NoPrefetchCascade'
  <2>1. /\ pc[t] = "report" /\ loc[t].obj \in Obj
        /\ Starts(t, "related", "check", RefreshCall(t), loc[t].obj)
    BY <1>10, TouchEndEffect
  <2>2. loc[t].obj # Nil
    BY <2>1
  <2>3. Prefetchers' \subseteq Prefetchers /\ Served \subseteq Served'
    BY <2>1, <2>2 DEF Starts, Prefetchers, Served
  <2> QED BY <2>3, NoNewPrefetcher
<1>11. ASSUME NEW t \in Task, PrefetchOnHit(t) PROVE NoPrefetchCascade'
  <2>1. pc[t] = "related" /\ UNCHANGED cause
    BY <1>11 DEF PrefetchOnHit
  <2>2. CASE pc' = [pc EXCEPT ![t] = "copy"]
    <3>1. Prefetchers' \subseteq Prefetchers /\ Served \subseteq Served'
      BY <2>1, <2>2 DEF Prefetchers, Served, TypeOK
    <3> QED BY <3>1, NoNewPrefetcher
  <2>3. CASE call[t].prefetch /\ \E b \in Fresh : pc' = [pc EXCEPT ![t] = "copy", ![b] = "plan"]
    <3>1. t \in Conn
      BY <2>1, <2>3 DEF FollowUpsAreQuiet, Before, Touching, InTouch, InRecord, Task
    <3>2. PICK b \in Bg : pc' = [pc EXCEPT ![t] = "copy", ![b] = "plan"]
      BY <2>3 DEF Fresh
    <3>3. Prefetchers' \subseteq Prefetchers \cup {b}
      BY <2>1, <3>2 DEF Prefetchers, TypeOK
    <3>4. t \notin Served /\ Served' = Served \cup {t}
      BY <2>1, <3>1, <3>2 DEF Served, TypeOK
    <3> QED BY <3>1, <3>3, <3>4, OnePrefetcherEach
  <2> QED BY <1>11, <2>2, <2>3 DEF PrefetchOnHit, Go, Goto
<1>12. ASSUME NEW t \in Task, Copy(t) PROVE NoPrefetchCascade'
  <2>1. Prefetchers' \subseteq Prefetchers /\ Served \subseteq Served'
    BY <1>12 DEF Copy, Goto, Return, Prefetchers, Served, TypeOK
  <2> QED BY <2>1, NoNewPrefetcher
<1>13. ASSUME NEW t \in Task, Exchange(t) PROVE NoPrefetchCascade'
  <2>1. Prefetchers' \subseteq Prefetchers /\ Served \subseteq Served'
    BY <1>13 DEF Exchange, Replied, GetsNoReply, Goto, Return, Prefetchers, Served, TypeOK
  <2> QED BY <2>1, NoNewPrefetcher
<1>14. ASSUME NEW t \in Task, Store(t) PROVE NoPrefetchCascade'
  <2>1. pc[t] = "store" /\ UNCHANGED cause
    BY <1>14 DEF Store
  <2>2. CASE pc' = [pc EXCEPT ![t] = "return"]
    <3>1. Prefetchers' \subseteq Prefetchers /\ Served \subseteq Served'
      BY <2>1, <2>2 DEF Prefetchers, Served, TypeOK
    <3> QED BY <3>1, NoNewPrefetcher
  <2>3. CASE call[t].prefetch /\ \E b \in Fresh : pc' = [pc EXCEPT ![t] = "return", ![b] = "plan"]
    <3>1. t \in Conn
      BY <2>1, <2>3 DEF FollowUpsAreQuiet, Before, Touching, InTouch, InRecord, Task
    <3>2. PICK b \in Bg : pc' = [pc EXCEPT ![t] = "return", ![b] = "plan"]
      BY <2>3 DEF Fresh
    <3>3. Prefetchers' \subseteq Prefetchers \cup {b}
      BY <2>1, <3>2 DEF Prefetchers, TypeOK
    <3>4. t \notin Served /\ Served' = Served \cup {t}
      BY <2>1, <3>1, <3>2 DEF Served, TypeOK
    <3> QED BY <3>1, <3>3, <3>4, OnePrefetcherEach
  <2> QED BY <1>14, <2>2, <2>3 DEF Store, Go, Goto
<1>15. ASSUME Tick PROVE NoPrefetchCascade'
  <2>1. Prefetchers' \subseteq Prefetchers /\ Served \subseteq Served'
    BY <1>15 DEF Tick, Prefetchers, Served, TypeOK
  <2> QED BY <2>1, NoNewPrefetcher
<1>16. ASSUME PolicyChange PROVE NoPrefetchCascade'
  <2>1. Prefetchers' \subseteq Prefetchers /\ Served \subseteq Served'
    BY <1>16 DEF PolicyChange, Prefetchers, Served, TypeOK
  <2> QED BY <2>1, NoNewPrefetcher
<1>17. ASSUME LoadQueryPatterns PROVE NoPrefetchCascade'
  <2>1. Prefetchers' \subseteq Prefetchers /\ Served \subseteq Served'
    BY <1>17 DEF LoadQueryPatterns, Prefetchers, Served, TypeOK
  <2> QED BY <2>1, NoNewPrefetcher
<1>18. ASSUME NEW n \in Name, Evict(n) PROVE NoPrefetchCascade'
  <2>1. Prefetchers' \subseteq Prefetchers /\ Served \subseteq Served'
    BY <1>18 DEF Evict, Prefetchers, Served, TypeOK
  <2> QED BY <2>1, NoNewPrefetcher
<1>19. ASSUME UNCHANGED vars PROVE NoPrefetchCascade'
  <2>1. Prefetchers' \subseteq Prefetchers /\ Served \subseteq Served'
    BY <1>19 DEF Prefetchers, Served
  <2> QED BY <2>1, NoNewPrefetcher
<1> QED
  BY <1>1, <1>2, <1>3, <1>4, <1>5, <1>6, <1>7, <1>8, <1>9, <1>10,
     <1>11, <1>12, <1>13, <1>14, <1>15, <1>16, <1>17, <1>18, <1>19
     DEF Next, Process, Background, Environment

\* Prefetching does not cascade: at any time there are at most as many prefetchers,
\* past and present, as client queries that were served, whatever the patterns say
\* and however many names they relate.
THEOREM PrefetchDoesNotCascade == Spec => []NoPrefetchCascade
<1>1. Init => FollowUpsAreQuiet /\ StartedFinite /\ NoPrefetchCascade
  <2> SUFFICES ASSUME Init PROVE FollowUpsAreQuiet /\ StartedFinite /\ NoPrefetchCascade
    OBVIOUS
  <2>1. FollowUpsAreQuiet
    BY TaskFacts DEF Init, FollowUpsAreQuiet, Before, Touching, InTouch, InRecord
  <2>2. Started = {} /\ Served = {} /\ Prefetchers = {}
    BY TaskFacts DEF Init, Started, Served, Prefetchers
  <2>3. StartedFinite
    BY <2>2, FS_EmptySet DEF StartedFinite
  <2>4. NoPrefetchCascade
    BY <2>2, FS_EmptySet DEF NoPrefetchCascade, Served, Prefetchers
  <2> QED BY <2>1, <2>3, <2>4
<1>2. Spec => []FollowUpsAreQuiet
  BY <1>1, FollowUpsAreQuietStep, Invariance, PTL DEF Spec
<1>3. Spec => []StartedFinite
  BY <1>1, StartedFiniteStep, Invariance, PTL DEF Spec
<1> QED BY <1>1, <1>2, <1>3, NoCascadeStep, Invariance, PTL DEF Spec

-----------------------------------------------------------------------------
(* The statistics add up. *)

\* What a percentage is at most: a part of the whole is at most 100 of it, and a
\* smaller part is no larger a percentage.
LEMMA PercentageBounds ==
  ASSUME NEW part \in Nat, NEW more \in Nat, NEW whole \in Nat, part <= more, more <= whole
  PROVE  /\ Percentage(more, whole) <= 10000
         /\ Percentage(part, whole) <= Percentage(more, whole)
<1>1. CASE whole = 0
  BY <1>1 DEF Percentage
<1>2. CASE whole > 0
  <2> DEFINE d == 2 * whole
             x == 20000 * part + whole
             y == 20000 * more + whole
             p == x \div d
             q == y \div d
  <2>1. d \in Nat /\ d > 0 /\ x \in Nat /\ y \in Nat /\ x <= y /\ y < 10001 * d
    BY <1>2
  <2>2. Percentage(more, whole) = q /\ Percentage(part, whole) = p
    BY <1>2 DEF Percentage
  <2> HIDE DEF d, x, y
  <2>3. p \in Int /\ d * p <= x /\ x < d * (p + 1)
    BY <2>1, SMT
  <2>4. q \in Int /\ d * q <= y /\ y < d * (q + 1)
    BY <2>1, SMT
  <2> HIDE DEF p, q
  <2>5. q <= 10000
    <3>1. SUFFICES ASSUME q >= 10001 PROVE FALSE
      BY <2>4
    <3>2. d * q >= d * 10001
      BY <2>1, <2>4, <3>1, SMT
    <3> QED BY <2>1, <2>4, <3>2
  <2>6. p <= q
    <3>1. SUFFICES ASSUME p >= q + 1 PROVE FALSE
      BY <2>3, <2>4
    <3>2. d * p >= d * (q + 1)
      BY <2>1, <2>3, <2>4, <3>1, SMT
    <3> QED BY <2>1, <2>3, <2>4, <3>2
  <2> QED BY <2>2, <2>5, <2>6
<1> QED BY <1>1, <1>2

\* The columns of a row that say where its answer came from agree.
Agrees(r) ==
  /\ r.kind = "blocked" => ~r.cached /\ ~r.forwarded
  /\ r.kind # "blocked" => (r.cached <=> ~r.forwarded)
  /\ r.prefetched => r.cached

\* They do in every response and in what was written and logged.
ColumnsAgree ==
  /\ \A t \in Task : resp[t] # Nil => Agrees(resp[t])
  /\ \A c \in Conn : sent[c] # Nil => Agrees(sent[c])

\* Every return of process and resolve sets the columns consistently.
LEMMA ColumnsAgreeStep == IInv /\ ColumnsAgree /\ [Next]_vars => ColumnsAgree'
<1> SUFFICES ASSUME IInv, ColumnsAgree, [Next]_vars PROVE ColumnsAgree'
  OBVIOUS
<1> USE TaskFacts, NilAssumption DEF IInv, env, store, bgv, vars
<1>1. ASSUME UNCHANGED <<resp, sent>> PROVE ColumnsAgree'
  BY <1>1 DEF ColumnsAgree
<1>2. ASSUME NEW t \in Task, NEW r, Agrees(r) \/ r = Nil, sent' = sent,
             resp' = [resp EXCEPT ![t] = r]
      PROVE  ColumnsAgree'
  BY <1>2 DEF ColumnsAgree, TypeOK
<1>3. ASSUME NEW c \in Conn, WriteMsg(c) PROVE ColumnsAgree'
  <2>1. Agrees(resp[c]) /\ resp[c] \in Response
    BY <1>3 DEF WriteMsg, RespOK, ColumnsAgree
  <2>2. /\ sent'[c].kind = resp[c].kind /\ sent'[c].cached = resp[c].cached
        /\ sent'[c].forwarded = resp[c].forwarded /\ sent'[c].prefetched = resp[c].prefetched
        /\ \A d \in Conn \ {c} : sent'[d] = sent[d]
        /\ resp' = [resp EXCEPT ![c] = Nil]
    BY <1>3 DEF WriteMsg, TypeOK
  <2>3. Agrees(sent'[c])
    BY <2>1, <2>2 DEF Agrees
  <2> QED BY <2>2, <2>3 DEF ColumnsAgree, TypeOK
<1>4. ASSUME NEW t \in Task, Check(t) PROVE ColumnsAgree'
  <2>1. Agrees(NoAnswer("blocked"))
    BY DEF NoAnswer, Agrees
  <2> QED BY <1>1, <1>2, <1>4, <2>1 DEF Check, Return, blockFQDN
<1>5. ASSUME NEW t \in Task, Exchange(t) PROVE ColumnsAgree'
  <2>1. Agrees(NoAnswer("servfail"))
    BY DEF NoAnswer, Agrees
  <2> QED BY <1>1, <1>2, <1>5, <2>1 DEF Exchange, Replied, GetsNoReply, Return
<1>6. ASSUME NEW t \in Task, Copy(t) PROVE ColumnsAgree'
  <2> DEFINE m == [name |-> loc[t].obj[2], id |-> call[t].id, ttls |-> heap[loc[t].obj].ttls]
             r == [kind |-> "answer", cached |-> TRUE, forwarded |-> FALSE, ref |-> Nil,
                   prefetched |-> heap[loc[t].obj].prefetched, msg |-> m]
  <2>1. Agrees(r)
    BY DEF Agrees
  <2>2. resp' = [resp EXCEPT ![t] = r] /\ sent' = sent
    BY <1>6 DEF Copy, Return
  <2> QED BY <1>2, <2>1, <2>2
<1>7. ASSUME NEW t \in Task, Store(t) PROVE ColumnsAgree'
  <2> DEFINE r == [kind |-> "answer", cached |-> FALSE, prefetched |-> FALSE,
                   forwarded |-> TRUE, msg |-> Nil, ref |-> <<t, call[t].name>>]
  <2>1. Agrees(r)
    BY DEF Agrees
  <2>2. resp' = [resp EXCEPT ![t] = r] /\ sent' = sent
    BY <1>7 DEF Store
  <2> QED BY <1>2, <2>1, <2>2
<1>8. ASSUME NEW t \in Task, TouchEnd(t) PROVE ColumnsAgree'
  BY <1>1, <1>8, TouchEndEffect
<1>9. ASSUME NEW t \in Task, PrefetchOnHit(t) PROVE ColumnsAgree'
  BY <1>1, <1>9, PrefetchOnHitEffect
<1>10. ASSUME NEW t \in Task, Lookup(t) \/ Touch(t)
       PROVE  ColumnsAgree'
  BY <1>1, <1>10, TouchFacts DEF Lookup, TouchEffect, NothingElse
<1>11. ASSUME NEW b \in Bg, RefreshDone(b) PROVE ColumnsAgree'
  BY <1>2, <1>11 DEF RefreshDone
<1>12. ASSUME NEW b \in Bg, PlanPrefetch(b) PROVE ColumnsAgree'
  BY <1>1, <1>12 DEF PlanPrefetch
<1>13. ASSUME NEW b \in Bg, PrefetchNext(b) PROVE ColumnsAgree'
  <2>1. resp' = [resp EXCEPT ![b] = Nil] /\ sent' = sent
    BY <1>13 DEF PrefetchNext
  <2> QED BY <1>2, <2>1
<1>14. ASSUME NEW b \in Bg, PrefetchEnd(b) PROVE ColumnsAgree'
  <2>1. resp' = [resp EXCEPT ![b] = Nil] /\ sent' = sent
    BY <1>14 DEF PrefetchEnd
  <2> QED BY <1>2, <2>1
<1>15. ASSUME NEW c \in Conn, HandleRequest(c) PROVE ColumnsAgree'
  BY <1>1, <1>15 DEF HandleRequest
<1>16. ASSUME Environment PROVE ColumnsAgree'
  BY <1>1, <1>16 DEF Environment, Tick, PolicyChange, LoadQueryPatterns, Evict
<1>17. ASSUME UNCHANGED vars PROVE ColumnsAgree'
  BY <1>1, <1>17
<1> QED
  BY <1>3, <1>4, <1>5, <1>6, <1>7, <1>8, <1>9, <1>10, <1>11, <1>12, <1>13, <1>14,
     <1>15, <1>16, <1>17 DEF Next, Process, Background

-----------------------------------------------------------------------------
(* What the queries of stats.go count. *)

\* The sum of a histogram is the number of rows whose column is not NULL.
LEMMA HistogramOfColumn ==
  ASSUME NEW rows, IsFiniteSet(DOMAIN rows), NEW column
  PROVE  Total(Histogram(rows, column))
           = Cardinality({i \in DOMAIN rows : rows[i][column] # Nil})
<1> DEFINE I == DOMAIN rows
           col == [i \in I |-> rows[i][column]]
           counts == Histogram(rows, column)
           Texts == {col[i] : i \in I}
<1>1. IsFiniteSet(Texts)
  BY FiniteImage
<1>2. DOMAIN counts = Texts \ {Nil}
  BY DEF Histogram
<1>3. IsFiniteSet(DOMAIN counts)
  BY <1>1, <1>2, FS_Difference
<1>4. \A v \in DOMAIN counts : counts[v] = Cardinality(RowsWith(I, col, {v}))
  <2>1. \A v : RowsWith(I, col, {v}) = {i \in I : rows[i][column] = v}
    BY DEF RowsWith
  <2> QED BY <2>1 DEF Histogram
<1>5. RowsWith(I, col, Texts \ {Nil}) = {i \in I : rows[i][column] # Nil}
  BY DEF RowsWith
<1> HIDE DEF counts, Texts, col
<1>6. Total(counts) = Cardinality(RowsWith(I, col, DOMAIN counts))
  BY <1>3, <1>4, HistogramTotal DEF Total
<1> QED BY <1>2, <1>5, <1>6 DEF counts

\* A list of domains that has room for all of them counts them all.
LEMMA DomainsListed ==
  ASSUME NEW rows, IsFiniteSet(DOMAIN rows), \A i \in DOMAIN rows : rows[i].domain # Nil,
         Cardinality({rows[i].domain : i \in DOMAIN rows}) <= Limit,
         NEW b, NEW list \in DomainsOf(rows, b)
  PROVE  LET J == {i \in DOMAIN rows : rows[i].blocked = b}
         IN /\ Total(list) = Cardinality(J)
            /\ DOMAIN list = {rows[i].domain : i \in J}
<1> DEFINE I == DOMAIN rows
           J == {i \in I : rows[i].blocked = b}
           sub == Restrict(rows, J)
           col == [i \in I |-> rows[i].domain]
           counts == Histogram(sub, "domain")
           Domains == {col[i] : i \in I}
           Some == {col[i] : i \in J}
<1>1. /\ DOMAIN sub = J /\ \A i \in J : sub[i] = rows[i]
  BY DEF Restrict
<1>2. IsFiniteSet(Domains) /\ IsFiniteSet(J)
  <2>1. IsFiniteSet(Domains)
    BY FiniteImage
  <2>2. J \subseteq I
    OBVIOUS
  <2> HIDE DEF J, Domains
  <2> QED BY <2>1, <2>2, FS_Subset
<1>3. Cardinality(Domains) <= Limit
  <2>1. Domains = {rows[i].domain : i \in DOMAIN rows}
    OBVIOUS
  <2> QED BY <2>1
<1>4. /\ IsFiniteSet(Some) /\ Cardinality(Some) <= Limit /\ Cardinality(Some) \in Nat
  <2>1. Some \subseteq Domains
    OBVIOUS
  <2> HIDE DEF Some, Domains
  <2>2. IsFiniteSet(Some) /\ Cardinality(Some) <= Cardinality(Domains)
    BY <1>2, <2>1, FS_Subset
  <2>3. Cardinality(Some) \in Nat /\ Cardinality(Domains) \in Nat
    BY <1>2, <2>2, FS_CardinalityType
  <2> QED BY <1>3, <2>2, <2>3, StatisticsAssumption
<1>5. DOMAIN counts = Some
  <2> HIDE DEF sub
  <2>1. DOMAIN counts = {sub[i]["domain"] : i \in J} \ {Nil}
    BY <1>1 DEF Histogram
  <2>2. {sub[i]["domain"] : i \in J} = Some
    BY <1>1
  <2>3. Nil \notin Some
    OBVIOUS
  <2> QED BY <2>1, <2>2, <2>3
<1>6. \A v \in Some : counts[v] = Cardinality(RowsWith(J, col, {v}))
  <2> HIDE DEF sub
  <2>1. \A v : {i \in J : sub[i]["domain"] = v} = RowsWith(J, col, {v})
    BY <1>1 DEF RowsWith
  <2>2. \A v \in DOMAIN counts : counts[v] = Cardinality({i \in J : sub[i]["domain"] = v})
    BY <1>1 DEF Histogram
  <2> QED BY <1>5, <2>1, <2>2
<1>7. list \in MostFrequent(counts)
  BY DEF DomainsOf
<1> HIDE DEF counts, sub
<1>8. DOMAIN list = Some /\ \A v \in Some : list[v] = counts[v]
  <2> HIDE DEF Some
  <2>1. PICK S \in SUBSET DOMAIN counts :
          /\ Cardinality(S) = Min({Limit, Cardinality(DOMAIN counts)})
          /\ list = Restrict(counts, S)
    BY <1>7 DEF MostFrequent
  <2>2. Min({Limit, Cardinality(Some)}) = Cardinality(Some)
    BY <1>4, StatisticsAssumption DEF Min
  <2>3. S = Some
    BY <1>4, <1>5, <2>1, <2>2, FS_Subset
  <2> QED BY <1>5, <2>1, <2>3 DEF Restrict
<1>9. Total(list) = Cardinality(RowsWith(J, col, DOMAIN list))
  <2>1. \A v \in DOMAIN list : list[v] = Cardinality(RowsWith(J, col, {v}))
    BY <1>6, <1>8
  <2> HIDE DEF Some, col, J
  <2> QED BY <1>2, <1>4, <1>8, <2>1, HistogramTotal DEF Total
<1>10. RowsWith(J, col, Some) = J /\ Some = {rows[i].domain : i \in J}
  BY DEF RowsWith
<1> QED BY <1>8, <1>9, <1>10

\* A row as handleRequest logs it: it has a domain, and was refused for a reason,
\* came out of the cache, or names an upstream; only cached answers are prefetched.
LogRow(q) ==
  /\ q.domain # Nil /\ q.cached \in BOOLEAN /\ q.blocked \in BOOLEAN
  /\ q.blocked <=> q.block_reason # Nil
  /\ q.blocked => ~q.cached /\ q.upstream = Nil
  /\ ~q.blocked => (q.cached <=> q.upstream = Nil)
  /\ q.prefetched => q.cached

\* Three columns that exclude each other and cover all rows count all rows.
LEMMA ThreeParts ==
  ASSUME NEW A, NEW B, NEW C, IsFiniteSet(A), IsFiniteSet(B), IsFiniteSet(C),
         A \cap B = {}, A \cap C = {}, B \cap C = {}
  PROVE  /\ Cardinality(A) \in Nat /\ Cardinality(B) \in Nat /\ Cardinality(C) \in Nat
         /\ Cardinality(A \cup B \cup C) = Cardinality(A) + Cardinality(B) + Cardinality(C)
<1>1. IsFiniteSet(A \cup B)
  BY FS_Union
<1>2. Cardinality(A) \in Nat /\ Cardinality(B) \in Nat /\ Cardinality(C) \in Nat
  BY <1>1, FS_CardinalityType
<1>3. (A \cup B) \cap C = {}
  OBVIOUS
<1>4. Cardinality(A \cup B) = Cardinality(A) + Cardinality(B) - Cardinality({})
  BY <1>1, FS_Union
<1>5. Cardinality((A \cup B) \cup C) = Cardinality(A \cup B) + Cardinality(C) - Cardinality({})
  BY <1>1, <1>3, FS_Union
<1> QED BY <1>2, <1>3, <1>4, <1>5, FS_EmptySet

\* The counters of rows that are as handleRequest logs them fit together.
LEMMA CountersAddUp ==
  ASSUME NEW rows, IsFiniteSet(DOMAIN rows), \A i \in DOMAIN rows : LogRow(rows[i])
  PROVE  /\ Cardinality(DOMAIN rows)
              = CountIf(rows, "cached") + CountIf(rows, "blocked") + Total(Histogram(rows, "upstream"))
         /\ Total(Histogram(rows, "block_reason")) = CountIf(rows, "blocked")
         /\ CountIf(rows, "prefetched") <= CountIf(rows, "cached")
         /\ Cardinality(DOMAIN rows) - CountIf(rows, "blocked") \in Nat
         /\ CountIf(rows, "cached") <= Cardinality(DOMAIN rows) - CountIf(rows, "blocked")
         /\ CountIf(rows, "cached") \in Nat /\ CountIf(rows, "prefetched") \in Nat
<1> DEFINE I == DOMAIN rows
           Hits == {i \in I : rows[i]["cached"]}
           Refusals == {i \in I : rows[i]["blocked"]}
           Forwards == {i \in I : rows[i]["upstream"] # Nil}
           Reasons == {i \in I : rows[i]["block_reason"] # Nil}
           Early == {i \in I : rows[i]["prefetched"]}
<1>1. /\ Hits \in SUBSET I /\ Refusals \in SUBSET I /\ Forwards \in SUBSET I
      /\ Early \in SUBSET Hits /\ Reasons = Refusals /\ I = Hits \cup Refusals \cup Forwards
  BY DEF LogRow
<1>2. Hits \cap Refusals = {} /\ Hits \cap Forwards = {} /\ Refusals \cap Forwards = {}
  BY DEF LogRow
<1>3. /\ CountIf(rows, "cached") = Cardinality(Hits)
      /\ CountIf(rows, "blocked") = Cardinality(Refusals)
      /\ CountIf(rows, "prefetched") = Cardinality(Early)
  BY DEF CountIf
<1>4. /\ Total(Histogram(rows, "upstream")) = Cardinality(Forwards)
      /\ Total(Histogram(rows, "block_reason")) = Cardinality(Reasons)
  BY HistogramOfColumn
<1> HIDE DEF Hits, Refusals, Forwards, Reasons, Early
<1>5. IsFiniteSet(Hits) /\ IsFiniteSet(Refusals) /\ IsFiniteSet(Forwards)
  BY <1>1, FS_Subset
<1>6. Cardinality(Hits) \in Nat /\ Cardinality(Refusals) \in Nat /\ Cardinality(Forwards) \in Nat
  BY <1>5, FS_CardinalityType
<1>7. Cardinality(Hits \cup Refusals \cup Forwards)
        = Cardinality(Hits) + Cardinality(Refusals) + Cardinality(Forwards)
  BY <1>2, <1>5, ThreeParts
<1>8. Cardinality(Early) \in Nat /\ Cardinality(Early) <= Cardinality(Hits)
  BY <1>1, <1>5, FS_Subset, FS_CardinalityType
<1> QED BY <1>1, <1>3, <1>4, <1>6, <1>7, <1>8

\* Lists of domains with room for all of them count every query, and every domain.
LEMMA ListsAddUp ==
  ASSUME NEW rows, IsFiniteSet(DOMAIN rows), \A i \in DOMAIN rows : LogRow(rows[i]),
         Cardinality({rows[i].domain : i \in DOMAIN rows}) <= Limit,
         NEW resolved \in DomainsOf(rows, FALSE), NEW refused \in DomainsOf(rows, TRUE)
  PROVE  /\ Total(resolved) + Total(refused) = Cardinality(DOMAIN rows)
         /\ DOMAIN resolved \cup DOMAIN refused = {rows[i].domain : i \in DOMAIN rows}
<1> DEFINE I == DOMAIN rows
           Passed == {i \in I : rows[i].blocked = FALSE}
           Stopped == {i \in I : rows[i].blocked = TRUE}
<1>1. \A i \in I : rows[i].domain # Nil
  BY DEF LogRow
<1>2. Total(resolved) = Cardinality(Passed) /\ DOMAIN resolved = {rows[i].domain : i \in Passed}
  BY <1>1, DomainsListed
<1>3. Total(refused) = Cardinality(Stopped) /\ DOMAIN refused = {rows[i].domain : i \in Stopped}
  BY <1>1, DomainsListed
<1>4. /\ Passed \cup Stopped = I /\ Passed \cap Stopped = {}
      /\ Passed \in SUBSET I /\ Stopped \in SUBSET I
  BY DEF LogRow
<1>5. {rows[i].domain : i \in Passed} \cup {rows[i].domain : i \in Stopped}
        = {rows[i].domain : i \in I}
  BY <1>4
<1>6. Cardinality(Passed) + Cardinality(Stopped) = Cardinality(I)
  <2> HIDE DEF Passed, Stopped
  <2>1. IsFiniteSet(Passed) /\ IsFiniteSet(Stopped)
    BY <1>4, FS_Subset
  <2>2. Cardinality(Passed) \in Nat /\ Cardinality(Stopped) \in Nat
    BY <2>1, FS_CardinalityType
  <2>3. Cardinality(Passed \cup Stopped)
          = Cardinality(Passed) + Cardinality(Stopped) - Cardinality(Passed \cap Stopped)
    BY <2>1, FS_Union
  <2>4. Cardinality(Passed \cap Stopped) = 0
    BY <1>4, FS_EmptySet
  <2>5. Cardinality(Passed \cup Stopped) = Cardinality(I)
    BY <1>4
  <2> QED BY <2>2, <2>3, <2>4, <2>5
<1> QED BY <1>2, <1>3, <1>5, <1>6

\* The answered queries are logged as such rows.
LEMMA LoggedRows ==
  ASSUME IInv, Unstarted, StartedFinite, ColumnsAgree, NEW host
  PROVE  /\ IsFiniteSet(DOMAIN queries(host))
         /\ \A i \in DOMAIN queries(host) : LogRow(queries(host)[i])
<1> DEFINE I == {d \in Conn : sent[d] # Nil /\ call[d].client = host}
<1>1. DOMAIN queries(host) = I /\ \A i \in I : queries(host)[i] = QueryLog(i)
  BY DEF queries
<1>2. IsFiniteSet(I)
  <2>1. I \subseteq Started
    BY DEF Started, Unstarted
  <2> HIDE DEF I
  <2> QED BY <2>1, FS_Subset DEF StartedFinite
<1>3. ASSUME NEW c \in I PROVE LogRow(QueryLog(c))
  <2>1. /\ sent[c] \in Sent /\ Agrees(sent[c]) /\ call[c] \in Call
    BY TaskFacts DEF IInv, TypeOK, ColumnsAgree, Unstarted, CallOK
  <2> DEFINE q == QueryLog(c)
  <2>2. /\ q.domain = call[c].name /\ q.cached = sent[c].cached
        /\ q.blocked = (sent[c].kind = "blocked") /\ q.prefetched = sent[c].prefetched
    BY DEF QueryLog
  <2>3. q.upstream = IF sent[c].forwarded THEN "upstream" ELSE Nil
    BY DEF QueryLog
  <2>4. q.block_reason \in IF sent[c].kind # "blocked" THEN {Nil}
                           ELSE {"rdns-private-ip", "category"}
    BY DEF QueryLog
  <2>5. q.domain # Nil /\ q.cached \in BOOLEAN /\ q.prefetched \in BOOLEAN
        /\ sent[c].forwarded \in BOOLEAN
    BY <2>1, <2>2, StatisticsAssumption DEF Call, Sent
  <2> HIDE DEF q
  <2>6. /\ q.blocked <=> q.block_reason # Nil
        /\ q.upstream = Nil <=> ~sent[c].forwarded
    BY <2>2, <2>3, <2>4, StatisticsAssumption
  <2>7. LogRow(q)
    BY <2>1, <2>2, <2>5, <2>6 DEF LogRow, Agrees
  <2> QED BY <2>7 DEF q
<1> QED BY <1>1, <1>2, <1>3

\* The statistics add up, of any number of queries and devices, with any length of
\* the lists: stats.go counts what handleRequest logged as refused, cached or
\* forwarded, each query once.
THEOREM StatisticsAddUp == Spec => []StatsAddUp
<1>1. Init => ColumnsAgree /\ StartedFinite
  <2> SUFFICES ASSUME Init PROVE ColumnsAgree /\ StartedFinite
    OBVIOUS
  <2>1. Started = {}
    BY TaskFacts DEF Init, Started
  <2> QED BY <2>1, FS_EmptySet DEF Init, ColumnsAgree, StartedFinite
<1>2. IInv /\ Unstarted /\ StartedFinite /\ ColumnsAgree => StatsAddUp
  <2> SUFFICES ASSUME IInv, Unstarted, StartedFinite, ColumnsAgree PROVE StatsAddUp
    OBVIOUS
  <2>1. ASSUME NEW host PROVE AddsUp(DeviceStats(host))
    <3> DEFINE rows == queries(host)
               s == DeviceStats(host)
    <3>1. IsFiniteSet(DOMAIN rows) /\ \A i \in DOMAIN rows : LogRow(rows[i])
      BY LoggedRows
    <3>2. /\ s.total_queries = Cardinality(DOMAIN rows)
          /\ s.unique_domains = Cardinality({rows[i].domain : i \in DOMAIN rows})
          /\ s.cached_queries = CountIf(rows, "cached")
          /\ s.blocked_queries = CountIf(rows, "blocked")
          /\ s.prefetched_queries = CountIf(rows, "prefetched")
          /\ s.block_reasons = Histogram(rows, "block_reason")
          /\ s.upstreams = Histogram(rows, "upstream")
      BY DEF DeviceStats
    <3>3. /\ s.cache_hit_ratio = Percentage(CountIf(rows, "cached"),
                                   Cardinality(DOMAIN rows) - CountIf(rows, "blocked"))
          /\ s.prefetched_ratio = Percentage(CountIf(rows, "prefetched"),
                                   Cardinality(DOMAIN rows) - CountIf(rows, "blocked"))
      BY DEF DeviceStats
    <3>4. s.resolved_domains = DomainsOf(rows, FALSE) /\ s.blocked_domains = DomainsOf(rows, TRUE)
      BY DEF DeviceStats
    <3> HIDE DEF rows, s
    <3>5. /\ s.total_queries = s.cached_queries + s.blocked_queries + Total(s.upstreams)
          /\ Total(s.block_reasons) = s.blocked_queries
          /\ s.prefetched_queries <= s.cached_queries
      BY <3>1, <3>2, CountersAddUp
    <3>6. s.cache_hit_ratio <= 10000 /\ s.prefetched_ratio <= s.cache_hit_ratio
      <4> DEFINE whole == Cardinality(DOMAIN rows) - CountIf(rows, "blocked")
                 hits == CountIf(rows, "cached")
                 early == CountIf(rows, "prefetched")
      <4>1. whole \in Nat /\ hits \in Nat /\ early \in Nat /\ early <= hits /\ hits <= whole
        BY <3>1, CountersAddUp
      <4>2. s.cache_hit_ratio = Percentage(hits, whole) /\ s.prefetched_ratio = Percentage(early, whole)
        BY <3>3
      <4> HIDE DEF whole, hits, early
      <4> QED BY <4>1, <4>2, PercentageBounds
    <3>7. ASSUME s.unique_domains <= Limit,
                 NEW resolved \in s.resolved_domains, NEW refused \in s.blocked_domains
          PROVE  /\ Total(resolved) + Total(refused) = s.total_queries
                 /\ Cardinality(DOMAIN resolved \cup DOMAIN refused) = s.unique_domains
      <4>1. Cardinality({rows[i].domain : i \in DOMAIN rows}) <= Limit
        BY <3>2, <3>7
      <4>2. resolved \in DomainsOf(rows, FALSE) /\ refused \in DomainsOf(rows, TRUE)
        BY <3>4, <3>7
      <4>3. /\ Total(resolved) + Total(refused) = Cardinality(DOMAIN rows)
            /\ DOMAIN resolved \cup DOMAIN refused = {rows[i].domain : i \in DOMAIN rows}
        BY <3>1, <4>1, <4>2, ListsAddUp
      <4> QED BY <3>2, <4>3
    <3>8. AddsUp(s)
      BY <3>5, <3>6, <3>7 DEF AddsUp
    <3> QED BY <3>8 DEF s
  <2>2. \A host \in DOMAIN GetDeviceStats : GetDeviceStats[host] = DeviceStats(host)
    BY DEF GetDeviceStats
  <2> QED BY <2>1, <2>2 DEF StatsAddUp
<1>3. Spec => []StartedFinite
  BY <1>1, StartedFiniteStep, Invariance, PTL DEF Spec
<1>4. Spec => []ColumnsAgree
  BY <1>1, ColumnsAgreeStep, Invariance, PTL DEF Spec
<1> QED BY <1>2, <1>3, <1>4, Invariance, UnstartedInvariance, PTL
=============================================================================
