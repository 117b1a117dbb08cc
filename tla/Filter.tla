------------------------------- MODULE Filter -------------------------------
(***************************************************************************)
(* The decision whether a question is blocked: the radix tree of rules in  *)
(* internal/dns/resolver.go (LoadListToMemory, isBlocked, reverseFQDN) and *)
(* the trace of a decision in internal/dns/trace.go, with the groups and   *)
(* schedules of Config.  Everything here is a function of the tree, the    *)
(* configuration and the instant; module Blocklists holds the state.       *)
(*                                                                         *)
(* A domain name is the sequence of its labels, and a key of the tree is   *)
(* the reversed sequence.  The code compares the strings, so a label may   *)
(* match a longer one: Begins and Ends say which labels are proper         *)
(* prefixes and suffixes of which, and stand for their characters.         *)
(***************************************************************************)
EXTENDS Config, SequencesExt

CONSTANTS
  Begins,      \* <<a, b>>: label a is a proper prefix of label b, as a string
  Ends         \* <<a, b>>: label a is a proper suffix of label b, as a string

\* The prefixes of one label are prefixes of each other, as strings are.
ASSUME LabelAssumption ==
  /\ \A p, q \in Begins : p[2] = q[1] => <<p[1], q[2]>> \in Begins
  /\ \A p, q \in Begins : p[2] = q[2] =>
        p[1] = q[1] \/ <<p[1], q[1]>> \in Begins \/ <<q[1], p[1]>> \in Begins
  /\ \A p \in Begins \cup Ends : p[1] # p[2]

-----------------------------------------------------------------------------
(* Names *)

reverseFQDN(fqdn) == Reverse(fqdn)

\* String k is a prefix of string key: whole labels, then the start of a label.
KeyPrefix(k, key) ==
  /\ Len(k) <= Len(key)
  /\ \A i \in 1..Len(k) - 1 : k[i] = key[i]
  /\ Last(k) = key[Len(k)] \/ <<Last(k), key[Len(k)]>> \in Begins

\* Mutant: HasSuffix(domain, "." + base), which misses the listed name itself.
ProperSuffix(domain, base) ==
  LET skip == Len(domain) - Len(base)
  IN skip > 0 /\ SubSeq(domain, skip + 1, Len(domain)) = base

\* strings.HasSuffix(domain, base): the end of a label, then whole labels.
HasSuffix(domain, base) ==
  LET skip == Len(domain) - Len(base)
  IN /\ skip >= 0
     /\ \A i \in 2..Len(base) : base[i] = domain[skip + i]
     /\ Head(base) = domain[skip + 1] \/ <<Head(base), domain[skip + 1]>> \in Ends

-----------------------------------------------------------------------------
(* The tree: a function from keys to the rules found there, <<>> for none *)

\* Mutant: rules := []Rule{...}, the rules of the lists loaded before are lost.
ReplaceRules(rules, rule) == <<rule>>

AppendRule(rules, rule) == Append(rules, rule)

LoadListToMemory(tree, name, action, category, domains) ==
  [k \in DOMAIN tree |->
     IF reverseFQDN(k) \in domains
       THEN AppendRule(tree[k], [list |-> name, action |-> action, category |-> category])
       ELSE tree[k]]

\* tree.LongestPrefix(key).  All the prefixes of a string are prefixes of the
\* longest one.
LongestPrefix(tree, key) ==
  LET found == {k \in DOMAIN tree : tree[k] # <<>> /\ KeyPrefix(k, key)}
  IN IF found = {} THEN Nil
     ELSE CHOOSE k \in found : \A other \in found : KeyPrefix(other, k)

\* The rules isBlocked goes by: none if the longest prefix is no suffix of the name.
RulesFor(tree, domain) ==
  LET k == LongestPrefix(tree, reverseFQDN(domain))
  IN IF k = Nil THEN <<>>
     ELSE IF HasSuffix(domain, reverseFQDN(k)) THEN tree[k] ELSE <<>>

\* Mutant: the first rule decides.
FirstAllows(rules) == rules # <<>> /\ Head(rules).action = "allow"

Allows(rules) == \E i \in DOMAIN rules : rules[i].action = "allow"

-----------------------------------------------------------------------------
(* The decision, and its trace *)

\* The category that rules block for a client, Nil if they do not: a rule that
\* allows outweighs every other, else the first one that blocks the client counts.
Verdict(rules, config, client, at) ==
  LET hits == {i \in DOMAIN rules :
                 /\ rules[i].action # "allow"
                 /\ IsClientBlocked(config, client, rules[i].category, at)}
  IN IF Allows(rules) \/ hits = {} THEN Nil ELSE rules[Min(hits)].category

\* What isBlocked reports.
BlockReason(tree, config, domain, client, at) ==
  Verdict(RulesFor(tree, domain), config, client, at)

HandleTrace(tree, config, domain) ==
  LET rules  == RulesFor(tree, domain)
      traces == {TraceCategory(config, rules[i].category) : i \in DOMAIN rules}
  IN [lists     |-> rules,
      groups    |-> UNION {t.groups : t \in traces},
      schedules |-> UNION {t.schedules : t \in traces}]
=============================================================================
