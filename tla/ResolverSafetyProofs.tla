------------------------ MODULE ResolverSafetyProofs ------------------------
(* Safety theorems about Resolver, for every value of its constants: each is   *)
(* an inductive invariant on top of IInv, the type invariant and what it needs. *)
EXTENDS ResolverProofs

-----------------------------------------------------------------------------
(* The strengthenings *)

\* A handler's call carries its own message id.
OwnId == \A c \in Conn : pc[c] # "idle" => call[c].id = c

\* What a goroutine reads from the cache is an entry for its question.
OwnObject == \A t \in Task : pc[t] \in Touching => loc[t].obj[2] = call[t].name

\* The answer a handler is about to write is one to its own question and id: a
\* private copy, or the object it allocated itself.
ReplyReady ==
  \A c \in Conn : (pc[c] = "return" /\ resp[c].kind = "answer") =>
    \/ resp[c].ref = Nil /\ resp[c].msg.id = c /\ resp[c].msg.name = call[c].name
    \/ resp[c].ref = <<c, call[c].name>> /\ heap[resp[c].ref].id = c

\* Whoever asks for what every policy blocks is at most told so.
Forbidden(t) ==
  \/ <<call[t].client, call[t].name>> \in AlwaysBlocked
  \/ call[t].name \in PrivatePtr

\* The verdict of the filter is on its way to the client.
BlockedReply ==
  /\ blocked \in Policies
  /\ \A c \in Conn : (pc[c] = "return" /\ Forbidden(c)) => resp[c].kind = "blocked"

\* What a touch has seen of Stale is still so: the flag is never cleared.
SeenStale ==
  \A t \in Task : (pc[t] \in HasLooked /\ loc[t].wasStale)
     => heap[loc[t].obj].stale

-----------------------------------------------------------------------------
(* Prefetching is exclusive. *)

\* No step registers a question twice or forgets a registered one.
LEMMA ExclusiveStep == IInv /\ PrefetchExclusive /\ [Next]_vars => PrefetchExclusive'
<1> SUFFICES ASSUME IInv, PrefetchExclusive, [Next]_vars PROVE PrefetchExclusive'
  OBVIOUS
<1> USE TaskFacts, NilAssumption DEF IInv, env, store, bgv, vars
<1>1. ASSUME NEW c \in Conn, HandleRequest(c) PROVE PrefetchExclusive'
  BY <1>1 DEF HandleRequest, Goto, PrefetchExclusive, TypeOK, Place
<1>2. ASSUME NEW c \in Conn, WriteMsg(c) PROVE PrefetchExclusive'
  BY <1>2 DEF WriteMsg, Goto, PrefetchExclusive, TypeOK, Place
<1>3. ASSUME NEW b \in Bg, RefreshDone(b) PROVE PrefetchExclusive'
  BY <1>3 DEF RefreshDone, Goto, PrefetchExclusive, TypeOK, Place
<1>4. ASSUME NEW b \in Bg, PlanPrefetch(b) PROVE PrefetchExclusive'
  BY <1>4 DEF PlanPrefetch, Goto, PrefetchExclusive, TypeOK, Place
<1>5. ASSUME NEW b \in Bg, PrefetchNext(b) PROVE PrefetchExclusive'
  <2>1. pc[b] = "next" \/ (pc[b] = "return" /\ cause[b] = Nil)
    BY <1>5 DEF PrefetchNext
  <2>2. PICK n \in todo[b] :
          IF n \in ongoing
            THEN Goto(b, "next") /\ UNCHANGED <<ongoing, held, call>>
            ELSE /\ Claim(b, n)
                 /\ call' = [call EXCEPT ![b] = PrefetchCall(b, n)]
                 /\ Goto(b, "check")
    BY <1>5 DEF PrefetchNext, Claimed
  <2>3. n \in Name /\ call[b] \in Call /\ cause' = cause
    BY <1>5, <2>1, <2>2 DEF PrefetchNext, TypeOK, CallOK
  <2>4. CASE n \in ongoing
    BY <2>2, <2>3, <2>4 DEF Goto, PrefetchExclusive, TypeOK
  <2>5. CASE n \notin ongoing
    <3>1. /\ ongoing' = ongoing \cup {n}
          /\ held' = [held EXCEPT ![b] = @ \cup {n}]
          /\ pc' = [pc EXCEPT ![b] = "check"]
          /\ call' = [call EXCEPT ![b] = PrefetchCall(b, n)]
      BY <2>2, <2>5 DEF Claim, Goto
    <3>2. PrefetchCall(b, n).name = n
      BY <2>3 DEF PrefetchCall, Call
    <3>3. \A a \in Bg : n \notin held[a]
      BY <2>5 DEF PrefetchExclusive
    <3>4. \A a, d \in Bg : a # d => held'[a] \cap held'[d] = {}
      BY <3>1, <3>3 DEF PrefetchExclusive, TypeOK
    <3>5. ongoing' = UNION {held'[d] : d \in Bg}
      BY <3>1 DEF PrefetchExclusive, TypeOK
    <3>6. \A d \in Bg : (cause'[d] = Nil /\ pc'[d] \in Place \ {"idle", "plan", "next", "done"})
                          => call'[d].name \in held'[d]
      BY <2>3, <3>1, <3>2 DEF PrefetchExclusive, TypeOK
    <3> QED BY <3>4, <3>5, <3>6 DEF PrefetchExclusive
  <2> QED BY <2>4, <2>5
<1>6. ASSUME NEW b \in Bg, PrefetchEnd(b) PROVE PrefetchExclusive'
  BY SMTT(30), <1>6 DEF PrefetchEnd, Goto, PrefetchExclusive, TypeOK, Place
<1>7. ASSUME NEW t \in Task, Check(t) PROVE PrefetchExclusive'
  BY <1>7 DEF Check, Goto, Return, blockFQDN, NoAnswer, PrefetchExclusive,
         TypeOK, Place
<1>8. ASSUME NEW t \in Task, Lookup(t) PROVE PrefetchExclusive'
  BY <1>8 DEF Lookup, Goto, PrefetchExclusive, TypeOK, Place
<1>9. ASSUME NEW t \in Task, Touch(t) PROVE PrefetchExclusive'
  <2>1. TouchEffect(t)
    BY <1>9, TouchFacts
  <2>2. UNCHANGED <<held, ongoing, cause, call>>
    BY <2>1 DEF TouchEffect, NothingElse
  <2>3. \A d \in Bg : pc'[d] \in Place \ {"idle", "plan", "next", "done"}
          => pc[d] \in Place \ {"idle", "plan", "next", "done"}
    BY <2>1 DEF TouchEffect, InTouch, InRecord, Place
  <2> QED BY <2>2, <2>3 DEF PrefetchExclusive
<1>10. ASSUME NEW t \in Task, TouchEnd(t) PROVE PrefetchExclusive'
  <2>1. pc[t] = "report" /\ Starts(t, "related", "check", RefreshCall(t), loc[t].obj)
    BY <1>10, TouchEndEffect
  <2>2. UNCHANGED <<held, ongoing>>
    BY <1>10, TouchEndEffect
  <2>a. loc[t].obj # Nil
    BY <1>10, TouchEndEffect
  <2>3. \A d \in Bg : pc'[d] \in Place \ {"idle", "plan", "next", "done"} /\ cause'[d] = Nil
          => /\ pc[d] \in Place \ {"idle", "plan", "next", "done"}
             /\ cause[d] = Nil /\ call'[d] = call[d]
    BY <2>1, <2>a DEF Starts, Place, InTouch, InRecord
  <2> QED BY <2>2, <2>3 DEF PrefetchExclusive
<1>11. ASSUME NEW t \in Task, PrefetchOnHit(t) PROVE PrefetchExclusive'
  <2>1. pc[t] = "related" /\ Starts(t, "copy", "plan", call[t], Nil)
    BY <1>11, PrefetchOnHitEffect
  <2>2. UNCHANGED <<held, ongoing>>
    BY <1>11, PrefetchOnHitEffect
  <2>3. \A d \in Bg : pc'[d] \in Place \ {"idle", "plan", "next", "done"} /\ cause'[d] = Nil
          => /\ pc[d] \in Place \ {"idle", "plan", "next", "done"}
             /\ cause[d] = Nil /\ call'[d] = call[d]
    BY <2>1 DEF Starts, Place
  <2> QED BY <2>2, <2>3 DEF PrefetchExclusive
<1>12. ASSUME NEW t \in Task, Copy(t) PROVE PrefetchExclusive'
  BY <1>12 DEF Copy, Goto, Return, PrefetchExclusive, TypeOK, Place
<1>13. ASSUME NEW t \in Task, Exchange(t) PROVE PrefetchExclusive'
  BY <1>13 DEF Exchange, Replied, GetsNoReply, Goto, Return, NoAnswer,
         PrefetchExclusive, TypeOK, Place
<1>14. ASSUME NEW t \in Task, Store(t) PROVE PrefetchExclusive'
  <2>1. pc[t] = "store" /\ Starts(t, "return", "plan", call[t], Nil)
    BY <1>14, StoreStarts
  <2>2. UNCHANGED <<held, ongoing>>
    BY <1>14, StoreEffect
  <2>3. \A d \in Bg : pc'[d] \in Place \ {"idle", "plan", "next", "done"} /\ cause'[d] = Nil
          => /\ pc[d] \in Place \ {"idle", "plan", "next", "done"}
             /\ cause[d] = Nil /\ call'[d] = call[d]
    BY <2>1 DEF Starts, Place
  <2> QED BY <2>2, <2>3 DEF PrefetchExclusive
<1>15. ASSUME Tick PROVE PrefetchExclusive'
  BY <1>15 DEF Tick, PrefetchExclusive, TypeOK, Place
<1>16. ASSUME PolicyChange PROVE PrefetchExclusive'
  BY <1>16 DEF PolicyChange, PrefetchExclusive, TypeOK, Place
<1>17. ASSUME LoadQueryPatterns PROVE PrefetchExclusive'
  BY <1>17 DEF LoadQueryPatterns, PrefetchExclusive, TypeOK, Place
<1>18. ASSUME NEW n \in Name, Evict(n) PROVE PrefetchExclusive'
  BY <1>18 DEF Evict, PrefetchExclusive, TypeOK, Place
<1>19. ASSUME UNCHANGED vars PROVE PrefetchExclusive'
  BY <1>19 DEF PrefetchExclusive, TypeOK, Place
<1> QED
  BY <1>1, <1>2, <1>3, <1>4, <1>5, <1>6, <1>7, <1>8, <1>9, <1>10,
     <1>11, <1>12, <1>13, <1>14, <1>15, <1>16, <1>17, <1>18, <1>19
     DEF Next, Process, Background, Environment

\* No two prefetchRelated goroutines prefetch the same question at once, however
\* many of them run and however their LoadOrStore, process and deferred Deletes
\* interleave, and every key of ongoingPrefetches has exactly one owner.
THEOREM PrefetchIsExclusive == Spec => []PrefetchExclusive
<1>1. Init => PrefetchExclusive
  BY TaskFacts DEF Init, PrefetchExclusive, Place
<1> QED BY <1>1, ExclusiveStep, Invariance, PTL DEF Spec

-----------------------------------------------------------------------------
(* Every client gets its own reply. *)

\* No step changes the message id of a query.
LEMMA OwnIdStep == IInv /\ OwnId /\ [Next]_vars => OwnId'
<1> SUFFICES ASSUME IInv, OwnId, [Next]_vars PROVE OwnId'
  OBVIOUS
<1> USE TaskFacts, NilAssumption DEF IInv, env, store, bgv, vars
<1>1. ASSUME NEW c \in Conn, HandleRequest(c) PROVE OwnId'
  BY <1>1 DEF HandleRequest, Goto, OwnId, TypeOK
<1>2. ASSUME NEW c \in Conn, WriteMsg(c) PROVE OwnId'
  BY <1>2 DEF WriteMsg, Goto, OwnId, TypeOK
<1>3. ASSUME NEW b \in Bg, RefreshDone(b) PROVE OwnId'
  BY <1>3 DEF RefreshDone, Goto, OwnId, TypeOK
<1>4. ASSUME NEW b \in Bg, PlanPrefetch(b) PROVE OwnId'
  BY <1>4 DEF PlanPrefetch, Goto, OwnId, TypeOK
<1>5. ASSUME NEW b \in Bg, PrefetchNext(b) PROVE OwnId'
  BY <1>5 DEF PrefetchNext, Goto, Claim, PrefetchCall, OwnId, TypeOK
<1>6. ASSUME NEW b \in Bg, PrefetchEnd(b) PROVE OwnId'
  BY <1>6 DEF PrefetchEnd, Goto, OwnId, TypeOK
<1>7. ASSUME NEW t \in Task, Check(t) PROVE OwnId'
  BY <1>7 DEF Check, Goto, Return, blockFQDN, NoAnswer, OwnId, TypeOK
<1>8. ASSUME NEW t \in Task, Lookup(t) PROVE OwnId'
  BY <1>8 DEF Lookup, Goto, OwnId, TypeOK
<1>9. ASSUME NEW t \in Task, Touch(t) PROVE OwnId'
  <2>1. TouchEffect(t)
    BY <1>9, TouchFacts
  <2>2. call' = call /\ \A c \in Conn : pc'[c] # "idle" => pc[c] # "idle"
    BY <2>1 DEF TouchEffect, NothingElse, InTouch, InRecord
  <2> QED BY <2>2 DEF OwnId
<1>10. ASSUME NEW t \in Task, TouchEnd(t) PROVE OwnId'
  <2>1. pc[t] = "report" /\ Starts(t, "related", "check", RefreshCall(t), loc[t].obj)
    BY <1>10, TouchEndEffect
  <2> QED BY <2>1 DEF OwnId, Starts
<1>11. ASSUME NEW t \in Task, PrefetchOnHit(t) PROVE OwnId'
  <2>1. pc[t] = "related" /\ Starts(t, "copy", "plan", call[t], Nil)
    BY <1>11, PrefetchOnHitEffect
  <2> QED BY <2>1 DEF OwnId, Starts
<1>12. ASSUME NEW t \in Task, Copy(t) PROVE OwnId'
  BY <1>12 DEF Copy, Goto, Return, OwnId, TypeOK
<1>13. ASSUME NEW t \in Task, Exchange(t) PROVE OwnId'
  BY <1>13 DEF Exchange, Replied, GetsNoReply, Goto, Return, NoAnswer, OwnId,
         TypeOK
<1>14. ASSUME NEW t \in Task, Store(t) PROVE OwnId'
  <2>1. pc[t] = "store" /\ Starts(t, "return", "plan", call[t], Nil)
    BY <1>14, StoreStarts
  <2> QED BY <2>1 DEF OwnId, Starts
<1>15. ASSUME Tick PROVE OwnId'
  BY <1>15 DEF Tick, OwnId, TypeOK
<1>16. ASSUME PolicyChange PROVE OwnId'
  BY <1>16 DEF PolicyChange, OwnId, TypeOK
<1>17. ASSUME LoadQueryPatterns PROVE OwnId'
  BY <1>17 DEF LoadQueryPatterns, OwnId, TypeOK
<1>18. ASSUME NEW n \in Name, Evict(n) PROVE OwnId'
  BY <1>18 DEF Evict, OwnId, TypeOK
<1>19. ASSUME UNCHANGED vars PROVE OwnId'
  BY <1>19 DEF OwnId, TypeOK
<1> QED
  BY <1>1, <1>2, <1>3, <1>4, <1>5, <1>6, <1>7, <1>8, <1>9, <1>10,
     <1>11, <1>12, <1>13, <1>14, <1>15, <1>16, <1>17, <1>18, <1>19
     DEF Next, Process, Background, Environment

\* No step makes a goroutine read an entry for another question.
LEMMA OwnObjectStep == IInv /\ OwnObject /\ [Next]_vars => OwnObject'
<1> SUFFICES ASSUME IInv, OwnObject, [Next]_vars PROVE OwnObject'
  OBVIOUS
<1> USE TaskFacts, NilAssumption DEF IInv, env, store, bgv, vars
<1>1. ASSUME NEW c \in Conn, HandleRequest(c) PROVE OwnObject'
  BY <1>1 DEF HandleRequest, Goto, OwnObject, Touching, InTouch, InRecord, TypeOK
<1>2. ASSUME NEW c \in Conn, WriteMsg(c) PROVE OwnObject'
  BY <1>2 DEF WriteMsg, Goto, OwnObject, Touching, InTouch, InRecord, TypeOK
<1>3. ASSUME NEW b \in Bg, RefreshDone(b) PROVE OwnObject'
  BY <1>3 DEF RefreshDone, Goto, OwnObject, Touching, InTouch, InRecord, TypeOK
<1>4. ASSUME NEW b \in Bg, PlanPrefetch(b) PROVE OwnObject'
  BY <1>4 DEF PlanPrefetch, Goto, OwnObject, Touching, InTouch, InRecord, TypeOK
<1>5. ASSUME NEW b \in Bg, PrefetchNext(b) PROVE OwnObject'
  BY <1>5 DEF PrefetchNext, Goto, Claim, PrefetchCall, OwnObject, Touching, InTouch, InRecord,
         TypeOK
<1>6. ASSUME NEW b \in Bg, PrefetchEnd(b) PROVE OwnObject'
  BY <1>6 DEF PrefetchEnd, Goto, OwnObject, Touching, InTouch, InRecord, TypeOK
<1>7. ASSUME NEW t \in Task, Check(t) PROVE OwnObject'
  BY <1>7 DEF Check, Goto, Return, blockFQDN, NoAnswer, OwnObject, Touching, InTouch, InRecord,
         TypeOK
<1>8. ASSUME NEW t \in Task, Lookup(t) PROVE OwnObject'
  <2>1. call[t].name \in Name
    BY <1>8 DEF Lookup, CallOK, Call
  <2>2. \A u \in Task \ {t} : loc'[u] = loc[u]
    BY <1>8 DEF Lookup, TypeOK
  <2>3. pc'[t] = "touch" => loc'[t].obj = cache[call[t].name].obj /\ InCache(call[t].name)
    BY <1>8 DEF Lookup, Goto, TypeOK, Local
  <2>4. pc'[t] \in {"touch", "exchange"}
    BY <1>8 DEF Lookup, Goto, TypeOK
  <2> QED BY <1>8, <2>1, <2>2, <2>3, <2>4
      DEF Lookup, Goto, OwnObject, Touching, InTouch, InRecord, CacheOK, InCache, TypeOK
<1>9. ASSUME NEW t \in Task, Touch(t) PROVE OwnObject'
  <2>1. TouchEffect(t)
    BY <1>9, TouchFacts
  <2>2. \A u \in Task : /\ loc'[u].obj = loc[u].obj
                        /\ pc'[u] \in Touching => pc[u] \in Touching
    BY <2>1 DEF TouchEffect, Touching
  <2>3. call' = call
    BY <2>1 DEF TouchEffect, NothingElse
  <2> QED BY <2>2, <2>3 DEF OwnObject
<1>10. ASSUME NEW t \in Task, TouchEnd(t) PROVE OwnObject'
  <2>1. pc[t] = "report" /\ Starts(t, "related", "check", RefreshCall(t), loc[t].obj)
    BY <1>10, TouchEndEffect
  <2>2. loc' = loc
    BY <1>10, TouchEndEffect
  <2>3. \A u \in Task : pc'[u] \in Touching
          => pc[u] \in Touching /\ call'[u] = call[u]
    BY <2>1 DEF Starts, Touching, InTouch, InRecord
  <2> QED BY <2>2, <2>3 DEF OwnObject
<1>11. ASSUME NEW t \in Task, PrefetchOnHit(t) PROVE OwnObject'
  <2>1. pc[t] = "related" /\ Starts(t, "copy", "plan", call[t], Nil)
    BY <1>11, PrefetchOnHitEffect
  <2>2. loc' = loc
    BY <1>11, PrefetchOnHitEffect
  <2>3. \A u \in Task : pc'[u] \in Touching
          => pc[u] \in Touching /\ call'[u] = call[u]
    BY <2>1 DEF Starts, Touching, InTouch, InRecord
  <2> QED BY <2>2, <2>3 DEF OwnObject
<1>12. ASSUME NEW t \in Task, Copy(t) PROVE OwnObject'
  BY <1>12 DEF Copy, Goto, Return, OwnObject, Touching, InTouch, InRecord, TypeOK
<1>13. ASSUME NEW t \in Task, Exchange(t) PROVE OwnObject'
  BY <1>13 DEF Exchange, Replied, GetsNoReply, Goto, Return, NoAnswer,
         OwnObject, Touching, InTouch, InRecord, TypeOK
<1>14. ASSUME NEW t \in Task, Store(t) PROVE OwnObject'
  <2>1. pc[t] = "store" /\ Starts(t, "return", "plan", call[t], Nil)
    BY <1>14, StoreStarts
  <2>2. \A u \in Task \ {t} : loc'[u] = loc[u]
    BY <1>14, StoreEffect
  <2>3. \A u \in Task : pc'[u] \in Touching
          => pc[u] \in Touching /\ call'[u] = call[u] /\ u # t
    BY <2>1 DEF Starts, Touching, InTouch, InRecord
  <2> QED BY <2>2, <2>3 DEF OwnObject
<1>15. ASSUME Tick PROVE OwnObject'
  BY <1>15 DEF Tick, OwnObject, Touching, InTouch, InRecord, TypeOK
<1>16. ASSUME PolicyChange PROVE OwnObject'
  BY <1>16 DEF PolicyChange, OwnObject, Touching, InTouch, InRecord, TypeOK
<1>17. ASSUME LoadQueryPatterns PROVE OwnObject'
  BY <1>17 DEF LoadQueryPatterns, OwnObject, Touching, InTouch, InRecord, TypeOK
<1>18. ASSUME NEW n \in Name, Evict(n) PROVE OwnObject'
  BY <1>18 DEF Evict, OwnObject, Touching, InTouch, InRecord, TypeOK
<1>19. ASSUME UNCHANGED vars PROVE OwnObject'
  BY <1>19 DEF OwnObject, Touching, InTouch, InRecord, TypeOK
<1> QED
  BY <1>1, <1>2, <1>3, <1>4, <1>5, <1>6, <1>7, <1>8, <1>9, <1>10,
     <1>11, <1>12, <1>13, <1>14, <1>15, <1>16, <1>17, <1>18, <1>19
     DEF Next, Process, Background, Environment

\* No step of another goroutine touches the reply that a handler is about to write.
LEMMA ReplyReadyStep == IInv /\ OwnId /\ OwnObject /\ ReplyReady /\ [Next]_vars => ReplyReady'
<1> SUFFICES ASSUME IInv, OwnId, OwnObject, ReplyReady, [Next]_vars PROVE ReplyReady'
  OBVIOUS
<1> USE TaskFacts, NilAssumption DEF IInv, env, store, bgv, vars
<1>1. ASSUME NEW c \in Conn, HandleRequest(c) PROVE ReplyReady'
  BY <1>1 DEF HandleRequest, Goto, ReplyReady, TypeOK
<1>2. ASSUME NEW c \in Conn, WriteMsg(c) PROVE ReplyReady'
  BY <1>2 DEF WriteMsg, Goto, ReplyReady, TypeOK
<1>3. ASSUME NEW b \in Bg, RefreshDone(b) PROVE ReplyReady'
  BY <1>3 DEF RefreshDone, Goto, ReplyReady, TypeOK
<1>4. ASSUME NEW b \in Bg, PlanPrefetch(b) PROVE ReplyReady'
  BY <1>4 DEF PlanPrefetch, Goto, ReplyReady, TypeOK
<1>5. ASSUME NEW b \in Bg, PrefetchNext(b) PROVE ReplyReady'
  BY <1>5 DEF PrefetchNext, Goto, Claim, PrefetchCall, ReplyReady, TypeOK
<1>6. ASSUME NEW b \in Bg, PrefetchEnd(b) PROVE ReplyReady'
  BY <1>6 DEF PrefetchEnd, Goto, ReplyReady, TypeOK
<1>7. ASSUME NEW t \in Task, Check(t) PROVE ReplyReady'
  BY <1>7 DEF Check, Goto, Return, blockFQDN, NoAnswer, ReplyReady, TypeOK
<1>8. ASSUME NEW t \in Task, Lookup(t) PROVE ReplyReady'
  BY <1>8 DEF Lookup, Goto, ReplyReady, TypeOK
<1>9. ASSUME NEW t \in Task, Touch(t) PROVE ReplyReady'
  <2>1. TouchEffect(t)
    BY <1>9, TouchFacts
  <2>2. \A o \in Obj : heap'[o].id = heap[o].id
    BY <2>1 DEF TouchEffect, Kept
  <2>3. UNCHANGED <<call, resp>> /\ \A c \in Conn : pc'[c] = "return" => pc[c] = "return"
    BY <2>1 DEF TouchEffect, NothingElse, InTouch, InRecord
  <2>4. \A c \in Conn : pc[c] = "return" => <<c, call[c].name>> \in Obj
    BY DEF CallOK, Call, Obj
  <2> SUFFICES ASSUME NEW c \in Conn, pc'[c] = "return", resp'[c].kind = "answer"
               PROVE  \/ resp'[c].ref = Nil /\ resp'[c].msg.id = c /\ resp'[c].msg.name = call'[c].name
                      \/ resp'[c].ref = <<c, call'[c].name>> /\ heap'[resp'[c].ref].id = c
    BY DEF ReplyReady
  <2>5. resp'[c] = resp[c] /\ call'[c] = call[c] /\ pc[c] = "return"
    BY <2>3
  <2>6. CASE resp[c].ref = Nil
    BY <2>4, <2>5, <2>6 DEF ReplyReady
  <2>7. CASE resp[c].ref # Nil
    <3>1. resp[c].ref = <<c, call[c].name>> /\ heap[resp[c].ref].id = c
      BY <2>5, <2>7 DEF ReplyReady
    <3>2. heap'[resp[c].ref].id = heap[resp[c].ref].id
      BY <2>2, <2>4, <2>5, <3>1
    <3> QED BY <2>5, <3>1, <3>2
  <2> QED BY <2>6, <2>7
<1>10. ASSUME NEW t \in Task, TouchEnd(t) PROVE ReplyReady'
  <2>1. pc[t] = "report" /\ Starts(t, "related", "check", RefreshCall(t), loc[t].obj)
    BY <1>10, TouchEndEffect
  <2>2. UNCHANGED <<heap, resp>>
    BY <1>10, TouchEndEffect
  <2>3. \A c \in Conn : pc'[c] = "return" => pc[c] = "return" /\ call'[c] = call[c]
    BY <2>1 DEF Starts
  <2> QED BY <2>2, <2>3 DEF ReplyReady
<1>11. ASSUME NEW t \in Task, PrefetchOnHit(t) PROVE ReplyReady'
  <2>1. pc[t] = "related" /\ Starts(t, "copy", "plan", call[t], Nil)
    BY <1>11, PrefetchOnHitEffect
  <2>2. UNCHANGED <<heap, resp>>
    BY <1>11, PrefetchOnHitEffect DEF store
  <2>3. \A c \in Conn : pc'[c] = "return" => pc[c] = "return" /\ call'[c] = call[c]
    BY <2>1 DEF Starts
  <2> QED BY <2>2, <2>3 DEF ReplyReady
<1>12. ASSUME NEW t \in Task, Copy(t) PROVE ReplyReady'
  <2>1. \A u \in Task \ {t} : resp'[u] = resp[u] /\ pc'[u] = pc[u]
    BY <1>12 DEF Copy, Return, Goto, TypeOK
  <2>2. /\ resp'[t].ref = Nil
        /\ resp'[t].msg.id = call[t].id /\ resp'[t].msg.name = loc[t].obj[2]
    BY <1>12 DEF Copy, Return, TypeOK
  <2>3. UNCHANGED <<call, heap>>
    BY <1>12 DEF Copy
  <2>4. loc[t].obj[2] = call[t].name
    BY <1>12 DEF Copy, OwnObject, Touching, InTouch, InRecord
  <2>5. t \in Conn => call[t].id = t
    BY <1>12 DEF Copy, OwnId
  <2> QED BY <2>1, <2>2, <2>3, <2>4, <2>5 DEF ReplyReady
<1>13. ASSUME NEW t \in Task, Exchange(t) PROVE ReplyReady'
  BY <1>13 DEF Exchange, Replied, GetsNoReply, Goto, Return, NoAnswer,
         ReplyReady, TypeOK
<1>14. ASSUME NEW t \in Task, Store(t) PROVE ReplyReady'
  <2>1. pc[t] = "store" /\ Starts(t, "return", "plan", call[t], Nil)
    BY <1>14, StoreStarts
  <2>2. /\ <<t, call[t].name>> \in Obj /\ call[t] \in Call
        /\ \A u \in Task \ {t} : resp'[u] = resp[u]
    BY <1>14, StoreEffect
  <2>3. resp'[t].ref = <<t, call[t].name>> /\ call'[t] = call[t]
    <3>1. resp'[t].ref = <<t, call[t].name>>
      BY <1>14, StoreEffect
    <3> QED BY <2>1, <3>1 DEF Starts
  <2>4. \A p \in Obj : p # <<t, call[t].name>> => heap'[p] = heap[p]
    BY <1>14, StoreEffect
  <2>9. heap'[<<t, call[t].name>>].id = call[t].id
    BY <1>14, StoreEffect
  <2>5. t \in Conn => call[t].id = t
    BY <1>14 DEF Store, OwnId
  <2>6. \A c \in Conn \ {t} : pc'[c] = "return" => pc[c] = "return" /\ call'[c] = call[c]
    BY <2>1 DEF Starts
  <2>7. \A c \in Conn \ {t} : pc[c] = "return" => call[c].name \in Name
    BY DEF CallOK, Call
  <2>8. \A c \in Conn \ {t} : <<c, call[c].name>> # <<t, call[t].name>>
    OBVIOUS
  <2> QED BY <2>2, <2>3, <2>4, <2>5, <2>6, <2>7, <2>8, <2>9 DEF ReplyReady, Obj
<1>15. ASSUME Tick PROVE ReplyReady'
  BY <1>15 DEF Tick, ReplyReady, TypeOK
<1>16. ASSUME PolicyChange PROVE ReplyReady'
  BY <1>16 DEF PolicyChange, ReplyReady, TypeOK
<1>17. ASSUME LoadQueryPatterns PROVE ReplyReady'
  BY <1>17 DEF LoadQueryPatterns, ReplyReady, TypeOK
<1>18. ASSUME NEW n \in Name, Evict(n) PROVE ReplyReady'
  BY <1>18 DEF Evict, ReplyReady, TypeOK
<1>19. ASSUME UNCHANGED vars PROVE ReplyReady'
  BY <1>19 DEF ReplyReady, TypeOK
<1> QED
  BY <1>1, <1>2, <1>3, <1>4, <1>5, <1>6, <1>7, <1>8, <1>9, <1>10,
     <1>11, <1>12, <1>13, <1>14, <1>15, <1>16, <1>17, <1>18, <1>19
     DEF Next, Process, Background, Environment

\* The reply is written once, as it was made.
LEMMA OwnReplyStep == IInv /\ Unstarted /\ ReplyReady /\ OwnReply /\ [Next]_vars => OwnReply'
<1> SUFFICES ASSUME IInv, Unstarted, ReplyReady, OwnReply, [Next]_vars PROVE OwnReply'
  OBVIOUS
<1> USE TaskFacts, NilAssumption DEF IInv, env, store, bgv, vars
<1>1. ASSUME NEW c \in Conn, HandleRequest(c) PROVE OwnReply'
  <2>1. sent[c] = Nil
    BY <1>1 DEF HandleRequest, Unstarted
  <2> QED BY <1>1, <2>1 DEF HandleRequest, OwnReply, TypeOK
<1>2. ASSUME NEW c \in Conn, WriteMsg(c) PROVE OwnReply'
  <2> DEFINE m == [name |-> resp[c].ref[2], id |-> heap[resp[c].ref].id,
                   ttls |-> heap[resp[c].ref].ttls]
             s == [kind |-> resp[c].kind, cached |-> resp[c].cached,
                   prefetched |-> resp[c].prefetched, forwarded |-> resp[c].forwarded,
                   msg |-> IF resp[c].ref = Nil THEN resp[c].msg ELSE m]
  <2>1. pc[c] = "return" /\ sent' = [sent EXCEPT ![c] = s] /\ call' = call
    BY <1>2 DEF WriteMsg
  <2>2. s.kind = "answer" => s.msg.id = c /\ s.msg.name = call[c].name
    <3>1. s.kind = resp[c].kind /\ s.msg = (IF resp[c].ref = Nil THEN resp[c].msg ELSE m)
          /\ m.id = heap[resp[c].ref].id /\ m.name = resp[c].ref[2]
      OBVIOUS
    <3>2. <<c, call[c].name>> \in Obj
      BY <2>1 DEF CallOK, Call, Obj
    <3> HIDE DEF m, s
    <3>3. CASE resp[c].ref = Nil
      BY <2>1, <3>1, <3>2, <3>3 DEF ReplyReady
    <3>4. CASE resp[c].ref # Nil
      <4>1. resp[c].kind = "answer" =>
               resp[c].ref = <<c, call[c].name>> /\ heap[resp[c].ref].id = c
        BY <2>1, <3>4 DEF ReplyReady
      <4> QED BY <3>1, <3>4, <4>1
    <3> QED BY <3>3, <3>4
  <2> HIDE DEF m, s
  <2> QED BY <2>1, <2>2 DEF OwnReply, TypeOK
<1>3. ASSUME NEW b \in Bg, RefreshDone(b) PROVE OwnReply'
  BY <1>3 DEF RefreshDone, Goto, OwnReply, TypeOK
<1>4. ASSUME NEW b \in Bg, PlanPrefetch(b) PROVE OwnReply'
  BY <1>4 DEF PlanPrefetch, Goto, OwnReply, TypeOK
<1>5. ASSUME NEW b \in Bg, PrefetchNext(b) PROVE OwnReply'
  BY <1>5 DEF PrefetchNext, Goto, Claim, PrefetchCall, OwnReply, TypeOK
<1>6. ASSUME NEW b \in Bg, PrefetchEnd(b) PROVE OwnReply'
  BY <1>6 DEF PrefetchEnd, Goto, OwnReply, TypeOK
<1>7. ASSUME NEW t \in Task, Check(t) PROVE OwnReply'
  BY <1>7 DEF Check, Goto, Return, blockFQDN, NoAnswer, OwnReply, TypeOK
<1>8. ASSUME NEW t \in Task, Lookup(t) PROVE OwnReply'
  BY <1>8 DEF Lookup, Goto, OwnReply, TypeOK
<1>9. ASSUME NEW t \in Task, Touch(t) PROVE OwnReply'
  <2>1. TouchEffect(t)
    BY <1>9, TouchFacts
  <2>2. UNCHANGED <<sent, call>>
    BY <2>1 DEF TouchEffect, NothingElse
  <2> QED BY <2>2 DEF OwnReply
<1>10. ASSUME NEW t \in Task, TouchEnd(t) PROVE OwnReply'
  <2>1. pc[t] = "report" /\ Starts(t, "related", "check", RefreshCall(t), loc[t].obj)
    BY <1>10, TouchEndEffect
  <2>2. sent' = sent
    BY <1>10, TouchEndEffect
  <2>3. \A c \in Conn : pc[c] = "done" => call'[c] = call[c]
    BY <2>1 DEF Starts
  <2> QED BY <2>2, <2>3 DEF OwnReply, Unstarted
<1>11. ASSUME NEW t \in Task, PrefetchOnHit(t) PROVE OwnReply'
  <2>1. pc[t] = "related" /\ Starts(t, "copy", "plan", call[t], Nil)
    BY <1>11, PrefetchOnHitEffect
  <2>2. sent' = sent
    BY <1>11, PrefetchOnHitEffect
  <2>3. \A c \in Conn : pc[c] = "done" => call'[c] = call[c]
    BY <2>1 DEF Starts
  <2> QED BY <2>2, <2>3 DEF OwnReply, Unstarted
<1>12. ASSUME NEW t \in Task, Copy(t) PROVE OwnReply'
  BY <1>12 DEF Copy, Goto, Return, OwnReply, TypeOK
<1>13. ASSUME NEW t \in Task, Exchange(t) PROVE OwnReply'
  BY <1>13 DEF Exchange, Replied, GetsNoReply, Goto, Return, NoAnswer,
         OwnReply, TypeOK
<1>14. ASSUME NEW t \in Task, Store(t) PROVE OwnReply'
  <2>1. pc[t] = "store" /\ Starts(t, "return", "plan", call[t], Nil)
    BY <1>14, StoreStarts
  <2>2. sent' = sent
    BY <1>14, StoreEffect
  <2>3. \A c \in Conn : pc[c] = "done" => call'[c] = call[c]
    BY <2>1 DEF Starts
  <2> QED BY <2>2, <2>3 DEF OwnReply, Unstarted
<1>15. ASSUME Tick PROVE OwnReply'
  BY <1>15 DEF Tick, OwnReply, TypeOK
<1>16. ASSUME PolicyChange PROVE OwnReply'
  BY <1>16 DEF PolicyChange, OwnReply, TypeOK
<1>17. ASSUME LoadQueryPatterns PROVE OwnReply'
  BY <1>17 DEF LoadQueryPatterns, OwnReply, TypeOK
<1>18. ASSUME NEW n \in Name, Evict(n) PROVE OwnReply'
  BY <1>18 DEF Evict, OwnReply, TypeOK
<1>19. ASSUME UNCHANGED vars PROVE OwnReply'
  BY <1>19 DEF OwnReply, TypeOK
<1> QED
  BY <1>1, <1>2, <1>3, <1>4, <1>5, <1>6, <1>7, <1>8, <1>9, <1>10,
     <1>11, <1>12, <1>13, <1>14, <1>15, <1>16, <1>17, <1>18, <1>19
     DEF Next, Process, Background, Environment

\* Every client gets an answer to its own question under its own message id,
\* although the cached messages are shared between goroutines and the message of a
\* miss is in the cache, where others can reach it, before it is written.
THEOREM RepliesAreOwn == Spec => []OwnReply
<1>1. Init => OwnId /\ OwnObject /\ ReplyReady /\ OwnReply
  BY TaskFacts DEF Init, OwnId, OwnObject, Touching, InTouch, InRecord, ReplyReady, OwnReply
<1>2. Spec => []OwnId
  BY <1>1, OwnIdStep, Invariance, PTL DEF Spec
<1>3. Spec => []OwnObject
  BY <1>1, OwnObjectStep, Invariance, PTL DEF Spec
<1>4. Spec => []ReplyReady
  BY <1>1, <1>2, <1>3, ReplyReadyStep, Invariance, PTL DEF Spec
<1> QED BY <1>1, <1>4, OwnReplyStep, UnstartedInvariance, Invariance, PTL DEF Spec

-----------------------------------------------------------------------------
(* What is blocked is never resolved. *)

\* The filter refuses what every policy blocks, whatever the policy of the moment.
LEMMA ForbiddenIsRefused ==
  ASSUME IInv, BlockedReply, NEW t \in Task, call[t] \in Call, Forbidden(t)
  PROVE  Refused(t)
BY DEF BlockedReply, Forbidden, AlwaysBlocked, Refused, IsPrivateReverse, isBlocked


\* A handler whose question every policy blocks returns the refusal.
LEMMA BlockedReplyStep == IInv /\ BlockedReply /\ BlockedNeverResolved /\ [Next]_vars => BlockedReply'
<1> SUFFICES ASSUME IInv, BlockedReply, BlockedNeverResolved, [Next]_vars PROVE BlockedReply'
  OBVIOUS
<1> USE TaskFacts, NilAssumption DEF IInv, env, store, bgv, vars
<1>1. ASSUME NEW c \in Conn, HandleRequest(c) PROVE BlockedReply'
  BY <1>1 DEF HandleRequest, Goto, AlwaysBlocked, BlockedReply, Forbidden,
         TypeOK
<1>2. ASSUME NEW c \in Conn, WriteMsg(c) PROVE BlockedReply'
  BY <1>2 DEF WriteMsg, Goto, AlwaysBlocked, BlockedReply, Forbidden, TypeOK
<1>3. ASSUME NEW b \in Bg, RefreshDone(b) PROVE BlockedReply'
  BY <1>3 DEF RefreshDone, Goto, AlwaysBlocked, BlockedReply, Forbidden, TypeOK
<1>4. ASSUME NEW b \in Bg, PlanPrefetch(b) PROVE BlockedReply'
  BY <1>4 DEF PlanPrefetch, Goto, AlwaysBlocked, BlockedReply, Forbidden, TypeOK
<1>5. ASSUME NEW b \in Bg, PrefetchNext(b) PROVE BlockedReply'
  BY <1>5 DEF PrefetchNext, Goto, Claim, PrefetchCall, AlwaysBlocked,
         BlockedReply, Forbidden, TypeOK
<1>6. ASSUME NEW b \in Bg, PrefetchEnd(b) PROVE BlockedReply'
  BY <1>6 DEF PrefetchEnd, Goto, AlwaysBlocked, BlockedReply, Forbidden, TypeOK
<1>7. ASSUME NEW t \in Task, Check(t) PROVE BlockedReply'
  <2>1. call[t] \in Call /\ call' = call /\ blocked' = blocked
    BY <1>7 DEF Check, CallOK
  <2>2. \A u \in Task \ {t} : resp'[u] = resp[u] /\ pc'[u] = pc[u]
    BY <1>7 DEF Check, Return, Goto, TypeOK
  <2>3. Forbidden(t) => resp'[t].kind = "blocked"
    BY <1>7, <2>1, ForbiddenIsRefused DEF Check, Return, blockFQDN, NoAnswer, TypeOK
  <2>4. \A u \in Task : Forbidden(u)' <=> Forbidden(u)
    BY <2>1 DEF Forbidden, AlwaysBlocked
  <2> QED BY <2>1, <2>2, <2>3, <2>4 DEF BlockedReply
<1>8. ASSUME NEW t \in Task, Lookup(t) PROVE BlockedReply'
  BY <1>8 DEF Lookup, Goto, AlwaysBlocked, BlockedReply, Forbidden, TypeOK
<1>9. ASSUME NEW t \in Task, Touch(t) PROVE BlockedReply'
  <2>1. TouchEffect(t)
    BY <1>9, TouchFacts
  <2>2. /\ UNCHANGED <<blocked, resp, call>>
        /\ \A c \in Conn : pc'[c] = "return" => pc[c] = "return"
    BY <2>1 DEF TouchEffect, NothingElse, InTouch, InRecord
  <2> QED BY <2>2 DEF BlockedReply, Forbidden, AlwaysBlocked
<1>10. ASSUME NEW t \in Task, TouchEnd(t) PROVE BlockedReply'
  <2>1. pc[t] = "report" /\ Starts(t, "related", "check", RefreshCall(t), loc[t].obj)
    BY <1>10, TouchEndEffect
  <2>2. ~Forbidden(t)
    BY <1>10, <2>1 DEF BlockedNeverResolved, Forbidden, CallOK, InTouch, InRecord
  <2>3. blocked' = blocked /\ \A u \in Task \ {t} : resp'[u] = resp[u]
    BY <1>10, TouchEndEffect
  <2>4. \A c \in Conn : pc'[c] = "return" => call'[c] = call[c] /\ (c # t => pc[c] = "return")
    BY <2>1 DEF Starts
  <2>5. \A c \in Conn : pc'[c] = "return" => (Forbidden(c)' <=> Forbidden(c))
    BY <2>4 DEF Forbidden, AlwaysBlocked
  <2> QED BY <2>2, <2>3, <2>4, <2>5 DEF BlockedReply
<1>11. ASSUME NEW t \in Task, PrefetchOnHit(t) PROVE BlockedReply'
  <2>1. pc[t] = "related" /\ Starts(t, "copy", "plan", call[t], Nil)
    BY <1>11, PrefetchOnHitEffect
  <2>2. ~Forbidden(t)
    BY <1>11, <2>1 DEF BlockedNeverResolved, Forbidden, CallOK, InTouch, InRecord
  <2>3. blocked' = blocked /\ \A u \in Task \ {t} : resp'[u] = resp[u]
    BY <1>11, PrefetchOnHitEffect
  <2>4. \A c \in Conn : pc'[c] = "return" => call'[c] = call[c] /\ (c # t => pc[c] = "return")
    BY <2>1 DEF Starts
  <2>5. \A c \in Conn : pc'[c] = "return" => (Forbidden(c)' <=> Forbidden(c))
    BY <2>4 DEF Forbidden, AlwaysBlocked
  <2> QED BY <2>2, <2>3, <2>4, <2>5 DEF BlockedReply
<1>12. ASSUME NEW t \in Task, Copy(t) PROVE BlockedReply'
  <2>1. ~Forbidden(t) /\ call' = call /\ blocked' = blocked
    BY <1>12 DEF Copy, BlockedNeverResolved, Forbidden, CallOK, InTouch, InRecord
  <2>2. \A u \in Task \ {t} : resp'[u] = resp[u] /\ pc'[u] = pc[u]
    BY <1>12 DEF Copy, Return, Goto, TypeOK
  <2>3. \A u \in Task : Forbidden(u)' <=> Forbidden(u)
    BY <2>1 DEF Forbidden, AlwaysBlocked
  <2> QED BY <2>1, <2>2, <2>3 DEF BlockedReply
<1>13. ASSUME NEW t \in Task, Exchange(t) PROVE BlockedReply'
  <2>1. ~Forbidden(t) /\ call' = call /\ blocked' = blocked
    BY <1>13 DEF Exchange, BlockedNeverResolved, Forbidden, CallOK, InTouch, InRecord
  <2>2. \A u \in Task \ {t} : resp'[u] = resp[u] /\ pc'[u] = pc[u]
    BY <1>13 DEF Exchange, Replied, GetsNoReply, Return, Goto, TypeOK
  <2>3. \A u \in Task : Forbidden(u)' <=> Forbidden(u)
    BY <2>1 DEF Forbidden, AlwaysBlocked
  <2> QED BY <2>1, <2>2, <2>3 DEF BlockedReply
<1>14. ASSUME NEW t \in Task, Store(t) PROVE BlockedReply'
  <2>1. pc[t] = "store" /\ Starts(t, "return", "plan", call[t], Nil)
    BY <1>14, StoreStarts
  <2>2. ~Forbidden(t)
    BY <1>14, <2>1 DEF BlockedNeverResolved, Forbidden, CallOK, InTouch, InRecord
  <2>3. blocked' = blocked /\ \A u \in Task \ {t} : resp'[u] = resp[u]
    BY <1>14, StoreEffect
  <2>4. \A c \in Conn : pc'[c] = "return" => call'[c] = call[c] /\ (c # t => pc[c] = "return")
    BY <2>1 DEF Starts
  <2>5. \A c \in Conn : pc'[c] = "return" => (Forbidden(c)' <=> Forbidden(c))
    BY <2>4 DEF Forbidden, AlwaysBlocked
  <2> QED BY <2>2, <2>3, <2>4, <2>5 DEF BlockedReply
<1>15. ASSUME Tick PROVE BlockedReply'
  BY <1>15 DEF Tick, AlwaysBlocked, BlockedReply, Forbidden, TypeOK
<1>16. ASSUME PolicyChange PROVE BlockedReply'
  BY <1>16 DEF PolicyChange, BlockedReply, Forbidden, AlwaysBlocked
<1>17. ASSUME LoadQueryPatterns PROVE BlockedReply'
  BY <1>17 DEF LoadQueryPatterns, AlwaysBlocked, BlockedReply, Forbidden, TypeOK
<1>18. ASSUME NEW n \in Name, Evict(n) PROVE BlockedReply'
  BY <1>18 DEF Evict, AlwaysBlocked, BlockedReply, Forbidden, TypeOK
<1>19. ASSUME UNCHANGED vars PROVE BlockedReply'
  BY <1>19 DEF BlockedReply, Forbidden, TypeOK
<1> QED
  BY <1>1, <1>2, <1>3, <1>4, <1>5, <1>6, <1>7, <1>8, <1>9, <1>10,
     <1>11, <1>12, <1>13, <1>14, <1>15, <1>16, <1>17, <1>18, <1>19
     DEF Next, Process, Background, Environment

\* No step takes a blocked question to the cache or to an upstream.
LEMMA BlockedNeverResolvedStep == IInv /\ Unstarted /\ BlockedReply /\ BlockedNeverResolved /\ [Next]_vars => BlockedNeverResolved'
<1> SUFFICES ASSUME IInv, Unstarted, BlockedReply, BlockedNeverResolved, [Next]_vars PROVE BlockedNeverResolved'
  OBVIOUS
<1> USE TaskFacts, NilAssumption DEF IInv, env, store, bgv, vars
<1>1. ASSUME NEW c \in Conn, HandleRequest(c) PROVE BlockedNeverResolved'
  <2>1. sent[c] = Nil
    BY <1>1 DEF HandleRequest, Unstarted
  <2> QED BY <1>1, <2>1 DEF HandleRequest, Goto, BlockedNeverResolved, AlwaysBlocked, TypeOK
<1>2. ASSUME NEW c \in Conn, WriteMsg(c) PROVE BlockedNeverResolved'
  <2>1. pc[c] = "return" /\ call[c] \in Call /\ pc' = [pc EXCEPT ![c] = "done"] /\ call' = call
    BY <1>2 DEF WriteMsg, Goto, CallOK
  <2>2. sent'[c].kind = resp[c].kind /\ \A d \in Conn \ {c} : sent'[d] = sent[d]
    <3> DEFINE s == [kind |-> resp[c].kind, cached |-> resp[c].cached,
                     prefetched |-> resp[c].prefetched, forwarded |-> resp[c].forwarded,
                     msg |-> IF resp[c].ref = Nil THEN resp[c].msg
                             ELSE [name |-> resp[c].ref[2], id |-> heap[resp[c].ref].id,
                                   ttls |-> heap[resp[c].ref].ttls]]
    <3>1. sent' = [sent EXCEPT ![c] = s]
      BY <1>2 DEF WriteMsg
    <3>2. s.kind = resp[c].kind
      OBVIOUS
    <3> HIDE DEF s
    <3> QED BY <3>1, <3>2 DEF TypeOK
  <2>3. Forbidden(c) => sent'[c].kind = "blocked"
    BY <2>1, <2>2 DEF BlockedReply
  <2> QED BY <2>1, <2>2, <2>3 DEF BlockedNeverResolved, Forbidden, AlwaysBlocked, TypeOK
<1>3. ASSUME NEW b \in Bg, RefreshDone(b) PROVE BlockedNeverResolved'
  BY <1>3 DEF RefreshDone, Goto, BlockedNeverResolved, AlwaysBlocked, TypeOK
<1>4. ASSUME NEW b \in Bg, PlanPrefetch(b) PROVE BlockedNeverResolved'
  BY <1>4 DEF PlanPrefetch, Goto, BlockedNeverResolved, AlwaysBlocked, TypeOK
<1>5. ASSUME NEW b \in Bg, PrefetchNext(b) PROVE BlockedNeverResolved'
  BY <1>5 DEF PrefetchNext, Goto, Claim, PrefetchCall, BlockedNeverResolved,
         AlwaysBlocked, TypeOK
<1>6. ASSUME NEW b \in Bg, PrefetchEnd(b) PROVE BlockedNeverResolved'
  BY <1>6 DEF PrefetchEnd, Goto, BlockedNeverResolved, AlwaysBlocked, TypeOK
<1>7. ASSUME NEW t \in Task, Check(t) PROVE BlockedNeverResolved'
  <2>1. call[t] \in Call /\ UNCHANGED <<call, sent>>
    BY <1>7 DEF Check, CallOK
  <2>2. \A u \in Task \ {t} : pc'[u] = pc[u]
    BY <1>7 DEF Check, Return, Goto, TypeOK
  <2>3. Forbidden(t) => pc'[t] = "return"
    BY <1>7, <2>1, ForbiddenIsRefused DEF Check, Return, Goto, TypeOK
  <2>4. pc[t] = "check"
    BY <1>7 DEF Check
  <2> QED BY <2>1, <2>2, <2>3, <2>4 DEF BlockedNeverResolved, Forbidden, AlwaysBlocked
<1>8. ASSUME NEW t \in Task, Lookup(t) PROVE BlockedNeverResolved'
  BY <1>8 DEF Lookup, Goto, BlockedNeverResolved, AlwaysBlocked, TypeOK
<1>9. ASSUME NEW t \in Task, Touch(t) PROVE BlockedNeverResolved'
  <2>1. TouchEffect(t)
    BY <1>9, TouchFacts
  <2>2. /\ UNCHANGED <<call, sent>>
        /\ \A u \in Task : pc[u] \in {"check", "return", "plan", "next", "done"} => pc'[u] = pc[u]
    BY <2>1 DEF TouchEffect, NothingElse, InTouch, InRecord
  <2> QED BY <2>2 DEF BlockedNeverResolved, AlwaysBlocked
<1>10. ASSUME NEW t \in Task, TouchEnd(t) PROVE BlockedNeverResolved'
  <2>1. pc[t] = "report" /\ Starts(t, "related", "check", RefreshCall(t), loc[t].obj)
    BY <1>10, TouchEndEffect
  <2>2. sent' = sent
    BY <1>10, TouchEndEffect
  <2>3. call[t] \in Call /\ ~Forbidden(t)
    BY <1>10, <2>1 DEF BlockedNeverResolved, Forbidden, CallOK, InTouch, InRecord
  <2>4. /\ \A u \in Task : \/ pc'[u] = pc[u] /\ call'[u] = call[u]
                           \/ u = t /\ call'[u] = call[u]
                           \/ u \in Bg /\ pc'[u] \in {"check", "plan"}
    BY <2>1 DEF Starts
  <2>5. \A c \in Conn : \A b \in Bg : c # b
    OBVIOUS
  <2> HIDE DEF env, store, bgv, vars
  <2> QED BY <2>2, <2>3, <2>4, <2>5 DEF BlockedNeverResolved, Forbidden, AlwaysBlocked
<1>11. ASSUME NEW t \in Task, PrefetchOnHit(t) PROVE BlockedNeverResolved'
  <2>1. pc[t] = "related" /\ Starts(t, "copy", "plan", call[t], Nil)
    BY <1>11, PrefetchOnHitEffect
  <2>2. sent' = sent
    BY <1>11, PrefetchOnHitEffect
  <2>3. call[t] \in Call /\ ~Forbidden(t)
    BY <1>11, <2>1 DEF BlockedNeverResolved, Forbidden, CallOK, InTouch, InRecord
  <2>4. /\ \A u \in Task : \/ pc'[u] = pc[u] /\ call'[u] = call[u]
                           \/ u = t /\ call'[u] = call[u]
                           \/ u \in Bg /\ pc'[u] \in {"check", "plan"}
    BY <2>1 DEF Starts
  <2>5. \A c \in Conn : \A b \in Bg : c # b
    OBVIOUS
  <2> HIDE DEF env, store, bgv, vars
  <2> QED BY <2>2, <2>3, <2>4, <2>5 DEF BlockedNeverResolved, Forbidden, AlwaysBlocked
<1>12. ASSUME NEW t \in Task, Copy(t) PROVE BlockedNeverResolved'
  BY <1>12 DEF Copy, Goto, Return, BlockedNeverResolved, AlwaysBlocked, TypeOK
<1>13. ASSUME NEW t \in Task, Exchange(t) PROVE BlockedNeverResolved'
  BY SMTT(30), <1>13 DEF Exchange, Replied, GetsNoReply, Goto, Return, NoAnswer,
         BlockedNeverResolved, AlwaysBlocked, TypeOK
<1>14. ASSUME NEW t \in Task, Store(t) PROVE BlockedNeverResolved'
  <2>1. pc[t] = "store" /\ Starts(t, "return", "plan", call[t], Nil)
    BY <1>14, StoreStarts
  <2>2. sent' = sent
    BY <1>14, StoreEffect
  <2>3. call[t] \in Call /\ ~Forbidden(t)
    BY <1>14, <2>1 DEF BlockedNeverResolved, Forbidden, CallOK, InTouch, InRecord
  <2>4. /\ \A u \in Task : \/ pc'[u] = pc[u] /\ call'[u] = call[u]
                           \/ u = t /\ call'[u] = call[u]
                           \/ u \in Bg /\ pc'[u] \in {"check", "plan"}
    BY <2>1 DEF Starts
  <2>5. \A c \in Conn : \A b \in Bg : c # b
    OBVIOUS
  <2> HIDE DEF env, store, bgv, vars
  <2> QED BY <2>2, <2>3, <2>4, <2>5 DEF BlockedNeverResolved, Forbidden, AlwaysBlocked
<1>15. ASSUME Tick PROVE BlockedNeverResolved'
  BY <1>15 DEF Tick, BlockedNeverResolved, AlwaysBlocked, TypeOK
<1>16. ASSUME PolicyChange PROVE BlockedNeverResolved'
  BY <1>16 DEF PolicyChange, BlockedNeverResolved, AlwaysBlocked, TypeOK
<1>17. ASSUME LoadQueryPatterns PROVE BlockedNeverResolved'
  BY <1>17 DEF LoadQueryPatterns, BlockedNeverResolved, AlwaysBlocked, TypeOK
<1>18. ASSUME NEW n \in Name, Evict(n) PROVE BlockedNeverResolved'
  BY <1>18 DEF Evict, BlockedNeverResolved, AlwaysBlocked, TypeOK
<1>19. ASSUME UNCHANGED vars PROVE BlockedNeverResolved'
  BY <1>19 DEF BlockedNeverResolved, AlwaysBlocked, TypeOK
<1> QED
  BY <1>1, <1>2, <1>3, <1>4, <1>5, <1>6, <1>7, <1>8, <1>9, <1>10,
     <1>11, <1>12, <1>13, <1>14, <1>15, <1>16, <1>17, <1>18, <1>19
     DEF Next, Process, Background, Environment

\* What every policy blocks for a client, and a private reverse lookup, is never
\* taken to the cache or to an upstream on behalf of that client, not by its query,
\* by a refresh or by a prefetch, whatever the policy changes in between.
THEOREM BlockedIsNeverResolved == Spec => []BlockedNeverResolved
<1>1. Init => BlockedReply /\ BlockedNeverResolved
  BY TaskFacts DEF Init, BlockedReply, BlockedNeverResolved
<1>2. Spec => [](BlockedReply /\ BlockedNeverResolved)
  BY <1>1, BlockedReplyStep, BlockedNeverResolvedStep, UnstartedInvariance,
     Invariance, PTL DEF Spec
<1> QED BY <1>2, PTL

-----------------------------------------------------------------------------
(* An entry never turns stale unnoticed. *)

\* Stale is never cleared.
LEMMA SeenStaleStep == IInv /\ Unborn /\ SeenStale /\ [Next]_vars => SeenStale'
<1> SUFFICES ASSUME IInv, Unborn, SeenStale, [Next]_vars PROVE SeenStale'
  OBVIOUS
<1> USE TaskFacts, NilAssumption DEF IInv, env, store, bgv, vars
<1>1. ASSUME NEW c \in Conn, HandleRequest(c) PROVE SeenStale'
  BY <1>1 DEF HandleRequest, Goto, SeenStale, HasLooked, InTouch, InRecord, TypeOK
<1>2. ASSUME NEW c \in Conn, WriteMsg(c) PROVE SeenStale'
  BY <1>2 DEF WriteMsg, Goto, SeenStale, HasLooked, InTouch, InRecord, TypeOK
<1>3. ASSUME NEW b \in Bg, RefreshDone(b) PROVE SeenStale'
  BY <1>3 DEF RefreshDone, Goto, SeenStale, HasLooked, InTouch, InRecord, TypeOK
<1>4. ASSUME NEW b \in Bg, PlanPrefetch(b) PROVE SeenStale'
  BY <1>4 DEF PlanPrefetch, Goto, SeenStale, HasLooked, InTouch, InRecord, TypeOK
<1>5. ASSUME NEW b \in Bg, PrefetchNext(b) PROVE SeenStale'
  BY <1>5 DEF PrefetchNext, Goto, Claim, PrefetchCall, SeenStale, HasLooked, InTouch, InRecord, TypeOK
<1>6. ASSUME NEW b \in Bg, PrefetchEnd(b) PROVE SeenStale'
  BY <1>6 DEF PrefetchEnd, Goto, SeenStale, HasLooked, InTouch, InRecord, TypeOK
<1>7. ASSUME NEW t \in Task, Check(t) PROVE SeenStale'
  BY <1>7 DEF Check, Goto, Return, blockFQDN, NoAnswer, SeenStale, HasLooked, InTouch, InRecord, TypeOK
<1>8. ASSUME NEW t \in Task, Lookup(t) PROVE SeenStale'
  <2>1. heap' = heap /\ \A u \in Task \ {t} : loc'[u] = loc[u] /\ pc'[u] = pc[u]
    BY <1>8 DEF Lookup, Goto, TypeOK
  <2>2. pc'[t] \notin HasLooked
    BY <1>8 DEF Lookup, Goto, TypeOK, HasLooked, InTouch, InRecord
  <2> QED BY <2>1, <2>2 DEF SeenStale
<1>9. ASSUME NEW t \in Task, Touch(t) PROVE SeenStale'
  <2>1. TouchEffect(t)
    BY <1>9, TouchFacts
  <2>2. \A p \in Obj : heap[p].stale => heap'[p].stale
    BY <2>1 DEF TouchEffect, Kept
  <2>3. \A u \in Task : pc[u] \in HasLooked => loc[u].obj \in Obj
    BY DEF TouchOK, Touching, HasLooked
  <2>4. \A u \in Task \ {t} : pc'[u] = pc[u] /\ loc'[u] = loc[u]
    BY <2>1 DEF TouchEffect
  <2>5. /\ loc[t].obj \in Obj /\ loc'[t].obj = loc[t].obj
        /\ pc[t] \in HasLooked => loc'[t].wasStale = loc[t].wasStale
        /\ pc[t] \notin HasLooked /\ pc'[t] \in HasLooked => loc'[t].wasStale = heap[loc[t].obj].stale
    BY <2>1 DEF TouchEffect, LocalsKept
  <2> QED BY <2>2, <2>3, <2>4, <2>5 DEF SeenStale
<1>10. ASSUME NEW t \in Task, TouchEnd(t) PROVE SeenStale'
  <2>1. pc[t] = "report" /\ Starts(t, "related", "check", RefreshCall(t), loc[t].obj)
    BY <1>10, TouchEndEffect
  <2>2. UNCHANGED <<heap, loc>>
    BY <1>10, TouchEndEffect
  <2>3. \A u \in Task : pc'[u] \in HasLooked => pc'[u] = pc[u]
    BY <2>1 DEF Starts, HasLooked, InTouch, InRecord
  <2> QED BY <2>2, <2>3 DEF SeenStale
<1>11. ASSUME NEW t \in Task, PrefetchOnHit(t) PROVE SeenStale'
  <2>1. pc[t] = "related" /\ Starts(t, "copy", "plan", call[t], Nil)
    BY <1>11, PrefetchOnHitEffect
  <2>2. UNCHANGED <<heap, loc>>
    BY <1>11, PrefetchOnHitEffect DEF store
  <2>4. \A u \in Task : pc'[u] \in HasLooked => pc'[u] = pc[u]
    BY <2>1 DEF Starts, HasLooked, InTouch, InRecord
  <2> QED BY <2>2, <2>4 DEF SeenStale
<1>12. ASSUME NEW t \in Task, Copy(t) PROVE SeenStale'
  BY <1>12 DEF Copy, Goto, Return, SeenStale, HasLooked, InTouch, InRecord, TypeOK
<1>13. ASSUME NEW t \in Task, Exchange(t) PROVE SeenStale'
  BY <1>13 DEF Exchange, Replied, GetsNoReply, Goto, Return, NoAnswer,
         SeenStale, HasLooked, InTouch, InRecord, TypeOK
<1>14. ASSUME NEW t \in Task, Store(t) PROVE SeenStale'
  <2>1. pc[t] = "store" /\ Starts(t, "return", "plan", call[t], Nil)
    BY <1>14, StoreStarts
  <2>2. /\ \A p \in Obj : p # <<t, call[t].name>> => heap'[p] = heap[p]
        /\ \A u \in Task \ {t} : loc'[u] = loc[u]
    BY <1>14, StoreEffect
  <2>3. heap[<<t, call[t].name>>] = Nil
    BY <2>1 DEF Unborn, Before
  <2>4. \A u \in Task : pc'[u] \in HasLooked => pc'[u] = pc[u] /\ u # t
    BY <2>1 DEF Starts, HasLooked, InTouch, InRecord
  <2>5. \A u \in Task : pc[u] \in HasLooked =>
          loc[u].obj \in Obj /\ heap[loc[u].obj] # Nil
    BY DEF TouchOK, Touching, HasLooked
  <2> QED BY <2>2, <2>3, <2>4, <2>5 DEF SeenStale
<1>15. ASSUME Tick PROVE SeenStale'
  BY <1>15 DEF Tick, SeenStale, HasLooked, InTouch, InRecord, TypeOK
<1>16. ASSUME PolicyChange PROVE SeenStale'
  BY <1>16 DEF PolicyChange, SeenStale, HasLooked, InTouch, InRecord, TypeOK
<1>17. ASSUME LoadQueryPatterns PROVE SeenStale'
  BY <1>17 DEF LoadQueryPatterns, SeenStale, HasLooked, InTouch, InRecord, TypeOK
<1>18. ASSUME NEW n \in Name, Evict(n) PROVE SeenStale'
  BY <1>18 DEF Evict, SeenStale, HasLooked, InTouch, InRecord, TypeOK
<1>19. ASSUME UNCHANGED vars PROVE SeenStale'
  BY <1>19 DEF SeenStale, HasLooked, InTouch, InRecord, TypeOK
<1> QED
  BY <1>1, <1>2, <1>3, <1>4, <1>5, <1>6, <1>7, <1>8, <1>9, <1>10,
     <1>11, <1>12, <1>13, <1>14, <1>15, <1>16, <1>17, <1>18, <1>19
     DEF Next, Process, Background, Environment

\* Whoever makes an entry stale is the one, or is followed by the one, that refreshes it.
LEMMA StaleHasRefresherStep == IInv /\ Unstarted /\ SeenStale /\ StaleHasRefresher /\ [Next]_vars => StaleHasRefresher'
<1> SUFFICES ASSUME IInv, Unstarted, SeenStale, StaleHasRefresher, [Next]_vars PROVE StaleHasRefresher'
  OBVIOUS
<1> USE TaskFacts, NilAssumption DEF IInv, env, store, bgv, vars
<1>1. ASSUME NEW c \in Conn, HandleRequest(c) PROVE StaleHasRefresher'
  BY <1>1 DEF HandleRequest, Goto, StaleHasRefresher, SawFresh, HasLooked, InTouch, InRecord, TypeOK
<1>2. ASSUME NEW c \in Conn, WriteMsg(c) PROVE StaleHasRefresher'
  BY <1>2 DEF WriteMsg, Goto, StaleHasRefresher, SawFresh, HasLooked, InTouch, InRecord, TypeOK
<1>3. ASSUME NEW b \in Bg, RefreshDone(b) PROVE StaleHasRefresher'
  BY <1>3 DEF RefreshDone, Goto, StaleHasRefresher, SawFresh, HasLooked, InTouch, InRecord, TypeOK
<1>4. ASSUME NEW b \in Bg, PlanPrefetch(b) PROVE StaleHasRefresher'
  BY <1>4 DEF PlanPrefetch, Goto, StaleHasRefresher, SawFresh, HasLooked, InTouch, InRecord, TypeOK
<1>5. ASSUME NEW b \in Bg, PrefetchNext(b) PROVE StaleHasRefresher'
  BY <1>5 DEF PrefetchNext, Goto, Claim, PrefetchCall, StaleHasRefresher, SawFresh, HasLooked, InTouch, InRecord, TypeOK
<1>6. ASSUME NEW b \in Bg, PrefetchEnd(b) PROVE StaleHasRefresher'
  <2>1. UNCHANGED <<heap, loc, cause>>
    BY <1>6 DEF PrefetchEnd
  <2>2. /\ pc[b] \notin HasLooked
        /\ \A u \in Task \ {b} : pc'[u] = pc[u]
    BY <1>6 DEF PrefetchEnd, Goto, HasLooked, InTouch, InRecord, TypeOK
  <2> QED BY <2>1, <2>2 DEF StaleHasRefresher, SawFresh
<1>7. ASSUME NEW t \in Task, Check(t) PROVE StaleHasRefresher'
  BY <1>7 DEF Check, Goto, Return, blockFQDN, NoAnswer, StaleHasRefresher,
         SawFresh, HasLooked, InTouch, InRecord, TypeOK
<1>8. ASSUME NEW t \in Task, Lookup(t) PROVE StaleHasRefresher'
  <2>1. UNCHANGED <<heap, cause>> /\ \A u \in Task \ {t} : loc'[u] = loc[u] /\ pc'[u] = pc[u]
    BY <1>8 DEF Lookup, Goto, TypeOK
  <2>2. pc[t] \notin HasLooked
    BY <1>8 DEF Lookup, HasLooked, InTouch, InRecord
  <2> QED BY <2>1, <2>2 DEF StaleHasRefresher, SawFresh
<1>9. ASSUME NEW t \in Task, Touch(t) PROVE StaleHasRefresher'
  <2>1. TouchEffect(t)
    BY <1>9, TouchFacts
  <2>2. cause' = cause
    BY <2>1 DEF TouchEffect, NothingElse, bgv
  <2>3. \A p \in Obj : heap'[p] # Nil => heap[p] # Nil
    BY <2>1 DEF TouchEffect, Kept
  <2>4. \A p \in Obj, u \in Task : SawFresh(u, p) => SawFresh(u, p)'
    BY <2>1 DEF TouchEffect, LocalsKept, SawFresh, HasLooked
  <2>5. \A p \in Obj : heap'[p].stale /\ ~heap[p].stale =>
          p = loc[t].obj /\ SawFresh(t, p)'
    <3>1. \A p \in Obj : p # loc[t].obj => heap'[p] = heap[p]
      BY <2>1 DEF TouchEffect
    <3>2. heap'[loc[t].obj].stale /\ ~heap[loc[t].obj].stale =>
            pc[t] \in HasLooked /\ ~loc[t].wasStale
      BY <2>1 DEF TouchEffect, LocalsKept, SeenStale
    <3> QED BY <2>4, <3>1, <3>2 DEF SawFresh
  <2> QED BY <2>2, <2>3, <2>4, <2>5 DEF StaleHasRefresher
<1>10. ASSUME NEW t \in Task, TouchEnd(t) PROVE StaleHasRefresher'
  <2>1. pc[t] = "report" /\ Starts(t, "related", "check", RefreshCall(t), loc[t].obj)
    BY <1>10, TouchEndEffect
  <2>2. /\ UNCHANGED <<heap, loc>> /\ loc[t].obj \in Obj
        /\ TurnedStale(t) => \E b \in Bg : cause'[b] = loc[t].obj
    BY <1>10, TouchEndEffect
  <2>3. \A b \in Bg : cause[b] # Nil => cause'[b] = cause[b]
    <3>1. \A b \in Bg : pc[b] = "idle" => cause[b] = Nil
      BY DEF Unstarted
    <3> QED BY <2>1, <3>1 DEF Starts
  <2>4. \A u \in Task \ {t} : pc[u] \in HasLooked => pc'[u] = pc[u]
    BY <2>1 DEF Starts, HasLooked, InTouch, InRecord
  <2>5. \A p \in Obj, u \in Task \ {t} : SawFresh(u, p) => SawFresh(u, p)'
    BY <2>2, <2>4 DEF SawFresh
  <2>6. \A p \in Obj : SawFresh(t, p) /\ heap[p].stale => \E b \in Bg : cause'[b] = p
    BY <2>2 DEF SawFresh, TurnedStale
  <2> QED BY <2>2, <2>3, <2>5, <2>6 DEF StaleHasRefresher
<1>11. ASSUME NEW t \in Task, PrefetchOnHit(t) PROVE StaleHasRefresher'
  <2>1. pc[t] = "related" /\ Starts(t, "copy", "plan", call[t], Nil)
    BY <1>11, PrefetchOnHitEffect
  <2>2. UNCHANGED <<heap, loc, cause>>
    BY <1>11, PrefetchOnHitEffect DEF store, bgv
  <2>5. \A u \in Task : pc[u] \in HasLooked => pc'[u] = pc[u]
    BY <2>1 DEF Starts, HasLooked, InTouch, InRecord
  <2> QED BY <2>2, <2>5 DEF StaleHasRefresher, SawFresh
<1>12. ASSUME NEW t \in Task, Copy(t) PROVE StaleHasRefresher'
  BY <1>12 DEF Copy, Goto, Return, StaleHasRefresher, SawFresh, HasLooked, InTouch, InRecord, TypeOK
<1>13. ASSUME NEW t \in Task, Exchange(t) PROVE StaleHasRefresher'
  <2>1. UNCHANGED <<heap, cause>> /\ pc[t] \notin HasLooked
    BY <1>13 DEF Exchange, HasLooked, InTouch, InRecord
  <2>2. \A u \in Task \ {t} : pc'[u] = pc[u] /\ loc'[u] = loc[u]
    BY <1>13 DEF Exchange, Replied, GetsNoReply, Goto, Return, TypeOK
  <2> QED BY <2>1, <2>2 DEF StaleHasRefresher, SawFresh
<1>14. ASSUME NEW t \in Task, Store(t) PROVE StaleHasRefresher'
  <2>1. pc[t] = "store" /\ Starts(t, "return", "plan", call[t], Nil)
    BY <1>14, StoreStarts
  <2>2. /\ cause' = cause /\ ~heap'[<<t, call[t].name>>].stale
        /\ \A p \in Obj : p # <<t, call[t].name>> => heap'[p] = heap[p]
        /\ \A u \in Task \ {t} : loc'[u] = loc[u]
    BY <1>14, StoreEffect DEF bgv
  <2>5. \A u \in Task : pc[u] \in HasLooked => pc'[u] = pc[u] /\ u # t
    BY <2>1 DEF Starts, HasLooked, InTouch, InRecord
  <2> QED BY <2>2, <2>5 DEF StaleHasRefresher, SawFresh
<1>15. ASSUME Tick PROVE StaleHasRefresher'
  BY <1>15 DEF Tick, StaleHasRefresher, SawFresh, HasLooked, InTouch, InRecord, TypeOK
<1>16. ASSUME PolicyChange PROVE StaleHasRefresher'
  BY <1>16 DEF PolicyChange, StaleHasRefresher, SawFresh, HasLooked, InTouch, InRecord, TypeOK
<1>17. ASSUME LoadQueryPatterns PROVE StaleHasRefresher'
  BY <1>17 DEF LoadQueryPatterns, StaleHasRefresher, SawFresh, HasLooked, InTouch, InRecord, TypeOK
<1>18. ASSUME NEW n \in Name, Evict(n) PROVE StaleHasRefresher'
  BY <1>18 DEF Evict, StaleHasRefresher, SawFresh, HasLooked, InTouch, InRecord, TypeOK
<1>19. ASSUME UNCHANGED vars PROVE StaleHasRefresher'
  BY <1>19 DEF StaleHasRefresher, SawFresh, HasLooked, InTouch, InRecord, TypeOK
<1> QED
  BY <1>1, <1>2, <1>3, <1>4, <1>5, <1>6, <1>7, <1>8, <1>9, <1>10,
     <1>11, <1>12, <1>13, <1>14, <1>15, <1>16, <1>17, <1>18, <1>19
     DEF Next, Process, Background, Environment

\* An entry never turns stale unnoticed: however the unsynchronised touches of the
\* goroutines that share it interleave, a refresh of it was started, or one of them
\* is about to start it.
THEOREM StaleIsNoticed == Spec => []StaleHasRefresher
<1>1. Init => SeenStale /\ StaleHasRefresher
  BY TaskFacts DEF Init, SeenStale, HasLooked, InTouch, InRecord, StaleHasRefresher, Obj
<1>2. Spec => []SeenStale
  BY <1>1, UnbornInvariance, SeenStaleStep, Invariance, PTL DEF Spec
<1> QED BY <1>1, <1>2, StaleHasRefresherStep, UnstartedInvariance, Invariance, PTL DEF Spec

=============================================================================
