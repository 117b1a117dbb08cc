--------------------------- MODULE ResolverProofs ---------------------------
(* Theorems about Resolver, for every value of its constants. *)
EXTENDS Resolver, FiniteSetTheorems, SequenceTheorems, TLAPS

Touching == InTouch \cup {"related", "copy"}

\* A goroutine that has started has arguments.
CallOK == \A t \in Task : pc[t] # "idle" => call[t] \in Call

\* The pointers a goroutine follows are not null, and a record it looks at exists.
TouchOK ==
  /\ \A t \in Task : pc[t] \in Touching =>
       loc[t].obj \in Obj /\ heap[loc[t].obj] \in Cached
  /\ \A t \in Task : pc[t] \in InRecord =>
       loc[t].i \in DOMAIN heap[loc[t].obj].ttls

\* A response shares an object that exists, and a handler that returns has one.
RespOK ==
  /\ \A t \in Task : (resp[t] # Nil /\ resp[t].ref # Nil) => heap[resp[t].ref] \in Cached
  /\ \A c \in Conn : pc[c] = "return" => resp[c] \in Response

\* An entry of the cache is an object created for the question it is found under.
CacheOK ==
  \A n \in Name : cache[n] # Nil =>
    heap[cache[n].obj] \in Cached /\ cache[n].obj[2] = n

IInv == TypeOK /\ CallOK /\ TouchOK /\ RespOK /\ CacheOK

\* A goroutine that has not started has no arguments, and only a refresh has a
\* cause; a query that was answered is over.
Unstarted ==
  /\ \A t \in Task : pc[t] = "idle" => call[t] = Nil
  /\ \A b \in Bg : pc[b] = "idle" => cause[b] = Nil /\ todo[b] = {}
  /\ \A c \in Conn : sent[c] # Nil => pc[c] = "done"

\* A goroutine allocates at most one object per question: what it has not
\* reached yet is not allocated.
Before == {"check", "lookup", "exchange", "store"} \cup Touching

Unborn ==
  /\ \A t \in Task : pc[t] \in {"idle", "plan"} => \A n \in Name : heap[<<t, n>>] = Nil
  /\ \A t \in Task : pc[t] \in Before => heap[<<t, call[t].name>>] = Nil
  /\ \A b \in Bg : \A n \in todo[b] :
       heap[<<b, n>>] = Nil /\ (pc[b] \in Before => n # call[b].name)

-----------------------------------------------------------------------------
(* Lemmas about the helpers. *)

\* The larger of two numbers is one of them (max(cacheTtl, serveStaleFor) in resolve).
LEMMA MaxOfTwo ==
  ASSUME NEW x \in Nat, NEW y \in Nat
  PROVE  Max({x, y}) \in {x, y}
BY DEF Max

\* A non-empty set of TTLs has a smallest one, even an infinite set: Nat is
\* well founded (minAnswerTtl takes such a minimum).
LEMMA MinOfNats ==
  ASSUME NEW S \in SUBSET Nat, S # {}
  PROVE  Min(S) \in S

\* Strict inclusion of the initial segments 0..n is well founded.
<1> DEFINE Segments == {0..n : n \in S}
<1>1. Segments \subseteq FiniteSubsetsOf(Nat) /\ Segments # {}
  <2>1. \A n \in S : IsFiniteSet(0..n) /\ 0..n \subseteq Nat
    BY FS_Interval
  <2> QED BY <2>1 DEF FiniteSubsetsOf
<1>2. PICK seg \in Segments : \A other \in Segments : <<other, seg>> \notin StrictSubsetOrdering(Nat)
  BY <1>1, FS_StrictSubsetOrderingWellFounded, WFMin
<1>3. PICK x \in S : seg = 0..x
  OBVIOUS
<1>4. ASSUME NEW y \in S, y < x PROVE FALSE
  <2>1. 0..y \in Segments /\ 0..y \subseteq seg /\ 0..y # seg
    <3>1. x \in seg /\ x \notin 0..y
      BY <1>3, <1>4
    <3> QED BY <1>3, <1>4, <3>1
  <2>2. 0..y \in SUBSET Nat /\ seg \in SUBSET Nat
    BY <1>3
  <2>3. <<0..y, seg>> \in StrictSubsetOrdering(Nat)
    BY <2>1, <2>2, Zenon DEF StrictSubsetOrdering
  <2> HIDE DEF Segments
  <2> QED BY <1>2, <2>1, <2>3
<1>5. \A y \in S : x <= y
  BY <1>4
<1> QED BY <1>5 DEF Min

\* Whole seconds of a number of ticks are a natural number (reduceTtl's elapsed).
LEMMA DivisionInNat ==
  ASSUME NEW a \in Nat, NEW d \in Nat \ {0}
  PROVE  a \div d \in Nat
BY SMT

\* What a uint32 holds after a subtraction is a natural number.
LEMMA WrappedInNat ==
  ASSUME NEW a \in Int, NEW d \in Nat \ {0}
  PROVE  a % d \in Nat
BY SMT

\* The lifetime resolve() gives a cache entry is a natural number.
LEMMA CacheTtlType ==
  ASSUME NEW ttls \in Seq(Nat)
  PROVE  cacheTtl(ttls) \in Nat
<1> DEFINE S == {MaxUint32} \cup {ttls[i] : i \in {j \in DOMAIN ttls : ttls[j] # 0}}
<1>1. S \in SUBSET Nat /\ S # {}
  BY ResolverAssumption
<1>2. minAnswerTtl(ttls) \in Nat
  BY <1>1, MinOfNats DEF minAnswerTtl
<1> QED BY <1>2, MaxOfTwo, ResolverAssumption DEF cacheTtl

\* Handler goroutines and background goroutines are different goroutines.
LEMMA TaskFacts ==
  /\ Conn \subseteq Task /\ Bg \subseteq Task
  /\ \A c \in Conn, b \in Bg : c # b
BY ResolverAssumption DEF Task, Bg

-----------------------------------------------------------------------------
(* What the accesses of touch have in common. *)

\* What an access can do to the object: it keeps what the object was created with,
\* the number of its records, and Stale once it is set.
Kept(old, new) ==
  /\ old \in Cached /\ new \in Cached
  /\ DOMAIN new.ttls = DOMAIN old.ttls
  /\ new.ttl0 = old.ttl0 /\ new.born = old.born
  /\ new.prefetched = old.prefetched /\ new.id = old.id
  /\ old.stale => new.stale

\* What it can do to the locals of the goroutine: wasStale is set once, to the Stale
\* of then, and only a goroutine that has it sets Stale.
LocalsKept(t, o, place, l, new) ==
  /\ l.obj = o
  /\ place \in InRecord => l.i \in DOMAIN heap[o].ttls
  /\ pc[t] \in HasLooked => place \in HasLooked /\ l.wasStale = loc[t].wasStale
  /\ pc[t] \notin HasLooked /\ place \in HasLooked => l.wasStale = heap[o].stale
  /\ new.stale /\ ~heap[o].stale => pc[t] \in HasLooked

TouchEffect(t) ==
  /\ pc[t] \in InTouch /\ pc'[t] \in InTouch
  /\ pc' \in [Task -> Place] /\ loc' \in [Task -> Local]
  /\ \A u \in Task \ {t} : pc'[u] = pc[u] /\ loc'[u] = loc[u]
  /\ loc[t].obj \in Obj
  /\ loc'[t].obj = loc[t].obj
  /\ pc'[t] \in InRecord => loc'[t].i \in DOMAIN heap[loc[t].obj].ttls
  /\ LocalsKept(t, loc[t].obj, pc'[t], loc'[t], heap'[loc[t].obj])
  /\ heap' \in [Obj -> Cached \cup {Nil}]
  /\ \A p \in Obj : p # loc[t].obj => heap'[p] = heap[p]
  /\ Kept(heap[loc[t].obj], heap'[loc[t].obj])
  /\ NothingElse

\* A goroutine that goes on at `place` with locals l and leaves the object as `new`.
Becomes(t, place, l, new) ==
  /\ pc' = [pc EXCEPT ![t] = place]
  /\ loc' = [loc EXCEPT ![t] = l]
  /\ heap' = [heap EXCEPT ![loc[t].obj] = new]

\* Such a step has the effect of an access if its outcome is a legal one.
LEMMA Becoming ==
  ASSUME IInv, NEW t \in Task, pc[t] \in InTouch,
         NEW place \in InTouch, NEW l \in Local, NEW new \in Cached,
         Becomes(t, place, l, new), NothingElse,
         LocalsKept(t, loc[t].obj, place, l, new), Kept(heap[loc[t].obj], new)
  PROVE  TouchEffect(t)
<1>1. /\ pc \in [Task -> Place] /\ loc \in [Task -> Local]
      /\ heap \in [Obj -> Cached \cup {Nil}] /\ loc[t].obj \in Obj
  BY DEF IInv, TypeOK, TouchOK, Touching
<1>2. /\ pc'[t] = place /\ loc'[t] = l /\ heap'[loc[t].obj] = new
      /\ \A u \in Task \ {t} : pc'[u] = pc[u] /\ loc'[u] = loc[u]
      /\ \A p \in Obj : p # loc[t].obj => heap'[p] = heap[p]
  BY <1>1 DEF Becomes
<1>3. pc' \in [Task -> Place] /\ loc' \in [Task -> Local] /\ heap' \in [Obj -> Cached \cup {Nil}]
  BY <1>1 DEF Becomes, Place
<1>4. l.obj = loc[t].obj /\ (place \in InRecord => l.i \in DOMAIN heap[loc[t].obj].ttls)
  BY DEF LocalsKept
<1> QED BY <1>1, <1>2, <1>3, <1>4 DEF TouchEffect

\* What a goroutine inside touch holds.
LEMMA InsideTouch ==
  ASSUME IInv, NEW t \in Task, pc[t] \in InTouch
  PROVE  /\ loc[t] \in Local /\ loc[t].obj \in Obj /\ heap[loc[t].obj] \in Cached
         /\ pc[t] \in InRecord => loc[t].i \in DOMAIN heap[loc[t].obj].ttls
         /\ Kept(heap[loc[t].obj], heap[loc[t].obj])
         /\ [loc EXCEPT ![t] = loc[t]] = loc
         /\ [heap EXCEPT ![loc[t].obj] = heap[loc[t].obj]] = heap
<1>1. /\ loc \in [Task -> Local] /\ heap \in [Obj -> Cached \cup {Nil}]
      /\ loc[t].obj \in Obj /\ heap[loc[t].obj] \in Cached
      /\ pc[t] \in InRecord => loc[t].i \in DOMAIN heap[loc[t].obj].ttls
  BY DEF IInv, TypeOK, TouchOK, Touching
<1> QED BY <1>1 DEF Kept

\* The loop goes on at a record that exists, or ends.
LEMMA NextRecordEffect ==
  ASSUME NEW t \in Task, NEW l \in Local, heap[l.obj] \in Cached, NextRecord(t, l)
  PROVE  \E place \in {"zero", "settle"}, r \in Local :
           /\ pc' = [pc EXCEPT ![t] = place] /\ loc' = [loc EXCEPT ![t] = r]
           /\ r.obj = l.obj /\ r.wasStale = l.wasStale
           /\ place = "zero" => r.i \in DOMAIN heap[l.obj].ttls
<1> DEFINE more == [l EXCEPT !.i = @ + 1, !.ttl = 0]
           over == [l EXCEPT !.i = 0, !.ttl = 0, !.elapsed = 0]
<1>1. /\ more \in Local /\ over \in Local
      /\ more.obj = l.obj /\ more.wasStale = l.wasStale /\ more.i = l.i + 1
      /\ over.obj = l.obj /\ over.wasStale = l.wasStale
  <2>1. l.i \in Nat /\ l.i + 1 \in Nat /\ 0 \in Nat
    BY DEF Local
  <2>2. more \in Local
    BY <2>1 DEF Local
  <2>3. over \in Local
    BY <2>1 DEF Local
  <2>4. more.obj = l.obj /\ more.wasStale = l.wasStale /\ more.i = l.i + 1
    BY DEF Local
  <2>5. over.obj = l.obj /\ over.wasStale = l.wasStale
    BY DEF Local
  <2> QED BY <2>2, <2>3, <2>4, <2>5
<1>2. CASE l.i < Len(heap[l.obj].ttls)
  <2>1. l.i + 1 \in DOMAIN heap[l.obj].ttls
    BY <1>2 DEF Cached, Local
  <2>2. loc' = [loc EXCEPT ![t] = more] /\ pc' = [pc EXCEPT ![t] = "zero"]
    BY <1>2 DEF NextRecord, Goto
  <2> HIDE DEF more, over
  <2> QED BY <1>1, <2>1, <2>2
<1>3. CASE ~(l.i < Len(heap[l.obj].ttls))
  <2>1. loc' = [loc EXCEPT ![t] = over] /\ pc' = [pc EXCEPT ![t] = "settle"]
    BY <1>3 DEF NextRecord, Goto
  <2> HIDE DEF more, over
  <2> QED BY <1>1, <2>1
<1> QED BY <1>2, <1>3

\* A step that moves on to the next record with locals l and leaves the object as `new`.
LEMMA MovesOn ==
  ASSUME IInv, NEW t \in Task, pc[t] \in HasLooked, NEW l \in Local, NEW new \in Cached,
         l.obj = loc[t].obj, l.wasStale = loc[t].wasStale,
         NextRecord(t, l), heap' = [heap EXCEPT ![loc[t].obj] = new], NothingElse,
         Kept(heap[loc[t].obj], new)
  PROVE  TouchEffect(t)
<1>1. pc[t] \in InTouch /\ heap[l.obj] \in Cached
  BY InsideTouch DEF HasLooked
<1>2. PICK place \in {"zero", "settle"}, r \in Local :
        /\ pc' = [pc EXCEPT ![t] = place] /\ loc' = [loc EXCEPT ![t] = r]
        /\ r.obj = l.obj /\ r.wasStale = l.wasStale
        /\ place = "zero" => r.i \in DOMAIN heap[l.obj].ttls
  BY <1>1, NextRecordEffect
<1>3. place \in InTouch /\ place \in HasLooked /\ (place \in InRecord => place = "zero")
  BY DEF InTouch, InRecord, HasLooked
<1>4. LocalsKept(t, loc[t].obj, place, r, new)
  BY <1>2, <1>3 DEF LocalsKept
<1>5. Becomes(t, place, r, new)
  BY <1>2 DEF Becomes
<1> QED BY <1>1, <1>3, <1>4, <1>5, Becoming

\* A step that only goes to another place, with locals l.
LEMMA OnlyLooks ==
  ASSUME IInv, NEW t \in Task, pc[t] \in InTouch, NEW place \in InTouch, NEW l \in Local,
         pc' = [pc EXCEPT ![t] = place], loc' = [loc EXCEPT ![t] = l],
         heap' = heap, NothingElse,
         LocalsKept(t, loc[t].obj, place, l, heap[loc[t].obj])
  PROVE  TouchEffect(t)
<1> DEFINE old == heap[loc[t].obj]
<1>1. old \in Cached /\ Kept(old, old) /\ [heap EXCEPT ![loc[t].obj] = old] = heap
  BY InsideTouch
<1>2. Becomes(t, place, l, old)
  BY <1>1 DEF Becomes
<1> HIDE DEF Becomes
<1> QED BY <1>1, <1>2, Becoming

\* Whole seconds between two instants are a natural number.
LEMMA ElapsedInNat ==
  ASSUME NEW at \in Nat, NEW touched \in Nat
  PROVE  ElapsedSeconds(at, touched) \subseteq Nat
<1>1. at >= touched => (at - touched) \div TicksPerSecond \in Nat
  BY DivisionInNat, ResolverAssumption
<1> QED BY <1>1, ResolverAssumption DEF ElapsedSeconds

\* A TTL that is stored leaves the object what it was but for that TTL.
LEMMA TtlStored ==
  ASSUME IInv, NEW t \in Task, pc[t] \in InTouch, NEW ttl \in Nat, SetTtl(t, ttl)
  PROVE  \E new \in Cached : /\ heap' = [heap EXCEPT ![loc[t].obj] = new]
                             /\ Kept(heap[loc[t].obj], new)
<1> DEFINE old == heap[loc[t].obj]
           ttls == [old.ttls EXCEPT ![loc[t].i] = ttl]
           new == [old EXCEPT !.ttls = ttls]
<1>1. old \in Cached
  BY InsideTouch
<1>2. ttls \in Seq(Nat) /\ DOMAIN ttls = DOMAIN old.ttls
  <2>1. old.ttls \in Seq(Nat)
    BY <1>1 DEF Cached
  <2> DEFINE before == old.ttls
             i == loc[t].i
  <2> HIDE DEF before, i
  <2>2. before \in Seq(Nat)
    BY <2>1 DEF before
  <2>3. /\ [before EXCEPT ![i] = ttl] \in Seq(Nat)
        /\ DOMAIN [before EXCEPT ![i] = ttl] = DOMAIN before
    <3>1. before \in [1..Len(before) -> Nat] /\ Len(before) \in Nat
      BY <2>2
    <3>2. [before EXCEPT ![i] = ttl] \in [1..Len(before) -> Nat]
      BY <3>1
    <3> QED BY <3>1, <3>2, SeqDef
  <2> QED BY <2>3 DEF before, i
<1>3. heap' = [heap EXCEPT ![loc[t].obj] = new]
  BY DEF SetTtl
<1>4. new \in Cached /\ Kept(old, new)
  <2> HIDE DEF ttls
  <2> QED BY <1>1, <1>2 DEF Cached, Kept
<1> QED BY <1>3, <1>4

\* Every access of touch has that effect.
LEMMA TouchFacts ==
  ASSUME IInv, NEW t \in Task, Touch(t)
  PROVE  TouchEffect(t)
<1>1. pc[t] \in InTouch
  BY DEF Touch, TouchBegin, SeeStale, SeeTouched, TestZero, TestMore, LoadTtl, SubtractTtl,
         SetStale, RenewTtl, SetTouched, InTouch, InRecord
<1> DEFINE o == loc[t].obj
           old == heap[o]
<1>2. /\ loc[t] \in Local /\ o \in Obj /\ old \in Cached /\ Kept(old, old)
      /\ pc[t] \in InRecord => loc[t].i \in DOMAIN old.ttls
      /\ [loc EXCEPT ![t] = loc[t]] = loc
      /\ [heap EXCEPT ![o] = old] = heap
  BY <1>1, InsideTouch
<1>3. /\ now \in Nat /\ old.stale \in BOOLEAN /\ old.ttls \in Seq(Nat) /\ old.touched \in Nat
      /\ loc[t].at \in Nat /\ loc[t].elapsed \in Nat /\ loc[t].ttl \in Nat
  BY <1>2 DEF IInv, TypeOK, Cached, Local
<1>4. pc[t] \in InRecord => old.ttls[loc[t].i] \in Nat
  <2> DEFINE ttls == old.ttls
             i == loc[t].i
  <2>1. ttls \in Seq(Nat) /\ (pc[t] \in InRecord => i \in DOMAIN ttls)
    BY <1>2, <1>3
  <2> HIDE DEF ttls, i
  <2>2. pc[t] \in InRecord => ttls[i] \in Nat
    BY <2>1
  <2> QED BY <2>2 DEF ttls, i
<1>5. CASE TouchBegin(t)
  <2> DEFINE l == [loc[t] EXCEPT !.at = now]
  <2>1. l \in Local /\ l.obj = o
    BY <1>2, <1>3 DEF Local
  <2>2. /\ pc[t] = "touch" /\ pc' = [pc EXCEPT ![t] = "was"] /\ loc' = [loc EXCEPT ![t] = l]
        /\ heap' = heap /\ NothingElse
    BY <1>5 DEF TouchBegin, Goto
  <2>3. "was" \in InTouch /\ LocalsKept(t, o, "was", l, old)
    BY <2>1, <2>2 DEF LocalsKept, HasLooked, InTouch, InRecord
  <2> HIDE DEF l
  <2> QED BY <1>1, <2>1, <2>2, <2>3, OnlyLooks
<1>6. CASE SeeStale(t)
  <2> DEFINE l == [loc[t] EXCEPT !.wasStale = old.stale]
  <2>1. l \in Local /\ l.obj = o /\ l.wasStale = old.stale
    BY <1>2, <1>3 DEF Local
  <2>2. /\ pc[t] = "was" /\ pc' = [pc EXCEPT ![t] = "elapsed"] /\ loc' = [loc EXCEPT ![t] = l]
        /\ heap' = heap /\ NothingElse
    BY <1>6 DEF SeeStale, Goto
  <2>3. "elapsed" \in InTouch /\ LocalsKept(t, o, "elapsed", l, old)
    BY <2>1, <2>2 DEF LocalsKept, HasLooked, InTouch, InRecord
  <2> HIDE DEF l
  <2> QED BY <1>1, <2>1, <2>2, <2>3, OnlyLooks
<1>7. CASE SeeTouched(t)
  <2>1. PICK e \in Nat : NextRecord(t, [loc[t] EXCEPT !.elapsed = e])
    BY <1>3, <1>7, ElapsedInNat DEF SeeTouched
  <2> DEFINE l == [loc[t] EXCEPT !.elapsed = e]
  <2>2. l \in Local /\ l.obj = o /\ l.wasStale = loc[t].wasStale
    BY <1>2 DEF Local
  <2>3. pc[t] \in HasLooked /\ heap' = [heap EXCEPT ![o] = old] /\ NothingElse
    BY <1>2, <1>7 DEF SeeTouched, HasLooked, InTouch
  <2>4. NextRecord(t, l)
    BY <2>1
  <2> HIDE DEF l
  <2> QED BY <1>2, <2>2, <2>3, <2>4, MovesOn
<1>8. CASE TestZero(t)
  <2>1. pc[t] = "zero" /\ pc[t] \in HasLooked /\ pc[t] \in InRecord /\ heap' = heap /\ NothingElse
    BY <1>8 DEF TestZero, HasLooked, InTouch, InRecord
  <2>2. CASE Ttl(t) = 0
    BY <1>2, <1>8, <2>1, <2>2, MovesOn DEF TestZero
  <2>3. CASE Ttl(t) # 0
    <3>1. pc' = [pc EXCEPT ![t] = "more"] /\ loc' = [loc EXCEPT ![t] = loc[t]]
      BY <1>2, <1>8, <2>3 DEF TestZero, Goto
    <3>2. "more" \in InTouch /\ LocalsKept(t, o, "more", loc[t], old)
      BY <1>2, <2>1 DEF LocalsKept, HasLooked, InTouch, InRecord
    <3> QED BY <1>1, <1>2, <2>1, <3>1, <3>2, OnlyLooks
  <2> QED BY <2>2, <2>3
<1>9. CASE TestMore(t)
  <2>1. PICK place \in {"load", "expire"} : pc' = [pc EXCEPT ![t] = place]
    BY <1>9 DEF TestMore, Goto
  <2>2. pc[t] = "more" /\ loc' = [loc EXCEPT ![t] = loc[t]] /\ heap' = heap /\ NothingElse
    BY <1>2, <1>9 DEF TestMore
  <2>3. place \in InTouch /\ LocalsKept(t, o, place, loc[t], old)
    BY <1>2, <2>2 DEF LocalsKept, HasLooked, InTouch, InRecord
  <2> QED BY <1>1, <1>2, <2>1, <2>2, <2>3, OnlyLooks
<1>10. CASE LoadTtl(t)
  <2> DEFINE l == [loc[t] EXCEPT !.ttl = Ttl(t)]
  <2>1. pc[t] = "load" /\ pc[t] \in InRecord
    BY <1>10 DEF LoadTtl, InRecord
  <2>2. l \in Local /\ l.obj = o /\ l.wasStale = loc[t].wasStale /\ l.i = loc[t].i
    BY <1>2, <1>4, <2>1 DEF Local, Ttl
  <2>3. /\ pc' = [pc EXCEPT ![t] = "subtract"] /\ loc' = [loc EXCEPT ![t] = l]
        /\ heap' = heap /\ NothingElse
    BY <1>10 DEF LoadTtl, Goto
  <2>4. "subtract" \in InTouch /\ LocalsKept(t, o, "subtract", l, old)
    BY <1>2, <2>1, <2>2 DEF LocalsKept, HasLooked, InTouch, InRecord
  <2> HIDE DEF l
  <2> QED BY <1>1, <2>2, <2>3, <2>4, OnlyLooks
<1>11. CASE SubtractTtl(t)
  <2>1. (loc[t].ttl - loc[t].elapsed) % (MaxUint32 + 1) \in Nat
    <3> DEFINE a == loc[t].ttl
               b == loc[t].elapsed
    <3>1. a \in Nat /\ b \in Nat
      BY <1>3
    <3>2. MaxUint32 + 1 \in Nat \ {0}
      BY ResolverAssumption
    <3> HIDE DEF a, b
    <3>3. a - b \in Int
      BY <3>1
    <3>4. (a - b) % (MaxUint32 + 1) \in Nat
      BY <3>2, <3>3, WrappedInNat
    <3> QED BY <3>4 DEF a, b
  <2>2. PICK new \in Cached : heap' = [heap EXCEPT ![o] = new] /\ Kept(old, new)
    BY <1>1, <1>11, <2>1, TtlStored DEF SubtractTtl
  <2>3. pc[t] \in HasLooked /\ NextRecord(t, loc[t]) /\ NothingElse
    BY <1>11 DEF SubtractTtl, HasLooked, InTouch, InRecord
  <2> QED BY <1>2, <2>2, <2>3, MovesOn
<1>12. CASE SetStale(t)
  <2> DEFINE new == [old EXCEPT !.stale = TRUE]
  <2>1. new \in Cached /\ Kept(old, new)
    BY <1>2 DEF Cached, Kept
  <2>2. /\ pc[t] = "expire" /\ pc' = [pc EXCEPT ![t] = "renew"]
        /\ loc' = [loc EXCEPT ![t] = loc[t]] /\ heap' = [heap EXCEPT ![o] = new] /\ NothingElse
    BY <1>2, <1>12 DEF SetStale, Goto
  <2> HIDE DEF new
  <2>3. "renew" \in InTouch /\ LocalsKept(t, o, "renew", loc[t], new)
    BY <1>2, <2>2 DEF LocalsKept, HasLooked, InTouch, InRecord
  <2>4. Becomes(t, "renew", loc[t], new)
    BY <2>2 DEF Becomes
  <2> QED BY <1>1, <1>2, <2>1, <2>2, <2>3, <2>4, Becoming
<1>13. CASE RenewTtl(t)
  <2>1. PICK new \in Cached : heap' = [heap EXCEPT ![o] = new] /\ Kept(old, new)
    BY <1>1, <1>13, TtlStored, ResolverAssumption DEF RenewTtl
  <2>2. pc[t] \in HasLooked /\ NextRecord(t, loc[t]) /\ NothingElse
    BY <1>13 DEF RenewTtl, HasLooked, InTouch, InRecord
  <2> QED BY <1>2, <2>1, <2>2, MovesOn
<1>14. CASE SetTouched(t)
  <2> DEFINE new == [old EXCEPT !.touched = loc[t].at]
  <2>1. new \in Cached /\ Kept(old, new) /\ new.stale = old.stale
    BY <1>2, <1>3 DEF Cached, Kept
  <2>2. /\ pc[t] = "settle" /\ pc' = [pc EXCEPT ![t] = "report"]
        /\ loc' = [loc EXCEPT ![t] = loc[t]] /\ heap' = [heap EXCEPT ![o] = new] /\ NothingElse
    BY <1>2, <1>14 DEF SetTouched, Goto
  <2> HIDE DEF new
  <2>3. "report" \in InTouch /\ LocalsKept(t, o, "report", loc[t], new)
    BY <1>2, <2>1, <2>2 DEF LocalsKept, HasLooked, InTouch, InRecord
  <2>4. Becomes(t, "report", loc[t], new)
    BY <2>2 DEF Becomes
  <2> QED BY <1>1, <1>2, <2>1, <2>2, <2>3, <2>4, Becoming
<1> QED BY <1>5, <1>6, <1>7, <1>8, <1>9, <1>10, <1>11, <1>12, <1>13, <1>14 DEF Touch

-----------------------------------------------------------------------------
(* What the steps that start a goroutine do to the others. *)

\* A step of goroutine t that goes on at `place` and may start another one at `f`
\* with `args`, as a refresh of `o` or of nothing.
Starts(t, place, f, args, o) ==
  /\ pc'[t] = place /\ call'[t] = call[t]
  /\ t \in Bg => cause'[t] = cause[t]
  /\ \A u \in Task \ {t} :
       \/ /\ pc'[u] = pc[u] /\ call'[u] = call[u]
          /\ u \in Bg => cause'[u] = cause[u]
       \/ /\ u \in Bg /\ pc[u] = "idle" /\ pc'[u] = f
          /\ call'[u] = [args EXCEPT !.id = IF o = Nil THEN u ELSE @]
          /\ cause'[u] = IF o = Nil THEN cause[u] ELSE o

\* The end of touch starts a refresh of the object if it turned stale, and does
\* nothing else.
LEMMA TouchEndEffect ==
  ASSUME IInv, NEW t \in Task, TouchEnd(t)
  PROVE  /\ pc[t] = "report" /\ loc[t].obj \in Obj /\ heap[loc[t].obj] \in Cached
         /\ UNCHANGED <<env, store, ongoing, failed, loc, attempt, resp, todo, held, sent>>
         /\ Starts(t, "related", "check", RefreshCall(t), loc[t].obj)
         /\ TurnedStale(t) => \E b \in Bg : cause'[b] = loc[t].obj
<1> USE TaskFacts, NilAssumption DEF IInv
<1>1. /\ pc[t] = "report" /\ loc[t].obj \in Obj /\ heap[loc[t].obj] \in Cached
      /\ call[t] \in Call
  BY DEF TouchEnd, TouchOK, Touching, InTouch, InRecord, CallOK
<1>2. UNCHANGED <<env, store, ongoing, failed, loc, attempt, resp, todo, held, sent>>
  BY DEF TouchEnd
<1> DEFINE o == loc[t].obj
           args == RefreshCall(t)
<1>3. args = [args EXCEPT !.id = args.id]
  BY <1>1 DEF Call, RefreshCall
<1>4. CASE TurnedStale(t)
  <2>1. PICK b \in Bg : /\ b # t /\ pc[b] = "idle"
                        /\ pc' = [pc EXCEPT ![t] = "related", ![b] = "check"]
                        /\ call' = [call EXCEPT ![b] = args]
                        /\ cause' = [cause EXCEPT ![b] = o]
    BY <1>1, <1>4 DEF TouchEnd, Go, Fresh
  <2>2. o # Nil
    BY <1>1
  <2> HIDE DEF o, args
  <2>3. Starts(t, "related", "check", args, o)
    BY <1>3, <2>1, <2>2 DEF Starts, TypeOK
  <2>4. cause'[b] = o
    BY <2>1 DEF TypeOK
  <2> QED BY <1>1, <1>2, <2>3, <2>4 DEF o, args
<1>5. CASE ~TurnedStale(t)
  <2>1. pc' = [pc EXCEPT ![t] = "related"] /\ UNCHANGED <<call, cause>>
    BY <1>5 DEF TouchEnd, Goto
  <2> HIDE DEF o, args
  <2>2. Starts(t, "related", "check", args, o)
    BY <2>1 DEF Starts, TypeOK
  <2> QED BY <1>1, <1>2, <1>5, <2>2 DEF o, args
<1> QED BY <1>4, <1>5

\* A cache hit may start a prefetcher, and does nothing else.
LEMMA PrefetchOnHitEffect ==
  ASSUME IInv, NEW t \in Task, PrefetchOnHit(t)
  PROVE  /\ pc[t] = "related" /\ call[t] \in Call
         /\ UNCHANGED <<env, store, ongoing, failed, loc, attempt, resp, bgv, sent>>
         /\ Starts(t, "copy", "plan", call[t], Nil)
<1> USE TaskFacts DEF IInv
<1>1. pc[t] = "related" /\ call[t] \in Call
  BY DEF PrefetchOnHit, CallOK
<1>2. UNCHANGED <<env, store, ongoing, failed, loc, attempt, resp, bgv, sent>>
  BY DEF PrefetchOnHit
<1> DEFINE args == call[t]
<1>3. \/ pc' = [pc EXCEPT ![t] = "copy"] /\ UNCHANGED call
      \/ \E b \in Bg : /\ b # t /\ pc[b] = "idle"
                       /\ pc' = [pc EXCEPT ![t] = "copy", ![b] = "plan"]
                       /\ call' = [call EXCEPT ![b] = [args EXCEPT !.id = b]]
  BY <1>1 DEF PrefetchOnHit, Goto, Go, Fresh
<1>4. cause' = cause
  BY <1>2 DEF bgv
<1> HIDE DEF args
<1>5. Starts(t, "copy", "plan", args, Nil)
  BY <1>3, <1>4 DEF Starts, TypeOK
<1> QED BY <1>1, <1>2, <1>5 DEF args

\* A stored reply is a new object under the goroutine's own name.
LEMMA StoreEffect ==
  ASSUME IInv, NEW t \in Task, Store(t)
  PROVE  /\ <<t, call[t].name>> \in Obj /\ call[t] \in Call
         /\ UNCHANGED <<env, ongoing, failed, attempt, bgv, sent>>
         /\ heap'[<<t, call[t].name>>].ttls = loc[t].ttls /\ heap'[<<t, call[t].name>>].ttl0 = loc[t].ttls
         /\ heap'[<<t, call[t].name>>].id = call[t].id /\ heap'[<<t, call[t].name>>].stale = FALSE /\ heap'[<<t, call[t].name>>] \in Cached
         /\ \A p \in Obj : p # <<t, call[t].name>> => heap'[p] = heap[p]
         /\ resp'[t].kind = "answer" /\ resp'[t].ref = <<t, call[t].name>>
         /\ loc'[t] = NoLocal
         /\ \A u \in Task \ {t} : resp'[u] = resp[u] /\ loc'[u] = loc[u]
<1> DEFINE o == <<t, call[t].name>>
           new == [ttls |-> loc[t].ttls, ttl0 |-> loc[t].ttls, born |-> now,
                   touched |-> now, stale |-> FALSE,
                   prefetched |-> ~call[t].prefetch, id |-> call[t].id]
           r == [kind |-> "answer", cached |-> FALSE,
                 prefetched |-> FALSE, forwarded |-> TRUE, msg |-> Nil, ref |-> o]
<1>1. call[t] \in Call /\ o \in Obj
  BY DEF Store, IInv, CallOK, Call, Obj
<1>2. /\ heap' = [heap EXCEPT ![o] = new]
      /\ resp' = [resp EXCEPT ![t] = r]
      /\ loc' = [loc EXCEPT ![t] = NoLocal]
      /\ UNCHANGED <<env, ongoing, failed, attempt, bgv, sent>>
  BY DEF Store
<1>3. /\ new.ttls = loc[t].ttls /\ new.ttl0 = loc[t].ttls /\ new.id = call[t].id
      /\ new.stale = FALSE /\ r.kind = "answer" /\ r.ref = o
  OBVIOUS
<1>4. new \in Cached
  <2>1. loc[t].ttls \in Seq(Nat) /\ now \in Nat /\ call[t].prefetch \in BOOLEAN /\ call[t].id \in Task
    BY <1>1 DEF IInv, TypeOK, Local, Call
  <2> QED BY <2>1 DEF Cached
<1> HIDE DEF new, r, o
<1>5. /\ heap'[o] = new /\ \A p \in Obj : p # o => heap'[p] = heap[p]
      /\ resp'[t] = r /\ loc'[t] = NoLocal
      /\ \A u \in Task \ {t} : resp'[u] = resp[u] /\ loc'[u] = loc[u]
  BY <1>1, <1>2 DEF IInv, TypeOK
<1> QED BY <1>1, <1>2, <1>3, <1>4, <1>5 DEF o

\* It may start a prefetcher.
LEMMA StoreStarts ==
  ASSUME IInv, NEW t \in Task, Store(t)
  PROVE  pc[t] = "store" /\ Starts(t, "return", "plan", call[t], Nil)
<1> USE TaskFacts DEF IInv
<1>1. pc[t] = "store" /\ call[t] \in Call
  BY DEF Store, CallOK
<1> DEFINE args == call[t]
<1>3. \/ pc' = [pc EXCEPT ![t] = "return"] /\ UNCHANGED call
      \/ \E b \in Bg : /\ b # t /\ pc[b] = "idle"
                       /\ pc' = [pc EXCEPT ![t] = "return", ![b] = "plan"]
                       /\ call' = [call EXCEPT ![b] = [args EXCEPT !.id = b]]
  BY <1>1 DEF Store, Goto, Go, Fresh
<1>4. cause' = cause
  BY DEF Store, bgv
<1>5. Starts(t, "return", "plan", args, Nil)
  <2> HIDE DEF args
  <2> QED BY <1>3, <1>4 DEF Starts, TypeOK
<1> QED BY <1>1, <1>5

-----------------------------------------------------------------------------
(* What has not started, and what is over. *)

\* Nothing happens to a goroutine before it starts or to a reply after it is written.
LEMMA UnstartedStep == IInv /\ Unstarted /\ [Next]_vars => Unstarted'
<1> SUFFICES ASSUME IInv, Unstarted, [Next]_vars PROVE Unstarted'
  OBVIOUS
<1> USE TaskFacts, NilAssumption DEF IInv, env, store, bgv, vars, InTouch, InRecord
<1>1. ASSUME NEW c \in Conn, HandleRequest(c) PROVE Unstarted'
  BY <1>1 DEF HandleRequest, Goto, Unstarted, TypeOK
<1>2. ASSUME NEW c \in Conn, WriteMsg(c) PROVE Unstarted'
  BY <1>2 DEF WriteMsg, Goto, Unstarted, TypeOK
<1>3. ASSUME NEW b \in Bg, RefreshDone(b) PROVE Unstarted'
  BY <1>3 DEF RefreshDone, Goto, Unstarted, TypeOK
<1>4. ASSUME NEW b \in Bg, PlanPrefetch(b) PROVE Unstarted'
  BY <1>4 DEF PlanPrefetch, Goto, Unstarted, TypeOK
<1>5. ASSUME NEW b \in Bg, PrefetchNext(b) PROVE Unstarted'
  BY <1>5 DEF PrefetchNext, Goto, Claim, PrefetchCall, Unstarted, TypeOK
<1>6. ASSUME NEW b \in Bg, PrefetchEnd(b) PROVE Unstarted'
  BY <1>6 DEF PrefetchEnd, Goto, Unstarted, TypeOK
<1>7. ASSUME NEW t \in Task, Check(t) PROVE Unstarted'
  BY <1>7 DEF Check, Goto, Return, blockFQDN, NoAnswer, Unstarted, TypeOK
<1>8. ASSUME NEW t \in Task, Lookup(t) PROVE Unstarted'
  BY <1>8 DEF Lookup, Goto, Unstarted, TypeOK
<1>9. ASSUME NEW t \in Task, Touch(t) PROVE Unstarted'
  <2>1. /\ UNCHANGED <<call, cause, todo, sent>>
        /\ pc[t] \in InTouch /\ pc'[t] \in InTouch /\ \A u \in Task \ {t} : pc'[u] = pc[u]
    BY <1>9, TouchFacts DEF TouchEffect, NothingElse
  <2> QED BY <2>1 DEF InTouch, InRecord, Unstarted
<1>10. ASSUME NEW t \in Task, TouchEnd(t) PROVE Unstarted'
  <2>1. pc[t] = "report" /\ Starts(t, "related", "check", RefreshCall(t), loc[t].obj)
    BY <1>10, TouchEndEffect
  <2>2. UNCHANGED <<sent, todo>>
    BY <1>10, TouchEndEffect
  <2> QED BY <2>1, <2>2 DEF Unstarted, Starts
<1>11. ASSUME NEW t \in Task, PrefetchOnHit(t) PROVE Unstarted'
  <2>1. pc[t] = "related" /\ Starts(t, "copy", "plan", call[t], Nil)
    BY <1>11, PrefetchOnHitEffect
  <2>2. UNCHANGED <<sent, todo>>
    BY <1>11, PrefetchOnHitEffect
  <2> QED BY <2>1, <2>2 DEF Unstarted, Starts
<1>12. ASSUME NEW t \in Task, Copy(t) PROVE Unstarted'
  BY <1>12 DEF Copy, Goto, Return, Unstarted, TypeOK
<1>13. ASSUME NEW t \in Task, Exchange(t) PROVE Unstarted'
  BY <1>13 DEF Exchange, Replied, GetsNoReply, Goto, Return, NoAnswer,
         Unstarted, TypeOK
<1>14. ASSUME NEW t \in Task, Store(t) PROVE Unstarted'
  <2>1. pc[t] = "store" /\ Starts(t, "return", "plan", call[t], Nil)
    BY <1>14, StoreStarts
  <2>2. UNCHANGED <<sent, todo>>
    BY <1>14, StoreEffect
  <2> QED BY <2>1, <2>2 DEF Unstarted, Starts
<1>15. ASSUME Tick PROVE Unstarted'
  BY <1>15 DEF Tick, Unstarted, TypeOK
<1>16. ASSUME PolicyChange PROVE Unstarted'
  BY <1>16 DEF PolicyChange, Unstarted, TypeOK
<1>17. ASSUME LoadQueryPatterns PROVE Unstarted'
  BY <1>17 DEF LoadQueryPatterns, Unstarted, TypeOK
<1>18. ASSUME NEW n \in Name, Evict(n) PROVE Unstarted'
  BY <1>18 DEF Evict, Unstarted, TypeOK
<1>19. ASSUME UNCHANGED vars PROVE Unstarted'
  BY <1>19 DEF Unstarted, TypeOK
<1> QED
  BY <1>1, <1>2, <1>3, <1>4, <1>5, <1>6, <1>7, <1>8, <1>9, <1>10,
     <1>11, <1>12, <1>13, <1>14, <1>15, <1>16, <1>17, <1>18, <1>19
     DEF Next, Process, Background, Environment

\* A goroutine never stores a second object for a question.
LEMMA UnbornStep == IInv /\ Unstarted /\ Unborn /\ [Next]_vars => Unborn'
<1> SUFFICES ASSUME IInv, Unstarted, Unborn, [Next]_vars PROVE Unborn'
  OBVIOUS
<1> USE TaskFacts, NilAssumption DEF IInv, env, store, bgv, vars, InTouch, InRecord
<1>1. ASSUME NEW c \in Conn, HandleRequest(c) PROVE Unborn'
  BY <1>1 DEF HandleRequest, Goto, Unborn, Before, Touching, Unstarted, TypeOK
<1>2. ASSUME NEW c \in Conn, WriteMsg(c) PROVE Unborn'
  BY <1>2 DEF WriteMsg, Goto, Unborn, Before, Touching, Unstarted, TypeOK
<1>3. ASSUME NEW b \in Bg, RefreshDone(b) PROVE Unborn'
  <2>1. /\ UNCHANGED <<heap, call, todo>>
        /\ \A u \in Task : pc'[u] \in {pc[u], "done"}
    BY <1>3 DEF RefreshDone, Goto, TypeOK
  <2> QED BY <2>1 DEF Unborn, Before, Touching
<1>4. ASSUME NEW b \in Bg, PlanPrefetch(b) PROVE Unborn'
  <2>1. /\ pc[b] = "plan" /\ pc' = [pc EXCEPT ![b] = "next"] /\ UNCHANGED <<heap, call>>
        /\ todo'[b] \subseteq Name /\ \A d \in Bg \ {b} : todo'[d] = todo[d]
    BY <1>4 DEF PlanPrefetch, Goto, TypeOK, CallOK, Call
  <2>2. \A u \in Task : pc'[u] = IF u = b THEN "next" ELSE pc[u]
    BY <2>1 DEF TypeOK
  <2>3. \A u \in Task : pc'[u] \in Before => u # b /\ pc[u] \in Before
    BY <2>2 DEF Before, Touching
  <2>4. \A n \in todo'[b] : heap'[<<b, n>>] = Nil
    BY <2>1 DEF Unborn
  <2>5. \A u \in Task : pc'[u] \in {"idle", "plan"} => pc[u] \in {"idle", "plan"}
    BY <2>2
  <2>6. \A u \in Task : pc'[u] \in {"idle", "plan"} => \A n \in Name : heap'[<<u, n>>] = Nil
    BY <2>1, <2>5 DEF Unborn
  <2>7. \A u \in Task : pc'[u] \in Before => heap'[<<u, call'[u].name>>] = Nil
    BY <2>1, <2>3 DEF Unborn
  <2>8. \A d \in Bg : \A n \in todo'[d] :
          heap'[<<d, n>>] = Nil /\ (pc'[d] \in Before => n # call'[d].name)
    BY <2>1, <2>3, <2>4 DEF Unborn
  <2> QED BY <2>6, <2>7, <2>8 DEF Unborn
<1>5. ASSUME NEW b \in Bg, PrefetchNext(b) PROVE Unborn'
  <2>1. PICK n \in todo[b] :
          /\ todo' = [todo EXCEPT ![b] = @ \ {n}]
          /\ \/ Goto(b, "next") /\ UNCHANGED call
             \/ Goto(b, "check") /\ call' = [call EXCEPT ![b] = PrefetchCall(b, n)]
    BY <1>5 DEF PrefetchNext
  <2>2. /\ heap' = heap /\ pc[b] \in {"next", "return"} /\ call[b] \in Call
        /\ PrefetchCall(b, n).name = n
    BY <1>5 DEF PrefetchNext, PrefetchCall, CallOK, Call
  <2>3. /\ todo'[b] = todo[b] \ {n} /\ \A d \in Bg \ {b} : todo'[d] = todo[d]
        /\ \A u \in Task \ {b} : pc'[u] = pc[u] /\ call'[u] = call[u]
        /\ pc'[b] = "next" \/ (pc'[b] = "check" /\ call'[b].name = n)
    BY <2>1, <2>2 DEF Goto, TypeOK
  <2>4. "next" \notin Before
    BY DEF Before, Touching
  <2>5. n \in Name /\ heap[<<b, n>>] = Nil
    BY DEF Unborn, TypeOK
  <2>6. \A u \in Task : pc'[u] \in {"idle", "plan"} => \A m \in Name : heap'[<<u, m>>] = Nil
    BY <2>2, <2>3 DEF Unborn
  <2>7. \A u \in Task : pc'[u] \in Before => heap'[<<u, call'[u].name>>] = Nil
    BY <2>2, <2>3, <2>4, <2>5 DEF Unborn
  <2>8. \A d \in Bg : \A m \in todo'[d] :
          heap'[<<d, m>>] = Nil /\ (pc'[d] \in Before => m # call'[d].name)
    <3>1. ASSUME NEW m \in todo'[b]
          PROVE  heap'[<<b, m>>] = Nil /\ (pc'[b] \in Before => m # call'[b].name)
      BY <2>2, <2>3, <2>4, <3>1 DEF Unborn
    <3>2. ASSUME NEW d \in Bg \ {b}, NEW m \in todo'[d]
          PROVE  heap'[<<d, m>>] = Nil /\ (pc'[d] \in Before => m # call'[d].name)
      BY <2>2, <2>3, <3>2 DEF Unborn
    <3> QED BY <3>1, <3>2
  <2> QED BY <2>6, <2>7, <2>8 DEF Unborn
<1>6. ASSUME NEW b \in Bg, PrefetchEnd(b) PROVE Unborn'
  BY <1>6 DEF PrefetchEnd, Goto, Unborn, Before, Touching, Unstarted, TypeOK
<1>7. ASSUME NEW t \in Task, Check(t) PROVE Unborn'
  BY <1>7 DEF Check, Goto, Return, blockFQDN, NoAnswer, Unborn, Before,
         Touching, Unstarted, TypeOK
<1>8. ASSUME NEW t \in Task, Lookup(t) PROVE Unborn'
  BY <1>8 DEF Lookup, Goto, Unborn, Before, Touching, Unstarted, TypeOK
<1>9. ASSUME NEW t \in Task, Touch(t) PROVE Unborn'
  <2>1. /\ UNCHANGED <<call, todo>>
        /\ pc[t] \in InTouch /\ pc'[t] \in InTouch /\ \A u \in Task \ {t} : pc'[u] = pc[u]
    BY <1>9, TouchFacts DEF TouchEffect, NothingElse
  <2>2. \A p \in Obj : heap[p] = Nil => heap'[p] = Nil
    BY <1>9, TouchFacts DEF TouchEffect, Kept
  <2>3. /\ \A u \in Task, n \in Name : <<u, n>> \in Obj
        /\ \A u \in Task : pc[u] \in Before => call[u].name \in Name
        /\ \A b \in Bg : \A n \in todo[b] : n \in Name
    BY DEF Obj, Before, Touching, InTouch, InRecord, CallOK, Call, TypeOK
  <2>4. \A u \in Task : /\ pc'[u] \in Before <=> pc[u] \in Before
                        /\ pc'[u] \in {"idle", "plan"} => pc[u] \in {"idle", "plan"}
    BY <2>1 DEF Before, Touching, InTouch, InRecord
  <2> QED BY <2>1, <2>2, <2>3, <2>4 DEF Unborn
<1>10. ASSUME NEW t \in Task, TouchEnd(t) PROVE Unborn'
  <2>1. pc[t] = "report" /\ Starts(t, "related", "check", RefreshCall(t), loc[t].obj)
    BY <1>10, TouchEndEffect
  <2>2. heap' = heap
    BY <1>10, TouchEndEffect DEF store
  <2>3. todo' = todo
    BY <1>10, TouchEndEffect
  <2>5. /\ \A u \in Task, n \in Name : <<u, n>> \in Obj
        /\ \A u \in Task : pc[u] \in Before => call[u].name \in Name
        /\ \A b \in Bg : \A n \in todo[b] : n \in Name
        /\ call[t].name \in Name /\ RefreshCall(t).name = call[t].name
    BY <2>1 DEF RefreshCall, Obj, Before, Touching, CallOK, Call, TypeOK
  <2>6. \A u \in Task :
          \/ pc'[u] = pc[u] /\ call'[u] = call[u]
          \/ u = t /\ pc[u] \in Before /\ pc'[u] \in Before /\ call'[u] = call[u]
          \/ u \in Bg /\ pc[u] = "idle" /\ pc'[u] = "check" /\ call'[u].name = call[t].name
    <3> DEFINE args == RefreshCall(t)
    <3>1. \A u \in Task : [args EXCEPT !.id = IF loc[t].obj = Nil THEN u ELSE @].name = call[t].name
      BY <2>1 DEF CallOK, Call, RefreshCall
    <3>3. "report" \in Before /\ "related" \in Before
      BY DEF Before, Touching
    <3>2. Starts(t, "related", "check", args, loc[t].obj)
      BY <2>1
    <3> HIDE DEF args
    <3>4. pc[t] \in Before /\ pc'[t] \in Before /\ call'[t] = call[t]
      BY <2>1, <3>3 DEF Starts
    <3>5. \A u \in Task \ {t} :
            \/ pc'[u] = pc[u] /\ call'[u] = call[u]
            \/ /\ u \in Bg /\ pc[u] = "idle" /\ pc'[u] = "check"
               /\ call'[u] = [args EXCEPT !.id = IF loc[t].obj = Nil THEN u ELSE @]
      BY <3>2 DEF Starts
    <3> HIDE DEF Starts
    <3> QED BY ZenonT(60), <3>1, <3>4, <3>5
  <2>7. \A b \in Bg : pc[b] = "idle" => todo[b] = {}
    BY DEF Unstarted
  <2> QED BY <2>2, <2>3, <2>5, <2>6, <2>7 DEF Unborn, Before, Touching
<1>11. ASSUME NEW t \in Task, PrefetchOnHit(t) PROVE Unborn'
  <2>1. pc[t] = "related" /\ Starts(t, "copy", "plan", call[t], Nil)
    BY <1>11, PrefetchOnHitEffect
  <2>2. UNCHANGED <<heap, todo>>
    BY <1>11, PrefetchOnHitEffect DEF store, bgv
  <2>3. \A u \in Task :
          \/ pc'[u] = pc[u] /\ call'[u] = call[u]
          \/ u = t /\ pc[u] \in Before /\ pc'[u] \in Before /\ call'[u] = call[u]
          \/ u \in Bg /\ pc[u] = "idle" /\ pc'[u] = "plan"
    BY <2>1 DEF Starts, Before, Touching
  <2> QED BY <2>2, <2>3 DEF Unborn, Before, Touching
<1>12. ASSUME NEW t \in Task, Copy(t) PROVE Unborn'
  BY <1>12 DEF Copy, Goto, Return, Unborn, Before, Touching, Unstarted, TypeOK
<1>13. ASSUME NEW t \in Task, Exchange(t) PROVE Unborn'
  BY <1>13 DEF Exchange, Replied, GetsNoReply, Goto, Return, NoAnswer, Unborn,
         Before, Touching, Unstarted, TypeOK
<1>14. ASSUME NEW t \in Task, Store(t) PROVE Unborn'
  <2>1. pc[t] = "store" /\ Starts(t, "return", "plan", call[t], Nil)
    BY <1>14, StoreStarts
  <2>2. todo' = todo /\ \A p \in Obj : p # <<t, call[t].name>> => heap'[p] = heap[p]
    BY <1>14, StoreEffect DEF bgv
  <2>3. \A u \in Task :
          \/ u # t /\ pc'[u] = pc[u] /\ call'[u] = call[u]
          \/ u = t /\ pc'[u] = "return" /\ call'[u] = call[u]
          \/ u # t /\ u \in Bg /\ pc[u] = "idle" /\ pc'[u] = "plan"
    BY <2>1 DEF Starts
  <2>4. \A u \in Task : \A n \in Name : u # t => heap'[<<u, n>>] = heap[<<u, n>>]
    BY <2>2 DEF Obj
  <2>5. pc[t] \in Before /\ \A n \in Name : n # call[t].name => heap'[<<t, n>>] = heap[<<t, n>>]
    BY <2>1, <2>2 DEF Obj, Before
  <2>6. /\ \A u \in Task : pc[u] \in Before => call[u].name \in Name
        /\ \A b \in Bg : \A n \in todo[b] : n \in Name
    BY DEF Before, Touching, CallOK, Call, TypeOK
  <2> QED BY <2>2, <2>3, <2>4, <2>5, <2>6 DEF Unborn, Before, Touching
<1>15. ASSUME Tick PROVE Unborn'
  BY <1>15 DEF Tick, Unborn, Before, Touching, Unstarted, TypeOK
<1>16. ASSUME PolicyChange PROVE Unborn'
  BY <1>16 DEF PolicyChange, Unborn, Before, Touching, Unstarted, TypeOK
<1>17. ASSUME LoadQueryPatterns PROVE Unborn'
  BY <1>17 DEF LoadQueryPatterns, Unborn, Before, Touching, Unstarted, TypeOK
<1>18. ASSUME NEW n \in Name, Evict(n) PROVE Unborn'
  BY <1>18 DEF Evict, Unborn, Before, Touching, Unstarted, TypeOK
<1>19. ASSUME UNCHANGED vars PROVE Unborn'
  BY <1>19 DEF Unborn, Before, Touching, Unstarted, TypeOK
<1> QED
  BY <1>1, <1>2, <1>3, <1>4, <1>5, <1>6, <1>7, <1>8, <1>9, <1>10,
     <1>11, <1>12, <1>13, <1>14, <1>15, <1>16, <1>17, <1>18, <1>19
     DEF Next, Process, Background, Environment

-----------------------------------------------------------------------------
(* Type correctness. *)

\* Every step of every goroutine and of the environment keeps the invariant.
LEMMA TypeStep == IInv /\ Unborn /\ [Next]_vars => IInv'
<1> SUFFICES ASSUME IInv, Unborn, [Next]_vars PROVE IInv'
  OBVIOUS
<1> USE TaskFacts, NilAssumption DEF IInv, env, store, bgv, vars, InTouch, InRecord
<1>1. ASSUME NEW c \in Conn, HandleRequest(c) PROVE IInv'
  <2>1. TypeOK'
    BY <1>1 DEF HandleRequest, Goto, Call, TypeOK, Place
  <2>2. CallOK'
    BY <1>1 DEF HandleRequest, Goto, Call, TypeOK, CallOK
  <2>3. TouchOK'
    BY <1>1 DEF HandleRequest, Goto, TypeOK, TouchOK, Touching
  <2>4. RespOK'
    BY <1>1 DEF HandleRequest, Goto, TypeOK, RespOK, Response
  <2>5. CacheOK'
    BY <1>1 DEF HandleRequest, TypeOK, CacheOK, Entry
  <2> QED BY <2>1, <2>2, <2>3, <2>4, <2>5
<1>2. ASSUME NEW c \in Conn, WriteMsg(c) PROVE IInv'
  <2>1. TypeOK'
    <3>1. sent' \in [Conn -> Sent \cup {Nil}]
      <4>1. resp[c] \in Response
        BY <1>2 DEF WriteMsg, RespOK
      <4>2. CASE resp[c].ref = Nil
        BY <1>2, <4>1, <4>2 DEF WriteMsg, TypeOK, Sent, Response
      <4>3. CASE resp[c].ref # Nil
        <5>1. resp[c].ref \in Obj /\ resp[c].ref[2] \in Name /\ heap[resp[c].ref] \in Cached
          BY <4>1, <4>3 DEF RespOK, Response, TypeOK, Obj
        <5>2. [name |-> resp[c].ref[2], id |-> heap[resp[c].ref].id,
               ttls |-> heap[resp[c].ref].ttls] \in Message
          BY <5>1 DEF Cached, Message
        <5> HIDE DEF Message
        <5> QED BY <1>2, <4>1, <4>3, <5>2 DEF WriteMsg, TypeOK, Sent, Response
      <4> QED BY <4>2, <4>3
    <3>2. pc' \in [Task -> Place] /\ resp' \in [Task -> Response \cup {Nil}]
      BY <1>2 DEF WriteMsg, Goto, TypeOK, Place
    <3> QED BY <1>2, <3>1, <3>2 DEF WriteMsg, TypeOK
  <2>2. CallOK'
    BY <1>2 DEF WriteMsg, Goto, TypeOK, CallOK
  <2>3. TouchOK'
    BY <1>2 DEF WriteMsg, Goto, TypeOK, TouchOK, Touching
  <2>4. RespOK'
    BY <1>2 DEF WriteMsg, Goto, Response, TypeOK, RespOK
  <2>5. CacheOK'
    BY <1>2 DEF WriteMsg, TypeOK, CacheOK, Entry
  <2> QED BY <2>1, <2>2, <2>3, <2>4, <2>5
<1>3. ASSUME NEW b \in Bg, RefreshDone(b) PROVE IInv'
  <2>1. TypeOK'
    BY <1>3 DEF RefreshDone, Goto, TypeOK, Place
  <2>2. CallOK'
    BY <1>3 DEF RefreshDone, Goto, TypeOK, CallOK
  <2>3. TouchOK'
    BY <1>3 DEF RefreshDone, Goto, TypeOK, TouchOK, Touching
  <2>4. RespOK'
    BY <1>3 DEF RefreshDone, Goto, TypeOK, RespOK, Response
  <2>5. CacheOK'
    BY <1>3 DEF RefreshDone, TypeOK, CacheOK, Entry
  <2> QED BY <2>1, <2>2, <2>3, <2>4, <2>5
<1>4. ASSUME NEW b \in Bg, PlanPrefetch(b) PROVE IInv'
  <2>1. TypeOK'
    <3>1. call[b].name \in Name
      BY <1>4 DEF PlanPrefetch, CallOK, Call
    <3>2. todo' \in [Bg -> SUBSET Name]
      BY <1>4, <3>1 DEF PlanPrefetch, TypeOK
    <3>3. pc' \in [Task -> Place]
      BY <1>4 DEF PlanPrefetch, Goto, TypeOK, Place
    <3> QED BY <1>4, <3>2, <3>3 DEF PlanPrefetch, TypeOK
  <2>2. CallOK'
    BY <1>4 DEF PlanPrefetch, Goto, TypeOK, CallOK
  <2>3. TouchOK'
    BY <1>4 DEF PlanPrefetch, Goto, TypeOK, TouchOK, Touching
  <2>4. RespOK'
    BY <1>4 DEF PlanPrefetch, Goto, TypeOK, RespOK, Response
  <2>5. CacheOK'
    BY <1>4 DEF PlanPrefetch, TypeOK, CacheOK, Entry
  <2> QED BY <2>1, <2>2, <2>3, <2>4, <2>5
<1>5. ASSUME NEW b \in Bg, PrefetchNext(b) PROVE IInv'
  <2>1. TypeOK'
    <3>1. call[b] \in Call
      BY <1>5 DEF PrefetchNext, CallOK
    <3>2. \A n \in todo[b] : n \in Name /\ PrefetchCall(b, n) \in Call
      BY <3>1 DEF TypeOK, PrefetchCall, Call
    <3>3. call' \in [Task -> Call \cup {Nil}]
      BY <1>5, <3>2 DEF PrefetchNext, TypeOK
    <3>4. pc' \in [Task -> Place] /\ resp' \in [Task -> Response \cup {Nil}]
      BY <1>5 DEF PrefetchNext, Goto, TypeOK, Place
    <3>5. /\ ongoing' \in SUBSET Name
          /\ todo' \in [Bg -> SUBSET Name] /\ held' \in [Bg -> SUBSET Name]
      BY <1>5, <3>2 DEF PrefetchNext, Claim, TypeOK
    <3> QED BY <1>5, <3>3, <3>4, <3>5 DEF PrefetchNext, TypeOK
  <2>2. CallOK'
    <3>1. call[b] \in Call
      BY <1>5 DEF PrefetchNext, CallOK
    <3>2. \A n \in todo[b] : n \in Name /\ PrefetchCall(b, n) \in Call
      BY <3>1 DEF TypeOK, PrefetchCall, Call
    <3> QED BY <1>5, <3>1, <3>2 DEF PrefetchNext, Goto, TypeOK, CallOK
  <2>3. TouchOK'
    BY <1>5 DEF PrefetchNext, Goto, Claim, Claimed, PrefetchCall, TypeOK, TouchOK, Touching
  <2>4. RespOK'
    BY <1>5 DEF PrefetchNext, Goto, Claim, Claimed, PrefetchCall, TypeOK, RespOK, Response
  <2>5. CacheOK'
    BY <1>5 DEF PrefetchNext, Claim, Claimed, PrefetchCall, TypeOK, CacheOK, Entry
  <2> QED BY <2>1, <2>2, <2>3, <2>4, <2>5
<1>6. ASSUME NEW b \in Bg, PrefetchEnd(b) PROVE IInv'
  <2>1. TypeOK'
    BY <1>6 DEF PrefetchEnd, Goto, TypeOK, Place
  <2>2. CallOK'
    BY <1>6 DEF PrefetchEnd, Goto, TypeOK, CallOK
  <2>3. TouchOK'
    BY <1>6 DEF PrefetchEnd, Goto, TypeOK, TouchOK, Touching
  <2>4. RespOK'
    BY <1>6 DEF PrefetchEnd, Goto, TypeOK, RespOK, Response
  <2>5. CacheOK'
    BY <1>6 DEF PrefetchEnd, TypeOK, CacheOK, Entry
  <2> QED BY <2>1, <2>2, <2>3, <2>4, <2>5
<1>7. ASSUME NEW t \in Task, Check(t) PROVE IInv'
  <2>1. TypeOK'
    <3>1. blockFQDN \in Response
      BY DEF blockFQDN, NoAnswer, Response
    <3>2. pc' \in [Task -> Place] /\ resp' \in [Task -> Response \cup {Nil}]
      BY <1>7, <3>1 DEF Check, Goto, Return, TypeOK, Place
    <3> QED BY <1>7, <3>2 DEF Check, TypeOK
  <2>2. CallOK'
    BY <1>7 DEF Check, Goto, Return, blockFQDN, NoAnswer, TypeOK, CallOK
  <2>3. TouchOK'
    BY <1>7 DEF Check, Goto, Return, blockFQDN, NoAnswer, TypeOK, TouchOK, Touching
  <2>4. RespOK'
    <3>1. blockFQDN \in Response /\ blockFQDN.ref = Nil
      BY DEF blockFQDN, NoAnswer, Response
    <3> QED BY <1>7, <3>1 DEF Check, Goto, Return, TypeOK, RespOK
  <2>5. CacheOK'
    BY <1>7 DEF Check, Return, blockFQDN, NoAnswer, TypeOK, CacheOK, Entry
  <2> QED BY <2>1, <2>2, <2>3, <2>4, <2>5
<1>8. ASSUME NEW t \in Task, Lookup(t) PROVE IInv'
  <2>1. TypeOK'
    <3>1. pc' \in [Task -> Place]
      BY <1>8 DEF Lookup, Goto, TypeOK, Place
    <3>2. call[t].name \in Name
      BY <1>8 DEF Lookup, CallOK, Call
    <3>3. InCache(call[t].name) => cache[call[t].name].obj \in Obj
      BY <3>2 DEF InCache, TypeOK, Entry
    <3>4. loc' \in [Task -> Local]
      <4>1. loc[t] \in Local
        BY DEF TypeOK
      <4>2. \A o \in Obj : [loc[t] EXCEPT !.obj = o] \in Local
        BY <4>1 DEF Local
      <4>3. \/ loc' = loc
            \/ \E o \in Obj : loc' = [loc EXCEPT ![t] = [loc[t] EXCEPT !.obj = o]]
        BY <1>8, <3>3 DEF Lookup
      <4> QED BY <4>2, <4>3 DEF TypeOK
    <3> QED BY <1>8, <3>1, <3>4 DEF Lookup, TypeOK
  <2>2. CallOK'
    BY <1>8 DEF Lookup, Goto, InCache, Entry, TypeOK, CallOK
  <2>3. TouchOK'
    <3>1. call[t].name \in Name
      BY <1>8 DEF Lookup, CallOK, Call
    <3>2. InCache(call[t].name) => /\ cache[call[t].name].obj \in Obj
                                  /\ heap[cache[call[t].name].obj] \in Cached
      BY <3>1 DEF InCache, TypeOK, Entry, CacheOK
    <3>3. loc[t] \in Local
      BY DEF TypeOK
    <3>4. pc'[t] = "touch" => InCache(call[t].name) /\ loc'[t].obj = cache[call[t].name].obj
      BY <1>8, <3>3 DEF Lookup, Goto, TypeOK, Local
    <3> QED BY <1>8, <3>2, <3>4 DEF Lookup, Goto, TypeOK, TouchOK, Touching
  <2>4. RespOK'
    BY <1>8 DEF Lookup, Goto, InCache, Entry, TypeOK, RespOK, Response
  <2>5. CacheOK'
    BY <1>8 DEF Lookup, InCache, Entry, TypeOK, CacheOK
  <2> QED BY <2>1, <2>2, <2>3, <2>4, <2>5
<1>9. ASSUME NEW t \in Task, Touch(t) PROVE IInv'
  <2>a. TouchEffect(t)
    BY <1>9, TouchFacts
  <2>b. \A p \in Obj : heap[p] \in Cached =>
          heap'[p] \in Cached /\ DOMAIN heap'[p].ttls = DOMAIN heap[p].ttls
    BY <2>a DEF TouchEffect, Kept
  <2>1. TypeOK'
    BY <2>a DEF TouchEffect, NothingElse, TypeOK
  <2>2. CallOK'
    BY <2>a DEF TouchEffect, NothingElse, InTouch, InRecord, CallOK
  <2>3. TouchOK'
    <3>1. \A u \in Task : pc[u] \in Touching => loc[u].obj \in Obj /\ heap[loc[u].obj] \in Cached
      BY DEF TouchOK
    <3>2. \A u \in Task \ {t} : pc'[u] = pc[u] /\ loc'[u] = loc[u]
      BY <2>a DEF TouchEffect
    <3>3. /\ pc[t] \in Touching /\ loc'[t].obj = loc[t].obj
          /\ pc'[t] \in InRecord => loc'[t].i \in DOMAIN heap[loc[t].obj].ttls
      BY <2>a DEF TouchEffect, Touching
    <3>4. \A u \in Task : pc[u] \in InRecord => loc[u].i \in DOMAIN heap[loc[u].obj].ttls
      BY DEF TouchOK
    <3>5. InRecord \subseteq Touching
      BY DEF Touching, InTouch
    <3> QED BY <2>b, <3>1, <3>2, <3>3, <3>4, <3>5 DEF TouchOK
  <2>4. RespOK'
    <3>1. UNCHANGED resp /\ \A c \in Conn : pc'[c] = "return" => pc[c] = "return"
      BY <2>a DEF TouchEffect, NothingElse, InTouch, InRecord
    <3>2. \A u \in Task : resp[u] # Nil /\ resp[u].ref # Nil => resp[u].ref \in Obj
      BY DEF TypeOK, Response
    <3> QED BY <2>b, <3>1, <3>2 DEF RespOK
  <2>5. CacheOK'
    <3>1. UNCHANGED cache /\ \A n \in Name : cache[n] # Nil => cache[n].obj \in Obj
      BY <2>a DEF TouchEffect, NothingElse, TypeOK, Entry
    <3> QED BY <2>b, <3>1 DEF CacheOK
  <2> QED BY <2>1, <2>2, <2>3, <2>4, <2>5
<1>10. ASSUME NEW t \in Task, TouchEnd(t) PROVE IInv'
  <2> DEFINE o == loc[t].obj
  <2>a. \/ /\ pc' = [pc EXCEPT ![t] = "related"] /\ UNCHANGED <<call, cause>>
        \/ \E b \in Fresh :
             /\ pc' = [pc EXCEPT ![t] = "related", ![b] = "check"]
             /\ call' = [call EXCEPT ![b] = RefreshCall(t)]
             /\ cause' = [cause EXCEPT ![b] = o]
    BY <1>10 DEF TouchEnd, Goto, Go
  <2>b. RefreshCall(t) \in Call /\ Fresh \subseteq Bg /\ o \in Obj
    BY <1>10 DEF TouchEnd, RefreshCall, CallOK, Call, Fresh, TouchOK, Touching
  <2>1. TypeOK'
    <3>1. pc' \in [Task -> Place]
      BY <2>a, <2>b DEF TypeOK, Place
    <3>2. call' \in [Task -> Call \cup {Nil}]
      <4> DEFINE d == RefreshCall(t)
      <4>1. d \in Call /\ call \in [Task -> Call \cup {Nil}]
        BY <2>b DEF TypeOK
      <4>2. call' = call \/ \E b \in Bg : call' = [call EXCEPT ![b] = d]
        BY <2>a, <2>b
      <4> HIDE DEF d
      <4> QED BY <4>1, <4>2
    <3>4. cause' \in [Bg -> Obj \cup {Nil}]
      <4> HIDE DEF o
      <4> QED BY <2>a, <2>b DEF TypeOK
    <3> QED BY <1>10, <3>1, <3>2, <3>4 DEF TouchEnd, TypeOK
  <2>2. CallOK'
    BY ZenonT(60), <1>10, <2>a, <2>b DEF TouchEnd, TypeOK, CallOK
  <2>3. TouchOK'
    BY <1>10, <2>a, <2>b DEF TouchEnd, TypeOK, TouchOK, Touching
  <2>4. RespOK'
    <3>1. \A c \in Conn : pc'[c] = "return" => pc[c] = "return"
      BY <2>a, <2>b DEF TypeOK
    <3> QED BY <1>10, <3>1 DEF TouchEnd, TypeOK, RespOK, Response
  <2>5. CacheOK'
    BY <1>10 DEF TouchEnd, TypeOK, CacheOK, Entry
  <2> QED BY <2>1, <2>2, <2>3, <2>4, <2>5
<1>11. ASSUME NEW t \in Task, PrefetchOnHit(t) PROVE IInv'
  <2>1. TypeOK'
    <3>1. pc' \in [Task -> Place]
      BY <1>11 DEF PrefetchOnHit, Goto, Go, Fresh, TypeOK, Place
    <3>2. call' \in [Task -> Call \cup {Nil}]
      <4> DEFINE d(b) == [call[t] EXCEPT !.id = b]
      <4>1. call[t] \in Call /\ call \in [Task -> Call \cup {Nil}]
        BY <1>11 DEF PrefetchOnHit, TypeOK, CallOK
      <4>2. \A b \in Bg : d(b) \in Call
        BY <4>1 DEF Call
      <4>3. call' = call \/ \E b \in Bg : call' = [call EXCEPT ![b] = d(b)]
        BY <1>11 DEF PrefetchOnHit, Go, Fresh
      <4> HIDE DEF d
      <4> QED BY <4>1, <4>2, <4>3
    <3> QED BY <1>11, <3>1, <3>2 DEF PrefetchOnHit, TypeOK
  <2>2. CallOK'
    BY <1>11 DEF PrefetchOnHit, Goto, Go, Fresh, Call, TypeOK, CallOK
  <2>3. TouchOK'
    BY <1>11 DEF PrefetchOnHit, Goto, Go, Fresh, TypeOK, TouchOK, Touching
  <2>4. RespOK'
    BY <1>11 DEF PrefetchOnHit, Goto, Go, Fresh, TypeOK, RespOK, Response
  <2>5. CacheOK'
    BY <1>11 DEF PrefetchOnHit, Go, Fresh, TypeOK, CacheOK, Entry
  <2> QED BY <2>1, <2>2, <2>3, <2>4, <2>5
<1>12. ASSUME NEW t \in Task, Copy(t) PROVE IInv'
  <2> DEFINE o == loc[t].obj
             m == [name |-> o[2], id |-> call[t].id, ttls |-> heap[o].ttls]
             r == [kind |-> "answer", cached |-> TRUE, forwarded |-> FALSE, ref |-> Nil,
                   prefetched |-> heap[o].prefetched, msg |-> m]
  <2>a. o \in Obj /\ o[2] \in Name /\ heap[o] \in Cached /\ call[t] \in Call
    BY <1>12 DEF Copy, TouchOK, Touching, CallOK, Obj
  <2>b. m \in Message
    BY <2>a DEF Message, Cached, Call
  <2>c. r \in Response /\ r.ref = Nil
    <3>1. heap[o].prefetched \in BOOLEAN
      BY <2>a DEF Cached
    <3> HIDE DEF m
    <3> QED BY <2>b, <3>1 DEF Response
  <2>d. /\ resp' = [resp EXCEPT ![t] = r]
        /\ pc' = [pc EXCEPT ![t] = "return"]
        /\ loc' = [loc EXCEPT ![t] = NoLocal]
    BY <1>12 DEF Copy, Return, Goto
  <2>e. NoLocal \in Local
    BY DEF NoLocal, Local
  <2> HIDE DEF r
  <2>1. TypeOK'
    BY <1>12, <2>c, <2>d, <2>e DEF Copy, TypeOK, Place
  <2>2. CallOK'
    BY <1>12, <2>a, <2>d DEF Copy, TypeOK, CallOK
  <2>3. TouchOK'
    BY <1>12, <2>d DEF Copy, TypeOK, TouchOK, Touching
  <2>4. RespOK'
    BY <1>12, <2>c, <2>d DEF Copy, TypeOK, RespOK
  <2>5. CacheOK'
    BY <1>12 DEF Copy, TypeOK, CacheOK
  <2> QED BY <2>1, <2>2, <2>3, <2>4, <2>5
<1>13. ASSUME NEW t \in Task, Exchange(t) PROVE IInv'
  <2>1. TypeOK'
    <3>1. NoAnswer("servfail") \in Response
      BY DEF NoAnswer, Response
    <3>2. CASE Replied(t)
      <4>1. PICK ttls \in Seq(Nat) : loc' = [loc EXCEPT ![t] = [loc[t] EXCEPT !.ttls = ttls]]
        BY <3>2, ResolverAssumption DEF Replied
      <4>a. loc[t] \in Local
        BY DEF TypeOK
      <4>2. [loc[t] EXCEPT !.ttls = ttls] \in Local
        BY <4>a DEF Local
      <4>3. loc' \in [Task -> Local] /\ pc' \in [Task -> Place]
        BY <3>2, <4>1, <4>2 DEF Replied, Goto, TypeOK, Place
      <4>4. attempt' \in [Task -> 0..MaxRetries - 1]
        BY <3>2 DEF Replied, TypeOK, MaxRetries
      <4> QED BY <1>13, <3>2, <4>3, <4>4 DEF Exchange, Replied, TypeOK
    <3>3. ASSUME NEW u \in selectUpstream, GetsNoReply(t, u) PROVE TypeOK'
      <4>1. pc' \in [Task -> Place] /\ resp' \in [Task -> Response \cup {Nil}]
        BY <3>1, <3>3 DEF GetsNoReply, Return, Goto, TypeOK, Place
      <4>2. attempt' \in [Task -> 0..MaxRetries - 1] /\ failed' \in SUBSET Upstream
        BY <3>3 DEF GetsNoReply, selectUpstream, MayRetry, MaxRetries, TypeOK
      <4> QED BY <1>13, <3>3, <4>1, <4>2 DEF Exchange, GetsNoReply, TypeOK
    <3> QED BY <1>13, <3>2, <3>3 DEF Exchange
  <2>2. CallOK'
    BY <1>13 DEF Exchange, Goto, Return, Replied, GetsNoReply, MayRetry, MaxRetries, NoAnswer, TypeOK, CallOK
  <2>3. TouchOK'
    BY <1>13 DEF Exchange, Goto, Return, Replied, GetsNoReply, MayRetry, MaxRetries, NoAnswer, TypeOK, TouchOK, Touching
  <2>4. RespOK'
    <3>1. NoAnswer("servfail") \in Response /\ NoAnswer("servfail").ref = Nil
      BY DEF NoAnswer, Response
    <3>2. CASE Replied(t)
      BY <1>13, <3>2 DEF Exchange, Replied, Goto, TypeOK, RespOK
    <3>3. ASSUME NEW u \in selectUpstream, GetsNoReply(t, u) PROVE RespOK'
      BY <1>13, <3>1, <3>3 DEF Exchange, GetsNoReply, Goto, Return, TypeOK, RespOK
    <3> QED BY <1>13, <3>2, <3>3 DEF Exchange
  <2>5. CacheOK'
    BY <1>13 DEF Exchange, Return, Replied, GetsNoReply, MayRetry, MaxRetries, NoAnswer, TypeOK, CacheOK, Entry
  <2> QED BY <2>1, <2>2, <2>3, <2>4, <2>5
<1>14. ASSUME NEW t \in Task, Store(t) PROVE IInv'
  <2> DEFINE n == call[t].name
             o == <<t, n>>
  <2>a. call[t] \in Call /\ n \in Name /\ o \in Obj /\ o[2] = n /\ Fresh \subseteq Bg
    BY <1>14 DEF Store, CallOK, Call, Obj, Fresh
  <2>b. /\ heap' \in [Obj -> Cached \cup {Nil}]
        /\ heap'[o] \in Cached
        /\ \A p \in Obj : p # o => heap'[p] = heap[p]
    BY <1>14, <2>a DEF Store, TypeOK, Cached, Call, Local
  <2>c. \/ /\ pc' = [pc EXCEPT ![t] = "return"] /\ UNCHANGED call
        \/ \E b \in Fresh : /\ pc' = [pc EXCEPT ![t] = "return", ![b] = "plan"]
                             /\ call' = [call EXCEPT ![b] = [call[t] EXCEPT !.id = b]]
    BY <1>14 DEF Store, Goto, Go
  <2>d. \A b \in Bg : [call[t] EXCEPT !.id = b] \in Call
    BY <2>a DEF Call
  <2>e. cacheTtl(loc[t].ttls) * TicksPerSecond \in Nat
    BY CacheTtlType, ResolverAssumption DEF TypeOK, Local
  <2>1. TypeOK'
    <3>1. pc' \in [Task -> Place]
      BY <2>a, <2>c DEF TypeOK, Place
    <3>2. call' \in [Task -> Call \cup {Nil}]
      BY <2>a, <2>c, <2>d DEF TypeOK
    <3>3. [obj |-> o, exp |-> now + cacheTtl(loc[t].ttls) * TicksPerSecond] \in Entry
      BY <2>a, <2>e DEF TypeOK, Entry
    <3>4. cache' \in [Name -> Entry \cup {Nil}]
      BY <1>14, <2>a, <3>3 DEF Store, TypeOK
    <3>5. resp' \in [Task -> Response \cup {Nil}]
      BY <1>14, <2>a DEF Store, TypeOK, Response
    <3>6. loc' \in [Task -> Local]
      BY <1>14 DEF Store, TypeOK, Local, NoLocal
    <3> QED BY <1>14, <2>b, <3>1, <3>2, <3>4, <3>5, <3>6 DEF Store, TypeOK
  <2>2. CallOK'
    BY <2>a, <2>c, <2>d DEF TypeOK, CallOK
  <2>3. TouchOK'
    <3>1. heap[o] = Nil
      BY <1>14, <2>a DEF Store, Unborn, Before
    <3>2. \A u \in Task : pc'[u] \in Touching => u # t /\ pc[u] \in Touching /\ pc'[u] = pc[u]
      BY <1>14, <2>a, <2>c DEF TypeOK, Touching
    <3>3. \A u \in Task \ {t} : loc'[u] = loc[u]
      BY <1>14 DEF Store, TypeOK
    <3>4. \A u \in Task : pc[u] \in Touching =>
            loc[u].obj # o /\ loc[u].obj \in Obj /\ heap[loc[u].obj] \in Cached
      BY <3>1 DEF TouchOK
    <3>5. InRecord \subseteq Touching
      BY DEF Touching
    <3> HIDE DEF o, InTouch, InRecord
    <3> QED BY <2>b, <3>2, <3>3, <3>4, <3>5 DEF TouchOK
  <2>4. RespOK'
    <3>1. \A u \in Task : resp'[u] # Nil /\ resp'[u].ref # Nil /\ u # t
             => resp[u] # Nil /\ resp[u].ref # Nil /\ resp'[u] = resp[u]
      BY <1>14 DEF Store, TypeOK
    <3>2. resp'[t] \in Response /\ resp'[t].ref = o
      BY <1>14, <2>a DEF Store, TypeOK, Response
    <3>3. \A c \in Conn : pc'[c] = "return" => c = t \/ pc[c] = "return"
      BY <2>a, <2>c DEF TypeOK
    <3>4. \A p \in Obj : heap[p] \in Cached => heap'[p] \in Cached
      BY <2>b
    <3>5. \A u \in Task : u # t => resp'[u] = resp[u]
      BY <1>14 DEF Store, TypeOK
    <3>6. \A u \in Task : resp[u] # Nil /\ resp[u].ref # Nil => resp[u].ref \in Obj
      BY DEF TypeOK, Response
    <3> QED BY <2>b, <3>1, <3>2, <3>3, <3>4, <3>5, <3>6 DEF RespOK
  <2>5. CacheOK'
    BY <1>14, <2>a, <2>b DEF Store, TypeOK, CacheOK, Entry
  <2> QED BY <2>1, <2>2, <2>3, <2>4, <2>5
<1>15. ASSUME Tick PROVE IInv'
  <2>1. TypeOK'
    BY <1>15 DEF Tick, TypeOK, Place
  <2>2. CallOK'
    BY <1>15 DEF Tick, TypeOK, CallOK
  <2>3. TouchOK'
    BY <1>15 DEF Tick, TypeOK, TouchOK, Touching
  <2>4. RespOK'
    BY <1>15 DEF Tick, TypeOK, RespOK, Response
  <2>5. CacheOK'
    BY <1>15 DEF Tick, TypeOK, CacheOK, Entry
  <2> QED BY <2>1, <2>2, <2>3, <2>4, <2>5
<1>16. ASSUME PolicyChange PROVE IInv'
  <2>1. TypeOK'
    <3>1. blocked' \in SUBSET (Client \X Name)
      BY <1>16, ResolverAssumption DEF PolicyChange
    <3> QED BY <1>16, <3>1 DEF PolicyChange, TypeOK
  <2>2. CallOK'
    BY <1>16 DEF PolicyChange, TypeOK, CallOK
  <2>3. TouchOK'
    BY <1>16 DEF PolicyChange, TypeOK, TouchOK, Touching
  <2>4. RespOK'
    BY <1>16 DEF PolicyChange, TypeOK, RespOK, Response
  <2>5. CacheOK'
    BY <1>16 DEF PolicyChange, TypeOK, CacheOK, Entry
  <2> QED BY <2>1, <2>2, <2>3, <2>4, <2>5
<1>17. ASSUME LoadQueryPatterns PROVE IInv'
  <2>1. TypeOK'
    <3>1. Prefetch' \in [Name -> SUBSET Name]
      BY <1>17, ResolverAssumption DEF LoadQueryPatterns
    <3> QED BY <1>17, <3>1 DEF LoadQueryPatterns, TypeOK
  <2>2. CallOK'
    BY <1>17 DEF LoadQueryPatterns, TypeOK, CallOK
  <2>3. TouchOK'
    BY <1>17 DEF LoadQueryPatterns, TypeOK, TouchOK, Touching
  <2>4. RespOK'
    BY <1>17 DEF LoadQueryPatterns, TypeOK, RespOK, Response
  <2>5. CacheOK'
    BY <1>17 DEF LoadQueryPatterns, TypeOK, CacheOK, Entry
  <2> QED BY <2>1, <2>2, <2>3, <2>4, <2>5
<1>18. ASSUME NEW n \in Name, Evict(n) PROVE IInv'
  <2>1. TypeOK'
    BY <1>18 DEF Evict, TypeOK, Place
  <2>2. CallOK'
    BY <1>18 DEF Evict, TypeOK, CallOK
  <2>3. TouchOK'
    BY <1>18 DEF Evict, TypeOK, TouchOK, Touching
  <2>4. RespOK'
    BY <1>18 DEF Evict, TypeOK, RespOK, Response
  <2>5. CacheOK'
    BY <1>18 DEF Evict, TypeOK, CacheOK, Entry
  <2> QED BY <2>1, <2>2, <2>3, <2>4, <2>5
<1>19. ASSUME UNCHANGED vars PROVE IInv'
  BY <1>19 DEF TypeOK, CallOK, TouchOK, RespOK, CacheOK
<1> QED
  BY <1>1, <1>2, <1>3, <1>4, <1>5, <1>6, <1>7, <1>8, <1>9, <1>10, <1>11, <1>12, <1>13, <1>14, <1>15, <1>16, <1>17, <1>18, <1>19 DEF Next, Process, Background, Environment

\* The initial state satisfies the invariant.
LEMMA TypeInit == Init => IInv
<1> SUFFICES ASSUME Init PROVE IInv
  OBVIOUS
<1> USE TaskFacts, NilAssumption DEF Init, InTouch, InRecord
<1>1. Prefetch \in [Name -> SUBSET Name]
  BY ResolverAssumption
<1>2. TypeOK
  BY <1>1, ResolverAssumption DEF TypeOK, Place, Local, NoLocal, MaxRetries
<1>3. CallOK /\ TouchOK /\ RespOK /\ CacheOK
  BY DEF CallOK, TouchOK, Touching, RespOK, CacheOK
<1> QED BY <1>2, <1>3 DEF IInv

\* Nothing has started in the initial state.
LEMMA UnstartedInit == Init => Unstarted /\ Unborn
BY TaskFacts DEF Init, Unstarted, Unborn, Before, Touching, InTouch, InRecord, Obj

\* The inductive invariant holds in every reachable state.
LEMMA FullInvariance == Spec => [](IInv /\ Unstarted /\ Unborn)
<1>1. Init => IInv /\ Unstarted /\ Unborn
  BY TypeInit, UnstartedInit
<1>2. IInv /\ Unstarted /\ Unborn /\ [Next]_vars => (IInv /\ Unstarted /\ Unborn)'
  BY TypeStep, UnstartedStep, UnbornStep
<1> QED BY <1>1, <1>2, PTL DEF Spec

\* So does each of its parts.
THEOREM Invariance == Spec => []IInv
BY FullInvariance, PTL

\* What has not started has done nothing.
LEMMA UnstartedInvariance == Spec => []Unstarted
BY FullInvariance, PTL

\* Nothing is allocated twice.
LEMMA UnbornInvariance == Spec => []Unborn
BY FullInvariance, PTL

\* Every variable of the query path keeps its type: no goroutine follows a null
\* pointer in resolve or touch, whatever the interleaving and the number of
\* queries, names, upstreams and background goroutines.
THEOREM TypeCorrect == Spec => []TypeOK
<1>1. IInv => TypeOK
  BY DEF IInv
<1> QED BY <1>1, Invariance, PTL

=============================================================================
