------------------------------ MODULE Resolver ------------------------------
(***************************************************************************)
(* The query path of Beacon DNS: internal/dns/server.go (handleRequest),   *)
(* internal/dns/resolver.go (process, resolve, forwardToUpstream,          *)
(* prefetchRelated) and the shared cache entries of internal/dns/cache.go  *)
(* (Cached, touch, reduceTtl).                                             *)
(*                                                                         *)
(* A task is a goroutine: Conn are the handler goroutines the DNS server   *)
(* starts, one per incoming query; Bg are the goroutines the code itself   *)
(* starts with `go process` (a refresh) and `go prefetchRelated` (a        *)
(* prefetcher).  Cache entries are pointers, shared by every goroutine     *)
(* that got them out of the cache and mutated by touch without a lock, so  *)
(* they live in a heap, and touch is one action per access to an object:   *)
(* every load and every store of Stale, Touched and each record's Ttl.     *)
(***************************************************************************)
EXTENDS Integers, Sequences, FiniteSetsExt

CONSTANTS
  Conn,               \* incoming queries, each served by its own goroutine
  MaxGoroutines,      \* bound: how many background goroutines ever start
  Name,               \* questions: a name with its type and class
  Client,             \* client host names, as lookupHostname returns them
  PrivatePtr,         \* PTR questions under in-addr.arpa for private addresses
  Policies,           \* filter verdicts: each a set of blocked <<client, name>>
  Patterns,           \* query patterns: each a function Name -> SUBSET Name
  Follow,             \* cache.query_patterns.follow
  Upstream,           \* dns.upstreams
  Replies,            \* TTLs of the records of an upstream reply, all sections
  ServeStaleFor,      \* cache.serve_stale.for, in seconds
  ServeStaleWithTTL,  \* cache.serve_stale.with_ttl, in seconds
  MaxUint32,          \* math.MaxUint32: larger than every other TTL
  TicksPerSecond,     \* resolution of the clock
  MaxTime,            \* bound: the last tick
  Nil                 \* a null pointer, an absent entry

ASSUME ResolverAssumption ==
  /\ MaxGoroutines \in Nat
  /\ Conn \cap (1..MaxGoroutines) = {}
  /\ PrivatePtr \subseteq Name
  /\ Policies \subseteq SUBSET (Client \X Name) /\ Policies # {}
  /\ Patterns \subseteq [Name -> SUBSET Name] /\ Patterns # {}
  /\ Follow \in BOOLEAN
  /\ Upstream # {}
  /\ Replies \subseteq Seq(Nat)
  /\ {ServeStaleFor, ServeStaleWithTTL, MaxUint32, MaxTime} \subseteq Nat
  /\ TicksPerSecond \in Nat \ {0}

MaxRetries == 3

Bg == 1..MaxGoroutines
Task == Conn \cup Bg

\* A Cached object is named after the call of resolve that allocates it.
Obj == Task \X Name

VARIABLES
  now,        \* the wall clock, in ticks
  blocked,    \* the verdicts of isBlocked under the lists and schedules of now
  Prefetch,   \* the query patterns in use
  cache,      \* Cache: question -> entry and the instant it expires
  heap,       \* the Cached objects
  ongoing,    \* ongoingPrefetches
  failed,     \* upstreams whose LastFailure is set
  pc,         \* where each goroutine is
  call,       \* arguments of the process() it runs
  loc,        \* locals of resolve and touch
  attempt,    \* loop variable of forwardToUpstream
  resp,       \* the *Response it is about to return
  todo,       \* prefetchRelated: related questions not yet looked at
  held,       \* prefetchRelated: keys whose deferred Delete is pending
  cause,      \* the object whose expiry started this refresh
  sent        \* what was written to the client and logged

env   == <<now, blocked, Prefetch>>
store == <<cache, heap>>
bgv   == <<todo, held, cause>>
vars  == <<env, store, ongoing, failed, pc, call, loc, attempt, resp, bgv, sent>>

-----------------------------------------------------------------------------
\* The arguments of process(); `id` is the goroutine whose query q carries the
\* message id (a refresh is handed the q of the request that started it).
Call == [name : Name, client : Client, prefetch : BOOLEAN, id : Task]

\* A Cached and its Msg.  `born` and `ttl0` are what it was created with.
Cached == [ttls : Seq(Nat), ttl0 : Seq(Nat), born : Nat, touched : Nat,
           stale : BOOLEAN, prefetched : BOOLEAN, id : Task]

\* touch: `at` is its now, `i` the record at hand and `ttl` what was loaded of
\* that record to subtract from; resolve: `ttls` is the upstream's reply.
Local == [obj : Obj \cup {Nil}, at : Nat, wasStale : BOOLEAN, elapsed : Nat,
          i : Nat, ttl : Nat, ttls : Seq(Nat)]

NoLocal == [obj |-> Nil, at |-> 0, wasStale |-> FALSE, elapsed |-> 0,
            i |-> 0, ttl |-> 0, ttls |-> <<>>]

Message == [name : Name, id : Task, ttls : Seq(Nat)]

\* A *Response holds a private message, or shares the object `ref` with the
\* cache.  `forwarded`: its Upstream is set.
Response == [kind : {"blocked", "servfail", "answer"}, cached : BOOLEAN,
             prefetched : BOOLEAN, forwarded : BOOLEAN,
             msg : Message \cup {Nil}, ref : Obj \cup {Nil}]

\* An entry of the cache: the object, and the instant it expires.
Entry == [obj : Obj, exp : Nat]

Sent == [kind : {"blocked", "servfail", "answer"}, cached : BOOLEAN,
         prefetched : BOOLEAN, forwarded : BOOLEAN, msg : Message \cup {Nil}]

ASSUME NilAssumption ==
  /\ Nil \notin Task /\ Nil \notin Obj /\ Nil \notin Entry /\ Nil \notin Call
  /\ Nil \notin Cached /\ Nil \notin Response /\ Nil \notin Sent
  /\ Nil \notin Message /\ Nil \notin [name : Name, client : Client]

\* Inside touch, in the order of its accesses: outside the loop over the records,
\* and at one of them.
InRecord == {"zero", "more", "load", "subtract", "expire", "renew"}
InTouch == {"touch", "was", "elapsed", "settle", "report"} \cup InRecord

Place == {"idle", "check", "lookup", "related", "copy", "exchange", "store",
          "return", "plan", "next", "done"} \cup InTouch

Init ==
  /\ now = 0
  /\ blocked \in Policies
  /\ Prefetch \in IF Follow THEN Patterns ELSE {[n \in Name |-> {}]}
  /\ cache = [n \in Name |-> Nil]
  /\ heap = [o \in Obj |-> Nil]
  /\ ongoing = {}
  /\ failed = {}
  /\ pc = [t \in Task |-> "idle"]
  /\ call = [t \in Task |-> Nil]
  /\ loc = [t \in Task |-> NoLocal]
  /\ attempt = [t \in Task |-> 0]
  /\ resp = [t \in Task |-> Nil]
  /\ todo = [b \in Bg |-> {}]
  /\ held = [b \in Bg |-> {}]
  /\ cause = [b \in Bg |-> Nil]
  /\ sent = [c \in Conn |-> Nil]

-----------------------------------------------------------------------------
(* Helpers *)

Goto(t, place) == pc' = [pc EXCEPT ![t] = place]

\* process() hands its result back to its caller.
Return(t, r) ==
  /\ resp' = [resp EXCEPT ![t] = r]
  /\ Goto(t, "return")

\* Mutant: forwardToUpstream returns nil, nil, err.
NobodyAnswered(kind) ==
  [kind |-> kind, cached |-> FALSE, prefetched |-> FALSE, forwarded |-> FALSE,
   msg |-> Nil, ref |-> Nil]

\* A refusal, or the SERVFAIL that names the last upstream tried.
NoAnswer(kind) ==
  [kind |-> kind, cached |-> FALSE, prefetched |-> FALSE,
   forwarded |-> (kind = "servfail"), msg |-> Nil, ref |-> Nil]

blockFQDN == NoAnswer("blocked")

\* The next background goroutine to start, if the bound leaves one.
Fresh == {b \in Bg : pc[b] = "idle" /\ \A a \in Bg : a < b => pc[a] # "idle"}

\* `go f(...)`: goroutine b starts at f with its arguments, while the goroutine
\* t that started it goes on at `place`.
Go(t, place, b, f, args) ==
  /\ pc' = [pc EXCEPT ![t] = place, ![b] = f]
  /\ call' = [call EXCEPT ![b] = args]

\* Cache.Get: an entry is not returned from the instant it expires.
InCache(n) == cache[n] # Nil /\ now < cache[n].exp

\* uint32(elapsed.Seconds()).  Touched can be ahead of the time touch() read
\* before it; the conversion of a negative float to uint32 saturates to 0 or
\* wraps to a huge value, depending on the architecture.
ElapsedSeconds(at, touched) ==
  IF at >= touched THEN {(at - touched) \div TicksPerSecond}
  ELSE IF touched - at < TicksPerSecond THEN {0} ELSE {0, MaxUint32}

minAnswerTtl(ttls) == Min({MaxUint32} \cup {ttls[i] : i \in {j \in DOMAIN ttls : ttls[j] # 0}})

cacheTtl(ttls) == Max({minAnswerTtl(ttls), ServeStaleFor})

\* handleReverseDNS only understands in-addr.arpa.
IsPrivateReverse(n) == n \in PrivatePtr

isBlocked(n, client) == <<client, n>> \in blocked

-----------------------------------------------------------------------------
(* process *)

\* A query arrives: the server starts a handler goroutine, which calls
\* process(q, hostname, true).
HandleRequest(c) ==
  /\ pc[c] = "idle"
  /\ \E n \in Name, client \in Client :
        call' = [call EXCEPT ![c] = [name |-> n, client |-> client,
                                     prefetch |-> TRUE, id |-> c]]
  /\ Goto(c, "check")
  /\ UNCHANGED <<env, store, ongoing, failed, loc, attempt, resp, bgv, sent>>

\* Mutants: only a client's own query is filtered; a cached answer is not filtered.
RefusedToClients(t) == call[t].prefetch /\ isBlocked(call[t].name, call[t].client)
RefusedOnMiss(t) == ~InCache(call[t].name) /\ isBlocked(call[t].name, call[t].client)

\* handleReverseDNS, then isBlocked.
Refused(t) == IsPrivateReverse(call[t].name) \/ isBlocked(call[t].name, call[t].client)

Check(t) ==
  /\ pc[t] = "check"
  /\ IF Refused(t)
       THEN Return(t, blockFQDN)
       ELSE Goto(t, "lookup") /\ UNCHANGED resp
  /\ UNCHANGED <<env, store, ongoing, failed, call, loc, attempt, bgv, sent>>

-----------------------------------------------------------------------------
(* resolve, cache hit *)

\* Cache.Get, and the test of cached.Stale for calls that must refresh.
Lookup(t) ==
  /\ pc[t] = "lookup"
  /\ LET n == call[t].name
     IN IF InCache(n) /\ (call[t].prefetch \/ ~heap[cache[n].obj].stale)
          THEN /\ loc' = [loc EXCEPT ![t].obj = cache[n].obj]
               /\ Goto(t, "touch")
          ELSE Goto(t, "exchange") /\ UNCHANGED loc
  /\ UNCHANGED <<env, store, ongoing, failed, call, attempt, resp, bgv, sent>>

-----------------------------------------------------------------------------
(* touch and reduceTtl, one access to the shared object at a time *)

\* What every access but the last leaves alone.
NothingElse == UNCHANGED <<env, cache, ongoing, failed, call, attempt, resp, bgv, sent>>

\* now := time.Now()
TouchBegin(t) ==
  /\ pc[t] = "touch"
  /\ loc' = [loc EXCEPT ![t].at = now]
  /\ Goto(t, "was")
  /\ NothingElse /\ UNCHANGED heap

\* wasStale := c.Stale
SeeStale(t) ==
  /\ pc[t] = "was"
  /\ loc' = [loc EXCEPT ![t].wasStale = heap[loc[t].obj].stale]
  /\ Goto(t, "elapsed")
  /\ NothingElse /\ UNCHANGED heap

\* The loops of reduceTtl, with locals l: the next record, or the end of touch.
NextRecord(t, l) ==
  IF l.i < Len(heap[l.obj].ttls)
    THEN /\ loc' = [loc EXCEPT ![t] = [l EXCEPT !.i = @ + 1, !.ttl = 0]]
         /\ Goto(t, "zero")
    ELSE /\ loc' = [loc EXCEPT ![t] = [l EXCEPT !.i = 0, !.ttl = 0, !.elapsed = 0]]
         /\ Goto(t, "settle")

\* elapsed := now.Sub(c.Touched)
SeeTouched(t) ==
  /\ pc[t] = "elapsed"
  /\ \E e \in ElapsedSeconds(loc[t].at, heap[loc[t].obj].touched) :
       NextRecord(t, [loc[t] EXCEPT !.elapsed = e])
  /\ NothingElse /\ UNCHANGED heap

\* header.Ttl of the record at hand, as it is now.
Ttl(t) == heap[loc[t].obj].ttls[loc[t].i]

SetTtl(t, ttl) == heap' = [heap EXCEPT ![loc[t].obj].ttls[loc[t].i] = ttl]

\* if header.Ttl == 0
TestZero(t) ==
  /\ pc[t] = "zero"
  /\ IF Ttl(t) = 0 THEN NextRecord(t, loc[t]) ELSE Goto(t, "more") /\ UNCHANGED loc
  /\ NothingElse /\ UNCHANGED heap

\* if header.Ttl > elapsed
TestMore(t) ==
  /\ pc[t] = "more"
  /\ Goto(t, IF Ttl(t) > loc[t].elapsed THEN "load" ELSE "expire")
  /\ NothingElse /\ UNCHANGED <<heap, loc>>

\* header.Ttl -= elapsed loads the TTL again ...
LoadTtl(t) ==
  /\ pc[t] = "load"
  /\ loc' = [loc EXCEPT ![t].ttl = Ttl(t)]
  /\ Goto(t, "subtract")
  /\ NothingElse /\ UNCHANGED heap

\* ... and stores the difference, of unsigned 32-bit numbers.
SubtractTtl(t) ==
  /\ pc[t] = "subtract"
  /\ SetTtl(t, (loc[t].ttl - loc[t].elapsed) % (MaxUint32 + 1))
  /\ NextRecord(t, loc[t])
  /\ NothingElse

\* c.Stale = true
SetStale(t) ==
  /\ pc[t] = "expire"
  /\ heap' = [heap EXCEPT ![loc[t].obj].stale = TRUE]
  /\ Goto(t, "renew")
  /\ NothingElse /\ UNCHANGED loc

\* header.Ttl = serveStaleWithTTL
RenewTtl(t) ==
  /\ pc[t] = "renew"
  /\ SetTtl(t, ServeStaleWithTTL)
  /\ NextRecord(t, loc[t])
  /\ NothingElse

\* c.Touched = now
SetTouched(t) ==
  /\ pc[t] = "settle"
  /\ heap' = [heap EXCEPT ![loc[t].obj].touched = loc[t].at]
  /\ Goto(t, "report")
  /\ NothingElse /\ UNCHANGED loc

Touch(t) ==
  \/ TouchBegin(t) \/ SeeStale(t) \/ SeeTouched(t)
  \/ TestZero(t) \/ TestMore(t) \/ LoadTtl(t) \/ SubtractTtl(t)
  \/ SetStale(t) \/ RenewTtl(t)
  \/ SetTouched(t)

\* Mutant: prefetch && cached.touch().
OwnStaleTransition(t) == call[t].prefetch /\ ~loc[t].wasStale /\ heap[loc[t].obj].stale

\* return !wasStale && c.Stale
TurnedStale(t) == ~loc[t].wasStale /\ heap[loc[t].obj].stale

\* Mutant: process(q, client, prefetch).
CascadingRefresh(t) == call[t]

RefreshCall(t) == [call[t] EXCEPT !.prefetch = FALSE]

\* The goroutine that saw the entry turn stale refreshes it: go process(...)
TouchEnd(t) ==
  /\ pc[t] = "report"
  /\ IF TurnedStale(t)
       THEN \E b \in Fresh :
              /\ Go(t, "related", b, "check", RefreshCall(t))
              /\ cause' = [cause EXCEPT ![b] = loc[t].obj]
       ELSE Goto(t, "related") /\ UNCHANGED <<call, cause>>
  /\ UNCHANGED <<env, store, ongoing, failed, loc, attempt, resp, todo, held, sent>>

-----------------------------------------------------------------------------
(* resolve, cache hit: the rest *)

\* go prefetchRelated(fqdn, client), for a client's own query only
PrefetchOnHit(t) ==
  /\ pc[t] = "related"
  /\ IF call[t].prefetch /\ Follow
       THEN \E b \in Fresh : Go(t, "copy", b, "plan", [call[t] EXCEPT !.id = b])
       ELSE Goto(t, "copy") /\ UNCHANGED call
  /\ UNCHANGED <<env, store, ongoing, failed, loc, attempt, resp, bgv, sent>>

\* Mutant: the cached message itself gets the id and is returned.
CopyNothing(t) ==
  /\ pc[t] = "copy"
  /\ heap' = [heap EXCEPT ![loc[t].obj].id = call[t].id]
  /\ Return(t, [kind |-> "answer", cached |-> TRUE, forwarded |-> FALSE, msg |-> Nil,
                prefetched |-> heap[loc[t].obj].prefetched, ref |-> loc[t].obj])
  /\ loc' = [loc EXCEPT ![t] = NoLocal]
  /\ UNCHANGED <<env, cache, ongoing, failed, call, attempt, bgv, sent>>

\* m := cached.Msg.Copy(); m.Id = q.Id
Copy(t) ==
  /\ pc[t] = "copy"
  /\ LET o == loc[t].obj
     IN Return(t, [kind |-> "answer", cached |-> TRUE, forwarded |-> FALSE, ref |-> Nil,
                   prefetched |-> heap[o].prefetched,
                   msg |-> [name |-> o[2], id |-> call[t].id, ttls |-> heap[o].ttls]])
  /\ loc' = [loc EXCEPT ![t] = NoLocal]
  /\ UNCHANGED <<env, store, ongoing, failed, call, attempt, bgv, sent>>

-----------------------------------------------------------------------------
(* resolve, cache miss: forwardToUpstream, then Cache.Set *)

Replied(t) ==
  /\ \E ttls \in Replies : loc' = [loc EXCEPT ![t].ttls = ttls]
  /\ Goto(t, "store")
  /\ attempt' = [attempt EXCEPT ![t] = 0]
  /\ UNCHANGED <<resp, failed>>

\* Mutant: one attempt too many.
RetryOnceMore(t) == attempt[t] + 1 <= MaxRetries

MayRetry(t) == attempt[t] + 1 < MaxRetries

\* Mutant: no math.Max.
DecayedWeight(u) == IF u \in failed THEN 0 ELSE 100

\* The least an upstream weighs: right after a failure the exponential leaves 0.
weight(u) == IF u \in failed THEN Max({0, 1}) ELSE 100

\* The upstreams selectUpstream may pick; it panics if there is none.
selectUpstream == {u \in Upstream : weight(u) > 0}

\* recordFailure, and another attempt or the error.
GetsNoReply(t, u) ==
  /\ failed' = failed \cup {u}
  /\ IF MayRetry(t)
       THEN /\ attempt' = [attempt EXCEPT ![t] = @ + 1]
            /\ UNCHANGED <<pc, resp>>
       ELSE /\ attempt' = [attempt EXCEPT ![t] = 0]
            /\ Return(t, NoAnswer("servfail"))
  /\ UNCHANGED loc

\* One attempt at an exchange succeeds, or fails within the read timeout.
Exchange(t) ==
  /\ pc[t] = "exchange"
  /\ \E u \in selectUpstream : Replied(t) \/ GetsNoReply(t, u)
  /\ UNCHANGED <<env, store, ongoing, call, bgv, sent>>

\* The reply becomes a cache entry unless it holds no record, a client's own
\* query starts prefetchRelated, and the reply itself is returned: the Msg
\* that is now in the cache, not a copy.
Store(t) ==
  /\ pc[t] = "store"
  /\ LET n == call[t].name
         ttls == loc[t].ttls
         o == <<t, n>>
     IN /\ heap' = [heap EXCEPT ![o] =
             [ttls |-> ttls, ttl0 |-> ttls, born |-> now, touched |-> now,
              stale |-> FALSE, prefetched |-> ~call[t].prefetch, id |-> call[t].id]]
        /\ cache' = IF ttls = <<>> THEN cache
                    ELSE [cache EXCEPT ![n] =
                           [obj |-> o, exp |-> now + cacheTtl(ttls) * TicksPerSecond]]
        /\ resp' = [resp EXCEPT ![t] = [kind |-> "answer", cached |-> FALSE,
                        prefetched |-> FALSE, forwarded |-> TRUE, msg |-> Nil, ref |-> o]]
  /\ IF call[t].prefetch
       THEN \E b \in Fresh : Go(t, "return", b, "plan", [call[t] EXCEPT !.id = b])
       ELSE Goto(t, "return") /\ UNCHANGED call
  /\ loc' = [loc EXCEPT ![t] = NoLocal]
  /\ UNCHANGED <<env, ongoing, failed, attempt, bgv, sent>>

\* w.WriteMsg packs the message as it is now, and the query is logged.
WriteMsg(c) ==
  /\ pc[c] = "return"
  /\ LET r == resp[c]
         shared == [name |-> r.ref[2], id |-> heap[r.ref].id, ttls |-> heap[r.ref].ttls]
     IN sent' = [sent EXCEPT ![c] = [kind |-> r.kind, cached |-> r.cached,
                   prefetched |-> r.prefetched, forwarded |-> r.forwarded,
                   msg |-> IF r.ref = Nil THEN r.msg ELSE shared]]
  /\ resp' = [resp EXCEPT ![c] = Nil]
  /\ Goto(c, "done")
  /\ UNCHANGED <<env, store, ongoing, failed, call, loc, attempt, bgv>>

\* A refresh goroutine drops what process() returned and ends.
RefreshDone(b) ==
  /\ pc[b] = "return" /\ cause[b] # Nil
  /\ resp' = [resp EXCEPT ![b] = Nil]
  /\ Goto(b, "done")
  /\ UNCHANGED <<env, store, ongoing, failed, call, loc, attempt, bgv, sent>>

-----------------------------------------------------------------------------
(* prefetchRelated *)

\* prefetched, ok := Prefetch[fqdn]: the map is read once, whatever replaces it
PlanPrefetch(b) ==
  /\ pc[b] = "plan"
  /\ todo' = [todo EXCEPT ![b] = Prefetch[call[b].name]]
  /\ Goto(b, "next")
  /\ UNCHANGED <<env, store, ongoing, failed, call, loc, attempt, resp, held, cause, sent>>

\* Mutant: Store instead of LoadOrStore.
NeverClaimed(n) == FALSE

Claimed(n) == n \in ongoing

\* Mutant: no deferred Delete.
ClaimForEver(b, n) == ongoing' = ongoing \cup {n} /\ UNCHANGED held

\* LoadOrStore stores the key; the Delete is deferred to the end of
\* prefetchRelated, not of the iteration.
Claim(b, n) ==
  /\ ongoing' = ongoing \cup {n}
  /\ held' = [held EXCEPT ![b] = @ \cup {n}]

\* Mutant: process(q, client, true).
CascadingCall(b, n) == [call[b] EXCEPT !.name = n]

PrefetchCall(b, n) == [call[b] EXCEPT !.name = n, !.prefetch = FALSE]

\* The next related question, in no particular order: Go iterates over a map.
PrefetchNext(b) ==
  /\ pc[b] = "next" \/ (pc[b] = "return" /\ cause[b] = Nil)
  /\ \E n \in todo[b] :
       /\ todo' = [todo EXCEPT ![b] = @ \ {n}]
       /\ IF Claimed(n)
            THEN Goto(b, "next") /\ UNCHANGED <<ongoing, held, call>>
            ELSE /\ Claim(b, n)
                 /\ call' = [call EXCEPT ![b] = PrefetchCall(b, n)]
                 /\ Goto(b, "check")
  /\ resp' = [resp EXCEPT ![b] = Nil]
  /\ UNCHANGED <<env, store, failed, loc, attempt, cause, sent>>

\* The deferred Deletes run one by one once the loops are over.
PrefetchEnd(b) ==
  /\ pc[b] = "next" \/ (pc[b] = "return" /\ cause[b] = Nil)
  /\ todo[b] = {}
  /\ IF held[b] = {}
       THEN Goto(b, "done") /\ UNCHANGED <<ongoing, held>>
       ELSE \E n \in held[b] :
              /\ ongoing' = ongoing \ {n}
              /\ held' = [held EXCEPT ![b] = @ \ {n}]
              /\ Goto(b, "next")
  /\ resp' = [resp EXCEPT ![b] = Nil]
  /\ UNCHANGED <<env, store, failed, call, loc, attempt, todo, cause, sent>>

-----------------------------------------------------------------------------
(* Everything around the query path *)

Tick ==
  /\ now < MaxTime
  /\ now' = now + 1
  /\ UNCHANGED <<blocked, Prefetch, store, ongoing, failed, pc, call, loc, attempt,
                 resp, bgv, sent>>

\* Lists are loaded, a schedule's period begins or ends.
PolicyChange ==
  /\ blocked' \in Policies
  /\ UNCHANGED <<now, Prefetch, store, ongoing, failed, pc, call, loc, attempt,
                 resp, bgv, sent>>

\* loadQueryPatterns: Prefetch = newPrefetch
LoadQueryPatterns ==
  /\ Follow
  /\ Prefetch' \in Patterns
  /\ UNCHANGED <<now, blocked, store, ongoing, failed, pc, call, loc, attempt,
                 resp, bgv, sent>>

\* The cache may drop any entry: it is full, or the entry has expired.
Evict(n) ==
  /\ cache[n] # Nil
  /\ cache' = [cache EXCEPT ![n] = Nil]
  /\ UNCHANGED <<env, heap, ongoing, failed, pc, call, loc, attempt, resp, bgv, sent>>

-----------------------------------------------------------------------------
Process(t) ==
  \/ Check(t) \/ Lookup(t)
  \/ Touch(t) \/ TouchEnd(t)
  \/ PrefetchOnHit(t) \/ Copy(t)
  \/ Exchange(t) \/ Store(t)

Background(b) == RefreshDone(b) \/ PlanPrefetch(b) \/ PrefetchNext(b) \/ PrefetchEnd(b)

Environment == Tick \/ PolicyChange \/ LoadQueryPatterns \/ \E n \in Name : Evict(n)

Next ==
  \/ \E c \in Conn : HandleRequest(c) \/ WriteMsg(c)
  \/ \E b \in Bg : Background(b)
  \/ \E t \in Task : Process(t)
  \/ Environment

Spec == Init /\ [][Next]_vars

\* The Go scheduler runs every goroutine that can run, and an exchange ends: the
\* client's read timeout turns a lost answer into a failed attempt.
Fairness ==
  /\ \A t \in Task : WF_vars(Process(t))
  /\ \A c \in Conn : WF_vars(WriteMsg(c))
  /\ \A b \in Bg : WF_vars(Background(b))

FairSpec == Spec /\ Fairness

-----------------------------------------------------------------------------
(* Properties *)

\* Type invariant of the query path.
TypeOK ==
  /\ now \in Nat
  /\ blocked \in SUBSET (Client \X Name)
  /\ Prefetch \in [Name -> SUBSET Name]
  /\ cache \in [Name -> Entry \cup {Nil}]
  /\ heap \in [Obj -> Cached \cup {Nil}]
  /\ ongoing \in SUBSET Name
  /\ failed \in SUBSET Upstream
  /\ pc \in [Task -> Place]
  /\ call \in [Task -> Call \cup {Nil}]
  /\ loc \in [Task -> Local]
  /\ attempt \in [Task -> 0..MaxRetries - 1]
  /\ resp \in [Task -> Response \cup {Nil}]
  /\ todo \in [Bg -> SUBSET Name]
  /\ held \in [Bg -> SUBSET Name]
  /\ cause \in [Bg -> Obj \cup {Nil}]
  /\ sent \in [Conn -> Sent \cup {Nil}]

\* A goroutine inside touch(o) that has read Stale, and the object was fresh then.
HasLooked == InTouch \ {"touch", "was"}

SawFresh(t, o) == pc[t] \in HasLooked /\ loc[t].obj = o /\ ~loc[t].wasStale

\* An entry never turns stale unnoticed: whatever the interleaving of the
\* unsynchronised touches, once Stale is set a refresh of that very object was
\* started, or a goroutine that saw it fresh is still inside touch() and will
\* start one (cache.go touch, resolver.go:179).
StaleHasRefresher ==
  \A o \in Obj : (heap[o] # Nil /\ heap[o].stale) =>
     (\E b \in Bg : cause[b] = o) \/ (\E t \in Task : SawFresh(t, o))

\* Every client gets an answer to its own question under its own message id,
\* although cached messages are shared between goroutines and the message of a
\* miss is in the cache before it is written (resolver.go:187-188, 217).
OwnReply ==
  \A c \in Conn : (sent[c] # Nil /\ sent[c].kind = "answer") =>
     sent[c].msg.id = c /\ sent[c].msg.name = call[c].name

\* No two prefetchRelated goroutines prefetch the same question at once, and a
\* key is registered exactly as long as one of them has its Delete pending
\* (resolver.go:261-266).
PrefetchExclusive ==
  /\ \A a, b \in Bg : a # b => held[a] \cap held[b] = {}
  /\ ongoing = UNION {held[b] : b \in Bg}
  /\ \A b \in Bg : (cause[b] = Nil /\ pc[b] \in Place \ {"idle", "plan", "next", "done"})
        => call[b].name \in held[b]

\* Prefetching does not cascade: every prefetchRelated goroutine answers to a
\* client query of its own, none to a refresh or to another prefetch
\* (resolver.go:206-208: "the follow ups will have prefetch = false").
NoPrefetchCascade ==
  Cardinality({b \in Bg : pc[b] # "idle" /\ cause[b] = Nil}) <=
    Cardinality({c \in Conn : pc[c] \in {"copy", "return", "done"}})

AlwaysBlocked == {p \in Client \X Name : \A policy \in Policies : p \in policy}

\* What is blocked for a client is never looked up on its behalf, not by its
\* query, a refresh or a prefetch of a related name, and the client is told so.
BlockedNeverResolved ==
  \A t \in Task :
    (call[t] # Nil /\ (<<call[t].client, call[t].name>> \in AlwaysBlocked
                        \/ call[t].name \in PrivatePtr)) =>
      /\ pc[t] \in {"check", "return", "plan", "next", "done"}
      /\ (t \in Conn /\ sent[t] # Nil) => sent[t].kind = "blocked"

\* Every query is answered: by the filter, the cache, an upstream or, when every
\* attempt fails, with SERVFAIL.
EveryQueryAnswered == \A c \in Conn : pc[c] = "check" ~> sent[c] # Nil

\* A prefetch key does not stay registered for ever, which would disable the
\* prefetching of that question until a restart.
PrefetchKeyReleased == \A n \in Name : n \in ongoing ~> n \notin ongoing

-----------------------------------------------------------------------------
(* What the resolver promises: QueryService, seen through the mapping below. *)

FilterVerdict(c) ==
  IF pc[c] \in {"idle", "check"} THEN Nil
  ELSE IF \/ resp[c] # Nil /\ resp[c].kind = "blocked"
          \/ sent[c] # Nil /\ sent[c].kind = "blocked"
       THEN "blocked" ELSE "passed"

Reply(c) ==
  IF sent[c] = Nil THEN Nil
  ELSE [kind |-> sent[c].kind,
        name |-> IF sent[c].msg = Nil THEN Nil ELSE sent[c].msg.name]

Service == INSTANCE QueryService WITH
  Private <- PrivatePtr,
  policy  <- blocked,
  asked   <- [c \in Conn |-> IF call[c] = Nil THEN Nil
                              ELSE [name |-> call[c].name, client |-> call[c].client]],
  verdict <- [c \in Conn |-> FilterVerdict(c)],
  known   <- {n \in Name : \E t \in Task : heap[<<t, n>>] # Nil},
  reply   <- [c \in Conn |-> Reply(c)]

\* The resolver implements the query service: with all its shared entries and
\* background goroutines, a client sees its question judged once, by the filter
\* as it is at one instant, and answered once, with something an upstream said
\* about that very question, or refused.
ImplementsQueryService == Service!Spec

-----------------------------------------------------------------------------
(* What the documentation says and the code does not do *)

RefreshUnderWay(o) ==
  \/ \E b \in Bg : cause[b] = o /\ pc[b] # "done"
  \/ \E t \in Task : SawFresh(t, o)

\* The records of an object whose TTL, as upstream gave it, is over at an instant.
PastTtl(o, at) == \E i \in DOMAIN heap[o].ttl0 :
  at - heap[o].born > heap[o].ttl0[i] * TicksPerSecond

\* README.md:16-17: records are cached "for up to the record's TTL", past it
\* they are served "while the record is refreshed in the background".  Whoever
\* is handed an entry past its TTL saw it turn stale, which starts a refresh, or
\* finds the refresh under way, or done.
PastTtlIsRefreshed ==
  \A t \in Task : pc[t] = "copy" =>
    LET o == loc[t].obj
    IN PastTtl(o, loc[t].at) =>
         \/ TurnedStale(t)
         \/ RefreshUnderWay(o)
         \/ \E b \in Bg : cause[b] = o /\ heap[<<b, o[2]>>] # Nil

\* README.md:16: records are cached "for up to the record's TTL", and README.md:17:
\* stale ones are served.  A cached record counts its TTL down: it never shows more
\* than upstream gave it or than a stale record is served with.
TtlBounded ==
  \A o \in Obj : heap[o] # Nil =>
     \A i \in DOMAIN heap[o].ttls :
        heap[o].ttls[i] <= Max({heap[o].ttl0[i], ServeStaleWithTTL})
=============================================================================
