-------------------------- MODULE BlocklistsProofs --------------------------
(* Theorems about Blocklists and Filter, for every value of their constants:   *)
(* whatever is on the lists, however the runs of Sync overlap and fail.        *)
EXTENDS Blocklists, SelectionProofs

-----------------------------------------------------------------------------
(* The inductive invariant *)

\* Where the runs are, and what they hold.
JobOK ==
  /\ pc \in [Run -> {"idle", "open", "fetch", "save", "write", "mix", "load"}]
  /\ DOMAIN pos = Run /\ DOMAIN list = Run
  /\ \A r \in Run : /\ pos[r] \in 0..Len(config.lists)
                    /\ pc[r] = "idle" <=> pos[r] = 0
  /\ \A r \in Run : list[r] \in IF pc[r] \in {"idle", "open"} THEN {Nil} ELSE Source

ListsInv == TypeOK /\ JobOK

-----------------------------------------------------------------------------
(* Names *)

Label == STRING

\* Reversing a sequence twice gives it back.
LEMMA ReverseFacts ==
  ASSUME NEW X, NEW s \in Seq(X)
  PROVE  /\ Reverse(s) \in Seq(X) /\ Len(Reverse(s)) = Len(s) /\ Len(s) \in Nat
         /\ \A i \in 1..Len(s) : Reverse(s)[i] = s[Len(s) - i + 1]
         /\ Reverse(Reverse(s)) = s
<1>1. Len(s) \in Nat /\ DOMAIN s = 1..Len(s) /\ \A i \in 1..Len(s) : s[i] \in X
  BY LenProperties, ElementOfSeq
<1> DEFINE t == Reverse(s)
           u == Reverse(t)
<1>2. t = [i \in 1..Len(s) |-> s[(Len(s) - i) + 1]]
  BY DEF Reverse
<1>3. t \in [1..Len(s) -> X]
  BY <1>1, <1>2
<1>4. t \in Seq(X) /\ Len(t) = Len(s)
  BY <1>1, <1>3, SeqDef, LenProperties
<1>5. u = [i \in 1..Len(t) |-> t[(Len(t) - i) + 1]]
  BY DEF Reverse
<1> HIDE DEF t, u
<1>6. u = [i \in 1..Len(s) |-> s[i]]
  <2>1. \A i \in 1..Len(s) : u[i] = s[i]
    BY <1>1, <1>2, <1>4, <1>5
  <2> QED BY <1>4, <1>5, <2>1
<1>7. s = [i \in 1..Len(s) |-> s[i]]
  BY <1>1
<1> QED BY <1>1, <1>2, <1>4, <1>6, <1>7 DEF t, u

\* A label begins another one, or is the same.
Starts(a, b) == a = b \/ <<a, b>> \in Begins

\* Labels that begin the same label begin one another.
LEMMA StartsFacts ==
  /\ \A a, b, c : Starts(a, b) /\ Starts(b, c) => Starts(a, c)
  /\ \A a, b, c : Starts(a, c) /\ Starts(b, c) => Starts(a, b) \/ Starts(b, a)
<1>1. ASSUME NEW a, NEW b, NEW c, <<a, b>> \in Begins, <<b, c>> \in Begins
      PROVE  <<a, c>> \in Begins
  BY <1>1, LabelAssumption
<1>2. ASSUME NEW a, NEW b, NEW c, <<a, c>> \in Begins, <<b, c>> \in Begins
      PROVE  a = b \/ <<a, b>> \in Begins \/ <<b, a>> \in Begins
  BY <1>2, LabelAssumption
<1> QED BY <1>1, <1>2 DEF Starts

\* Names are not empty, and neither are keys.
LEMMA KeyFacts ==
  /\ \A d \in Domain : /\ d \in Seq(Label) /\ Len(d) \in Nat \ {0} /\ reverseFQDN(d) \in Key
                       /\ reverseFQDN(reverseFQDN(d)) = d
  /\ \A k \in Key : /\ k \in Seq(Label) /\ Len(k) \in Nat \ {0} /\ reverseFQDN(k) \in Domain
                    /\ reverseFQDN(reverseFQDN(k)) = k /\ k # Nil
<1>1. ASSUME NEW d \in Domain
      PROVE  /\ d \in Seq(Label) /\ Len(d) \in Nat \ {0} /\ reverseFQDN(d) \in Key
             /\ reverseFQDN(reverseFQDN(d)) = d
             /\ reverseFQDN(d) \in Seq(Label) /\ Len(reverseFQDN(d)) = Len(d)
  <2>1. d \in Seq(Label) /\ d # <<>>
    BY BlocklistsAssumption DEF Label
  <2>2. Len(d) \in Nat \ {0}
    BY <2>1, EmptySeq
  <2> QED BY <2>1, <2>2, ReverseFacts DEF reverseFQDN, Key
<1>2. ASSUME NEW k \in Key
      PROVE  /\ k \in Seq(Label) /\ Len(k) \in Nat \ {0} /\ reverseFQDN(k) \in Domain
             /\ reverseFQDN(reverseFQDN(k)) = k /\ k # Nil
  <2>1. PICK d \in Domain : k = reverseFQDN(d)
    BY DEF Key
  <2> QED BY <1>1, <2>1, FileAssumption
<1> QED BY <1>1, <1>2

\* The order in which keys are prefixes of each other: transitive, and total on
\* the prefixes of one key.
LEMMA PrefixIsTransitive ==
  ASSUME NEW a \in Key, NEW b \in Key, NEW c \in Key, KeyPrefix(a, b), KeyPrefix(b, c)
  PROVE  KeyPrefix(a, c)
<1> DEFINE la == Len(a)
           lb == Len(b)
           lc == Len(c)
<1>1. la \in Nat \ {0} /\ lb \in Nat \ {0} /\ lc \in Nat \ {0}
  BY KeyFacts
<1>2. la <= lb /\ (\A i \in 1..la - 1 : a[i] = b[i]) /\ Starts(a[la], b[la])
  BY DEF KeyPrefix, Last, Starts
<1>3. lb <= lc /\ (\A i \in 1..lb - 1 : b[i] = c[i]) /\ Starts(b[lb], c[lb])
  BY DEF KeyPrefix, Last, Starts
<1>4. (la <= lc /\ (\A i \in 1..la - 1 : a[i] = c[i]) /\ Starts(a[la], c[la])) => KeyPrefix(a, c)
  BY DEF KeyPrefix, Last, Starts
<1> HIDE DEF la, lb, lc
<1>5. la <= lc /\ \A i \in 1..la - 1 : a[i] = c[i]
  BY <1>1, <1>2, <1>3
<1>6. CASE la = lb
  BY <1>2, <1>3, <1>4, <1>5, <1>6, StartsFacts
<1>7. CASE la < lb
  <2>1. b[la] = c[la]
    BY <1>1, <1>3, <1>7
  <2> QED BY <1>2, <1>4, <1>5, <2>1
<1> QED BY <1>1, <1>2, <1>6, <1>7

\* Of two prefixes of a key, the one that is not longer is one of the other, or
\* they have the same length and either is one of the other.
LEMMA PrefixOfLonger ==
  ASSUME NEW a \in Key, NEW b \in Key, NEW c \in Key, KeyPrefix(a, c), KeyPrefix(b, c),
         Len(a) <= Len(b)
  PROVE  KeyPrefix(a, b) \/ KeyPrefix(b, a)
<1> DEFINE la == Len(a)
           lb == Len(b)
           lc == Len(c)
<1>1. la \in Nat \ {0} /\ lb \in Nat \ {0} /\ lc \in Nat \ {0} /\ la <= lb
  BY KeyFacts
<1>2. la <= lc /\ (\A i \in 1..la - 1 : a[i] = c[i]) /\ Starts(a[la], c[la])
  BY DEF KeyPrefix, Last, Starts
<1>3. lb <= lc /\ (\A i \in 1..lb - 1 : b[i] = c[i]) /\ Starts(b[lb], c[lb])
  BY DEF KeyPrefix, Last, Starts
<1>4. (la <= lb /\ (\A i \in 1..la - 1 : a[i] = b[i]) /\ Starts(a[la], b[la])) => KeyPrefix(a, b)
  BY DEF KeyPrefix, Last, Starts
<1>5. (lb <= la /\ (\A i \in 1..lb - 1 : b[i] = a[i]) /\ Starts(b[lb], a[lb])) => KeyPrefix(b, a)
  BY DEF KeyPrefix, Last, Starts
<1> HIDE DEF la, lb, lc
<1>6. \A i \in 1..la - 1 : a[i] = b[i]
  BY <1>1, <1>2, <1>3
<1>7. CASE la < lb
  <2>1. b[la] = c[la]
    BY <1>1, <1>3, <1>7
  <2> QED BY <1>1, <1>2, <1>4, <1>6, <2>1
<1>8. CASE la = lb
  <2>1. Starts(a[la], b[la]) \/ Starts(b[lb], a[lb])
    BY <1>2, <1>3, <1>8, StartsFacts
  <2>2. \A i \in 1..lb - 1 : b[i] = a[i]
    BY <1>6, <1>8
  <2> QED BY <1>1, <1>4, <1>5, <1>6, <1>8, <2>1, <2>2
<1> QED BY <1>1, <1>7, <1>8

\* Any two prefixes of a key compare.
LEMMA PrefixIsTotal ==
  ASSUME NEW a \in Key, NEW b \in Key, NEW c \in Key, KeyPrefix(a, c), KeyPrefix(b, c)
  PROVE  KeyPrefix(a, b) \/ KeyPrefix(b, a)
<1>1. Len(a) \in Nat /\ Len(b) \in Nat
  BY KeyFacts
<1>2. CASE Len(a) <= Len(b)
  BY <1>2, PrefixOfLonger
<1>3. CASE Len(b) <= Len(a)
  BY <1>3, PrefixOfLonger
<1> QED BY <1>1, <1>2, <1>3

\* There are finitely many keys.
LEMMA KeysAreFinite == IsFiniteSet(Key)
<1> DEFINE f == [d \in Domain |-> reverseFQDN(d)]
<1>1. DOMAIN f = Domain /\ f = [d \in Domain |-> f[d]] /\ \A d \in Domain : f[d] = reverseFQDN(d)
  OBVIOUS
<1> HIDE DEF f
<1>2. IsFiniteSet({f[d] : d \in Domain})
  BY <1>1, BlocklistsAssumption, FiniteImage
<1>3. {f[d] : d \in Domain} = Key
  BY <1>1 DEF Key
<1> QED BY <1>2, <1>3

\* What LongestPrefix chooses exists: the listed prefixes of a key have a longest.
LEMMA LongestExists ==
  ASSUME NEW t \in [Key -> Seq(Rule)], NEW key \in Key
  PROVE  LET found == {k \in DOMAIN t : t[k] # <<>> /\ KeyPrefix(k, key)}
             k == LongestPrefix(t, key)
         IN  IF found = {} THEN k = Nil
             ELSE k \in found /\ \A other \in found : KeyPrefix(other, k)
<1> DEFINE found == {k \in DOMAIN t : t[k] # <<>> /\ KeyPrefix(k, key)}
           Above(k) == {other \in found : ~KeyPrefix(other, k)}
           Sets == {Above(k) : k \in found}
<1>1. found \subseteq Key
  OBVIOUS
<1>2. CASE found = {}
  BY <1>2 DEF LongestPrefix
<1>3. CASE found # {}
  <2>1. Sets # {} /\ Sets \subseteq FiniteSubsetsOf(found)
    <3>1. IsFiniteSet(found)
      BY <1>1, KeysAreFinite, FS_Subset
    <3>2. \A k \in found : IsFiniteSet(Above(k)) /\ Above(k) \subseteq found
      BY <3>1, FS_Subset
    <3> QED BY <1>3, <3>2 DEF FiniteSubsetsOf
  <2>2. PICK least \in Sets : \A other \in Sets : <<other, least>> \notin StrictSubsetOrdering(found)
    BY <2>1, FS_StrictSubsetOrderingWellFounded, WFMin
  <2>3. PICK k \in found : least = Above(k)
    OBVIOUS
  <2>4. ASSUME NEW o \in found, ~KeyPrefix(o, k) PROVE FALSE
    <3>1. o \in Key /\ k \in Key /\ KeyPrefix(o, key) /\ KeyPrefix(k, key)
      BY <1>1, <2>3
    <3>2. KeyPrefix(k, o) /\ KeyPrefix(o, o)
      BY <2>4, <3>1, PrefixIsTotal
    <3>3. \A x \in found : KeyPrefix(x, k) => KeyPrefix(x, o)
      BY <1>1, <3>1, <3>2, PrefixIsTransitive
    <3>4. Above(o) \subseteq Above(k) /\ o \in Above(k) /\ o \notin Above(o)
      BY <2>4, <3>2, <3>3
    <3>5. Above(o) \in Sets /\ Above(o) \in SUBSET found /\ Above(k) \in SUBSET found
      OBVIOUS
    <3> HIDE DEF Above, Sets
    <3>6. <<Above(o), Above(k)>> \in StrictSubsetOrdering(found)
      BY <3>4, <3>5, Zenon DEF StrictSubsetOrdering
    <3> QED BY <2>2, <2>3, <3>5, <3>6
  <2>5. \E x \in found : \A other \in found : KeyPrefix(other, x)
    BY <2>4
  <2> HIDE DEF Above, Sets
  <2> QED BY <1>3, <2>5 DEF LongestPrefix
<1> QED BY <1>2, <1>3

\* The key of a parent begins that of its subdomains, and passes the check by suffix.
LEMMA SuffixFacts ==
  ASSUME NEW p \in Domain, NEW d \in Domain
  PROVE  IsSuffix(p, d) => KeyPrefix(reverseFQDN(p), reverseFQDN(d)) /\ HasSuffix(d, p)
<1> DEFINE m == Len(p)
           n == Len(d)
           rp == Reverse(p)
           rd == Reverse(d)
<1>1. m \in Nat \ {0} /\ n \in Nat \ {0} /\ p \in Seq(Label) /\ d \in Seq(Label)
  BY KeyFacts
<1>2. /\ rp \in Seq(Label) /\ Len(rp) = m /\ \A i \in 1..m : rp[i] = p[m - i + 1]
      /\ rd \in Seq(Label) /\ Len(rd) = n /\ \A i \in 1..n : rd[i] = d[n - i + 1]
  BY <1>1, ReverseFacts
<1>3. IsSuffix(p, d) <=> m <= n /\ \A i \in 1..m : rp[i] = rd[i]
  <2>1. DOMAIN rp = 1..m /\ DOMAIN rd = 1..n
    BY <1>2, LenProperties
  <2> QED BY <1>1, <1>2, <2>1 DEF IsSuffix, IsPrefix
<1>4. KeyPrefix(rp, rd) <=> /\ m <= n /\ (\A i \in 1..m - 1 : rp[i] = rd[i])
                            /\ Starts(rp[m], rd[m])
  BY <1>2 DEF KeyPrefix, Last, Starts
<1>5. HasSuffix(d, p) <=> /\ n - m >= 0 /\ (\A i \in 2..m : p[i] = d[n - m + i])
                          /\ p[1] = d[n - m + 1] \/ <<p[1], d[n - m + 1]>> \in Ends
  BY <1>1 DEF HasSuffix
<1> HIDE DEF m, n, rp, rd
<1>6. ASSUME IsSuffix(p, d) PROVE KeyPrefix(rp, rd) /\ HasSuffix(d, p)
  <2>1. m <= n /\ \A i \in 1..m : rp[i] = rd[i]
    BY <1>3, <1>6
  <2>2. ASSUME NEW i \in 1..m PROVE p[i] = d[n - m + i]
    <3>1. m - i + 1 \in 1..m /\ m - i + 1 \in 1..n
      BY <1>1, <2>1, <2>2
    <3>2. rp[m - i + 1] = p[m - (m - i + 1) + 1] /\ rd[m - i + 1] = d[n - (m - i + 1) + 1]
      BY <1>2, <3>1
    <3>3. m - (m - i + 1) + 1 = i /\ n - (m - i + 1) + 1 = n - m + i
      BY <1>1, <2>2
    <3> QED BY <2>1, <3>1, <3>2, <3>3
  <2>3. KeyPrefix(rp, rd)
    BY <1>1, <1>4, <2>1 DEF Starts
  <2>4. p[1] = d[n - m + 1] /\ \A i \in 2..m : p[i] = d[n - m + i]
    BY <1>1, <2>2
  <2>5. n - m >= 0
    BY <1>1, <2>1
  <2> QED BY <1>5, <2>1, <2>3, <2>4, <2>5
<1> QED BY <1>6 DEF reverseFQDN, m, n, rp, rd

-----------------------------------------------------------------------------
(* Types *)

\* The list a run is at is one of the configuration.
LEMMA ConfFacts ==
  ASSUME ListsInv
  PROVE  /\ Len(config.lists) \in Nat
         /\ \A r \in Run : pc[r] # "idle" => pos[r] \in 1..Len(config.lists) /\ Conf(r) \in ListConf
<1>1. config.lists \in Seq(ListConf)
  BY BlocklistsAssumption DEF ListsInv, TypeOK
<1>2. Len(config.lists) \in Nat /\ \A i \in 1..Len(config.lists) : config.lists[i] \in ListConf
  BY <1>1, LenProperties, ElementOfSeq
<1>3. ASSUME NEW r \in Run, pc[r] # "idle" PROVE pos[r] \in 1..Len(config.lists)
  BY <1>2, <1>3 DEF ListsInv, JobOK
<1> QED BY <1>2, <1>3 DEF Conf

\* Going on with the next list, or to the end.
LEMMA NextListKeeps ==
  ASSUME ListsInv, NEW r \in Run, NextList(r), config' = config
  PROVE  JobOK'
<1> DEFINE n == Len(config.lists)
<1>1. n \in Nat
  BY ConfFacts
<1>2. /\ DOMAIN pos = Run /\ DOMAIN list = Run
      /\ \A q \in Run : pos[q] \in 0..n /\ (pc[q] = "idle" <=> pos[q] = 0)
  BY DEF ListsInv, JobOK
<1>3. list' = [list EXCEPT ![r] = Nil]
  BY DEF NextList
<1>4. \/ pos[r] < n /\ pos' = [pos EXCEPT ![r] = @ + 1] /\ pc' = [pc EXCEPT ![r] = "open"]
      \/ pos' = [pos EXCEPT ![r] = 0] /\ pc' = [pc EXCEPT ![r] = "idle"]
  BY DEF NextList, MoreLists
<1> HIDE DEF n
<1>5. \A q \in Run : pos'[q] \in 0..n /\ (pc'[q] = "idle" <=> pos'[q] = 0)
  BY <1>1, <1>2, <1>4 DEF ListsInv, JobOK
<1>6. DOMAIN pos' = Run /\ DOMAIN list' = Run
  BY <1>2, <1>3, <1>4
<1>7. pc' \in [Run -> {"idle", "open", "fetch", "save", "write", "mix", "load"}]
  BY <1>4 DEF ListsInv, JobOK
<1>8. \A q \in Run : list'[q] \in IF pc'[q] \in {"idle", "open"} THEN {Nil} ELSE Source
  BY <1>2, <1>3, <1>4 DEF ListsInv, JobOK
<1> QED BY <1>5, <1>6, <1>7, <1>8 DEF JobOK, n

\* Taking hold of a list.
LEMMA HoldingKeeps ==
  ASSUME ListsInv, NEW r \in Run, pc[r] # "idle", NEW source \in Source,
         NEW place \in {"fetch", "save", "write", "mix", "load"},
         list' = [list EXCEPT ![r] = source], pc' = [pc EXCEPT ![r] = place],
         pos' = pos, config' = config
  PROVE  JobOK'
BY DEF ListsInv, JobOK

\* What a fetch makes of a list.
LEMMA FetchedIsSource ==
  ASSUME ListsInv, NEW r \in Run, Fetch(r)
  PROVE  \E source \in Source : list' = [list EXCEPT ![r] = source]
<1>1. pc[r] = "fetch" /\ list[r] \in Source /\ DOMAIN list = Run /\ now \in Nat
  BY BlocklistsAssumption DEF Fetch, ListsInv, JobOK, TypeOK
<1>2. PICK names \in Published[list[r].url] : list' = [list EXCEPT ![r] = Fetched(@, names)]
  BY DEF Fetch
<1>3. names \in SUBSET Domain
  BY <1>1, <1>2, BlocklistsAssumption DEF Source
<1>4. Fetched(list[r], names) \in Source
  BY <1>1, <1>3 DEF Source, Fetched
<1>5. list' = [list EXCEPT ![r] = Fetched(list[r], names)]
  BY <1>1, <1>2
<1> QED BY <1>4, <1>5

\* The runs.
LEMMA JobStep == ListsInv /\ [Next]_vars => JobOK'
<1> SUFFICES ASSUME ListsInv, [Next]_vars PROVE JobOK'
  OBVIOUS
<1> USE DEF ListsInv, job, vars
<1>1. ASSUME Tick PROVE JobOK'
  BY <1>1 DEF Tick, job, JobOK, TypeOK
<1>2. ASSUME Restart PROVE JobOK'
  <2>1. /\ pc' = [q \in Run |-> "idle"] /\ pos' = [q \in Run |-> 0]
        /\ list' = [q \in Run |-> Nil] /\ config' \in Configs
    BY <1>2 DEF Restart
  <2>2. config'.lists \in Seq(ListConf)
    BY <2>1, BlocklistsAssumption
  <2>3. Len(config'.lists) \in Nat
    BY <2>2, LenProperties
  <2> QED BY <2>1, <2>3 DEF JobOK
<1>3. ASSUME NEW r \in Run, Sync(r) PROVE JobOK'
  <2>1. NextList(r) /\ config' = config
    BY <1>3 DEF Sync, Continue
  <2> QED BY <2>1, NextListKeeps
<1>4. ASSUME NEW r \in Run, Skip(r) PROVE JobOK'
  <2>1. NextList(r) /\ config' = config
    BY <1>4 DEF Skip, Continue
  <2> QED BY <2>1, NextListKeeps
<1>5. ASSUME NEW r \in Run, ReadCopy(r) PROVE JobOK'
  <2>1. Conf(r).name \in ListName
    BY <1>5, ConfFacts DEF ReadCopy, ListConf
  <2>2. fs[Conf(r).name] \in Source
    BY <1>5, <2>1 DEF ReadCopy, TypeOK
  <2>3. list' = [list EXCEPT ![r] = fs[Conf(r).name]] /\ pos' = pos /\ config' = config
    BY <1>5 DEF ReadCopy
  <2>4. \E place \in {"fetch", "load"} : pc' = [pc EXCEPT ![r] = place]
    BY <1>5 DEF ReadCopy
  <2>5. pc[r] # "idle"
    BY <1>5 DEF ReadCopy
  <2> QED BY <2>2, <2>3, <2>4, <2>5, HoldingKeeps
<1>6. ASSUME NEW r \in Run, NoCopy(r) PROVE JobOK'
  <2>1. Conf(r) \in ListConf
    BY <1>6, ConfFacts DEF NoCopy
  <2>2. NeverSynced(Conf(r)) \in Source
    BY <2>1 DEF NeverSynced, ListConf, Source
  <2>3. list' = [list EXCEPT ![r] = NeverSynced(Conf(r))] /\ pos' = pos /\ config' = config
        /\ pc' = [pc EXCEPT ![r] = "fetch"] /\ pc[r] # "idle"
    BY <1>6 DEF NoCopy
  <2> QED BY <2>2, <2>3, HoldingKeeps
<1>7. ASSUME NEW r \in Run, BadCopy(r) PROVE JobOK'
  <2>1. NextList(r) /\ config' = config
    BY <1>7 DEF BadCopy, Continue
  <2> QED BY <2>1, NextListKeeps
<1>8. ASSUME NEW r \in Run, Fetch(r) PROVE JobOK'
  <2>1. PICK source \in Source : list' = [list EXCEPT ![r] = source]
    BY <1>8, FetchedIsSource
  <2>2. pos' = pos /\ config' = config /\ pc' = [pc EXCEPT ![r] = "save"] /\ pc[r] # "idle"
    BY <1>8 DEF Fetch
  <2> QED BY <2>1, <2>2, HoldingKeeps
<1>9. ASSUME NEW r \in Run, FetchFails(r) PROVE JobOK'
  <2>1. NextList(r) /\ config' = config
    BY <1>9 DEF FetchFails, Continue
  <2> QED BY <2>1, NextListKeeps
<1>10. ASSUME NEW r \in Run, ParsePanics(r) PROVE JobOK'
  BY <1>10 DEF ParsePanics, EndRun, JobOK, TypeOK
<1>11. ASSUME NEW r \in Run, SaveBegin(r) PROVE JobOK'
  BY <1>11 DEF SaveBegin, JobOK, TypeOK
<1>12. ASSUME NEW r \in Run, SaveEnd(r) PROVE JobOK'
  BY <1>12 DEF SaveEnd, JobOK, TypeOK
<1>13. ASSUME NEW r \in Run, SaveFails(r) PROVE JobOK'
  <2>1. NextList(r) /\ config' = config
    BY <1>13 DEF SaveFails, Continue
  <2> QED BY <2>1, NextListKeeps
<1>14. ASSUME NEW r \in Run, Load(r) PROVE JobOK'
  <2>1. NextList(r) /\ config' = config
    BY <1>14 DEF Load, Continue
  <2> QED BY <2>1, NextListKeeps
<1>15. ASSUME UNCHANGED vars PROVE JobOK'
  BY <1>15 DEF JobOK, TypeOK
<1> QED
  BY <1>1, <1>2, <1>3, <1>4, <1>5, <1>6, <1>7, <1>8, <1>9, <1>10, <1>11, <1>12,
         <1>13, <1>14, <1>15 DEF Next, Step

\* Only configured lists are given up on.
LEMMA GivenUpTypes ==
  ASSUME ListsInv, NEW r \in Run, pc[r] # "idle", GivesUp(r)
  PROVE  unused' \subseteq ListName
BY ConfFacts DEF GivesUp, ListConf, ListsInv, TypeOK

\* Types.
LEMMA TypeStep == ListsInv /\ [Next]_vars /\ JobOK' => TypeOK'
<1> SUFFICES ASSUME ListsInv, [Next]_vars PROVE JobOK' => TypeOK'
  OBVIOUS
<1> USE DEF ListsInv, job, vars
<1>1. ASSUME Tick PROVE JobOK' => TypeOK'
  <2>1. now' \in 0..MaxTime /\ due' \in BOOLEAN
    BY <1>1, BlocklistsAssumption DEF Tick, TypeOK, SyncIsDue
  <2> QED BY <1>1, <2>1 DEF Tick, TypeOK, JobOK
<1>2. ASSUME Restart PROVE JobOK' => TypeOK'
  <2>1. tree' \in [Key -> Seq(Rule)]
    BY <1>2, EmptySeq DEF Restart
  <2> QED BY <1>2, <2>1 DEF Restart, TypeOK, JobOK
<1>3. ASSUME NEW r \in Run, Sync(r) PROVE JobOK' => TypeOK'
  <2>1. due' = FALSE /\ runs' = runs + 1 /\ UNCHANGED <<now, config, tree, fs, unused>>
    BY <1>3 DEF Sync
  <2>2. due' \in BOOLEAN
    BY <2>1
  <2>3. runs' \in Nat
    BY <2>1 DEF TypeOK
  <2>4. UNCHANGED <<now, config, tree, fs, unused>>
    BY <2>1
  <2> QED BY <2>2, <2>3, <2>4 DEF TypeOK, JobOK
<1>4. ASSUME NEW r \in Run, Skip(r) PROVE JobOK' => TypeOK'
  BY <1>4 DEF Skip, NextList, MoreLists, JobOK, TypeOK
<1>5. ASSUME NEW r \in Run, ReadCopy(r) PROVE JobOK' => TypeOK'
  BY <1>5 DEF ReadCopy, JobOK, TypeOK
<1>6. ASSUME NEW r \in Run, NoCopy(r) PROVE JobOK' => TypeOK'
  BY <1>6, GivenUpTypes DEF NoCopy, JobOK, TypeOK
<1>7. ASSUME NEW r \in Run, BadCopy(r) PROVE JobOK' => TypeOK'
  BY <1>7, GivenUpTypes DEF BadCopy, NextList, MoreLists, JobOK, TypeOK
<1>8. ASSUME NEW r \in Run, Fetch(r) PROVE JobOK' => TypeOK'
  BY <1>8 DEF Fetch, JobOK, TypeOK
<1>9. ASSUME NEW r \in Run, FetchFails(r) PROVE JobOK' => TypeOK'
  BY <1>9 DEF FetchFails, Continue, NextList, MoreLists, JobOK, TypeOK
<1>10. ASSUME NEW r \in Run, ParsePanics(r) PROVE JobOK' => TypeOK'
  BY <1>10 DEF ParsePanics, EndRun, JobOK, TypeOK
<1>11. ASSUME NEW r \in Run, SaveBegin(r) PROVE JobOK' => TypeOK'
  <2>1. pc[r] # "idle" /\ list[r] \in Source
    BY <1>11 DEF SaveBegin, JobOK
  <2>2. Conf(r).name \in ListName
    BY <2>1, ConfFacts DEF ListConf
  <2>3. PICK file \in Source \cup {Nil, Torn} : fs' = [fs EXCEPT ![Conf(r).name] = file]
    BY <1>11, <2>1, <2>2 DEF SaveBegin, TypeOK
  <2>4. fs' \in [ListName -> Source \cup {Nil, Torn}]
    BY <2>2, <2>3 DEF TypeOK
  <2> QED BY <1>11, <2>4 DEF SaveBegin, TypeOK, JobOK
<1>12. ASSUME NEW r \in Run, SaveEnd(r) PROVE JobOK' => TypeOK'
  <2>1. pc[r] # "idle" /\ list[r] \in Source
    BY <1>12 DEF SaveEnd, JobOK
  <2>2. Conf(r).name \in ListName
    BY <2>1, ConfFacts DEF ListConf
  <2>3. PICK file \in Source \cup {Nil, Torn} : fs' = [fs EXCEPT ![Conf(r).name] = file]
    BY <1>12, <2>1, <2>2 DEF SaveEnd, TypeOK
  <2>4. fs' \in [ListName -> Source \cup {Nil, Torn}]
    BY <2>2, <2>3 DEF TypeOK
  <2> QED BY <1>12, <2>4 DEF SaveEnd, TypeOK, JobOK
<1>13. ASSUME NEW r \in Run, SaveFails(r) PROVE JobOK' => TypeOK'
  <2>1. pc[r] # "idle" /\ list[r] \in Source
    BY <1>13 DEF SaveFails, JobOK
  <2>2. Conf(r).name \in ListName
    BY <2>1, ConfFacts DEF ListConf
  <2>3. PICK file \in Source \cup {Nil, Torn} : fs' = [fs EXCEPT ![Conf(r).name] = file]
    BY <1>13, <2>1, <2>2 DEF SaveFails, TypeOK
  <2>4. fs' \in [ListName -> Source \cup {Nil, Torn}]
    BY <2>2, <2>3 DEF TypeOK
  <2> QED BY <1>13, <2>1, <2>4, GivenUpTypes DEF SaveFails, TypeOK, JobOK
<1>14. ASSUME NEW r \in Run, Load(r) PROVE JobOK' => TypeOK'
  <2>1. pc[r] = "load" /\ list[r] \in Source /\ Conf(r) \in ListConf
    BY <1>14, ConfFacts DEF Load, JobOK
  <2> DEFINE rule == [list |-> Conf(r).name, action |-> list[r].action,
                      category |-> list[r].category]
  <2>2. rule \in Rule
    BY <2>1 DEF Rule, ListConf, Source
  <2>3. tree' = [k \in Key |-> IF reverseFQDN(k) \in list[r].domains
                                 THEN Append(tree[k], rule) ELSE tree[k]]
    BY <1>14 DEF Load, LoadListToMemory, AppendRule, TypeOK
  <2> HIDE DEF rule
  <2>4. \A k \in Key : Append(tree[k], rule) \in Seq(Rule)
    BY <2>2, AppendProperties DEF TypeOK
  <2>5. tree' \in [Key -> Seq(Rule)]
    BY <2>3, <2>4 DEF TypeOK
  <2> QED BY <1>14, <2>5 DEF Load, TypeOK, JobOK
<1>15. ASSUME UNCHANGED vars PROVE JobOK' => TypeOK'
  BY <1>15 DEF JobOK, TypeOK
<1> QED
  BY <1>1, <1>2, <1>3, <1>4, <1>5, <1>6, <1>7, <1>8, <1>9, <1>10, <1>11, <1>12,
         <1>13, <1>14, <1>15 DEF Next, Step

-----------------------------------------------------------------------------
(* Theorems *)

\* The invariant of the lists.
LEMMA ListsInvariance == Spec => []ListsInv
<1>1. Init => ListsInv
  <2> SUFFICES ASSUME Init PROVE ListsInv
    OBVIOUS
  <2>1. config.lists \in Seq(ListConf)
    BY BlocklistsAssumption DEF Init
  <2>2. Len(config.lists) \in Nat
    BY <2>1, LenProperties
  <2>3. JobOK
    BY <2>2 DEF Init, JobOK
  <2>4. tree \in [Key -> Seq(Rule)]
    BY EmptySeq DEF Init
  <2>5. now \in 0..MaxTime /\ runs \in Nat
    BY BlocklistsAssumption DEF Init
  <2>6. due \in BOOLEAN /\ config \in Configs
    BY DEF Init
  <2>7. fs \in [ListName -> Source \cup {Nil, Torn}] /\ unused \subseteq ListName
    BY DEF Init
  <2> QED BY <2>3, <2>4, <2>5, <2>6, <2>7 DEF ListsInv, TypeOK, JobOK
<1>2. ListsInv /\ [Next]_vars => ListsInv'
  BY JobStep, TypeStep DEF ListsInv
<1> QED BY <1>1, <1>2, PTL DEF Spec

\* The variables keep their types: a run is at one of the lists of the
\* configuration as long as it lasts, and what is saved and loaded is a list.
THEOREM ListTypesHold == Spec => []TypeOK
BY ListsInvariance, PTL DEF ListsInv

\* The rules isBlocked goes by are those of the longest listed prefix.
LEMMA RulesFacts ==
  ASSUME NEW t \in [Key -> Seq(Rule)], NEW d \in Domain, RulesFor(t, d) # <<>>
  PROVE  LET k == LongestPrefix(t, reverseFQDN(d))
         IN  /\ k \in Key /\ RulesFor(t, d) = t[k] /\ KeyPrefix(k, reverseFQDN(d))
             /\ HasSuffix(d, reverseFQDN(k))
             /\ \A other \in Key : t[other] # <<>> /\ KeyPrefix(other, reverseFQDN(d))
                                     => KeyPrefix(other, k)
<1> DEFINE key == reverseFQDN(d)
           k == LongestPrefix(t, key)
           found == {x \in DOMAIN t : t[x] # <<>> /\ KeyPrefix(x, key)}
<1>1. key \in Key
  BY KeyFacts
<1>2. IF found = {} THEN k = Nil ELSE k \in found /\ \A other \in found : KeyPrefix(other, k)
  BY <1>1, LongestExists
<1>3. k # Nil /\ HasSuffix(d, reverseFQDN(k)) /\ RulesFor(t, d) = t[k]
  BY DEF RulesFor
<1> HIDE DEF k, key
<1> QED BY <1>1, <1>2, <1>3 DEF k, key

\* A reason is the category of a rule that does not allow, which a group or a
\* schedule blocks for the client; and no rule allows.
LEMMA ReasonFacts ==
  ASSUME NEW t \in [Key -> Seq(Rule)], NEW d \in Domain, NEW client, NEW at
  PROVE  LET rules == RulesFor(t, d)
             reason == BlockReason(t, config, d, client, at)
         IN  /\ rules \in Seq(Rule) /\ DOMAIN rules = 1..Len(rules) /\ Len(rules) \in Nat
             /\ reason # Nil =>
                  /\ ~Allows(rules)
                  /\ \E i \in DOMAIN rules :
                       /\ rules[i].action # "allow" /\ rules[i].category = reason
                       /\ IsClientBlocked(config, client, rules[i].category, at)
             /\ (/\ ~Allows(rules)
                 /\ \E i \in DOMAIN rules :
                      /\ rules[i].action # "allow"
                      /\ IsClientBlocked(config, client, rules[i].category, at))
                  => reason # Nil
<1> DEFINE rules == RulesFor(t, d)
           reason == BlockReason(t, config, d, client, at)
           hits == {i \in DOMAIN rules :
                      /\ rules[i].action # "allow"
                      /\ IsClientBlocked(config, client, rules[i].category, at)}
<1>1. rules \in Seq(Rule)
  <2>1. CASE rules = <<>>
    BY <2>1, EmptySeq
  <2>2. CASE rules # <<>>
    BY <2>2, RulesFacts
  <2> QED BY <2>1, <2>2
<1>2. reason = IF Allows(rules) \/ hits = {} THEN Nil ELSE rules[Min(hits)].category
  BY DEF BlockReason, Verdict
<1> HIDE DEF rules, reason
<1>3. DOMAIN rules = 1..Len(rules) /\ Len(rules) \in Nat /\ hits \subseteq 1..Len(rules)
  BY <1>1, LenProperties
<1>4. \A i \in DOMAIN rules : rules[i].category # Nil
  <2>1. \A i \in DOMAIN rules : rules[i] \in Rule
    BY <1>1, <1>3, ElementOfSeq
  <2> QED BY <2>1, BlocklistsAssumption DEF Rule
<1>5. ASSUME hits # {} PROVE Min(hits) \in hits
  <2>1. hits \in SUBSET Nat
    BY <1>3
  <2>2. \E x \in hits : \A y \in hits : x <= y
    BY <1>5, <2>1, LeastNumber
  <2> HIDE DEF hits
  <2> QED BY <2>2 DEF Min
<1>6. ASSUME reason # Nil
      PROVE  /\ ~Allows(rules)
             /\ \E i \in DOMAIN rules :
                  /\ rules[i].action # "allow" /\ rules[i].category = reason
                  /\ IsClientBlocked(config, client, rules[i].category, at)
  BY <1>2, <1>5, <1>6
<1>7. ASSUME ~Allows(rules), NEW i \in DOMAIN rules, rules[i].action # "allow",
             IsClientBlocked(config, client, rules[i].category, at)
      PROVE  reason # Nil
  <2>1. hits # {}
    BY <1>7
  <2>2. Min(hits) \in hits
    BY <1>5, <2>1
  <2>3. Min(hits) \in DOMAIN rules
    BY <2>2
  <2> HIDE DEF hits
  <2> QED BY <1>2, <1>4, <1>7, <2>1, <2>3
<1> QED BY <1>1, <1>3, <1>6, <1>7 DEF rules, reason

\* What is blocked for a client is blocked by a group or a schedule.
LEMMA BlockedByOne ==
  ASSUME NEW client, NEW category, NEW at, IsClientBlocked(config, client, category, at)
  PROVE  /\ category \in BlockedCategories(config)
         /\ \/ \E g \in DOMAIN config.groups : category \in config.groups[g].block
            \/ \E s \in DOMAIN config.schedules : category \in config.schedules[s].block
<1>1. \/ \E g \in DOMAIN config.groups : category \in config.groups[g].block
      \/ \E s \in DOMAIN config.schedules : category \in config.schedules[s].block
  BY DEF IsClientBlocked
<1> QED BY <1>1 DEF BlockedCategories

\* The trace explains every verdict, whoever asks and whenever.
THEOREM TraceExplainsVerdicts == Spec => []TraceExplains
<1>1. ListsInv => TraceExplains
  <2> SUFFICES ASSUME ListsInv, NEW d \in Domain, NEW client \in Client, NEW at \in At,
                      BlockReason(tree, config, d, client, at) # Nil
               PROVE  LET trace == HandleTrace(tree, config, d)
                          reason == BlockReason(tree, config, d, client, at)
                      IN  /\ \E i \in DOMAIN trace.lists : trace.lists[i].category = reason
                          /\ \/ \E g \in trace.groups : reason \in config.groups[g].block
                             \/ \E s \in trace.schedules : reason \in config.schedules[s].block
    BY DEF TraceExplains, BlockReason
  <2> DEFINE rules == RulesFor(tree, d)
             reason == BlockReason(tree, config, d, client, at)
             traces == {TraceCategory(config, rules[i].category) : i \in DOMAIN rules}
             trace == HandleTrace(tree, config, d)
  <2>1. tree \in [Key -> Seq(Rule)]
    BY DEF ListsInv, TypeOK
  <2>2. PICK i \in DOMAIN rules : /\ rules[i].category = reason
                                  /\ IsClientBlocked(config, client, rules[i].category, at)
    BY <2>1, ReasonFacts
  <2>3. /\ trace.lists = rules /\ trace.groups = UNION {t.groups : t \in traces}
        /\ trace.schedules = UNION {t.schedules : t \in traces}
    BY DEF HandleTrace
  <2> HIDE DEF trace
  <2>4. TraceCategory(config, reason) \in traces
    BY <2>2
  <2> HIDE DEF traces
  <2>5. /\ TraceCategory(config, reason).groups \subseteq trace.groups
        /\ TraceCategory(config, reason).schedules \subseteq trace.schedules
    BY <2>3, <2>4
  <2> HIDE DEF reason, rules
  <2>6. \/ \E g \in DOMAIN config.groups : reason \in config.groups[g].block
        \/ \E s \in DOMAIN config.schedules : reason \in config.schedules[s].block
    BY <2>2, BlockedByOne
  <2>7. \/ \E g \in trace.groups : reason \in config.groups[g].block
        \/ \E s \in trace.schedules : reason \in config.schedules[s].block
    BY <2>5, <2>6 DEF TraceCategory
  <2>8. \E j \in DOMAIN trace.lists : trace.lists[j].category = reason
    BY <2>2, <2>3
  <2> QED BY <2>7, <2>8 DEF trace, reason
<1> QED BY <1>1, ListsInvariance, PTL

\* The rules of a listed parent decide, unless a longer listed name gets in the way.
LEMMA ClosestDecides ==
  ASSUME ListsInv, NEW d \in Domain, NEW p \in Parents(d), Listed(p) # <<>>,
         \A q \in Domain : ~Overrides(q, p, d)
  PROVE  RulesFor(tree, d) = Listed(p)
<1> DEFINE key == reverseFQDN(d)
           kp == reverseFQDN(p)
           k == LongestPrefix(tree, key)
           found == {x \in DOMAIN tree : tree[x] # <<>> /\ KeyPrefix(x, key)}
<1>1. tree \in [Key -> Seq(Rule)]
  BY DEF ListsInv, TypeOK
<1>2. p \in Domain /\ IsSuffix(p, d)
  BY DEF Parents
<1>3. kp \in Key /\ key \in Key /\ KeyPrefix(kp, key) /\ HasSuffix(d, p) /\ reverseFQDN(kp) = p
  BY <1>2, KeyFacts, SuffixFacts
<1>4. tree[kp] # <<>>
  BY DEF Listed
<1>5. k \in Key /\ tree[k] # <<>> /\ KeyPrefix(k, key) /\ KeyPrefix(kp, k)
  <2>1. IF found = {} THEN k = Nil ELSE k \in found /\ \A other \in found : KeyPrefix(other, k)
    BY <1>1, <1>3, LongestExists
  <2>2. kp \in found
    BY <1>1, <1>3, <1>4
  <2> HIDE DEF k
  <2> QED BY <1>1, <2>1, <2>2
<1> HIDE DEF k
<1>6. k = kp
  <2> DEFINE q == reverseFQDN(k)
  <2>1. q \in Domain /\ reverseFQDN(q) = k
    BY <1>5, KeyFacts
  <2>2. ~Overrides(q, p, d)
    BY <2>1
  <2>3. Listed(q) # <<>>
    BY <1>5, <2>1 DEF Listed
  <2>4. p = q
    BY <1>5, <2>1, <2>2, <2>3 DEF Overrides
  <2> QED BY <2>1, <2>4
<1>7. k # Nil
  BY <1>5, KeyFacts
<1> QED BY <1>3, <1>6, <1>7 DEF RulesFor, Listed, k

\* What a list blocks for everyone stays blocked with all its subdomains, but for
\* the cases the statement names.
THEOREM ListedStaysBlocked == Spec => []ListedIsBlocked
<1>1. ListsInv => ListedIsBlocked
  <2> SUFFICES ASSUME ListsInv, NEW d \in Domain, NEW p \in Parents(d), Listed(p) # <<>>,
                      ~Allows(Listed(p)), \A q \in Domain : ~Overrides(q, p, d),
                      NEW client \in Client, NEW at \in At, NEW i \in DOMAIN Listed(p),
                      IsClientBlocked(config, client, Listed(p)[i].category, at)
               PROVE  BlockReason(tree, config, d, client, at) # Nil
    BY DEF ListedIsBlocked, BlockReason
  <2>1. tree \in [Key -> Seq(Rule)]
    BY DEF ListsInv, TypeOK
  <2>2. RulesFor(tree, d) = Listed(p)
    BY ClosestDecides
  <2>3. Listed(p)[i].action # "allow"
    BY DEF Allows
  <2> QED BY <2>1, <2>2, <2>3, ReasonFacts
<1> QED BY <1>1, ListsInvariance, PTL

\* A name on an allowlist, and its subdomains, are blocked in no category and for
\* nobody, however many lists name it and in whatever order they were loaded, but
\* for the case the statement names.
THEOREM AllowlistsWin == Spec => []AllowlistWins
<1>1. ListsInv => AllowlistWins
  <2> SUFFICES ASSUME ListsInv, NEW d \in Domain, NEW p \in Parents(d),
                      NEW i \in DOMAIN Listed(p), Listed(p)[i].action = "allow",
                      \A q \in Domain : ~Overrides(q, p, d),
                      NEW client \in Client, NEW at \in At
               PROVE  Reason(tree, d, client, at) = Nil
    BY DEF AllowlistWins
  <2>1. tree \in [Key -> Seq(Rule)]
    BY DEF ListsInv, TypeOK
  <2>2. Listed(p) # <<>>
    OBVIOUS
  <2>3. RulesFor(tree, d) = Listed(p)
    BY <2>2, ClosestDecides
  <2>4. Allows(RulesFor(tree, d))
    BY <2>3 DEF Allows
  <2> QED BY <2>1, <2>4, ReasonFacts DEF Reason
<1> QED BY <1>1, ListsInvariance, PTL

\* As long as the process lives, loading a list unblocks nothing by itself.
THEOREM LoadingUnblocksNothing == Spec => NothingUnblocks
<1> DEFINE A == (runs' # 0 /\ tree' # tree) =>
       \A d \in Domain, client \in Client, at \in At :
         (Reason(tree, d, client, at) # Nil /\ Reason(tree', d, client, at) = Nil)
           => \/ Allows(RulesFor(tree', d))
              \/ LongestPrefix(tree', reverseFQDN(d)) # LongestPrefix(tree, reverseFQDN(d))
<1>1. ListsInv /\ ListsInv' /\ [Next]_vars => [A]_vars
  <2> SUFFICES ASSUME ListsInv, ListsInv', Next, runs' # 0, tree' # tree,
                      NEW d \in Domain, NEW client \in Client, NEW at \in At,
                      Reason(tree, d, client, at) # Nil, ~Allows(RulesFor(tree', d)),
                      LongestPrefix(tree', reverseFQDN(d)) = LongestPrefix(tree, reverseFQDN(d))
               PROVE  Reason(tree', d, client, at) # Nil
    OBVIOUS
  <2>1. \E r \in Run : Load(r)
    BY DEF Next, Step, Tick, Restart, Sync, Skip, ReadCopy, NoCopy, BadCopy, Fetch, FetchFails,
           ParsePanics, SaveBegin, SaveEnd, SaveFails
  <2>2. PICK r \in Run : Load(r)
    BY <2>1
  <2>3. PICK name, action, category, domains :
          tree' = LoadListToMemory(tree, name, action, category, domains)
    BY <2>2 DEF Load
  <2> DEFINE rule == [list |-> name, action |-> action, category |-> category]
             k == LongestPrefix(tree, reverseFQDN(d))
  <2>4. tree \in [Key -> Seq(Rule)] /\ tree' \in [Key -> Seq(Rule)]
    BY DEF ListsInv, TypeOK
  <2>5. \A x \in Key : tree'[x] = tree[x] \/ tree'[x] = Append(tree[x], rule)
    BY <2>3, <2>4 DEF LoadListToMemory, AppendRule
  <2>6. PICK i \in DOMAIN RulesFor(tree, d) :
          /\ RulesFor(tree, d)[i].action # "allow"
          /\ IsClientBlocked(config, client, RulesFor(tree, d)[i].category, at)
    BY <2>4, ReasonFacts DEF Reason
  <2>7. RulesFor(tree, d) \in Seq(Rule) /\ DOMAIN RulesFor(tree, d) = 1..Len(RulesFor(tree, d))
        /\ Len(RulesFor(tree, d)) \in Nat
    BY <2>4, ReasonFacts
  <2>8. RulesFor(tree, d) # <<>>
    BY <2>6
  <2>9. k \in Key /\ RulesFor(tree, d) = tree[k] /\ HasSuffix(d, reverseFQDN(k))
    BY <2>4, <2>8, RulesFacts
  <2>10. RulesFor(tree', d) = tree'[k]
    <3>1. k # Nil
      BY <2>9, KeyFacts
    <3> QED BY <2>9, <3>1 DEF RulesFor
  <2> HIDE DEF k, rule
  <2>11. i \in DOMAIN tree'[k] /\ tree'[k][i] = tree[k][i]
    <3>1. CASE tree'[k] = tree[k]
      BY <2>6, <2>9, <3>1
    <3>2. CASE tree'[k] = Append(tree[k], rule)
      <4>1. tree[k] \in Seq(Rule) /\ i \in 1..Len(tree[k]) /\ Len(tree[k]) \in Nat
        BY <2>6, <2>7, <2>9
      <4>2. tree[k] \in Seq(Rule \cup {rule}) /\ rule \in Rule \cup {rule}
        BY <4>1, SeqMonotonic
      <4>3. /\ tree'[k] \in Seq(Rule \cup {rule}) /\ Len(tree'[k]) = Len(tree[k]) + 1
            /\ \A j \in 1..Len(tree[k]) : tree'[k][j] = tree[k][j]
        BY <3>2, <4>2, AppendProperties
      <4>4. DOMAIN tree'[k] = 1..Len(tree[k]) + 1
        BY <4>3, LenProperties
      <4> QED BY <4>1, <4>3, <4>4
    <3> QED BY <2>5, <2>9, <3>1, <3>2
  <2>12. i \in DOMAIN RulesFor(tree', d) /\ RulesFor(tree', d)[i] = RulesFor(tree, d)[i]
    BY <2>9, <2>10, <2>11
  <2> QED BY <2>4, <2>6, <2>12, ReasonFacts DEF Reason
<1> QED BY <1>1, ListsInvariance, PTL DEF Spec, NothingUnblocks

\* A period that is accepted has two different ends.
LEMMA PeriodEnds ==
  ASSUME NEW c \in Configs, NEW s \in DOMAIN c.schedules, NEW when \in c.schedules[s].when,
         NEW period \in when.periods
  PROVE  period.start \in Int /\ period.end \in Int /\ period.start # period.end
<1>1. PICK file \in Files : c \in Read(file)
  BY DEF Configs
<1> DEFINE ReadWith(groups) ==
        [groups       |-> groups,
         schedules    |-> IF file.schedules = Nil THEN <<>>
                          ELSE [n \in DOMAIN file.schedules |-> ScheduleConfig(file.schedules[n])],
         lists        |-> Given(file.lists, DefaultLists),
         updateDays   |-> EnforceMinimum(GivenDuration(file.update_interval, OneDay)) \div OneDay,
         lookBack     |-> EnforceMinimum(GivenDuration(file.look_back, 14 * OneDay)),
         clients      |-> Given(file.clients, <<>>),
         method       |-> Given(file.method, ""),
         refreshAfter |-> GivenDuration(file.refresh_after, 1),
         logClients   |-> Given(file.log_clients, TRUE)]
<1>2. IsAccepted(file)
  BY <1>1 DEF Read
<1>3. c.schedules = IF file.schedules = Nil THEN <<>>
                    ELSE [n \in DOMAIN file.schedules |-> ScheduleConfig(file.schedules[n])]
  <2>1. PICK groups \in GroupsOf(file) : c = ReadWith(groups)
    BY <1>1, <1>2 DEF Read
  <2>2. ReadWith(groups).schedules =
          IF file.schedules = Nil THEN <<>>
          ELSE [n \in DOMAIN file.schedules |-> ScheduleConfig(file.schedules[n])]
    OBVIOUS
  <2> QED BY <2>1, <2>2
<1>4. file.schedules # Nil
  BY <1>3
<1>5. s \in DOMAIN file.schedules /\ c.schedules[s] = ScheduleConfig(file.schedules[s])
  BY <1>3, <1>4
<1>6. "when" \in DOMAIN file.schedules[s] /\ ScheduleIsValid(file.schedules[s])
  BY <1>2, <1>4, <1>5, ConfigAssumption DEF IsAccepted
<1>7. PICK w \in file.schedules[s].when : when = ScheduleWhen(w)
  BY <1>5, <1>6 DEF ScheduleConfig
<1>8. Nil \notin when.periods
  BY <1>5, <1>6 DEF ScheduleIsValid
<1>9. PICK q \in w.periods : period = SchedulePeriod(q) /\ SchedulePeriod(q) # Nil
  BY <1>7, <1>8 DEF ScheduleWhen
<1>10. ASSUME NEW clock, MinuteOf(clock) # Nil PROVE MinuteOf(clock) \in Int
  <2>1. clock.h \in 0..23 /\ clock.m \in 0..59 /\ MinuteOf(clock) = clock.h * 60 + clock.m
    BY <1>10 DEF MinuteOf
  <2> QED BY <2>1
<1>11. /\ period = [start |-> MinuteOf(q.start), end |-> MinuteOf(q.end)]
       /\ MinuteOf(q.start) # Nil /\ MinuteOf(q.end) # Nil
       /\ MinuteOf(q.start) # MinuteOf(q.end)
  BY <1>9 DEF SchedulePeriod
<1> QED BY <1>10, <1>11

\* A schedule's period and the one from its end to its start share out the day.
THEOREM PeriodsAreComplements == Spec => []PeriodsShareTheDay
<1>1. ListsInv => PeriodsShareTheDay
  <2> SUFFICES ASSUME ListsInv, NEW s \in DOMAIN config.schedules,
                      NEW when \in config.schedules[s].when, NEW period \in when.periods,
                      NEW at \in At
               PROVE  InPeriod(period, at.minute) /=
                        InPeriod([start |-> period.end, end |-> period.start], at.minute)
    BY DEF PeriodsShareTheDay
  <2>1. period.start \in Int /\ period.end \in Int /\ period.start # period.end
    BY PeriodEnds DEF ListsInv, TypeOK
  <2>2. at.minute \in Int
    BY BlocklistsAssumption
  <2> DEFINE a == period.start
             b == period.end
             m == at.minute
  <2>3. InPeriod(period, m) <=> IF a <= b THEN a <= m /\ m < b ELSE m >= a \/ m < b
    BY DEF InPeriod
  <2>4. InPeriod([start |-> b, end |-> a], m) <=>
          IF b <= a THEN b <= m /\ m < a ELSE m >= b \/ m < a
    BY DEF InPeriod
  <2> HIDE DEF a, b, m
  <2>5. (IF a <= b THEN a <= m /\ m < b ELSE m >= a \/ m < b) <=>
          ~(IF b <= a THEN b <= m /\ m < a ELSE m >= b \/ m < a)
    BY <2>1, <2>2 DEF a, b, m
  <2>6. InPeriod(period, m) <=> ~InPeriod([start |-> b, end |-> a], m)
    BY <2>3, <2>4, <2>5
  <2> QED BY <2>6 DEF a, b, m
<1> QED BY <1>1, ListsInvariance, PTL

-----------------------------------------------------------------------------
(* Sync loads recent copies. *)

\* The run is past the i-th list, or has opened its file.
Passed(r, i) == pc[r] # "idle" /\ (i < pos[r] \/ (i = pos[r] /\ pc[r] # "open"))

PassedOK ==
  /\ \A r \in Run : pc[r] # "idle" => runs # 0
  /\ \A r \in Run, i \in 1..Len(config.lists) : Passed(r, i) => InMemory(i)

\* What another run, or this one in another place, is about to load it goes on
\* to load.
LEMMA LoadersStay ==
  ASSUME ListsInv, NEW i, AboutToLoad(i), config' = config,
         fs'[config.lists[i].name] = fs[config.lists[i].name],
         \A q \in Run : pc[q] = "load" =>
            pc'[q] = "load" /\ pos'[q] = pos[q] /\ list'[q] = list[q]
  PROVE  AboutToLoad(i)'
BY DEF AboutToLoad, Conf

\* Going on with the next list, or ending, is a step of one run only.
LEMMA OthersStay ==
  ASSUME ListsInv, NEW r \in Run, NextList(r) \/ EndRun(r)
  PROVE  \A q \in Run \ {r} : pc'[q] = pc[q] /\ pos'[q] = pos[q] /\ list'[q] = list[q]
BY DEF ListsInv, TypeOK, JobOK, NextList, EndRun

\* A step that leaves the files, the tree and the clock alone and takes nothing
\* from a run about to load leaves a list in memory.
LEMMA QuietKeeps ==
  ASSUME ListsInv, NEW i, InMemory(i), UNCHANGED <<config, fs, tree, now>>,
         unused \subseteq unused',
         \A q \in Run : pc[q] = "load" =>
            pc'[q] = "load" /\ pos'[q] = pos[q] /\ list'[q] = list[q]
  PROVE  InMemory(i)'
<1>1. Wanted(i)' => Wanted(i)
  BY DEF Wanted, Outdated
<1>2. Loaded(i) => Loaded(i)'
  BY DEF Loaded, Listed
<1>3. AboutToLoad(i) => AboutToLoad(i)'
  BY LoadersStay
<1> QED BY <1>1, <1>2, <1>3 DEF InMemory

\* What is in memory stays there, copy by copy, until the process ends: whoever
\* replaces the copy is about to load the new one.
LEMMA InMemoryStep ==
  ASSUME ListsInv, NEW i \in 1..Len(config.lists), InMemory(i), [Next]_vars, ~Restart
  PROVE  InMemory(i)'
<1> DEFINE name == config.lists[i].name
<1>0. config.lists[i] \in ListConf /\ name \in ListName
  <2>1. config.lists \in Seq(ListConf)
    BY BlocklistsAssumption DEF ListsInv, TypeOK
  <2>2. config.lists[i] \in ListConf
    BY <2>1, ElementOfSeq
  <2> QED BY <2>2 DEF ListConf
<1>a. /\ DOMAIN pc = Run /\ DOMAIN pos = Run /\ DOMAIN list = Run
      /\ fs \in [ListName -> Source \cup {Nil, Torn}]
  BY DEF ListsInv, TypeOK, JobOK
<1> USE DEF job, vars
<1>1. ASSUME Tick PROVE InMemory(i)'
  <2>1. UNCHANGED <<config, tree, fs, pc, pos, list, unused>> /\ now' = now + 1
    BY <1>1 DEF Tick
  <2>2. Wanted(i)' => Wanted(i)
    <3> SUFFICES ASSUME Wanted(i)' PROVE Wanted(i)
      OBVIOUS
    <3>1. fs[name] \in Source /\ fs[name] \notin {Nil, Torn}
      BY <2>1, <1>0, <1>a DEF Wanted
    <3>2. fs[name].lastSync \in Nat /\ now \in Nat /\ Day \in Nat
      BY <3>1, BlocklistsAssumption DEF Source, ListsInv, TypeOK
    <3>3. ~(now' - fs[name].lastSync > Day)
      BY <2>1 DEF Wanted, Outdated
    <3>4. ~(now - fs[name].lastSync > Day)
      BY <2>1, <3>2, <3>3
    <3> QED BY <2>1, <3>4 DEF Wanted, Outdated
  <2>3. (Loaded(i) => Loaded(i)') /\ (AboutToLoad(i) => AboutToLoad(i)')
    BY <2>1 DEF Loaded, Listed, AboutToLoad, Conf
  <2> QED BY <2>1, <2>2, <2>3 DEF InMemory
<1>2. ASSUME NEW r \in Run, Sync(r) PROVE InMemory(i)'
  BY <1>2, OthersStay, QuietKeeps DEF Sync
<1>3. ASSUME NEW r \in Run, Skip(r) PROVE InMemory(i)'
  BY <1>3, OthersStay, QuietKeeps DEF Skip
<1>4. ASSUME NEW r \in Run, ReadCopy(r) PROVE InMemory(i)'
  BY <1>4, <1>a, QuietKeeps DEF ReadCopy
<1>5. ASSUME NEW r \in Run, NoCopy(r) PROVE InMemory(i)'
  BY <1>5, <1>a, QuietKeeps DEF NoCopy, GivesUp
<1>6. ASSUME NEW r \in Run, BadCopy(r) PROVE InMemory(i)'
  BY <1>6, OthersStay, QuietKeeps DEF BadCopy, GivesUp
<1>7. ASSUME NEW r \in Run, Fetch(r) PROVE InMemory(i)'
  BY <1>7, <1>a, QuietKeeps DEF Fetch
<1>8. ASSUME NEW r \in Run, FetchFails(r) PROVE InMemory(i)'
  BY <1>8, OthersStay, QuietKeeps DEF FetchFails, Continue
<1>9. ASSUME NEW r \in Run, ParsePanics(r) PROVE InMemory(i)'
  BY <1>9, OthersStay, QuietKeeps DEF ParsePanics
<1>10. ASSUME NEW r \in Run, SaveBegin(r) PROVE InMemory(i)'
  <2>1. /\ UNCHANGED <<config, tree, now, pos, list>>
        /\ fs' = [fs EXCEPT ![Conf(r).name] = Torn] /\ unused' = unused \ {Conf(r).name}
        /\ \A q \in Run : pc[q] = "load" => pc'[q] = "load"
    BY <1>10, <1>a DEF SaveBegin
  <2>2. CASE Conf(r).name = name
    <3>1. fs'[name] = Torn /\ config' = config
      BY <2>1, <2>2, <1>0, <1>a
    <3> QED BY <3>1 DEF InMemory, Wanted
  <2>3. CASE Conf(r).name # name
    <3>1. fs'[name] = fs[name]
      BY <2>1, <2>3, <1>0, <1>a
    <3>2. Wanted(i)' => Wanted(i)
      BY <3>1, <2>1 DEF Wanted, Outdated
    <3>3. Loaded(i) => Loaded(i)'
      BY <3>1, <2>1 DEF Loaded, Listed
    <3>4. AboutToLoad(i) => AboutToLoad(i)'
      BY <3>1, <2>1, LoadersStay
    <3> QED BY <2>1, <2>3, <3>2, <3>3, <3>4 DEF InMemory
  <2> QED BY <2>2, <2>3
<1>11. ASSUME NEW r \in Run, SaveEnd(r) PROVE InMemory(i)'
  <2>1. PICK file \in {list[r], Torn} : fs' = [fs EXCEPT ![Conf(r).name] = file]
    BY <1>11 DEF SaveEnd
  <2>2. /\ UNCHANGED <<config, tree, now, pos, list, unused>> /\ pc' = [pc EXCEPT ![r] = "load"]
    BY <1>11 DEF SaveEnd
  <2>3. CASE Conf(r).name = name
    <3>1. fs'[name] = file
      BY <2>1, <2>3, <1>0, <1>a
    <3>2. CASE file = Torn
      BY <3>1, <3>2, <2>2 DEF InMemory, Wanted
    <3>3. CASE file = list[r]
      <4>1. pc'[r] = "load" /\ Conf(r)' = Conf(r) /\ list'[r] = fs'[name]
        BY <3>1, <3>3, <2>2, <1>a DEF Conf
      <4>2. AboutToLoad(i)'
        BY <4>1, <2>2, <2>3 DEF AboutToLoad
      <4> QED BY <4>2 DEF InMemory
    <3> QED BY <3>2, <3>3
  <2>4. CASE Conf(r).name # name
    <3>1. fs'[name] = fs[name]
      BY <2>1, <2>4, <1>0, <1>a
    <3>2. Wanted(i)' => Wanted(i)
      BY <3>1, <2>2 DEF Wanted, Outdated
    <3>3. Loaded(i) => Loaded(i)'
      BY <3>1, <2>2 DEF Loaded, Listed
    <3>4. AboutToLoad(i) => AboutToLoad(i)'
      BY <3>1, <2>2, <1>a, LoadersStay
    <3> QED BY <2>2, <3>2, <3>3, <3>4 DEF InMemory
  <2> QED BY <2>3, <2>4
<1>12. ASSUME NEW r \in Run, SaveFails(r) PROVE InMemory(i)'
  <2>1. PICK file \in {fs[Conf(r).name], Torn, list[r]} : fs' = [fs EXCEPT ![Conf(r).name] = file]
    BY <1>12 DEF SaveFails
  <2>2. /\ UNCHANGED <<config, tree, now>> /\ pc[r] # "load"
        /\ \A q \in Run \ {r} : pc'[q] = pc[q] /\ pos'[q] = pos[q] /\ list'[q] = list[q]
    BY <1>12, OthersStay DEF SaveFails, Continue
  <2>3. unused' = unused \cup {n \in {Conf(r).name} : fs'[n] \notin {Nil, Torn}}
    BY <1>12 DEF SaveFails, GivesUp
  <2>4. CASE Conf(r).name = name
    BY <2>2, <2>3, <2>4 DEF InMemory, Wanted
  <2>5. CASE Conf(r).name # name
    <3>1. fs'[name] = fs[name]
      BY <2>1, <2>5, <1>0, <1>a
    <3>2. Wanted(i)' => Wanted(i)
      BY <3>1, <2>2 DEF Wanted, Outdated
    <3>3. Loaded(i) => Loaded(i)'
      BY <3>1, <2>2 DEF Loaded, Listed
    <3>4. AboutToLoad(i) => AboutToLoad(i)'
      BY <3>1, <2>2, LoadersStay
    <3> QED BY <2>2, <2>3, <3>2, <3>3, <3>4 DEF InMemory
  <2> QED BY <2>4, <2>5
<1>13. ASSUME NEW r \in Run, Load(r) PROVE InMemory(i)'
  <2> DEFINE rule == [list |-> Conf(r).name, action |-> list[r].action,
                      category |-> list[r].category]
  <2>1. /\ pc[r] = "load" /\ UNCHANGED <<config, fs, now>> /\ list[r] \in Source
        /\ \A q \in Run \ {r} : pc'[q] = pc[q] /\ pos'[q] = pos[q] /\ list'[q] = list[q]
    BY <1>13, OthersStay DEF Load, ListsInv, JobOK
  <2>2. tree \in [Key -> Seq(Rule)] /\ rule \in Rule
    <3>1. Conf(r) \in ListConf
      BY <2>1, ConfFacts
    <3> QED BY <2>1, <3>1 DEF Rule, ListConf, Source, ListsInv, TypeOK
  <2>3. tree' = [k \in Key |-> IF reverseFQDN(k) \in list[r].domains
                                 THEN Append(tree[k], rule) ELSE tree[k]]
    BY <1>13, <2>2 DEF Load, LoadListToMemory, AppendRule
  <2> HIDE DEF rule
  <2>4. ASSUME NEW d \in Domain
        PROVE  /\ \A j \in DOMAIN Listed(d) : j \in DOMAIN Listed(d)' /\ Listed(d)'[j] = Listed(d)[j]
               /\ d \in list[r].domains => \E j \in DOMAIN Listed(d)' : Listed(d)'[j] = rule
    <3> DEFINE k == reverseFQDN(d)
    <3>1. k \in Key /\ reverseFQDN(k) = d
      BY KeyFacts
    <3>2. tree[k] \in Seq(Rule)
      BY <3>1, <2>2
    <3>3. /\ Len(tree[k]) \in Nat /\ DOMAIN tree[k] = 1..Len(tree[k])
          /\ DOMAIN Append(tree[k], rule) = 1..(Len(tree[k]) + 1)
          /\ \A j \in 1..Len(tree[k]) : Append(tree[k], rule)[j] = tree[k][j]
          /\ Append(tree[k], rule)[Len(tree[k]) + 1] = rule
      BY <3>2, <2>2, LenProperties, AppendProperties
    <3>4. tree'[k] = IF d \in list[r].domains THEN Append(tree[k], rule) ELSE tree[k]
      BY <3>1, <2>3
    <3>5. Listed(d) = tree[k] /\ Listed(d)' = tree'[k]
      BY DEF Listed
    <3> HIDE DEF k
    <3> QED BY <3>3, <3>4, <3>5
  <2>5. Wanted(i)' => Wanted(i) /\ fs[name] \in Source
    BY <2>1, <1>0, <1>a DEF Wanted, Outdated
  <2>6. ASSUME Wanted(i)', Loaded(i) PROVE Loaded(i)'
    <3>1. fs[name].domains \subseteq Domain
      BY <2>5, <2>6 DEF Source
    <3> DEFINE mine == [list |-> name, action |-> fs[name].action, category |-> fs[name].category]
    <3>2. \A d \in fs[name].domains : \E j \in DOMAIN Listed(d) : Listed(d)[j] = mine
      BY <2>6 DEF Loaded
    <3>3. \A d \in fs[name].domains : \E j \in DOMAIN Listed(d)' : Listed(d)'[j] = mine
      BY <3>1, <3>2, <2>4
    <3> QED BY <3>3, <2>1 DEF Loaded
  <2>7. ASSUME Wanted(i)', AboutToLoad(i) PROVE Loaded(i)' \/ AboutToLoad(i)'
    <3>1. PICK q \in Run : pc[q] = "load" /\ Conf(q).name = name /\ list[q] = fs[name]
      BY <2>7 DEF AboutToLoad
    <3>2. CASE q = r
      <4>1. rule = [list |-> name, action |-> fs[name].action, category |-> fs[name].category]
        BY <3>1, <3>2 DEF rule
      <4>2. fs[name].domains \subseteq Domain /\ list[r] = fs[name]
        BY <2>5, <2>7, <3>1, <3>2 DEF Source
      <4>3. \A d \in fs[name].domains : \E j \in DOMAIN Listed(d)' : Listed(d)'[j] = rule
        BY <4>2, <2>4
      <4>4. Loaded(i)'
        BY <4>1, <4>3, <2>1 DEF Loaded
      <4> QED BY <4>4
    <3>3. CASE q # r
      <4>1. pc'[q] = "load" /\ pos'[q] = pos[q] /\ list'[q] = fs'[name] /\ config' = config
        BY <3>1, <3>3, <2>1
      <4>2. Conf(q)' = Conf(q)
        BY <4>1 DEF Conf
      <4> QED BY <3>1, <4>1, <4>2 DEF AboutToLoad
    <3> QED BY <3>2, <3>3
  <2>8. ASSUME name \in unused PROVE name \in unused' \/ AboutToLoad(i)
    <3>1. unused' = unused \ {n \in {Conf(r).name} : list[r] = fs[n]}
      BY <1>13 DEF Load
    <3>2. name \notin unused' => Conf(r).name = name /\ list[r] = fs[name]
      BY <2>8, <3>1
    <3> QED BY <2>1, <3>2 DEF AboutToLoad
  <2> QED BY <2>1, <2>5, <2>6, <2>7, <2>8 DEF InMemory
<1>14. ASSUME UNCHANGED vars PROVE InMemory(i)'
  BY <1>14, QuietKeeps
<1> QED
  BY <1>1, <1>2, <1>3, <1>4, <1>5, <1>6, <1>7, <1>8, <1>9, <1>10, <1>11, <1>12,
     <1>13, <1>14 DEF Next, Step

\* A run that comes to a list leaves it alone only if there is nothing recent to
\* load, or gives up on its file.
LEMMA OpenDecides ==
  ASSUME ListsInv, NEW r \in Run, NEW i \in 1..Len(config.lists), i = pos[r],
         Skip(r) \/ ReadCopy(r) \/ NoCopy(r) \/ BadCopy(r)
  PROVE  InMemory(i)'
<1> DEFINE name == Conf(r).name
<1>0. UNCHANGED <<config, fs, now>> /\ pc[r] = "open"
  BY DEF Skip, ReadCopy, NoCopy, BadCopy
<1>1. CASE Skip(r)
  BY <1>0, <1>1 DEF Skip, InMemory, Wanted, Conf
<1>2. CASE NoCopy(r) \/ BadCopy(r)
  <2>1. GivesUp(r)
    BY <1>2 DEF NoCopy, BadCopy
  <2>2. fs'[name] \in {Nil, Torn} \/ name \in unused'
    BY <2>1 DEF GivesUp
  <2> QED BY <1>0, <2>2 DEF InMemory, Wanted, Conf
<1>3. CASE ReadCopy(r)
  <2>1. /\ DOMAIN list = Run /\ DOMAIN pc = Run /\ pos' = pos /\ Conf(r) = config.lists[i]
        /\ list' = [list EXCEPT ![r] = fs[name]]
        /\ pc' = [pc EXCEPT ![r] = IF Outdated(fs[name]) THEN "fetch" ELSE "load"]
    BY <1>3 DEF ReadCopy, ListsInv, TypeOK, JobOK, Conf
  <2>2. CASE Outdated(fs[name])
    BY <2>2, <1>0 DEF InMemory, Wanted, Outdated, Conf
  <2>3. CASE ~Outdated(fs[name])
    <3>1. pc'[r] = "load" /\ list'[r] = fs'[name] /\ config' = config
      BY <2>1, <2>3, <1>0
    <3>2. AboutToLoad(i)'
      BY <3>1, <2>1 DEF AboutToLoad, Conf
    <3> QED BY <3>2 DEF InMemory
  <2> QED BY <2>2, <2>3
<1> QED BY <1>1, <1>2, <1>3

\* A run gets past a list, or opens it, one list at a time.
LEMMA PassesOneByOne ==
  ASSUME ListsInv, NEW r \in Run, NEW i \in 1..Len(config.lists), [Next]_vars, ~Restart,
         Passed(r, i)'
  PROVE  \/ Passed(r, i)
         \/ i = pos[r] /\ (Skip(r) \/ ReadCopy(r) \/ NoCopy(r) \/ BadCopy(r))
<1> DEFINE Goal == \/ Passed(r, i)
                   \/ i = pos[r] /\ (Skip(r) \/ ReadCopy(r) \/ NoCopy(r) \/ BadCopy(r))
<1>a. /\ DOMAIN pc = Run /\ DOMAIN pos = Run /\ pos[r] \in Nat
      /\ pc[r] = "idle" => pos[r] = 0
      /\ pc[r] \in {"idle", "open", "fetch", "save", "write", "mix", "load"}
      /\ Len(config.lists) \in Nat /\ i \in Nat /\ i # 0
  BY ConfFacts DEF ListsInv, TypeOK, JobOK
<1>b. ASSUME NEW q \in Run, NextList(q), config' = config
      PROVE  IF q = r THEN pc[r] # "idle" /\ (i < pos[r] \/ i = pos[r]) ELSE Passed(r, i)
  <2>1. CASE q = r
    BY <1>a, <1>b, <2>1 DEF Passed, NextList, MoreLists
  <2>2. CASE q # r
    BY <1>b, <2>2, OthersStay DEF Passed
  <2> QED BY <2>1, <2>2
<1> USE DEF job, vars
<1>1. ASSUME Tick PROVE Goal
  BY <1>1 DEF Tick, Passed
<1>2. ASSUME NEW q \in Run, Sync(q) PROVE Goal
  BY <1>2, <1>b DEF Sync
<1>3. ASSUME NEW q \in Run, Skip(q) PROVE Goal
  BY <1>3, <1>b DEF Skip, Passed
<1>4. ASSUME NEW q \in Run, ReadCopy(q) PROVE Goal
  BY <1>4, <1>a DEF ReadCopy, Passed
<1>5. ASSUME NEW q \in Run, NoCopy(q) PROVE Goal
  BY <1>5, <1>a DEF NoCopy, Passed
<1>6. ASSUME NEW q \in Run, BadCopy(q) PROVE Goal
  BY <1>6, <1>b DEF BadCopy, Passed
<1>7. ASSUME NEW q \in Run, Fetch(q) PROVE Goal
  BY <1>7, <1>a DEF Fetch, Passed
<1>8. ASSUME NEW q \in Run, FetchFails(q) PROVE Goal
  BY <1>8, <1>b DEF FetchFails, Continue, Passed
<1>9. ASSUME NEW q \in Run, ParsePanics(q) PROVE Goal
  BY <1>9, <1>a DEF ParsePanics, EndRun, Passed
<1>10. ASSUME NEW q \in Run, SaveBegin(q) PROVE Goal
  BY <1>10, <1>a DEF SaveBegin, Passed
<1>11. ASSUME NEW q \in Run, SaveEnd(q) PROVE Goal
  BY <1>11, <1>a DEF SaveEnd, Passed
<1>12. ASSUME NEW q \in Run, SaveFails(q) PROVE Goal
  BY <1>12, <1>b DEF SaveFails, Continue, Passed
<1>13. ASSUME NEW q \in Run, Load(q) PROVE Goal
  BY <1>13, <1>b DEF Load, Passed
<1>14. ASSUME UNCHANGED vars PROVE Goal
  BY <1>14 DEF Passed
<1> QED
  BY <1>1, <1>2, <1>3, <1>4, <1>5, <1>6, <1>7, <1>8, <1>9, <1>10, <1>11, <1>12,
     <1>13, <1>14 DEF Next, Step

\* A process in which a run is under way has started one.
LEMMA RunsAreCounted ==
  ListsInv /\ (\A r \in Run : pc[r] # "idle" => runs # 0) /\ [Next]_vars
    => \A r \in Run : pc'[r] # "idle" => runs' # 0
<1> SUFFICES ASSUME ListsInv, \A r \in Run : pc[r] # "idle" => runs # 0, [Next]_vars
             PROVE  \A r \in Run : pc'[r] # "idle" => runs' # 0
  OBVIOUS
<1>a. DOMAIN pc = Run /\ runs \in Nat
  BY DEF ListsInv, TypeOK
<1> USE DEF job, vars
<1>1. CASE Restart
  BY <1>1 DEF Restart
<1>2. ASSUME NEW r \in Run, Sync(r) PROVE runs' # 0
  BY <1>2, <1>a DEF Sync
<1>3. ASSUME NEW r \in Run, Step(r), ~Sync(r)
      PROVE  \A q \in Run : pc'[q] # "idle" => runs' # 0
  <2>1. runs' = runs /\ pc[r] # "idle"
    BY <1>3 DEF Step, Skip, ReadCopy, NoCopy, BadCopy, Fetch, FetchFails, ParsePanics, SaveBegin,
                SaveEnd, SaveFails, Load
  <2> QED BY <2>1
<1>4. CASE Tick \/ UNCHANGED vars
  BY <1>4 DEF Tick
<1> QED BY <1>1, <1>2, <1>3, <1>4 DEF Next

\* ... and it keeps in memory what its runs have passed.
LEMMA PassedStep == ListsInv /\ PassedOK /\ [Next]_vars => PassedOK'
<1> SUFFICES ASSUME ListsInv, PassedOK, [Next]_vars
             PROVE  \A r \in Run, i \in 1..Len(config'.lists) : Passed(r, i)' => InMemory(i)'
  BY RunsAreCounted DEF PassedOK
<1>1. CASE Restart
  BY <1>1 DEF Restart, Passed
<1>2. CASE ~Restart
  <2>1. config' = config
    BY <1>2 DEF Next, Step, Tick, Sync, Skip, ReadCopy, NoCopy, BadCopy, Fetch, FetchFails,
                ParsePanics, SaveBegin, SaveEnd, SaveFails, Load, vars
  <2>2. ASSUME NEW r \in Run, NEW i \in 1..Len(config.lists), Passed(r, i)' PROVE InMemory(i)'
    <3>1. CASE Passed(r, i)
      <4>1. InMemory(i)
        BY <3>1 DEF PassedOK
      <4> QED BY <4>1, <1>2, InMemoryStep
    <3>2. CASE i = pos[r] /\ (Skip(r) \/ ReadCopy(r) \/ NoCopy(r) \/ BadCopy(r))
      BY <3>2, OpenDecides
    <3> QED BY <1>2, <2>2, <3>1, <3>2, PassesOneByOne
  <2> QED BY <2>1, <2>2
<1> QED BY <1>1, <1>2

\* A run ends after its last list: it has passed all of them but, maybe, a last one
\* that it skips or cannot read.
LEMMA EndsAfterTheLast ==
  ASSUME ListsInv, NEW r \in Run, RunEnds(r), NEW i \in 1..Len(config.lists), Next, ~Restart
  PROVE  Passed(r, i) \/ (i = pos[r] /\ (Skip(r) \/ BadCopy(r)))
<1> DEFINE Goal == Passed(r, i) \/ (i = pos[r] /\ (Skip(r) \/ BadCopy(r)))
<1>a. /\ DOMAIN pc = Run /\ pos[r] \in 1..Len(config.lists) /\ Len(config.lists) \in Nat
      /\ pc[r] # "idle" /\ pc'[r] = "idle"
      /\ pos[r] = Len(config.lists) \/ pc[r] # "fetch"
  BY ConfFacts DEF ListsInv, TypeOK, RunEnds
<1>b. ASSUME NEW q \in Run, NextList(q) PROVE q = r /\ (i < pos[r] \/ i = pos[r])
  <2>1. q = r
    BY <1>a, <1>b, OthersStay
  <2>2. ~MoreLists(r)
    BY <1>a, <1>b, <2>1 DEF NextList
  <2> QED BY <1>a, <2>1, <2>2 DEF MoreLists
<1> USE DEF job, vars
<1>1. ASSUME Tick PROVE Goal
  BY <1>1, <1>a DEF Tick
<1>2. ASSUME NEW q \in Run, Sync(q) PROVE Goal
  BY <1>2, <1>a, <1>b DEF Sync
<1>3. ASSUME NEW q \in Run, Skip(q) PROVE Goal
  BY <1>3, <1>a, <1>b DEF Skip, Passed
<1>4. ASSUME NEW q \in Run, ReadCopy(q) PROVE Goal
  BY <1>4, <1>a DEF ReadCopy
<1>5. ASSUME NEW q \in Run, NoCopy(q) PROVE Goal
  BY <1>5, <1>a DEF NoCopy
<1>6. ASSUME NEW q \in Run, BadCopy(q) PROVE Goal
  BY <1>6, <1>a, <1>b DEF BadCopy, Passed
<1>7. ASSUME NEW q \in Run, Fetch(q) PROVE Goal
  BY <1>7, <1>a DEF Fetch
<1>8. ASSUME NEW q \in Run, FetchFails(q) PROVE Goal
  BY <1>8, <1>a, <1>b DEF FetchFails, Continue, Passed
<1>9. ASSUME NEW q \in Run, ParsePanics(q) PROVE Goal
  <2>1. q = r
    BY <1>9, <1>a DEF ParsePanics, EndRun
  <2>2. pc[r] = "fetch" /\ pos[r] = Len(config.lists)
    BY <1>9, <1>a, <2>1 DEF ParsePanics
  <2> QED BY <1>a, <2>2 DEF Passed
<1>10. ASSUME NEW q \in Run, SaveBegin(q) PROVE Goal
  BY <1>10, <1>a DEF SaveBegin
<1>11. ASSUME NEW q \in Run, SaveEnd(q) PROVE Goal
  BY <1>11, <1>a DEF SaveEnd
<1>12. ASSUME NEW q \in Run, SaveFails(q) PROVE Goal
  BY <1>12, <1>a, <1>b DEF SaveFails, Continue, Passed
<1>13. ASSUME NEW q \in Run, Load(q) PROVE Goal
  BY <1>13, <1>a, <1>b DEF Load, Passed
<1> QED
  BY <1>1, <1>2, <1>3, <1>4, <1>5, <1>6, <1>7, <1>8, <1>9, <1>10, <1>11, <1>12,
     <1>13 DEF Next, Step

\* However runs overlap, whatever fails for other lists and whoever fetches
\* meanwhile, a run that comes to its end has in memory every recent copy that no
\* run gave up on, or another run is about to put it there.
THEOREM SyncLoadsRecentCopies == Spec => SyncLoadsCopies
<1> DEFINE A == \A r \in Run : RunEnds(r) => \A i \in DOMAIN config.lists : InMemory(i)'
<1>1. Init => PassedOK
  BY DEF Init, PassedOK, Passed
<1>2. Spec => [](ListsInv /\ PassedOK)
  BY <1>1, PassedStep, ListsInvariance, PTL DEF Spec
<1>3. ListsInv /\ PassedOK /\ [Next]_vars => [A]_vars
  <2> SUFFICES ASSUME ListsInv, PassedOK, Next, NEW r \in Run, RunEnds(r),
                      NEW i \in DOMAIN config.lists
               PROVE  InMemory(i)'
    BY DEF vars
  <2>1. pc[r] # "idle" /\ pc'[r] = "idle" /\ runs' = runs /\ runs # 0
    BY DEF RunEnds, PassedOK
  <2>2. ~Restart
    BY <2>1 DEF Restart
  <2>3. DOMAIN config.lists = 1..Len(config.lists)
    BY BlocklistsAssumption, LenProperties DEF ListsInv, TypeOK
  <2>4. CASE Passed(r, i)
    <3>1. InMemory(i)
      BY <2>3, <2>4 DEF PassedOK
    <3> QED BY <3>1, <2>2, <2>3, InMemoryStep
  <2>5. CASE i = pos[r] /\ (Skip(r) \/ BadCopy(r))
    BY <2>5, OpenDecides
  <2> QED BY <2>2, <2>3, <2>4, <2>5, EndsAfterTheLast
<1> QED BY <1>2, <1>3, PTL DEF Spec, SyncLoadsCopies
=============================================================================
