----------------------------- MODULE Blocklists -----------------------------
(***************************************************************************)
(* The lists of internal/lists/sync.go: fetched from their sources, kept   *)
(* in files, loaded into the tree that Filter decides by.                  *)
(*                                                                         *)
(* Sync is a job of the scheduler: it runs once at the start of the        *)
(* process and then every updateDays days of a month, and gocron does not  *)
(* wait for a run to end before it starts the next (a process started      *)
(* shortly before 3:00 has two).  Each run walks through the configured    *)
(* lists; fetching and saving take time, during which the process may die. *)
(* Queries are answered all the while, by the tree as it is.               *)
(***************************************************************************)
EXTENDS Filter

CONSTANTS
  Domain,      \* the names on the lists and in the questions
  Client,      \* client host names
  At,          \* instants of a week: records of a day and a minute
  ListName,    \* names of lists
  Category,    \* types.Category
  Published,   \* url -> the sets of valid names it may answer with
  Run,         \* bound: concurrent runs of Sync
  Day,         \* 24 hours, in ticks
  DaysPerMonth,
  MaxTime,     \* bound: the last tick
  Torn         \* a file that is not valid JSON

Action == {"allow", "block"}
Url == DOMAIN Published

\* A SourceListConfig: a list as the configuration describes it.
ListConf == [name : ListName, url : Url, action : Action, category : Category]

ASSUME BlocklistsAssumption ==
  /\ Configs # {} /\ Nil \notin Category /\ \A at \in At : at.minute \in Int
  /\ IsFiniteSet(Domain) /\ Domain \subseteq Seq(STRING)
  /\ \A u \in Url : Published[u] \subseteq SUBSET Domain
  /\ \A conf \in Configs : conf.lists \in Seq(ListConf)
  /\ {Day, DaysPerMonth} \subseteq Nat \ {0} /\ MaxTime \in Nat
  /\ <<>> \notin Domain

Key == {reverseFQDN(d) : d \in Domain}

VARIABLES
  now,      \* the clock, in ticks; the first day of a month begins at 0
  config,   \* config.All, read when the process starts
  tree,     \* the radix tree
  fs,       \* the files in lists.Dir
  due,      \* the scheduler is about to start a run of Sync
  runs,     \* how many runs this process has started
  pc,       \* where each run is
  pos,      \* the index of the list it is at
  list,     \* its variable list, a Source
  unused    \* history: lists whose copy a run gave up on and none has loaded since

vars == <<now, config, tree, fs, due, runs, pc, pos, list, unused>>
job  == <<pc, pos, list>>

\* A Source, in memory or in its file.
Source == [url : Url, action : Action, category : Category, lastSync : Nat,
           domains : SUBSET Domain]

Rule == [list : ListName, action : Action, category : Category]

ASSUME FileAssumption == Nil \notin Source \cup Key /\ Torn \notin Source /\ Nil # Torn

NeverSynced(conf) == [url |-> conf.url, action |-> conf.action, category |-> conf.category,
                      lastSync |-> 0, domains |-> {}]

Init ==
  /\ now = 0
  /\ config \in Configs
  /\ tree = [k \in Key |-> <<>>]
  /\ fs = [n \in ListName |-> Nil]
  /\ due = TRUE
  /\ runs = 0
  /\ pc = [r \in Run |-> "idle"]
  /\ pos = [r \in Run |-> 0]
  /\ list = [r \in Run |-> Nil]
  /\ unused = {}

-----------------------------------------------------------------------------
Conf(r) == config.lists[pos[r]]

\* Mutant: one list too many.
OneMoreList(r) == pos[r] <= Len(config.lists)

MoreLists(r) == pos[r] < Len(config.lists)

\* The loop goes on with the next list, or Sync returns.
NextList(r) ==
  /\ list' = [list EXCEPT ![r] = Nil]
  /\ IF MoreLists(r)
       THEN pos' = [pos EXCEPT ![r] = @ + 1] /\ pc' = [pc EXCEPT ![r] = "open"]
       ELSE pos' = [pos EXCEPT ![r] = 0] /\ pc' = [pc EXCEPT ![r] = "idle"]

\* The scheduler starts the job.
Sync(r) ==
  /\ due /\ pc[r] = "idle"
  /\ due' = FALSE
  /\ runs' = runs + 1
  /\ NextList(r)
  /\ UNCHANGED <<now, config, tree, fs, unused>>

\* A list of a category that nothing blocks.
Skip(r) ==
  /\ pc[r] = "open"
  /\ Conf(r).category \notin BlockedCategories(config)
  /\ NextList(r)
  /\ UNCHANGED <<now, config, tree, fs, due, runs, unused>>

Outdated(source) == now - source.lastSync > Day

\* existsOnFs, readFromFs: what the file says replaces what the configuration
\* says, and an outdated copy is fetched again.
ReadCopy(r) ==
  /\ pc[r] = "open"
  /\ Conf(r).category \in BlockedCategories(config)
  /\ fs[Conf(r).name] \notin {Nil, Torn}
  /\ list' = [list EXCEPT ![r] = fs[Conf(r).name]]
  /\ pc' = [pc EXCEPT ![r] = IF Outdated(fs[Conf(r).name]) THEN "fetch" ELSE "load"]
  /\ UNCHANGED <<now, config, tree, fs, due, runs, pos, unused>>

\* A file operation on its list fails, and the run gives up on the copy there is.
GivesUp(r) ==
  unused' = unused \cup {n \in {Conf(r).name} : fs'[n] \notin {Nil, Torn}}

\* No file, or none that os.Stat gets to see: the list is fetched as if for the
\* first time.
NoCopy(r) ==
  /\ pc[r] = "open"
  /\ Conf(r).category \in BlockedCategories(config)
  /\ list' = [list EXCEPT ![r] = NeverSynced(Conf(r))]
  /\ pc' = [pc EXCEPT ![r] = "fetch"]
  /\ UNCHANGED <<now, config, tree, fs, due, runs, pos>>
  /\ GivesUp(r)

\* readFromFs fails: continue with the next list.  The file is no JSON, or
\* os.ReadFile reports an error, on a good file too.
BadCopy(r) ==
  /\ pc[r] = "open"
  /\ Conf(r).category \in BlockedCategories(config)
  /\ fs[Conf(r).name] # Nil
  /\ NextList(r)
  /\ UNCHANGED <<now, config, tree, fs, due, runs>>
  /\ GivesUp(r)

\* A list with the names a fetch has found.
Fetched(source, names) ==
  [url |-> source.url, action |-> source.action, category |-> source.category,
   lastSync |-> now, domains |-> names]

\* fetchFromUpstream: whatever the server sends is parsed, and lines that are
\* no names are dropped (an error page leaves none).
Fetch(r) ==
  /\ pc[r] = "fetch"
  /\ \E names \in Published[list[r].url] : list' = [list EXCEPT ![r] = Fetched(@, names)]
  /\ pc' = [pc EXCEPT ![r] = "save"]
  /\ UNCHANGED <<now, config, tree, fs, due, runs, pos, unused>>

\* The run of Sync ends here.  (Mutant of Continue: return instead of continue.)
EndRun(r) ==
  /\ list' = [list EXCEPT ![r] = Nil]
  /\ pos' = [pos EXCEPT ![r] = 0]
  /\ pc' = [pc EXCEPT ![r] = "idle"]

\* An error: continue with the next list.
Continue(r) == NextList(r)

FetchFails(r) ==
  /\ pc[r] = "fetch"
  /\ Continue(r)
  /\ UNCHANGED <<now, config, tree, fs, due, runs, unused>>

\* parseDomains indexes past the end of a one-word line of a hosts list: the
\* panic ends the run, and gocron recovers from it.
ParsePanics(r) ==
  /\ pc[r] = "fetch"
  /\ EndRun(r)
  /\ UNCHANGED <<now, config, tree, fs, due, runs, unused>>

\* os.WriteFile truncates the file, then writes it.
SaveBegin(r) ==
  /\ pc[r] = "save"
  /\ fs' = [fs EXCEPT ![Conf(r).name] = Torn]
  /\ pc' = [q \in Run |->
       IF q = r \/ (pc[q] = "write" /\ Conf(q).name = Conf(r).name)
         THEN IF \E p \in Run \ {r} : pc[p] \in {"write", "mix"} /\ Conf(p).name = Conf(r).name
                THEN "mix" ELSE "write"
         ELSE pc[q]]
  /\ unused' = unused \ {Conf(r).name}
  /\ UNCHANGED <<now, config, tree, due, runs, pos, list>>

\* Two runs that write the same file at once may leave a mixture.
SaveEnd(r) ==
  /\ pc[r] \in {"write", "mix"}
  /\ \E file \in {list[r]} \cup (IF pc[r] = "mix" THEN {Torn} ELSE {}) :
       fs' = [fs EXCEPT ![Conf(r).name] = file]
  /\ pc' = [pc EXCEPT ![r] = "load"]
  /\ UNCHANGED <<now, config, tree, due, runs, pos, list, unused>>

\* os.WriteFile fails: the file cannot be opened, or not be written to the end
\* (what another run wrote meanwhile may be damaged), or it is whole and only
\* Close reports an error.
SaveFails(r) ==
  /\ pc[r] \in {"save", "write", "mix"}
  /\ \E file \in {fs[Conf(r).name]} \cup (IF pc[r] = "mix" THEN {Torn} ELSE {})
                                   \cup (IF pc[r] = "save" THEN {} ELSE {list[r]}) :
       fs' = [fs EXCEPT ![Conf(r).name] = file]
  /\ Continue(r)
  /\ UNCHANGED <<now, config, tree, due, runs>>
  /\ GivesUp(r)

\* dns.LoadListToMemory, under treeMu
Load(r) ==
  /\ pc[r] = "load"
  /\ tree' = LoadListToMemory(tree, Conf(r).name, list[r].action, list[r].category,
                              list[r].domains)
  /\ unused' = unused \ {n \in {Conf(r).name} : list[r] = fs[n]}
  /\ NextList(r)
  /\ UNCHANGED <<now, config, fs, due, runs>>

\* 0 3 */N * *: at 3:00 of the first day of a month and of every Nth after it.
SyncIsDue(at) ==
  /\ at % Day = 0
  /\ ((at \div Day) % DaysPerMonth) % config.updateDays = 0

Tick ==
  /\ now < MaxTime /\ ~due
  /\ now' = now + 1
  /\ due' = SyncIsDue(now')
  /\ UNCHANGED <<config, tree, fs, runs, job, unused>>

\* The process ends at any point and is started again, maybe with another
\* configuration; the files stay as they are.
Restart ==
  /\ config' \in Configs
  /\ tree' = [k \in Key |-> <<>>]
  /\ due' = TRUE
  /\ runs' = 0
  /\ pc' = [r \in Run |-> "idle"]
  /\ pos' = [r \in Run |-> 0]
  /\ list' = [r \in Run |-> Nil]
  /\ unused' = {}
  /\ UNCHANGED <<now, fs>>

Step(r) ==
  \/ Sync(r) \/ Skip(r) \/ ReadCopy(r) \/ NoCopy(r) \/ BadCopy(r)
  \/ Fetch(r) \/ FetchFails(r) \/ ParsePanics(r)
  \/ SaveBegin(r) \/ SaveEnd(r) \/ SaveFails(r) \/ Load(r)

Next == Tick \/ Restart \/ \E r \in Run : Step(r)

Spec == Init /\ [][Next]_vars

-----------------------------------------------------------------------------
(* Properties *)

\* Type invariant of the lists.
TypeOK ==
  /\ now \in 0..MaxTime /\ runs \in Nat /\ due \in BOOLEAN
  /\ config \in Configs
  /\ tree \in [Key -> Seq(Rule)]
  /\ fs \in [ListName -> Source \cup {Nil, Torn}]
  /\ unused \subseteq ListName
  /\ pc \in [Run -> {"idle", "open", "fetch", "save", "write", "mix", "load"}]
  /\ \A r \in Run : /\ pos[r] \in 0..Len(config.lists)
                    /\ pc[r] = "idle" <=> pos[r] = 0
  /\ \A r \in Run : list[r] \in IF pc[r] \in {"idle", "open"} THEN {Nil} ELSE Source

\* The verdict of isBlocked by tree t.
Reason(t, d, client, at) == BlockReason(t, config, d, client, at)

Listed(d) == tree[reverseFQDN(d)]

\* The names d is a subdomain of, and d itself.
Parents(d) == {p \in Domain : IsSuffix(p, d)}

\* A name that stands before p in the eyes of LongestPrefix: it is longer, and
\* d's key begins with it.
Overrides(q, p, d) ==
  /\ p # q /\ Listed(q) # <<>>
  /\ KeyPrefix(reverseFQDN(p), reverseFQDN(q))
  /\ KeyPrefix(reverseFQDN(q), reverseFQDN(d))

\* What a list blocks for everyone stays blocked with all its subdomains unless
\* an allowlist has the very same name or a longer listed name gets in the way,
\* be it a subdomain or just one that starts alike (resolver.go:131-139).
ListedIsBlocked ==
  \A d \in Domain : \A p \in Parents(d) :
    (/\ Listed(p) # <<>> /\ ~Allows(Listed(p))
     /\ \A q \in Domain : ~Overrides(q, p, d))
      => LET rules == RulesFor(tree, d)
         IN \A client \in Client, at \in At, i \in DOMAIN Listed(p) :
              IsClientBlocked(config, client, Listed(p)[i].category, at)
                => Verdict(rules, config, client, at) # Nil

\* An allowlist removes a name and its subdomains from every category, for
\* everyone and at any time, whichever lists were loaded before or after it and
\* however often; unless a longer listed name gets in the way
\* (resolver.go:142-147; docs/config.md:127).
AllowlistWins ==
  \A d \in Domain : \A p \in Parents(d) :
    (/\ \E i \in DOMAIN Listed(p) : Listed(p)[i].action = "allow"
     /\ \A q \in Domain : ~Overrides(q, p, d))
      => \A client \in Client, at \in At : Reason(tree, d, client, at) = Nil

\* A schedule's period and the one from its end to its start share out the day:
\* no minute is in both or in neither, midnight or not (config.go:139-149).
PeriodsShareTheDay ==
  \A s \in DOMAIN config.schedules : \A when \in config.schedules[s].when :
    \A period \in when.periods, at \in At :
      InPeriod(period, at.minute) /=
        InPeriod([start |-> period.end, end |-> period.start], at.minute)

\* The trace explains every verdict: it shows the rule, and a group or schedule
\* that blocks the rule's category, whoever asks and whenever (trace.go:18-43).
TraceExplains ==
  \A d \in Domain :
    LET trace == HandleTrace(tree, config, d)
        rules == RulesFor(tree, d)
        Explained(reason) ==
          /\ \E i \in DOMAIN trace.lists : trace.lists[i].category = reason
          /\ \/ \E g \in trace.groups : reason \in config.groups[g].block
             \/ \E s \in trace.schedules : reason \in config.schedules[s].block
    IN \A reason \in {Verdict(rules, config, client, at) : client \in Client, at \in At} \ {Nil} :
         Explained(reason)

\* The i-th list is one that matters, and there is a recent copy of it.
Wanted(i) ==
  LET copy == fs[config.lists[i].name]
  IN  /\ config.lists[i].category \in BlockedCategories(config)
      /\ copy \notin {Nil, Torn} /\ ~Outdated(copy)

\* Every name of that copy has a rule, with the action and category of the copy.
Loaded(i) ==
  LET name == config.lists[i].name  copy == fs[name]
      rule == [list |-> name, action |-> copy.action, category |-> copy.category]
  IN  \A d \in copy.domains : \E j \in DOMAIN Listed(d) : Listed(d)[j] = rule

\* A run holds that very copy and is about to load it.
AboutToLoad(i) ==
  LET name == config.lists[i].name
  IN  \E q \in Run : pc[q] = "load" /\ Conf(q).name = name /\ list[q] = fs[name]

InMemory(i) ==
  Wanted(i) => Loaded(i) \/ AboutToLoad(i) \/ config.lists[i].name \in unused

RunEnds(r) ==
  /\ pc[r] # "idle" /\ pc'[r] = "idle" /\ runs' = runs
  /\ pos[r] = Len(config.lists) \/ pc[r] # "fetch"

\* When a run comes to its end, every list of which there is a recent copy is in
\* memory as that copy has it, or another run is about to load it, or a stat,
\* read or write of its very file failed since that copy was last loaded:
\* whatever happened to the other lists and whatever other runs fetch meanwhile
\* (sync.go:109-154).
SyncLoadsCopies ==
  [][\A r \in Run : RunEnds(r) => \A i \in DOMAIN config.lists : InMemory(i)']_vars

\* As long as the process lives, nothing gets unblocked by a list that fails,
\* shrinks or is loaded again; only by an allowlist or a longer listed name.
NothingUnblocks ==
  [][(runs' # 0 /\ tree' # tree) =>
       \A d \in Domain, client \in Client, at \in At :
         (Reason(tree, d, client, at) # Nil /\ Reason(tree', d, client, at) = Nil)
           => \/ Allows(RulesFor(tree', d))
              \/ LongestPrefix(tree', reverseFQDN(d)) # LongestPrefix(tree, reverseFQDN(d))]_vars

-----------------------------------------------------------------------------
(* What the documentation says and the code does not do *)

\* docs/config.md:107: the lists can be overridden in the configuration.  Every
\* list is in memory with the action and the category the configuration says.
LoadedAsConfigured ==
  \A k \in Key : \A i \in DOMAIN tree[k] : \A j \in DOMAIN config.lists :
    config.lists[j].name = tree[k][i].list =>
      /\ tree[k][i].action = config.lists[j].action
      /\ tree[k][i].category = config.lists[j].category

\* resolver.go:133-136: a match must be a suffix of the name, lest com.server
\* match com.serverfault.  Only names on a list and their subdomains are blocked;
\* the code compares characters, so that aha.com blocks ahaha.com.
BlocksOnlySubdomains ==
  \A d \in Domain, client \in Client, at \in At :
    Reason(tree, d, client, at) # Nil => \E p \in Parents(d) : Listed(p) # <<>>
=============================================================================
