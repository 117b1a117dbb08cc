-------------------------- MODULE ClientNamesProofs --------------------------
(* Theorems about ClientNames, for every value of its constants: any number of *)
(* handlers and clients, and whatever the configuration file says.             *)
EXTENDS ClientNames, TLAPS

-----------------------------------------------------------------------------
(* The inductive invariant *)

\* Nothing is remembered of a time that has not come, nothing at all while there
\* is no process, and what a handler is about to remember is a name.
RememberedOK ==
  /\ DOMAIN ip = Handler /\ DOMAIN item = Handler
  /\ \A h \in Handler : item[h] \in Item \cup {Nil} /\ (item[h] # Nil => item[h].heard <= now)
  /\ \A h \in Handler : pc[h] = "set" => hostname[h] \in Hostname
  /\ \A i \in Ip : clientMap[i] # Nil => clientMap[i].heard <= now
  /\ proc # "up" => known = {} /\ \A i \in Ip : clientMap[i] = Nil

\* A device with a name of its own in the configuration goes by that name wherever
\* a name is kept, and no reverse lookup is made for it.
GoesBy(name, i) == i \in DOMAIN config.clients => name = config.clients[i]

StaticOK ==
  proc = "up" =>
    /\ \A i \in Ip : clientMap[i] # Nil => GoesBy(clientMap[i].value, i)
    /\ \A h \in Handler :
         /\ item[h] # Nil => GoesBy(item[h].value, ip[h])
         /\ pc[h] = "exchange" => ip[h] \notin DOMAIN config.clients
         /\ pc[h] = "set" => GoesBy(hostname[h], ip[h])
         /\ pc[h] = "named" /\ config.logClients => GoesBy(hostname[h], ip[h])

\* What is remembered expires in time.
Lasts(it) == it.expiration <= it.heard + config.refreshAfter + 1

LastingOK ==
  proc = "up" =>
    /\ \A i \in Ip : clientMap[i] # Nil => Lasts(clientMap[i])
    /\ \A h \in Handler :
         /\ item[h] # Nil => Lasts(item[h])
         /\ pc[h] = "set" => now - heard[h] <= IF slow[h] THEN 1 ELSE 0

NamesInv == TypeOK /\ RememberedOK

-----------------------------------------------------------------------------
(* What Read accepts *)

\* The greater of two numbers.
LEMMA MaxOfTwo ==
  ASSUME NEW a \in Int, NEW b \in Int
  PROVE  /\ Max({a, b}) \in Int /\ Max({a, b}) >= a /\ Max({a, b}) >= b
         /\ Max({a, b}) \in {a, b}
<1>1. \E x \in {a, b} : \A y \in {a, b} : x >= y
  BY DEF Max
<1>2. Max({a, b}) \in {a, b} /\ \A y \in {a, b} : Max({a, b}) >= y
  BY <1>1 DEF Max
<1> QED BY <1>2

\* A duration of an accepted file is a number.
LEMMA DurationsAreNumbers ==
  ASSUME NEW file \in Files, IsAccepted(file),
         NEW text \in {file.look_back, file.refresh_after, file.update_interval},
         NEW default \in Int
  PROVE  GivenDuration(text, default) \in Int
<1>1. CASE text = Nil
  BY <1>1 DEF GivenDuration
<1>2. CASE text # Nil
  <2>1. DurationValue(text) # Nil /\ text.n \in Int
    BY <1>2, ConfigAssumption DEF IsAccepted
  <2>2. Wrap(24 * text.n) \in Int
    BY <2>1, ConfigAssumption DEF Wrap
  <2>3. DurationValue(text) \in Int
    BY <2>1, <2>2 DEF DurationValue
  <2> QED BY <1>2, <2>3 DEF GivenDuration
<1> QED BY <1>1, <1>2

\* At least a day is at least one whole day.
LEMMA MinimumIsADay ==
  ASSUME NEW duration \in Int
  PROVE  EnforceMinimum(duration) >= OneDay /\ EnforceMinimum(duration) \div OneDay >= 1
<1>1. Max({duration, 24}) \in Int /\ Max({duration, 24}) >= 24
  BY MaxOfTwo
<1>2. \A n \in Int : n >= 24 => n \div 24 >= 1
  OBVIOUS
<1> QED BY <1>1, <1>2 DEF EnforceMinimum, OneDay

\* A period that is accepted is in force at its start and over at its end.
LEMMA PeriodsAreReal ==
  ASSUME NEW period, SchedulePeriod(period) # Nil
  PROVE  LET p == SchedulePeriod(period) IN InPeriod(p, p.start) /\ ~InPeriod(p, p.end)
<1> DEFINE start == MinuteOf(period.start)
           end == MinuteOf(period.end)
<1>1. SchedulePeriod(period) = [start |-> start, end |-> end] /\ start # end
      /\ start # Nil /\ end # Nil
  BY DEF SchedulePeriod
<1>2. ASSUME NEW clock, MinuteOf(clock) # Nil PROVE MinuteOf(clock) \in Int
  <2>1. clock.h \in 0..23 /\ clock.m \in 0..59 /\ MinuteOf(clock) = clock.h * 60 + clock.m
    BY <1>2 DEF MinuteOf
  <2> QED BY <2>1
<1>3. start \in Int /\ end \in Int
  BY <1>1, <1>2
<1> HIDE DEF start, end
<1> QED BY <1>1, <1>3 DEF InPeriod

\* What Read makes of an accepted file.
LEMMA ReadFacts ==
  ASSUME NEW c \in Configs
  PROVE  /\ c.refreshAfter \in Int /\ c.updateDays >= 1 /\ c.lookBack >= OneDay
         /\ \A s \in DOMAIN c.schedules : \A when \in c.schedules[s].when :
              /\ when.days \subseteq Weekday
              /\ \A period \in when.periods :
                   InPeriod(period, period.start) /\ ~InPeriod(period, period.end)
<1>1. PICK file \in Files : c \in Read(file)
  BY DEF Configs
<1>2. IsAccepted(file)
  BY <1>1 DEF Read
<1> DEFINE ReadWith(groups) ==
        [groups       |-> groups,
         schedules    |-> IF file.schedules = Nil THEN <<>>
                          ELSE [s \in DOMAIN file.schedules |-> ScheduleConfig(file.schedules[s])],
         lists        |-> Given(file.lists, DefaultLists),
         updateDays   |-> EnforceMinimum(GivenDuration(file.update_interval, OneDay)) \div OneDay,
         lookBack     |-> EnforceMinimum(GivenDuration(file.look_back, 14 * OneDay)),
         clients      |-> Given(file.clients, <<>>),
         method       |-> Given(file.method, ""),
         refreshAfter |-> GivenDuration(file.refresh_after, 1),
         logClients   |-> Given(file.log_clients, TRUE)]
<1>3. /\ c.refreshAfter = GivenDuration(file.refresh_after, 1)
      /\ c.updateDays = EnforceMinimum(GivenDuration(file.update_interval, OneDay)) \div OneDay
      /\ c.lookBack = EnforceMinimum(GivenDuration(file.look_back, 14 * OneDay))
      /\ c.schedules = IF file.schedules = Nil THEN <<>>
                       ELSE [s \in DOMAIN file.schedules |-> ScheduleConfig(file.schedules[s])]
  <2>1. PICK groups \in GroupsOf(file) : c = ReadWith(groups)
    BY <1>1, <1>2 DEF Read
  <2>2. ReadWith(groups).refreshAfter = GivenDuration(file.refresh_after, 1)
    OBVIOUS
  <2> QED BY <2>1, <2>2
<1>4. c.refreshAfter \in Int
  <2>1. GivenDuration(file.refresh_after, 1) \in Int
    BY <1>2, DurationsAreNumbers
  <2> QED BY <1>3, <2>1
<1>5. c.updateDays >= 1 /\ c.lookBack >= OneDay
  <2>1. GivenDuration(file.update_interval, OneDay) \in Int
    BY <1>2, DurationsAreNumbers DEF OneDay
  <2>2. GivenDuration(file.look_back, 14 * OneDay) \in Int
    BY <1>2, DurationsAreNumbers DEF OneDay
  <2> QED BY <1>3, <2>1, <2>2, MinimumIsADay
<1>6. ASSUME NEW s \in DOMAIN c.schedules, NEW when \in c.schedules[s].when
      PROVE  /\ when.days \subseteq Weekday
             /\ \A period \in when.periods :
                  InPeriod(period, period.start) /\ ~InPeriod(period, period.end)
  <2>1. file.schedules # Nil
    BY <1>3, <1>6
  <2>2. s \in DOMAIN file.schedules /\ c.schedules[s] = ScheduleConfig(file.schedules[s])
    BY <1>3, <1>6, <2>1
  <2>3. "when" \in DOMAIN file.schedules[s] /\ ScheduleIsValid(file.schedules[s])
    BY <1>2, <2>1, <2>2, ConfigAssumption DEF IsAccepted
  <2>4. PICK w \in file.schedules[s].when : when = ScheduleWhen(w)
    BY <1>6, <2>2, <2>3 DEF ScheduleConfig
  <2>5. Nil \notin when.days /\ Nil \notin when.periods
    BY <1>6, <2>2, <2>3 DEF ScheduleIsValid
  <2>6. when.days \subseteq Weekday
    <3>1. \A word : parseDay(word) # Nil => parseDay(word) \in Weekday
      BY DEF parseDay
    <3> QED BY <2>4, <2>5, <3>1 DEF ScheduleWhen
  <2>7. ASSUME NEW period \in when.periods
        PROVE  InPeriod(period, period.start) /\ ~InPeriod(period, period.end)
    <3>1. PICK q \in w.periods : period = SchedulePeriod(q)
      BY <2>4 DEF ScheduleWhen
    <3>2. SchedulePeriod(q) # Nil
      BY <2>5, <3>1
    <3> QED BY <3>1, <3>2, PeriodsAreReal
  <2> QED BY <2>6, <2>7
<1> QED BY <1>4, <1>5, <1>6

\* The names found without asking anyone are names, and the one of the
\* configuration is the only one if there is one.
LEMMA LookupFinds ==
  ASSUME config \in Configs, NEW i \in Ip
  PROVE  /\ lookupHostname(i) \subseteq Hostname
         /\ i \in DOMAIN config.clients => lookupHostname(i) = {config.clients[i]}
<1>1. i \in DOMAIN config.clients => config.clients[i] \in Hostname
  BY DEF Hostname
<1> QED BY <1>1 DEF lookupHostname, Hostname

-----------------------------------------------------------------------------
(* Types *)

\* What is remembered belongs to the past.
LEMMA RememberedStep == NamesInv /\ [Next]_vars => RememberedOK'
<1> SUFFICES ASSUME NamesInv, [Next]_vars PROVE RememberedOK'
  OBVIOUS
<1> USE ClientNamesAssumption, NilAssumption DEF NamesInv, query, vars
<1>1. ASSUME Tick PROVE RememberedOK'
  <2>1. now \in 0..MaxTime /\ now < MaxTime /\ now' = now + 1
    BY <1>1 DEF Tick, TypeOK
  <2>2. UNCHANGED <<proc, config, clientMap, query, known>>
    BY <1>1 DEF Tick
  <2>3. \A it \in Item : it.heard <= now => it.heard <= now'
    BY <2>1 DEF Item
  <2>4. \A i \in Ip : clientMap[i] # Nil => clientMap[i] \in Item
    BY DEF TypeOK
  <2> QED BY <2>2, <2>3, <2>4 DEF RememberedOK
<1>2. ASSUME Start PROVE RememberedOK'
  BY <1>2 DEF Start, RememberedOK, TypeOK
<1>3. ASSUME NEW how \in {"down", "panicked"}, Exit(how) PROVE RememberedOK'
  BY <1>3 DEF Exit, RememberedOK, TypeOK
<1>4. ASSUME NEW h \in Handler, NEW i \in Ip, HandleRequest(h, i) PROVE RememberedOK'
  BY <1>4 DEF HandleRequest, Goto, Named, RememberedOK, TypeOK
<1>5. ASSUME NEW h \in Handler, GetItem(h) PROVE RememberedOK'
  BY <1>5 DEF GetItem, Goto, RememberedOK, TypeOK
<1>6. ASSUME NEW h \in Handler, CheckItem(h) PROVE RememberedOK'
  BY <1>6 DEF CheckItem, Goto, Named, IsExpired, RememberedOK, TypeOK
<1>7. ASSUME NEW h \in Handler, DeleteItem(h) PROVE RememberedOK'
  BY <1>7 DEF DeleteItem, Goto, RememberedOK, TypeOK
<1>8. ASSUME NEW h \in Handler, Lookup(h) PROVE RememberedOK'
  <2>1. \A name \in lookupHostname(ip[h]) : name \in Hostname
    BY <1>8, LookupFinds DEF Lookup, TypeOK
  <2>2. \A q \in Handler : pc'[q] = "set" => hostname'[q] \in Hostname
    BY <1>8, <2>1 DEF Lookup, Goto, TypeOK, RememberedOK
  <2> QED BY <1>8, <2>2 DEF Lookup, RememberedOK
<1>9. ASSUME NEW h \in Handler, reverseDNSLookup(h) PROVE RememberedOK'
  <2>1. ip[h] \in Ip /\ Ptr \cup {ip[h]} \subseteq Hostname
    BY <1>9 DEF reverseDNSLookup, TypeOK, Hostname
  <2>2. \A q \in Handler : pc'[q] = "set" => hostname'[q] \in Hostname
    BY <1>9, <2>1 DEF reverseDNSLookup, Goto, TypeOK, RememberedOK
  <2> QED BY <1>9, <2>2 DEF reverseDNSLookup, RememberedOK
<1>10. ASSUME NEW h \in Handler, SetItem(h) PROVE RememberedOK'
  BY <1>10 DEF SetItem, Goto, Named, RememberedOK, TypeOK
<1>11. ASSUME UNCHANGED vars PROVE RememberedOK'
  BY <1>11 DEF RememberedOK, TypeOK
<1> QED
  BY <1>1, <1>2, <1>3, <1>4, <1>5, <1>6, <1>7, <1>8, <1>9, <1>10, <1>11 DEF
         Next, Handle, Stop, LookupPanics

\* Types.
LEMMA TypeStep == NamesInv /\ [Next]_vars => TypeOK'
<1> SUFFICES ASSUME NamesInv, [Next]_vars PROVE TypeOK'
  OBVIOUS
<1> USE ClientNamesAssumption, NilAssumption DEF NamesInv, query, vars
<1>1. ASSUME Tick PROVE TypeOK'
  BY <1>1 DEF Tick, Busy, TypeOK, RememberedOK
<1>2. ASSUME Start PROVE TypeOK'
  <2>1. config' \in Configs
    BY <1>2 DEF Start, Configs
  <2>2. \A h \in Handler : pc[h] = "idle" /\ item[h] = Nil
    BY <1>2 DEF Start, TypeOK
  <2> QED BY <1>2, <2>1, <2>2 DEF Start, TypeOK
<1>3. ASSUME NEW how \in {"down", "panicked"}, Exit(how) PROVE TypeOK'
  BY <1>3 DEF Exit, TypeOK, RememberedOK
<1>4. ASSUME NEW h \in Handler, NEW i \in Ip, HandleRequest(h, i) PROVE TypeOK'
  BY <1>4 DEF HandleRequest, Goto, Named, TypeOK, RememberedOK
<1>5. ASSUME NEW h \in Handler, GetItem(h) PROVE TypeOK'
  BY <1>5 DEF GetItem, Goto, TypeOK, RememberedOK
<1>6. ASSUME NEW h \in Handler, CheckItem(h) PROVE TypeOK'
  <2>1. item[h] \in Item /\ item[h].heard <= now /\ pc[h] = "check"
    BY <1>6 DEF CheckItem, TypeOK, RememberedOK
  <2>2. item[h].value \in Hostname /\ item[h].heard \in 0..now
    BY <2>1 DEF Item, TypeOK
  <2>3. CASE IsExpired(item[h])
    BY <1>6, <2>1, <2>3 DEF CheckItem, Goto, TypeOK
  <2>4. CASE ~IsExpired(item[h])
    <3>1. hostname' = [hostname EXCEPT ![h] = item[h].value] /\ heard' = [heard EXCEPT ![h] = item[h].heard]
      BY <1>6, <2>4 DEF CheckItem, Named
    <3>2. item' = [item EXCEPT ![h] = Nil] /\ pc' = [pc EXCEPT ![h] = "named"]
      BY <1>6, <2>4 DEF CheckItem, Named, Goto
    <3>3. hostname' \in [Handler -> Hostname \cup {NoName}] /\ heard' \in [Handler -> 0..now]
      BY <2>2, <3>1 DEF TypeOK
    <3> QED BY <1>6, <2>1, <3>2, <3>3 DEF CheckItem, TypeOK, RememberedOK
  <2> QED BY <2>3, <2>4
<1>7. ASSUME NEW h \in Handler, DeleteItem(h) PROVE TypeOK'
  BY <1>7 DEF DeleteItem, Goto, TypeOK, RememberedOK
<1>8. ASSUME NEW h \in Handler, Lookup(h) PROVE TypeOK'
  <2>1. proc = "up" /\ ip[h] \in Ip /\ now \in 0..now
    BY <1>8 DEF Lookup, TypeOK
  <2>2. lookupHostname(ip[h]) \subseteq Hostname
    BY <2>1, LookupFinds DEF TypeOK
  <2>3. hostname' \in [Handler -> Hostname \cup {NoName}] /\ heard' \in [Handler -> 0..now]
    BY <1>8, <2>1, <2>2 DEF Lookup, TypeOK
  <2>5. pc' = [pc EXCEPT ![h] = "exchange"] \/ pc' = [pc EXCEPT ![h] = "set"]
    BY <1>8 DEF Lookup, Goto
  <2> QED BY <1>8, <2>1, <2>3, <2>5 DEF Lookup, TypeOK
<1>9. ASSUME NEW h \in Handler, reverseDNSLookup(h) PROVE TypeOK'
  <2>1. ip[h] \in Ip /\ now \in 0..now /\ Ptr \cup {ip[h]} \subseteq Hostname
    BY <1>9 DEF reverseDNSLookup, TypeOK, Hostname
  <2>2. hostname' \in [Handler -> Hostname \cup {NoName}] /\ heard' \in [Handler -> 0..now]
    BY <1>9, <2>1 DEF reverseDNSLookup, TypeOK
  <2>3. pc' = [pc EXCEPT ![h] = "set"] /\ pc[h] = "exchange"
    BY <1>9 DEF reverseDNSLookup, Goto
  <2> QED BY <1>9, <2>2, <2>3 DEF reverseDNSLookup, TypeOK
<1>10. ASSUME NEW h \in Handler, SetItem(h) PROVE TypeOK'
  <2>1. ip[h] \in Ip /\ proc = "up" /\ pc[h] = "set"
    BY <1>10 DEF SetItem, TypeOK
  <2>2. config.refreshAfter \in Int
    BY <2>1, ReadFacts DEF TypeOK
  <2>3. [value |-> hostname[h], expiration |-> now + config.refreshAfter, heard |-> heard[h]] \in Item
    BY <2>1, <2>2 DEF Item, TypeOK, RememberedOK
  <2>4. hostname[h] \in Hostname /\ heard[h] \in 0..now
    BY <2>1 DEF TypeOK, RememberedOK
  <2>5. hostname' \in [Handler -> Hostname \cup {NoName}] /\ heard' \in [Handler -> 0..now]
    BY <1>10, <2>4 DEF SetItem, Named, TypeOK
  <2>6. clientMap' \in [Ip -> Item \cup {Nil}] /\ known' \subseteq Ip
    BY <1>10, <2>1, <2>3 DEF SetItem, TypeOK
  <2>7. item' = [item EXCEPT ![h] = Nil] /\ pc' = [pc EXCEPT ![h] = "named"]
    BY <1>10 DEF SetItem, Named, Goto
  <2> QED BY <1>10, <2>1, <2>5, <2>6, <2>7 DEF SetItem, TypeOK, RememberedOK
<1>11. ASSUME UNCHANGED vars PROVE TypeOK'
  BY <1>11 DEF TypeOK, RememberedOK
<1> QED
  BY <1>1, <1>2, <1>3, <1>4, <1>5, <1>6, <1>7, <1>8, <1>9, <1>10, <1>11 DEF
         Next, Handle, Stop, LookupPanics

\* A device goes by its own name.
LEMMA StaticStep == NamesInv /\ StaticOK /\ [Next]_vars => StaticOK'
<1> SUFFICES ASSUME NamesInv, StaticOK, [Next]_vars PROVE StaticOK'
  OBVIOUS
<1> USE ClientNamesAssumption, NilAssumption DEF NamesInv, query, vars
<1>1. ASSUME Tick PROVE StaticOK'
  BY <1>1 DEF Tick, Busy, StaticOK, GoesBy, TypeOK, RememberedOK
<1>2. ASSUME Start PROVE StaticOK'
  BY <1>2 DEF Start, StaticOK, GoesBy, TypeOK, RememberedOK
<1>3. ASSUME NEW how \in {"down", "panicked"}, Exit(how) PROVE StaticOK'
  BY <1>3 DEF Exit, StaticOK, GoesBy, TypeOK, RememberedOK
<1>4. ASSUME NEW h \in Handler, NEW i \in Ip, HandleRequest(h, i) PROVE StaticOK'
  BY <1>4 DEF HandleRequest, Goto, Named, StaticOK, GoesBy, TypeOK, RememberedOK
<1>5. ASSUME NEW h \in Handler, GetItem(h) PROVE StaticOK'
  BY <1>5 DEF GetItem, Goto, StaticOK, GoesBy, TypeOK, RememberedOK
<1>6. ASSUME NEW h \in Handler, CheckItem(h) PROVE StaticOK'
  BY <1>6 DEF CheckItem, Goto, Named, IsExpired, StaticOK, GoesBy, TypeOK,
         RememberedOK
<1>7. ASSUME NEW h \in Handler, DeleteItem(h) PROVE StaticOK'
  BY <1>7 DEF DeleteItem, Goto, StaticOK, GoesBy, TypeOK, RememberedOK
<1>8. ASSUME NEW h \in Handler, Lookup(h) PROVE StaticOK'
  <2>1. ip[h] \in Ip /\ proc = "up" /\ config' = config /\ ip' = ip /\ item' = item
    BY <1>8 DEF Lookup, TypeOK
  <2>2. lookupHostname(ip[h]) = {} => ip[h] \notin DOMAIN config.clients
    BY <2>1, LookupFinds DEF TypeOK
  <2>3. \A name \in lookupHostname(ip[h]) : GoesBy(name, ip[h])
    BY <2>1, LookupFinds DEF TypeOK, GoesBy
  <2>4. CASE lookupHostname(ip[h]) = {}
    BY <1>8, <2>1, <2>2, <2>4 DEF Lookup, Goto, StaticOK, GoesBy, TypeOK
  <2>5. CASE lookupHostname(ip[h]) # {}
    <3>1. PICK name \in lookupHostname(ip[h]) : hostname' = [hostname EXCEPT ![h] = name]
      BY <1>8, <2>5 DEF Lookup
    <3>2. pc' = [pc EXCEPT ![h] = "set"]
      BY <1>8, <2>5 DEF Lookup, Goto
    <3>3. hostname'[h] = name /\ GoesBy(name, ip[h])
      BY <2>3, <3>1 DEF TypeOK
    <3> QED BY <1>8, <2>1, <3>1, <3>2, <3>3 DEF Lookup, StaticOK, GoesBy, TypeOK
  <2> QED BY <2>4, <2>5
<1>9. ASSUME NEW h \in Handler, reverseDNSLookup(h) PROVE StaticOK'
  BY <1>9 DEF reverseDNSLookup, Goto, StaticOK, GoesBy, TypeOK, RememberedOK
<1>10. ASSUME NEW h \in Handler, SetItem(h) PROVE StaticOK'
  BY <1>10 DEF SetItem, Goto, Named, StaticOK, GoesBy, TypeOK, RememberedOK
<1>11. ASSUME UNCHANGED vars PROVE StaticOK'
  BY <1>11 DEF StaticOK, GoesBy, TypeOK, RememberedOK
<1> QED
  BY <1>1, <1>2, <1>3, <1>4, <1>5, <1>6, <1>7, <1>8, <1>9, <1>10, <1>11 DEF
         Next, Handle, Stop, LookupPanics

\* Nothing lasts too long.
LEMMA LastingStep == NamesInv /\ LastingOK /\ [Next]_vars => LastingOK'
<1> SUFFICES ASSUME NamesInv, LastingOK, [Next]_vars PROVE LastingOK'
  OBVIOUS
<1> USE ClientNamesAssumption, NilAssumption DEF NamesInv, query, vars
<1>1. ASSUME Tick PROVE LastingOK'
  <2>1. now \in 0..MaxTime /\ now' = now + 1 /\ heard \in [Handler -> 0..now]
    BY <1>1 DEF Tick, TypeOK
  <2>2. UNCHANGED <<proc, config, clientMap, query, known>>
    BY <1>1 DEF Tick
  <2>3. ASSUME NEW h \in Handler, pc[h] = "set", proc = "up"
        PROVE  now' - heard[h] <= IF slow'[h] THEN 1 ELSE 0
    <3>1. Busy(h) /\ ~slow[h] /\ slow'[h] = TRUE
      BY <1>1, <2>3 DEF Tick, Busy
    <3>2. now - heard[h] <= 0
      BY <2>3, <3>1 DEF LastingOK
    <3>3. heard[h] \in Int /\ now \in Int
      BY <2>1
    <3> QED BY <2>1, <3>1, <3>2, <3>3
  <2> QED BY <2>2, <2>3 DEF LastingOK, Lasts
<1>2. ASSUME Start PROVE LastingOK'
  BY <1>2 DEF Start, LastingOK, Lasts, TypeOK, RememberedOK
<1>3. ASSUME NEW how \in {"down", "panicked"}, Exit(how) PROVE LastingOK'
  BY <1>3 DEF Exit, LastingOK, Lasts, TypeOK, RememberedOK
<1>4. ASSUME NEW h \in Handler, NEW i \in Ip, HandleRequest(h, i) PROVE LastingOK'
  BY <1>4 DEF HandleRequest, Goto, Named, LastingOK, Lasts, TypeOK, RememberedOK
<1>5. ASSUME NEW h \in Handler, GetItem(h) PROVE LastingOK'
  BY <1>5 DEF GetItem, Goto, LastingOK, Lasts, TypeOK, RememberedOK
<1>6. ASSUME NEW h \in Handler, CheckItem(h) PROVE LastingOK'
  BY <1>6 DEF CheckItem, Goto, Named, IsExpired, LastingOK, Lasts, TypeOK,
         RememberedOK
<1>7. ASSUME NEW h \in Handler, DeleteItem(h) PROVE LastingOK'
  BY <1>7 DEF DeleteItem, Goto, LastingOK, Lasts, TypeOK, RememberedOK
<1>8. ASSUME NEW h \in Handler, Lookup(h) PROVE LastingOK'
  BY <1>8 DEF Lookup, Goto, LastingOK, Lasts, TypeOK, RememberedOK
<1>9. ASSUME NEW h \in Handler, reverseDNSLookup(h) PROVE LastingOK'
  BY <1>9 DEF reverseDNSLookup, Goto, LastingOK, Lasts, TypeOK, RememberedOK
<1>10. ASSUME NEW h \in Handler, SetItem(h) PROVE LastingOK'
  <2> DEFINE it == [value |-> hostname[h], expiration |-> now + config.refreshAfter,
                    heard |-> heard[h]]
  <2>1. proc = "up" /\ ip[h] \in Ip /\ pc[h] = "set" /\ config.refreshAfter \in Int
    BY <1>10, ReadFacts DEF SetItem, TypeOK
  <2>2. now \in Int /\ heard[h] \in Int /\ now - heard[h] <= 1
    <3>1. now - heard[h] <= IF slow[h] THEN 1 ELSE 0
      BY <2>1 DEF LastingOK
    <3>2. now \in Int /\ heard[h] \in Int
      BY DEF TypeOK
    <3> QED BY <3>1, <3>2
  <2>3. it.expiration <= it.heard + config.refreshAfter + 1
    BY <2>1, <2>2
  <2>4. clientMap' = [clientMap EXCEPT ![ip[h]] = it] /\ item' = [item EXCEPT ![h] = Nil]
    BY <1>10 DEF SetItem, Named
  <2>5. pc' = [pc EXCEPT ![h] = "named"] /\ heard' = [heard EXCEPT ![h] = heard[h]]
    BY <1>10 DEF SetItem, Named, Goto
  <2>6. UNCHANGED <<now, proc, config, slow>>
    BY <1>10 DEF SetItem
  <2> HIDE DEF it
  <2>7. \A i \in Ip : clientMap'[i] # Nil => Lasts(clientMap'[i])
    BY <2>1, <2>3, <2>4 DEF LastingOK, Lasts, TypeOK
  <2>8. \A q \in Handler : /\ item'[q] # Nil => Lasts(item'[q])
                           /\ pc'[q] = "set" => now - heard'[q] <= IF slow[q] THEN 1 ELSE 0
    BY <2>1, <2>4, <2>5 DEF LastingOK, TypeOK, RememberedOK
  <2> QED BY <2>6, <2>7, <2>8 DEF LastingOK, Lasts
<1>11. ASSUME UNCHANGED vars PROVE LastingOK'
  BY <1>11 DEF LastingOK, Lasts, TypeOK, RememberedOK
<1> QED
  BY <1>1, <1>2, <1>3, <1>4, <1>5, <1>6, <1>7, <1>8, <1>9, <1>10, <1>11 DEF
         Next, Handle, Stop, LookupPanics

\* Whoever drops a name finds it out again.
LEMMA DroppedStep == NamesInv /\ DroppedIsSought /\ [Next]_vars => DroppedIsSought'
<1> SUFFICES ASSUME NamesInv, DroppedIsSought, [Next]_vars PROVE DroppedIsSought'
  OBVIOUS
<1> USE ClientNamesAssumption, NilAssumption DEF NamesInv, query, vars
<1>1. ASSUME Tick PROVE DroppedIsSought'
  BY <1>1 DEF Tick, Busy, DroppedIsSought, TypeOK, RememberedOK
<1>2. ASSUME Start PROVE DroppedIsSought'
  BY <1>2 DEF Start, DroppedIsSought, TypeOK, RememberedOK
<1>3. ASSUME NEW how \in {"down", "panicked"}, Exit(how) PROVE DroppedIsSought'
  BY <1>3 DEF Exit, DroppedIsSought, TypeOK, RememberedOK
<1>4. ASSUME NEW h \in Handler, NEW i \in Ip, HandleRequest(h, i) PROVE DroppedIsSought'
  BY <1>4 DEF HandleRequest, Goto, Named, DroppedIsSought, TypeOK, RememberedOK
<1>5. ASSUME NEW h \in Handler, GetItem(h) PROVE DroppedIsSought'
  BY <1>5 DEF GetItem, Goto, DroppedIsSought, TypeOK, RememberedOK
<1>6. ASSUME NEW h \in Handler, CheckItem(h) PROVE DroppedIsSought'
  BY <1>6 DEF CheckItem, Goto, Named, IsExpired, DroppedIsSought, TypeOK,
         RememberedOK
<1>7. ASSUME NEW h \in Handler, DeleteItem(h) PROVE DroppedIsSought'
  BY <1>7 DEF DeleteItem, Goto, DroppedIsSought, TypeOK, RememberedOK
<1>8. ASSUME NEW h \in Handler, Lookup(h) PROVE DroppedIsSought'
  BY <1>8 DEF Lookup, Goto, DroppedIsSought, TypeOK, RememberedOK
<1>9. ASSUME NEW h \in Handler, reverseDNSLookup(h) PROVE DroppedIsSought'
  BY <1>9 DEF reverseDNSLookup, Goto, DroppedIsSought, TypeOK, RememberedOK
<1>10. ASSUME NEW h \in Handler, SetItem(h) PROVE DroppedIsSought'
  <2> DEFINE it == [value |-> hostname[h], expiration |-> now + config.refreshAfter,
                    heard |-> heard[h]]
  <2>1. proc = "up" /\ ip[h] \in Ip /\ pc[h] = "set" /\ config.refreshAfter \in Int
    BY <1>10, ReadFacts DEF SetItem, TypeOK
  <2>2. it \in Item
    BY <2>1 DEF Item, TypeOK, RememberedOK
  <2>3. clientMap' = [clientMap EXCEPT ![ip[h]] = it] /\ known' = known \cup {ip[h]}
    BY <1>10 DEF SetItem
  <2>4. ip' = ip /\ pc' = [pc EXCEPT ![h] = "named"]
    BY <1>10 DEF SetItem, Named, Goto
  <2>5. clientMap'[ip[h]] = it /\ it # Nil
    BY <2>1, <2>2, <2>3 DEF TypeOK
  <2> HIDE DEF it
  <2>6. ASSUME NEW i \in known', clientMap'[i] = Nil
        PROVE  \E q \in Handler : ip[q] = i /\ pc'[q] \in {"lookup", "exchange", "set"}
    <3>1. i # ip[h] /\ i \in known /\ clientMap[i] = Nil
      BY <2>3, <2>5, <2>6 DEF TypeOK
    <3>2. PICK q \in Handler : ip[q] = i /\ pc[q] \in {"lookup", "exchange", "set"}
      BY <3>1 DEF DroppedIsSought
    <3> QED BY <2>4, <3>1, <3>2 DEF TypeOK
  <2> QED BY <2>4, <2>6 DEF DroppedIsSought
<1>11. ASSUME UNCHANGED vars PROVE DroppedIsSought'
  BY <1>11 DEF DroppedIsSought, TypeOK, RememberedOK
<1> QED
  BY <1>1, <1>2, <1>3, <1>4, <1>5, <1>6, <1>7, <1>8, <1>9, <1>10, <1>11 DEF
         Next, Handle, Stop, LookupPanics

-----------------------------------------------------------------------------
(* Theorems *)

\* Initially nothing runs and nothing is remembered.
LEMMA NamesStart == Init => NamesInv /\ StaticOK /\ LastingOK /\ DroppedIsSought
<1> SUFFICES ASSUME Init PROVE NamesInv /\ StaticOK /\ LastingOK /\ DroppedIsSought
  OBVIOUS
<1>1. now = 0 /\ proc = "down" /\ config = Nil /\ known = {} /\ 0 \in 0..MaxTime
  BY ClientNamesAssumption DEF Init
<1>2. \A i \in Ip : clientMap[i] = Nil
  BY DEF Init
<1>3. \A h \in Handler : pc[h] = "idle" /\ item[h] = Nil
  BY DEF Init
<1>4. TypeOK
  BY <1>1, <1>2, <1>3 DEF Init, TypeOK
<1>5. RememberedOK
  BY <1>1, <1>2, <1>3 DEF Init, RememberedOK
<1> QED BY <1>1, <1>4, <1>5 DEF NamesInv, StaticOK, LastingOK, DroppedIsSought

\* The invariant of the names.
LEMMA NamesInvariance == Spec => []NamesInv
<1>1. Init => NamesInv
  BY NamesStart
<1>2. NamesInv /\ [Next]_vars => NamesInv'
  BY TypeStep, RememberedStep DEF NamesInv
<1> QED BY <1>1, <1>2, PTL DEF Spec

\* The variables keep their types: there is a configuration while there is a
\* process, and a handler holds an item only within its Get.
THEOREM NameTypesHold == Spec => []TypeOK
BY NamesInvariance, PTL DEF NamesInv

\* However the Gets and Sets of the handlers interleave, a name that was dropped
\* is being found out again by some handler.
THEOREM DroppedNamesComeBack == Spec => []DroppedIsSought
<1>1. Init => DroppedIsSought
  BY NamesStart
<1> QED BY <1>1, DroppedStep, NamesInvariance, PTL DEF Spec

\* A device with a name in the configuration is filtered as its groups say.
THEOREM StaticNamesAreUsed == Spec => []StaticDeviceIsFiltered
<1>1. Init => StaticOK
  BY NamesStart
<1>2. Spec => []StaticOK
  BY <1>1, StaticStep, NamesInvariance, PTL DEF Spec
<1>3. NamesInv /\ StaticOK => StaticDeviceIsFiltered
  <2> SUFFICES ASSUME NamesInv, StaticOK, NEW h \in Handler, pc[h] = "named",
                      config.logClients, ip[h] \in DOMAIN config.clients,
                      NEW g \in DOMAIN config.groups,
                      config.clients[ip[h]] \in config.groups[g].devices,
                      NEW category \in config.groups[g].block, NEW at \in At
               PROVE  IsClientBlocked(config, hostname[h], category, at)
    BY DEF StaticDeviceIsFiltered
  <2>1. proc = "up" /\ hostname[h] = config.clients[ip[h]]
    BY DEF NamesInv, TypeOK, StaticOK, GoesBy
  <2>2. InGroup(config.groups[g], hostname[h])
    BY <2>1 DEF InGroup
  <2> QED BY <2>2 DEF IsClientBlocked
<1> QED BY <1>2, <1>3, NamesInvariance, PTL

\* What Read accepts, the scheduler and the filter can work with.
THEOREM AcceptedFilesAreUsable == Spec => []AcceptedIsUsable
<1>1. NamesInv => AcceptedIsUsable
  <2> SUFFICES ASSUME NamesInv, proc = "up" PROVE config \in Configs
    BY ReadFacts DEF AcceptedIsUsable
  <2> QED BY DEF NamesInv, TypeOK
<1> QED BY <1>1, NamesInvariance, PTL

\* No query is given a name that was found out more than refresh_after before, but
\* for the time a query takes.
THEOREM NamesAreRecent == Spec => NameIsRecent
<1> DEFINE A == \A h \in Handler : (pc[h] # "named" /\ pc'[h] = "named") =>
                  now - heard'[h] <= Max({0, config.refreshAfter}) + 1
<1>1. Init => LastingOK
  BY NamesStart
<1>2. Spec => []LastingOK
  BY <1>1, LastingStep, NamesInvariance, PTL DEF Spec
<1>3. NamesInv /\ LastingOK /\ [Next]_vars => [A]_vars
  <2> SUFFICES ASSUME NamesInv, LastingOK, Next, NEW h \in Handler,
                      pc[h] # "named", pc'[h] = "named"
               PROVE  now - heard'[h] <= Max({0, config.refreshAfter}) + 1
    OBVIOUS
  <2>1. now \in 0..MaxTime /\ heard \in [Handler -> 0..now] /\ DOMAIN pc = Handler
    BY DEF NamesInv, TypeOK
  <2>2. ASSUME proc = "up", \/ now - heard'[h] <= 1 /\ heard'[h] \in Int
                            \/ now - heard'[h] <= config.refreshAfter + 1 /\ heard'[h] \in Int
        PROVE  now - heard'[h] <= Max({0, config.refreshAfter}) + 1
    <3>1. config.refreshAfter \in Int
      BY <2>2, ReadFacts DEF NamesInv, TypeOK
    <3>0. ASSUME NEW z \in Int, NEW n \in Int, z = 0
          PROVE  Max({z, n}) \in Int /\ Max({z, n}) >= z /\ Max({z, n}) >= n
      BY <3>0, MaxOfTwo
    <3>2. /\ Max({0, config.refreshAfter}) \in Int /\ Max({0, config.refreshAfter}) >= 0
          /\ Max({0, config.refreshAfter}) >= config.refreshAfter
      BY <3>1, <3>0
    <3> DEFINE m == Max({0, config.refreshAfter})
               r == config.refreshAfter
    <3> HIDE DEF m, r
    <3>3. m \in Int /\ m >= 0 /\ m >= r /\ r \in Int
      BY <3>1, <3>2 DEF m, r
    <3>4. \/ now - heard'[h] <= 1 /\ heard'[h] \in Int
          \/ now - heard'[h] <= r + 1 /\ heard'[h] \in Int
      BY <2>2 DEF r
    <3>5. now - heard'[h] <= m + 1
      BY <2>1, <3>3, <3>4
    <3> QED BY <3>5 DEF m
  <2>3. ASSUME NEW q \in Handler, NEW i \in Ip, HandleRequest(q, i)
        PROVE  proc = "up" /\ now - heard'[h] <= 1 /\ heard'[h] \in Int
    <3>1. pc' = [pc EXCEPT ![q] = "named"] /\ heard' = [heard EXCEPT ![q] = now] /\ q = h
      BY <2>1, <2>3 DEF HandleRequest, Named, Goto
    <3>2. heard'[h] = now /\ proc = "up"
      BY <2>1, <2>3, <3>1 DEF HandleRequest
    <3> QED BY <2>1, <3>2
  <2>4. ASSUME NEW q \in Handler, CheckItem(q)
        PROVE  /\ proc = "up" /\ now - heard'[h] <= config.refreshAfter + 1
               /\ heard'[h] \in Int
    <3>1. q = h /\ ~IsExpired(item[h]) /\ heard'[h] = item[h].heard /\ pc[h] = "check"
      BY <2>1, <2>4 DEF CheckItem, Named, Goto
    <3>2. proc = "up" /\ item[h] \in Item /\ Lasts(item[h])
      BY <3>1 DEF NamesInv, TypeOK, RememberedOK, LastingOK
    <3>3. now <= item[h].expiration /\ item[h].expiration \in Int /\ item[h].heard \in Int
      BY <2>1, <3>1, <3>2 DEF IsExpired, Item
    <3>4. config.refreshAfter \in Int
      BY <3>2, ReadFacts DEF NamesInv, TypeOK
    <3> QED BY <2>1, <3>1, <3>2, <3>3, <3>4 DEF Lasts
  <2>5. ASSUME NEW q \in Handler, SetItem(q)
        PROVE  proc = "up" /\ now - heard'[h] <= 1 /\ heard'[h] \in Int
    <3>1. q = h /\ heard'[h] = heard[h] /\ pc[h] = "set"
      BY <2>1, <2>5 DEF SetItem, Named, Goto
    <3>2. proc = "up"
      BY <3>1 DEF NamesInv, TypeOK
    <3>3. now - heard[h] <= IF slow[h] THEN 1 ELSE 0
      BY <3>1, <3>2 DEF LastingOK
    <3> QED BY <2>1, <3>1, <3>2, <3>3
  <2>6. ASSUME NEW q \in Handler,
               GetItem(q) \/ DeleteItem(q) \/ Lookup(q) \/ reverseDNSLookup(q)
        PROVE  FALSE
    BY <2>1, <2>6 DEF GetItem, DeleteItem, Lookup, reverseDNSLookup, Goto
  <2>7. ASSUME NEW how, Exit(how) PROVE FALSE
    BY <2>7 DEF Exit
  <2>8. ASSUME Tick \/ Start PROVE FALSE
    BY <2>8 DEF Tick, Start, query
  <2> QED BY <2>2, <2>3, <2>4, <2>5, <2>6, <2>7, <2>8
         DEF Next, Handle, Stop, LookupPanics
<1> QED BY <1>2, <1>3, NamesInvariance, PTL DEF Spec, NameIsRecent
=============================================================================
