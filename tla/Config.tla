------------------------------- MODULE Config -------------------------------
(***************************************************************************)
(* internal/config/config.go: what Read makes of a configuration file,     *)
(* what it refuses, and what the groups and schedules of a configuration   *)
(* block.  A process reads its file once, when it starts.                  *)
(*                                                                         *)
(* A file is a record with the keys the model needs, Nil where the file    *)
(* does not have a key.  Durations are in hours.                           *)
(***************************************************************************)
EXTENDS Integers, FiniteSetsExt

CONSTANTS
  Zone,          \* the time zones LoadLocation knows
  MaxHours,      \* a time.Duration holds fewer hours than this
  DefaultLists,  \* getDefaultSources()
  Files,         \* configuration files the process may be started with
  Nil            \* a null pointer, an absent entry or key

\* Durations are written with whole numbers, and a schedule says when.
ASSUME ConfigAssumption ==
  /\ MaxHours \in Nat \ {0} /\ Nil \notin Int
  /\ \A file \in Files :
       /\ \A text \in {file.look_back, file.refresh_after, file.update_interval} \ {Nil} :
            text.n \in Int
       /\ file.schedules # Nil =>
            \A s \in DOMAIN file.schedules : "when" \in DOMAIN file.schedules[s]

-----------------------------------------------------------------------------
(* The values of the file: a Nil stands for an error *)

\* time.Duration(days) * 24 * time.Hour wraps around.
Wrap(hours) == ((hours + MaxHours) % (2 * MaxHours)) - MaxHours

\* [n |-> 2, unit |-> "d"] is the text "2d".  Any other unit is left to
\* time.ParseDuration, which reports what is too large.
DurationValue(text) ==
  CASE text.unit = "d" -> Wrap(24 * text.n)
    [] text.unit = "h" /\ text.n \in -MaxHours..MaxHours - 1 -> text.n
    [] OTHER -> Nil

DayWords ==
  [sun |-> {"sun", "sunday"}, mon |-> {"mon", "monday"}, tue |-> {"tue", "tuesday"},
   wed |-> {"wed", "wednesday"}, thu |-> {"thu", "thur", "thursday"},
   fri |-> {"fri", "friday"}, sat |-> {"sat", "saturday"}]

Weekday == DOMAIN DayWords

parseDay(word) ==
  IF \E day \in Weekday : word \in DayWords[day]
    THEN CHOOSE day \in Weekday : word \in DayWords[day]
    ELSE Nil

\* Minutes since midnight of a text of the form 15:04.
MinuteOf(clock) ==
  IF clock.h \in 0..23 /\ clock.m \in 0..59 THEN clock.h * 60 + clock.m ELSE Nil

SchedulePeriod(period) ==
  LET start == MinuteOf(period.start)
      end   == MinuteOf(period.end)
  IN IF Nil \in {start, end} \/ start = end THEN Nil ELSE [start |-> start, end |-> end]

ScheduleWhen(when) ==
  [days |-> {parseDay(word) : word \in when.days},
   periods |-> {SchedulePeriod(period) : period \in when.periods}]

ScheduleConfig(schedule) ==
  [schedule EXCEPT !.when = {ScheduleWhen(when) : when \in @}]

ScheduleIsValid(schedule) ==
  \A when \in ScheduleConfig(schedule).when :
    Nil \notin when.days /\ Nil \notin when.periods

-----------------------------------------------------------------------------
(* Read *)

OneDay == 24

Given(value, default) == IF value = Nil THEN default ELSE value

GivenDuration(text, default) == IF text = Nil THEN default ELSE DurationValue(text)

DefaultGroups == [all |-> [devices |-> {}, block |-> {"ads", "malware"}]]

\* The decoder replaces the default groups, or adds those of the file to them.
GroupsOf(file) ==
  IF file.groups = Nil THEN {DefaultGroups}
  ELSE {file.groups,
        [g \in DOMAIN file.groups \cup DOMAIN DefaultGroups |->
           IF g \in DOMAIN file.groups THEN file.groups[g] ELSE DefaultGroups[g]]}

IsAccepted(file) ==
  /\ file.timezone = Nil \/ file.timezone \in Zone
  /\ \A text \in {file.look_back, file.refresh_after, file.update_interval} \ {Nil} :
       DurationValue(text) # Nil
  /\ file.schedules # Nil =>
       \A s \in DOMAIN file.schedules : ScheduleIsValid(file.schedules[s])

\* Mutant: the interval is taken as it is.
NoMinimum(duration) == duration

EnforceMinimum(duration) == Max({duration, OneDay})

\* config.All as Read and precompute leave it, or nothing if Read fails and the
\* process ends.  updateDays is main's sourcesUpdateDays.
Read(file) ==
  IF ~IsAccepted(file) THEN {}
  ELSE {[groups       |-> groups,
         schedules    |-> IF file.schedules = Nil THEN <<>>
                          ELSE [s \in DOMAIN file.schedules |-> ScheduleConfig(file.schedules[s])],
         lists        |-> Given(file.lists, DefaultLists),
         updateDays   |-> EnforceMinimum(GivenDuration(file.update_interval, OneDay)) \div OneDay,
         lookBack     |-> EnforceMinimum(GivenDuration(file.look_back, 14 * OneDay)),
         clients      |-> Given(file.clients, <<>>),
         method       |-> Given(file.method, ""),
         refreshAfter |-> GivenDuration(file.refresh_after, 1),
         logClients   |-> Given(file.log_clients, TRUE)] : groups \in GroupsOf(file)}

\* The configurations a process may have.
Configs == UNION {Read(file) : file \in Files}

-----------------------------------------------------------------------------
(* Groups and schedules.  `at` is the local weekday and minute. *)

InGroup(group, client) == group.devices = {} \/ client \in group.devices

\* Mutant: minutes <= period.end
ClosedPeriod(period, minutes) ==
  IF period.start <= period.end THEN period.start <= minutes /\ minutes <= period.end
  ELSE minutes >= period.start \/ minutes <= period.end

\* A period from start to end spans midnight when it ends before it starts.
InPeriod(period, minutes) ==
  IF period.start <= period.end THEN period.start <= minutes /\ minutes < period.end
  ELSE minutes >= period.start \/ minutes < period.end

InForce(schedule, at) ==
  \E when \in schedule.when :
     at.day \in when.days /\ \E period \in when.periods : InPeriod(period, at.minute)

IsClientBlocked(config, client, category, at) ==
  LET groups == {g \in DOMAIN config.groups : InGroup(config.groups[g], client)}
  IN \/ \E g \in groups : category \in config.groups[g].block
     \/ \E s \in DOMAIN config.schedules :
          LET schedule == config.schedules[s]
          IN /\ category \in schedule.block
             /\ schedule.applyTo \cap groups # {}
             /\ InForce(schedule, at)

BlockedCategories(config) ==
  UNION ({config.groups[g].block : g \in DOMAIN config.groups}
           \cup {config.schedules[s].block : s \in DOMAIN config.schedules})

\* Mutant: the trace looks at the groups only.
GroupsThatBlock(config, category) ==
  [groups |-> {g \in DOMAIN config.groups : category \in config.groups[g].block},
   schedules |-> {}]

\* Config.Trace: where a category is blocked, for anyone and at any time.
TraceCategory(config, category) ==
  [groups    |-> {g \in DOMAIN config.groups : category \in config.groups[g].block},
   schedules |-> {s \in DOMAIN config.schedules : category \in config.schedules[s].block}]
=============================================================================
