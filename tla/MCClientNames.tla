--------------------------- MODULE MCClientNames ---------------------------
(* An instance of ClientNames small enough for TLC. *)
EXTENDS ClientNames, TLC

MCAt == [day : {"mon"}, minute : 0..1]

Plain ==
  [timezone |-> Nil, look_back |-> Nil, refresh_after |-> Nil, update_interval |-> Nil,
   lists |-> Nil, groups |-> Nil, schedules |-> Nil, clients |-> Nil, method |-> Nil,
   log_clients |-> Nil]

Clock(h, m) == [h |-> h, m |-> m]

Schedule(word, start, end) ==
  [night |-> [applyTo |-> {"screens"}, block |-> {"social"},
              when |-> {[days |-> {word}, periods |-> {[start |-> start, end |-> end]}]}]]

\* A television with a private address, and other clients asked for their names.
Home == [Plain EXCEPT !.clients = [lan |-> "tv"], !.method = "rdns",
                      !.groups = [all |-> [devices |-> {}, block |-> {"ads", "malware"}],
                                  screens |-> [devices |-> {"tv"}, block |-> {"social"}]]]

\* No names, and intervals that are too short, or too long to be what they say.
Odd == [Plain EXCEPT !.timezone = "Local", !.log_clients = FALSE,
                     !.look_back = [n |-> 1, unit |-> "h"],
                     !.update_interval = [n |-> 50, unit |-> "d"],
                     !.groups = [screens |-> [devices |-> {"tv"}, block |-> {"social"}]],
                     !.schedules = Schedule("thur", Clock(22, 0), Clock(6, 0))]

Rejected ==
  {[Plain EXCEPT !.timezone = "Nowhere"],
   [Plain EXCEPT !.refresh_after = [n |-> 1, unit |-> "w"]],
   [Plain EXCEPT !.update_interval = [n |-> 5000, unit |-> "h"]],
   [Plain EXCEPT !.schedules = Schedule("someday", Clock(22, 0), Clock(6, 0))],
   [Plain EXCEPT !.schedules = Schedule("mon", Clock(22, 0), Clock(22, 0))],
   [Plain EXCEPT !.schedules = Schedule("mon", Clock(22, 0), Clock(24, 0))]}

MCFiles == {Home, Odd} \cup Rejected

Symmetry == Permutations(Handler)
=============================================================================
