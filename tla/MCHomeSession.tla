--------------------------- MODULE MCHomeSession ----------------------------
(***************************************************************************)
(* A small household, its two bathrooms, and the sessions it may have.     *)
(* The times are in units of which the longest cooldown is two.          *)
(***************************************************************************)
EXTENDS HomeSession

CONSTANTS malin, alice

Bank == <<"deepUpstairs", "deepDownstairs", "resetUpstairs", "mirror", "towels">>

ById == <<"deepDownstairs", "deepUpstairs", "mirror", "resetUpstairs", "towels">>

Standard == [room |-> "upstairs", category |-> "other", minutes |-> 1,
             modes |-> {"daily", "weekend"}, childFriendly |-> TRUE,
             supersedes |-> {}, includes |-> {}, group |-> NoGroup, cooldown |-> 1,
             recommendationOnly |-> FALSE, activeMonths |-> {1, 2},
             minimumSession |-> 0, minimumPeople |-> 0, maximumPeople |-> 0,
             firstUseDueImmediately |-> FALSE, deep |-> FALSE,
             score |-> [daily |-> 2, weekend |-> 2],
             boost |-> 100, bundle |-> NoBundle, recurrence |-> 0, urgency |-> 0, weekly |-> FALSE]

Deep == [Standard EXCEPT !.minutes = 3, !.childFriendly = FALSE, !.group = "bathroom",
                         !.modes = {"weekend"}, !.cooldown = 2,
                         !.minimumSession = 3, !.deep = TRUE]

Micro == [Standard EXCEPT !.bundle = "bath", !.cooldown = 1, !.recurrence = 1,
                          !.score = [daily |-> 1, weekend |-> 1]]

BankInfo ==
    [deepUpstairs |-> [Deep EXCEPT !.boost = 150, !.supersedes = {"resetUpstairs"}, !.includes = {"mirror"}],
     deepDownstairs |-> [Deep EXCEPT !.room = "downstairs"],
     resetUpstairs |-> [Standard EXCEPT !.childFriendly = FALSE],
     mirror |-> Micro,
     towels |-> [Micro EXCEPT !.room = "downstairs", !.activeMonths = {2},
                              !.weekly = TRUE]]

Durations == [area |-> 4, timed |-> 2]
Options == [area |-> {4}, timed |-> {2, 3}]
Areas == <<"house", "down">>
Zones == [house |-> {"upstairs", "downstairs"}, down |-> {"downstairs"}]
First == [mode |-> "timed", area |-> "down", people |-> <<malin>>, minutes |-> 2]
Protocols == [catPee |-> << <<"absorb">> >>]
NoPreference == [p \in Person |-> {}]

(* One deep task and a detail are released later than the rest. *)
Schedule == {[t \in Task |-> IF t \in {"deepDownstairs", "mirror"} THEN 1 ELSE 0]}
Months == [time \in 0 .. 10 |-> IF time < 1 THEN 1 ELSE 2]
=============================================================================
