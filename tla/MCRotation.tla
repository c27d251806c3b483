----------------------------- MODULE MCRotation -----------------------------
(***************************************************************************)
(* Two bathrooms that may be cleaned as deep tasks or as the weekly        *)
(* recommendation, and windows that have a season, in two versions of the  *)
(* program.  A day is two ticks.                                           *)
(***************************************************************************)
EXTENDS Rotation

Bank == <<"deepUp", "deepDown", "care", "windows">>
ById == <<"care", "deepDown", "deepUp", "windows">>

Standard == [room |-> "up", category |-> "other", minutes |-> 1, modes |-> {"weekend"},
             childFriendly |-> TRUE, supersedes |-> {}, includes |-> {}, group |-> NoGroup,
             cooldown |-> 2, recommendationOnly |-> FALSE, activeMonths |-> {1, 2},
             minimumSession |-> 0, minimumPeople |-> 0, maximumPeople |-> 0,
             firstUseDueImmediately |-> FALSE, deep |-> FALSE, score |-> [weekend |-> 2],
             boost |-> 100, recurrence |-> 0, urgency |-> 0, weekly |-> FALSE]

Deep == [Standard EXCEPT !.deep = TRUE, !.group = "bathroom"]
Care == [Standard EXCEPT !.recommendationOnly = TRUE, !.weekly = TRUE]

BankInfo ==
    [deepUp |-> [Deep EXCEPT !.boost = 150],
     deepDown |-> [Deep EXCEPT !.room = "down"],
     care |-> [Care EXCEPT !.group = "bathroom", !.recurrence = 4, !.urgency = 20, !.minutes = 3],
     windows |-> [Care EXCEPT !.room = "hall", !.recurrence = 8, !.activeMonths = {2}]]

Hashes == [deepUp |-> 3, deepDown |-> 5, care |-> 4, windows |-> 0]
Months == [time \in 0 .. 40 |-> IF time < 4 THEN 1 ELSE 2]

First == Task \ {"deepUp"}
Versions == {First, Task}
=============================================================================
