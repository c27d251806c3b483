----------------------------- MODULE MCPlanner ------------------------------
(***************************************************************************)
(* A small household and task bank, and the inputs it can give buildPlan.  *)
(***************************************************************************)
EXTENDS Planner, TLC

CONSTANTS malin, jorgen, alice, ella

Bank == <<"deepUpstairs", "deepDownstairs", "guestSweep", "guestEntry",
          "resetUpstairs", "airing", "rubbish", "mirror", "shelf">>

Other == [room |-> "upstairs", category |-> "other", minutes |-> 1, modes |-> {"weekend"},
          childFriendly |-> TRUE, supersedes |-> {}, includes |-> {}, group |-> NoGroup,
          cooldown |-> 2, recommendationOnly |-> FALSE, activeMonths |-> {1, 7},
          minimumSession |-> 0, minimumPeople |-> 0, maximumPeople |-> 0,
          firstUseDueImmediately |-> FALSE, deep |-> FALSE,
          score |-> [weekend |-> 2, guests |-> 2]]

Deep == [Other EXCEPT !.minutes = 3, !.childFriendly = FALSE, !.group = "bathroom",
                      !.cooldown = 7, !.minimumSession = 3, !.deep = TRUE]

BankInfo ==
    [deepUpstairs |-> [Deep EXCEPT !.supersedes = {"resetUpstairs"}, !.includes = {"mirror"}],
     deepDownstairs |-> [Deep EXCEPT !.room = "downstairs", !.supersedes = {"airing"}],
     guestSweep |-> [Other EXCEPT !.modes = {"guests"}, !.maximumPeople = 1,
                                  !.childFriendly = FALSE, !.minutes = 2],
     guestEntry |-> [Other EXCEPT !.modes = {"guests"}, !.minimumPeople = 2],
     resetUpstairs |-> [Other EXCEPT !.includes = {"mirror"}, !.minutes = 2],
     airing |-> [Other EXCEPT !.category = "odor", !.room = "downstairs",
                              !.modes = {"weekend", "guests"}, !.activeMonths = {7}],
     rubbish |-> [Other EXCEPT !.category = "odor", !.childFriendly = FALSE,
                               !.modes = {"weekend", "guests"}],
     mirror |-> [Other EXCEPT !.cooldown = 1, !.firstUseDueImmediately = TRUE,
                              !.score = [weekend |-> 1, guests |-> 1]],
     shelf |-> [Other EXCEPT !.room = "downstairs", !.minutes = 2,
                             !.score = [weekend |-> 3, guests |-> 3]]]

NoPreference == [p \in Person |-> {}]

Teams == {<<malin>>, <<alice>>, <<ella>>, <<malin, jorgen>>, <<malin, alice>>,
          <<alice, malin>>, <<ella, malin>>, <<malin, jorgen, alice>>}

(* What a household has done before, at most two things. *)
Done == {<<"deepUpstairs", 0>>, <<"deepDownstairs", 4>>, <<"resetUpstairs", 4>>,
         <<"mirror", 4>>, <<"rubbish", 3>>, <<"catPee", 4>>}
Histories == {{[task |-> d[1], at |-> d[2]], [task |-> e[1], at |-> e[2]]} :
                 d \in Done, e \in Done} \cup {{}}

(* Everything is released, or some of it later. *)
Schedules == {[t \in Task |-> 0],
              [t \in Task |-> IF t \in {"mirror", "deepDownstairs"} THEN 9 ELSE 0]}

AllInputs ==
    [mode : {"weekend", "guests"}, minutes : {1, 3, 4, 7}, people : Teams,
     rooms : {{"upstairs", "downstairs"}, {"downstairs"}}, history : Histories,
     now : {5}, month : {1, 7}, schedule : Schedules]
=============================================================================
