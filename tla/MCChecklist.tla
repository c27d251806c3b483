----------------------------- MODULE MCChecklist -----------------------------
(***************************************************************************)
(* Small instances of Checklist for TLC: a kitchen and a bathroom.  In the *)
(* kitchen, sink and tap make one row, of which one part must always be    *)
(* done; the floor under the cupboard moves to the floor's section and     *)
(* joins the floor's row, which may be skipped.  Both rooms account for    *)
(* the card "drains", as both bathrooms do for care-bathroom-drains; one   *)
(* link names a card the planner dropped.                                  *)
(***************************************************************************)
EXTENDS Checklist, TLC

CONSTANTS t1, kitchen, bath, sink, tap, under, floor, shower,
          drains, dropped, part

KitchenSections ==
    <<[topic |-> "none", tasks |-> {sink, tap, under}],
      [topic |-> "floor-wet", tasks |-> {floor}]>>

KitchenOnly == (kitchen :> KitchenSections)

TwoRooms == KitchenOnly @@ (bath :> <<[topic |-> "none", tasks |-> {shower}]>>)

Cleaning == [phase |-> "clean", topic |-> "none", floorTopic |-> "none",
             moves |-> FALSE, condition |-> "always"]

SourceList ==
    (sink :> Cleaning)
    @@ (tap :> [Cleaning EXCEPT !.condition = "if_present"])
    @@ (under :> [Cleaning EXCEPT !.topic = "floor-dry", !.moves = TRUE,
                                  !.condition = "if_accessible"])
    @@ (floor :> [Cleaning EXCEPT !.floorTopic = "floor-dry", !.condition = "if_due"])
    @@ (shower :> Cleaning)

TwoRoomLinks == (kitchen :> {[card |-> drains, needs |-> {sink, floor}],
                             [card |-> dropped, needs |-> {tap}]})
                @@ (bath :> {[card |-> drains, needs |-> {shower}]})

(* Links of which one row, the floor, has no share.                        *)
SinkLinks == (kitchen :> {[card |-> drains, needs |-> {sink, tap}]})

(* A card that includes another, and a card alone.                         *)
CardWithPart == {{drains, part}}
CardAlone == {{drains}}

Cooldowns == (drains :> 2) @@ (dropped :> 1) @@ (part :> 0)
=============================================================================
