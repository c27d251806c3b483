------------------------------ MODULE MCSession ------------------------------
(***************************************************************************)
(* One browser in a household; Bo is not on the list.                      *)
(***************************************************************************)
EXTENDS Session, TLC

CONSTANTS anna, bo

First == [users |-> anna :> "admin", secret |-> 1]

(* Anna may cease to be the administrator; in development there may be no  *)
(* list at all, and then the secret is another, too.                       *)
Deployments == {First, [First EXCEPT !.users = anna :> "user"], [users |-> <<>>, secret |-> 2]}
=============================================================================
