--------------------------- MODULE SignInInvariant ---------------------------
(***************************************************************************)
(* The inductive invariant behind the theorems about SignIn: how the code  *)
(* store, the handlers, the sessions and the history variables fit         *)
(* together in every reachable state.                                      *)
(***************************************************************************)
EXTENDS SignIn

(* A code not yet stored has no history. *)
FreshInv ==
    \A i \in Id : i > serial =>
        /\ owner[i] = Nobody
        /\ wrong[i] = 0
        /\ redeemed[i] = 0
        /\ i \notin lost

(* A stored code has an owner and was redeemed at most once. *)
StoredInv ==
    \A i \in Id : i <= serial =>
        /\ owner[i] \in Address
        /\ redeemed[i] \in {0, 1}
        /\ issuedAt[i] <= now

(* An entry of the store is the latest code of its address, agrees with    *)
(* the history, and could still be redeemed.                               *)
RecordAgrees(a) ==
    LET rec == records[a] IN
    /\ rec.id <= serial
    /\ owner[rec.id] = a
    /\ \A j \in Id : j > rec.id => owner[j] # a
    /\ rec.issuedAt = issuedAt[rec.id]
    /\ rec.expiresAt = rec.issuedAt + CodeTTL
    /\ rec.attempts = wrong[rec.id]
    /\ rec.attempts < MaxAttempts
    /\ redeemed[rec.id] = 0
    /\ rec.id \notin lost
    /\ Recognizes(a)

RecordInv == \A a \in Address : HasRecord(a) => RecordAgrees(a)

(* A handler's captured time is not in the future; one that issues a code  *)
(* or makes a token works for a recognised address.                        *)
HandlerInv ==
    \A r \in Request :
        /\ handler[r].pc \in {"issue", "consume"} => handler[r].at <= now
        /\ handler[r].pc \in {"issue", "token"} => Recognizes(handler[r].address)

(* A handler about to make a token holds a redeemed code of its address    *)
(* for which no session exists, and no other handler holds it.             *)
TokenInv ==
    \A r \in Request : handler[r].pc = "token" =>
        /\ owner[handler[r].id] = handler[r].address
        /\ redeemed[handler[r].id] = 1
        /\ \A s \in sessions : s.id # handler[r].id
        /\ \A q \in Request :
             (handler[q].pc = "token" /\ handler[q].id = handler[r].id) => q = r

SessionInv ==
    \A s \in sessions : owner[s.id] = s.email /\ redeemed[s.id] = 1

IInv ==
    /\ TypeOK
    /\ FreshInv
    /\ StoredInv
    /\ RecordInv
    /\ HandlerInv
    /\ TokenInv
    /\ SessionInv

(* What became of every stored code: it is still in the store, or it was   *)
(* settled, or a later code replaced it once its cooldown was over.        *)
AccountedFor ==
    \A i \in 1 .. serial :
        \/ Outstanding(i)
        \/ Settled(i)
        \/ \E k \in 1 .. serial : ReplacedBy(k, i)

(* Inductive together with IInv.                                           *)
CooldownInv == AccountedFor /\ CooldownUnlessSettled
==============================================================================
