--------------------------- MODULE SignInPromise ---------------------------
(***************************************************************************)
(* What the passwordless sign-in promises about the codes it mails out,    *)
(* with no clock, no lock, no request handlers and no storage.  Every code *)
(* that is ever issued has an identity of its own in Id, so that two codes *)
(* whose digits happen to be equal stay two codes.                         *)
(*                                                                         *)
(* A code is live from the moment it is issued; an address has at most one *)
(* live code.  A live code is redeemed at most once, survives fewer than   *)
(* MaxAttempts wrong guesses, and may be discarded at any time (it expires *)
(* or the process restarts).  A session exists only for a redeemed code,   *)
(* at most one per code, and belongs to the address the code was sent to.  *)
(***************************************************************************)
EXTENDS Naturals

CONSTANTS
    Id,             \* the codes that may ever be issued
    Address,        \* normalised e-mail addresses
    Nobody,         \* the owner of a code that has not been issued
    MaxAttempts     \* wrong guesses that void a code

VARIABLES
    fate,           \* fate[i]: what has become of code i
    owner,          \* owner[i]: the address code i was issued to
    wrong,          \* wrong[i]: wrong guesses answered while i was live
    redeemed,       \* redeemed[i]: how often code i was redeemed
    granted         \* the <<code, address>> pairs that became sessions

promiseVars == <<fate, owner, wrong, redeemed, granted>>

Live == {i \in Id : fate[i] = "live"}

Init ==
    /\ fate = [i \in Id |-> "unissued"]
    /\ owner = [i \in Id |-> Nobody]
    /\ wrong = [i \in Id |-> 0]
    /\ redeemed = [i \in Id |-> 0]
    /\ granted = {}

(* A new code takes the place of the address's live code, if it has one;   *)
(* the codes in Gone are discarded on the way.                             *)
Issue(i, a, Gone) ==
    /\ fate[i] = "unissued"
    /\ fate' = [j \in Id |->
                  IF j = i THEN "live"
                  ELSE IF j \in Gone \/ (j \in Live /\ owner[j] = a) THEN "dead"
                  ELSE fate[j]]
    /\ owner' = [owner EXCEPT ![i] = a]
    /\ UNCHANGED <<wrong, redeemed, granted>>

(* A wrong guess is charged to the live code; the last one voids it.       *)
Guess(i) ==
    /\ fate[i] = "live"
    /\ wrong[i] < MaxAttempts
    /\ wrong' = [wrong EXCEPT ![i] = @ + 1]
    /\ fate' = [fate EXCEPT ![i] = IF wrong[i] + 1 = MaxAttempts THEN "dead" ELSE "live"]
    /\ UNCHANGED <<owner, redeemed, granted>>

Redeem(i) ==
    /\ fate[i] = "live"
    /\ fate' = [fate EXCEPT ![i] = "redeemed"]
    /\ redeemed' = [redeemed EXCEPT ![i] = @ + 1]
    /\ UNCHANGED <<owner, wrong, granted>>

Grant(i) ==
    /\ fate[i] = "redeemed"
    /\ \A g \in granted : g[1] # i
    /\ granted' = granted \cup {<<i, owner[i]>>}
    /\ UNCHANGED <<fate, owner, wrong, redeemed>>

(* Expiry or a restart: codes that were live stop being so.                *)
Discard(Gone) ==
    /\ fate' = [j \in Id |-> IF j \in Gone THEN "dead" ELSE fate[j]]
    /\ UNCHANGED <<owner, wrong, redeemed, granted>>

Next ==
    \/ \E i \in Id, a \in Address, Gone \in SUBSET Live : Issue(i, a, Gone)
    \/ \E i \in Id : Guess(i) \/ Redeem(i) \/ Grant(i)
    \/ \E Gone \in SUBSET Live : Discard(Gone)

Spec == Init /\ [][Next]_promiseVars
=============================================================================
