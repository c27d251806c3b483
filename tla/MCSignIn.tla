------------------------------ MODULE MCSignIn ------------------------------
(***************************************************************************)
(* Small instances of SignIn for TLC.                                      *)
(***************************************************************************)
EXTENDS SignInInvariant, TLC

CONSTANTS r1, r2, anna, bo, annaTyped, annaShouted, junk, c1, c2

(* Two spellings of one address, and one input that is no address.         *)
OneAddress == (annaTyped :> anna) @@ (annaShouted :> anna) @@ (junk :> BadEmail)

(* One household member.                                                   *)
OneUser == {anna :> "user"}

(* The administrator is replaced between two runs of the process, or the   *)
(* process is started in development with no list at all.                  *)
Household == {anna :> "admin", bo :> "user", <<>>}

(* Requests are interchangeable, and so are codes.                         *)
RequestSymmetry == Permutations({r1, r2})
RequestAndCodeSymmetry == RequestSymmetry \cup Permutations({c1, c2})
=============================================================================
