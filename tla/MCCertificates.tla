--------------------------- MODULE MCCertificates ---------------------------
(***************************************************************************)
(* Small instances of Certificates for TLC.                                *)
(***************************************************************************)
EXTENDS Certificates, TLC

CONSTANTS p1, p2

ProcessSymmetry == Permutations({p1, p2})
=============================================================================
