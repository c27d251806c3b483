---------------------------- MODULE Certificates ----------------------------
(***************************************************************************)
(* The development certificates of the HTTPS proxy (proxy/src/certs.ts)    *)
(* and the two programs that make them: the proxy at start-up              *)
(* (proxy/src/index.ts) and trust-ca (proxy/scripts/trust-ca.ts).          *)
(*                                                                         *)
(* Four files hold a CA and a leaf, certificate and key apart.  A file is  *)
(* written by truncating it and then filling it, so another process, or a  *)
(* later start after a crash, can find it empty; a pair is read and        *)
(* written one file at a time, with no lock.                               *)
(*                                                                         *)
(* Every key pair that is ever made has a number of its own; a file holds  *)
(* the number of the pair its certificate or key belongs to.               *)
(***************************************************************************)
EXTENDS Naturals, Sequences

CONSTANTS
    Process,        \* runs of the proxy and of trust-ca at the same time
    MaxMints,       \* bound: key pairs made
    MaxAgings,      \* bound: certificates that come up for renewal
    MaxCrashes,     \* bound: processes that die half-way
    NoFile,         \* the file does not exist
    Empty,          \* truncated, not yet (or never) filled
    Unread          \* a variable not yet set

Pair == 1 .. MaxMints
File == {"caCert", "caKey", "leafCert", "leafKey"}

ASSUME CertificatesAssumption ==
    /\ MaxMints \in Nat /\ MaxAgings \in Nat /\ MaxCrashes \in Nat
    /\ {NoFile, Empty, Unread} \cap Nat = {}
    /\ NoFile # Empty /\ NoFile # Unread /\ Empty # Unread

VARIABLES
    disk,           \* contents of the four files
    proc,           \* proc[p]: where process p is, and what it has read or made
    minted,         \* pairs made so far
    signer,         \* signer[n]: the CA key that signed leaf certificate n
    due,            \* certificates within RENEW_BEFORE_MS of their end
    trusted,        \* CA certificates in the trust store of the machine
    partial,        \* history: pairs whose writing began and did not end
    agings, crashes \* counters for the bounds

vars == <<disk, proc, minted, signer, due, trusted, partial, agings, crashes>>

Content == Pair \cup {Empty}
Steps == {"off", "killed", "readCaCert", "readCaKey", "readLeafCert", "readLeafKey",
          "mintCa", "mintLeaf", "truncate", "fill", "finish", "serving", "trust"}
Idle(p) == proc[p].pc \in {"off", "killed"}

Off == [pc |-> "off", program |-> "proxy", writes |-> <<>>, next |-> "off",
        caCert |-> Unread, caKey |-> Unread, leafCert |-> Unread, leafKey |-> Unread]

TypeOK ==
    /\ disk \in [File -> Content \cup {NoFile}]
    /\ \A p \in Process :
         /\ proc[p].pc \in Steps
         /\ proc[p].program \in {"proxy", "trust-ca"}
         /\ Len(proc[p].writes) <= 2
         /\ \A f \in File : proc[p][f] \in Content \cup {Unread}
    /\ minted \in 0 .. MaxMints
    /\ signer \in [Pair -> Content \cup {Unread}]
    /\ due \subseteq Pair
    /\ trusted \subseteq Pair
    /\ partial \subseteq {"ca", "leaf"}
    /\ agings \in 0 .. MaxAgings
    /\ crashes \in 0 .. MaxCrashes

Init ==
    /\ disk = [f \in File |-> NoFile]
    /\ proc = [p \in Process |-> Off]
    /\ minted = 0
    /\ signer = [n \in Pair |-> Unread]
    /\ due = {}
    /\ trusted = {}
    /\ partial = {}
    /\ agings = 0
    /\ crashes = 0

-----------------------------------------------------------------------------

(* Mutant of IsUsable: the comparison the wrong way round.                 *)
IsUsableReversed(cert) == cert \in Pair /\ cert \in due

(* The certificate parses and is not about to expire.                      *)
IsUsable(cert) == cert \in Pair /\ cert \notin due

(* Mutant of LeafIsValid: the signature is not verified.                   *)
LeafIsValidUnverified(leafCert, caCert) == IsUsable(leafCert)

(* A leaf that no longer covers the configured domains counts as due.      *)
LeafIsValid(leafCert, caCert) == IsUsable(leafCert) /\ signer[leafCert] = caCert

(* The process goes on at step pc.                                         *)
Goto(p, pc) == proc' = [proc EXCEPT ![p].pc = pc]

(* readPair reads one of its two files; a missing file sends it to mint.   *)
Read(p, file, found, missing) ==
    /\ IF disk[file] = NoFile
       THEN Goto(p, missing)
       ELSE proc' = [proc EXCEPT ![p].pc = found, ![p][file] = disk[file]]
    /\ UNCHANGED <<disk, minted, signer, due, trusted, partial, agings, crashes>>

-----------------------------------------------------------------------------
(* Starting a program. *)

(* A start may make two pairs; the bound is on whole starts.               *)
RoomToMint == minted + 2 <= MaxMints

StartProxy(p) ==
    /\ Idle(p)
    /\ RoomToMint
    /\ proc' = [proc EXCEPT ![p] = [Off EXCEPT !.pc = "readCaCert"]]
    /\ UNCHANGED <<disk, minted, signer, due, trusted, partial, agings, crashes>>

(* trust-ca makes certificates only if there is no CA file at all.         *)
StartTrust(p) ==
    /\ Idle(p)
    /\ disk["caCert"] = NoFile => RoomToMint
    /\ proc' = [proc EXCEPT ![p] = [Off EXCEPT
           !.program = "trust-ca",
           !.pc = IF disk["caCert"] = NoFile THEN "readCaCert" ELSE "trust"]]
    /\ UNCHANGED <<disk, minted, signer, due, trusted, partial, agings, crashes>>

(* ensureCertificates: the CA.                                             *)

ReadCaCert(p) ==
    /\ proc[p].pc = "readCaCert"
    /\ Read(p, "caCert", "readCaKey", "mintCa")

ReadCaKey(p) ==
    /\ proc[p].pc = "readCaKey"
    /\ Read(p, "caKey", IF IsUsable(proc[p].caCert) THEN "readLeafCert" ELSE "mintCa",
            "mintCa")

(* mkcert.createCA, then writePair.                                        *)
MintCa(p) ==
    LET n == minted + 1 IN
    /\ proc[p].pc = "mintCa"
    /\ minted < MaxMints
    /\ minted' = n
    /\ proc' = [proc EXCEPT ![p].pc = "truncate", ![p].next = "readLeafCert",
                            ![p].caCert = n, ![p].caKey = n,
                            ![p].writes = <<"caCert", "caKey">>]
    /\ UNCHANGED <<disk, signer, due, trusted, partial, agings, crashes>>

(* ensureCertificates: the leaf.                                           *)

ReadLeafCert(p) ==
    /\ proc[p].pc = "readLeafCert"
    /\ Read(p, "leafCert", "readLeafKey", "mintLeaf")

ReadLeafKey(p) ==
    /\ proc[p].pc = "readLeafKey"
    /\ Read(p, "leafKey",
            IF LeafIsValid(proc[p].leafCert, proc[p].caCert) THEN "finish" ELSE "mintLeaf",
            "mintLeaf")

(* Mutant of MintLeaf: the new key is not written.                         *)
MintLeafCertOnly(p) ==
    LET n == minted + 1 IN
    /\ proc[p].pc = "mintLeaf"
    /\ proc[p].caKey \in Pair
    /\ minted < MaxMints
    /\ minted' = n
    /\ signer' = [signer EXCEPT ![n] = proc[p].caKey]
    /\ proc' = [proc EXCEPT ![p].pc = "truncate", ![p].next = "finish",
                            ![p].leafCert = n, ![p].leafKey = n,
                            ![p].writes = <<"leafCert">>]
    /\ UNCHANGED <<disk, due, trusted, partial, agings, crashes>>

(* Mutant of MintLeaf: a renewal keeps the key that was read.              *)
MintLeafOldKey(p) ==
    LET n == minted + 1
        kept == proc[p].leafKey \in Pair
    IN
    /\ proc[p].pc = "mintLeaf"
    /\ proc[p].caKey \in Pair
    /\ minted < MaxMints
    /\ minted' = n
    /\ signer' = [signer EXCEPT ![n] = proc[p].caKey]
    /\ proc' = [proc EXCEPT ![p].pc = "truncate", ![p].next = "finish",
                            ![p].leafCert = n, ![p].leafKey = IF kept THEN @ ELSE n,
                            ![p].writes = <<"leafCert">> \o
                                          (IF kept THEN <<>> ELSE <<"leafKey">>)]
    /\ UNCHANGED <<disk, due, trusted, partial, agings, crashes>>

(* mkcert.createCert signs with the CA key it is given, then writePair.    *)
MintLeaf(p) ==
    LET n == minted + 1 IN
    /\ proc[p].pc = "mintLeaf"
    /\ proc[p].caKey \in Pair
    /\ minted < MaxMints
    /\ minted' = n
    /\ signer' = [signer EXCEPT ![n] = proc[p].caKey]
    /\ proc' = [proc EXCEPT ![p].pc = "truncate", ![p].next = "finish",
                            ![p].leafCert = n, ![p].leafKey = n,
                            ![p].writes = <<"leafCert", "leafKey">>]
    /\ UNCHANGED <<disk, due, trusted, partial, agings, crashes>>

(* With an empty CA key it throws, and the program ends.                   *)
MintLeafFails(p) ==
    /\ proc[p].pc = "mintLeaf"
    /\ proc[p].caKey = Empty
    /\ Goto(p, "off")
    /\ UNCHANGED <<disk, minted, signer, due, trusted, partial, agings, crashes>>

(* Which of the two pairs a process is writing.                            *)
Written(p) == IF proc[p].next = "finish" THEN "leaf" ELSE "ca"

(* writePair: the certificate, then the key.                               *)
Truncate(p) ==
    /\ proc[p].pc = "truncate"
    /\ disk' = [disk EXCEPT ![Head(proc[p].writes)] = Empty]
    /\ partial' = partial \cup {Written(p)}
    /\ Goto(p, "fill")
    /\ UNCHANGED <<minted, signer, due, trusted, agings, crashes>>

Fill(p) ==
    LET file == Head(proc[p].writes)
        rest == Tail(proc[p].writes)
    IN
    /\ proc[p].pc = "fill"
    /\ disk' = [disk EXCEPT ![file] = proc[p][file]]
    /\ proc' = [proc EXCEPT ![p].writes = rest,
                            ![p].pc = IF rest = <<>> THEN proc[p].next ELSE "truncate"]
    /\ partial' = IF rest = <<>> THEN partial \ {Written(p)} ELSE partial
    /\ UNCHANGED <<minted, signer, due, trusted, agings, crashes>>

(* ensureCertificates returned.  https.createServer refuses the key of     *)
(* another certificate, and the proxy ends; a key that is the empty string *)
(* it takes for none, and the proxy listens.  trust-ca goes on.            *)
Finish(p) ==
    /\ proc[p].pc = "finish"
    /\ Goto(p, IF proc[p].program = "trust-ca" THEN "trust"
               ELSE IF proc[p].leafKey \in {proc[p].leafCert, Empty} THEN "serving"
               ELSE "off")
    /\ UNCHANGED <<disk, minted, signer, due, trusted, partial, agings, crashes>>

(* certutil or security read the CA file; an empty one is refused.         *)
Trust(p) ==
    /\ proc[p].pc = "trust"
    /\ trusted' = trusted \cup (Pair \cap {disk["caCert"]})
    /\ Goto(p, "off")
    /\ UNCHANGED <<disk, minted, signer, due, partial, agings, crashes>>

(* trust-ca --remove takes away the CA it finds on disk, or on Windows     *)
(* every CA of that name; with no CA file it only says so.                 *)
Untrust(p) ==
    /\ Idle(p)
    /\ disk["caCert"] # NoFile
    /\ trusted' \in {trusted \ {disk["caCert"]}, {}}
    /\ UNCHANGED <<disk, proc, minted, signer, due, partial, agings, crashes>>

-----------------------------------------------------------------------------
(* The environment. *)

(* Ctrl-C, or tsx watch restarting the proxy.                              *)
Stop(p) ==
    /\ proc[p].pc = "serving"
    /\ Goto(p, "off")
    /\ UNCHANGED <<disk, minted, signer, due, trusted, partial, agings, crashes>>

(* Killed, or a write failed (disk full).                                  *)
Crash(p) ==
    /\ proc[p].pc \notin {"off", "killed", "serving"}
    /\ crashes < MaxCrashes
    /\ crashes' = crashes + 1
    /\ Goto(p, "killed")
    /\ UNCHANGED <<disk, minted, signer, due, trusted, partial, agings>>

(* A certificate comes up for renewal, or the domains change.              *)
Age(n) ==
    /\ agings < MaxAgings
    /\ n \in (1 .. minted) \ due
    /\ due' = due \cup {n}
    /\ agings' = agings + 1
    /\ UNCHANGED <<disk, proc, minted, signer, trusted, partial, crashes>>

EnsureCertificates(p) ==
    \/ ReadCaCert(p) \/ ReadCaKey(p) \/ MintCa(p)
    \/ ReadLeafCert(p) \/ ReadLeafKey(p) \/ MintLeaf(p) \/ MintLeafFails(p)
    \/ Truncate(p) \/ Fill(p)

Program(p) == EnsureCertificates(p) \/ Finish(p) \/ Trust(p)

Next ==
    \/ \E p \in Process :
         \/ StartProxy(p) \/ StartTrust(p) \/ Program(p)
         \/ Untrust(p) \/ Stop(p) \/ Crash(p)
    \/ \E n \in Pair : Age(n)

(* A program that has started runs on.                                     *)
Spec == Init /\ [][Next]_vars /\ \A p \in Process : WF_vars(Program(p))

-----------------------------------------------------------------------------
(* Properties. *)

(* certs.ts:97-100: the leaf a proxy serves is signed by the CA whose      *)
(* certificate the developer is asked to trust, whatever happened before.  *)
(* The code does not achieve this when a CA renewal is cut short.          *)
ServedLeafSignedByCa ==
    \A p \in Process : proc[p].pc = "serving" => signer[proc[p].leafCert] = disk["caCert"]

(* What it does achieve, through any renewals and kills: as long as the    *)
(* CA's two files belong together, the leaf that is served is signed by    *)
(* that CA.  Earlier programs may have left a leaf of an older CA, or one  *)
(* signed with a key the CA certificate on disk does not match.            *)
LeafFitsWholeCa ==
    \A p \in Process :
        (proc[p].pc = "serving" /\ disk["caCert"] = disk["caKey"]) =>
            signer[proc[p].leafCert] = disk["caCert"]

(* However often a run is killed: the certificate a proxy serves, with its *)
(* key, lies on disk in full for the next start (certs.ts:55-67, 81-85).   *)
(* Only where a kill cut the writing of that pair short can there be no    *)
(* key, and then the proxy listens without one; another's key it never has.*)
ServedPairOnDisk ==
    \A p \in Process : proc[p].pc = "serving" =>
        /\ proc[p].leafCert = disk["leafCert"] /\ proc[p].leafKey = disk["leafKey"]
        /\ \/ proc[p].leafKey = proc[p].leafCert
           \/ proc[p].leafKey = Empty /\ "leaf" \in partial

(* certs.ts:5-8 "Trust the CA once", trust-ca.ts:8-9 "Run this once per    *)
(* machine.  The leaf certificate can be regenerated afterwards without    *)
(* repeating it": a trusted CA is not overwritten before it is due, unless *)
(* a kill has left it without its key.                                     *)
TrustLasts ==
    [][\A n \in trusted :
         (disk["caCert"] = n /\ disk'["caCert"] # n) =>
             n \in due \/ disk["caKey"] = NoFile]_vars

(* A proxy that starts comes to serve, or is itself killed on the way, or  *)
(* finds what the code does not repair: a kill left the CA's key empty, or *)
(* the leaf's certificate new and its key old (certs.ts:57, index.ts:51).  *)
StartSucceeds ==
    \A p \in Process :
        (proc[p].pc = "readCaCert" /\ proc[p].program = "proxy") ~>
            \/ proc[p].pc \in {"serving", "killed"}
            \/ /\ proc[p].pc = "off"
               /\ \/ "ca" \in partial /\ disk["caKey"] = Empty
                  \/ "leaf" \in partial /\ disk["leafKey"] \notin {disk["leafCert"], Empty}
=============================================================================
