-------------------------- MODULE CertificatesProofs --------------------------
(***************************************************************************)
(* Proofs about module Certificates: its types, for any number of          *)
(* processes; what a proxy serves, and how long a trusted CA stays, for    *)
(* one process at a time, any number of pairs made, renewals and kills.    *)
(***************************************************************************)
EXTENDS Certificates, TLAPS

-----------------------------------------------------------------------------
(* The type invariant, with the processes as functions to records.         *)

Value == Content \cup {Unread}

CaFiles == <<"caCert", "caKey">>
LeafFiles == <<"leafCert", "leafKey">>
Writes == {<<>>, CaFiles, <<"caKey">>, LeafFiles, <<"leafKey">>}

(* The files a pair is written to, one after the other. *)
LEMMA WritesFacts ==
    /\ Len(CaFiles) = 2 /\ Head(CaFiles) = "caCert" /\ Tail(CaFiles) = <<"caKey">>
    /\ Len(LeafFiles) = 2 /\ Head(LeafFiles) = "leafCert" /\ Tail(LeafFiles) = <<"leafKey">>
    /\ Len(<<"caKey">>) = 1 /\ Head(<<"caKey">>) = "caKey" /\ Tail(<<"caKey">>) = <<>>
    /\ Len(<<"leafKey">>) = 1 /\ Head(<<"leafKey">>) = "leafKey" /\ Tail(<<"leafKey">>) = <<>>
    /\ Len(<<>>) = 0
<1>1. Len(CaFiles) = 2 /\ Head(CaFiles) = "caCert" /\ Tail(CaFiles) = <<"caKey">>
  BY DEF CaFiles
<1>2. Len(LeafFiles) = 2 /\ Head(LeafFiles) = "leafCert" /\ Tail(LeafFiles) = <<"leafKey">>
  BY DEF LeafFiles
<1>3. Len(<<"caKey">>) = 1 /\ Head(<<"caKey">>) = "caKey" /\ Tail(<<"caKey">>) = <<>>
  OBVIOUS
<1>4. Len(<<"leafKey">>) = 1 /\ Head(<<"leafKey">>) = "leafKey" /\ Tail(<<"leafKey">>) = <<>>
  OBVIOUS
<1>5. Len(<<>>) = 0
  OBVIOUS
<1> QED
  BY <1>1, <1>2, <1>3, <1>4, <1>5

ProcState == [pc : Steps, program : {"proxy", "trust-ca"}, writes : Writes,
              next : {"off", "readLeafCert", "finish"},
              caCert : Value, caKey : Value, leafCert : Value, leafKey : Value]

(* What a program is writing: the two files of a pair it has made. *)
WritesCa(r) ==
    /\ r.next = "readLeafCert"
    /\ r.caCert \in Pair /\ r.caKey = r.caCert
    /\ r.writes \in {CaFiles, <<"caKey">>}

WritesLeaf(r) ==
    /\ r.next = "finish"
    /\ r.leafCert \in Pair /\ r.leafKey = r.leafCert
    /\ r.writes \in {LeafFiles, <<"leafKey">>}

Writing(r) == r.pc \in {"truncate", "fill"} => WritesCa(r) \/ WritesLeaf(r)

Typed ==
    /\ disk \in [File -> Content \cup {NoFile}]
    /\ proc \in [Process -> ProcState]
    /\ \A p \in Process : Writing(proc[p])
    /\ minted \in 0 .. MaxMints
    /\ signer \in [Pair -> Value]
    /\ due \in SUBSET Pair
    /\ trusted \in SUBSET Pair
    /\ partial \in SUBSET {"ca", "leaf"}
    /\ agings \in 0 .. MaxAgings
    /\ crashes \in 0 .. MaxCrashes

LEMMA TypedIsTypeOK == Typed => TypeOK
<1> SUFFICES ASSUME Typed PROVE TypeOK
  OBVIOUS
<1>1. ASSUME NEW p \in Process
      PROVE  /\ proc[p].pc \in Steps
             /\ proc[p].program \in {"proxy", "trust-ca"}
             /\ Len(proc[p].writes) <= 2
             /\ \A f \in File : proc[p][f] \in Value
  <2>1. proc[p] \in ProcState
    BY DEF Typed
  <2>2. \A w \in Writes : Len(w) <= 2
    BY WritesFacts DEF Writes
  <2>3. \A f \in File : proc[p][f] \in Value
    <3>1. /\ proc[p].caCert \in Value
          /\ proc[p].caKey \in Value
          /\ proc[p].leafCert \in Value
          /\ proc[p].leafKey \in Value
      BY <2>1 DEF ProcState
    <3>2. /\ proc[p]["caCert"] \in Value
          /\ proc[p]["caKey"] \in Value
          /\ proc[p]["leafCert"] \in Value
          /\ proc[p]["leafKey"] \in Value
      BY <3>1
    <3> QED
      BY <3>2 DEF File
  <2> QED
    BY <2>1, <2>2, <2>3 DEF ProcState
<1> QED
  BY <1>1 DEF Typed, TypeOK, Value

LEMMA TypedInit == Init => Typed
  BY CertificatesAssumption
     DEF Init, Typed, Off, ProcState, Value, Writes, Steps, Content, Pair, Writing

(* A process that goes on keeps its type. *)
LEMMA GotoType ==
    ASSUME Typed, NEW p \in Process, NEW pc \in Steps, Goto(p, pc),
           pc \notin {"truncate", "fill"}
    PROVE  /\ proc' \in [Process -> ProcState]
           /\ \A q \in Process : Writing(proc'[q])
  BY DEF Typed, Goto, ProcState, Writing

(* So does one that reads a file into its variable. *)
LEMMA ReadType ==
    ASSUME Typed, NEW p \in Process, NEW file \in File, NEW found \in Steps, NEW missing \in Steps,
           Read(p, file, found, missing),
           found \notin {"truncate", "fill"}, missing \notin {"truncate", "fill"}
    PROVE  Typed'
<1>1. CASE disk[file] = NoFile
  <2>1. Goto(p, missing)
    BY <1>1 DEF Read
  <2>2. /\ proc' \in [Process -> ProcState]
        /\ \A q \in Process : Writing(proc'[q])
    BY <2>1, GotoType
  <2> QED
    BY <2>2 DEF Read, Typed
<1>2. CASE disk[file] # NoFile
  <2>1. disk[file] \in Value
    BY <1>2 DEF Typed, Value
  <2>2. proc' = [proc EXCEPT ![p] = [[proc[p] EXCEPT !.pc = found] EXCEPT ![file] = disk[file]]]
    BY <1>2 DEF Read
  <2>3. ASSUME NEW r \in ProcState, NEW v \in Value
        PROVE  [r EXCEPT ![file] = v] \in ProcState /\ [r EXCEPT ![file] = v].pc = r.pc
    <3>1. /\ [r EXCEPT !.caCert = v] \in ProcState /\ [r EXCEPT !.caKey = v] \in ProcState
          /\ [r EXCEPT !.leafCert = v] \in ProcState /\ [r EXCEPT !.leafKey = v] \in ProcState
      BY DEF ProcState
    <3> QED
      BY <3>1 DEF File, ProcState
  <2>4. [proc[p] EXCEPT !.pc = found] \in ProcState /\ [proc[p] EXCEPT !.pc = found].pc = found
    BY DEF Typed, ProcState
  <2>5. /\ proc' \in [Process -> ProcState]
        /\ \A q \in Process : Writing(proc'[q])
    BY <2>1, <2>2, <2>3, <2>4 DEF Typed, Writing
  <2> QED
    BY <2>5 DEF Read, Typed
<1> QED
  BY <1>1, <1>2

(* Each step of a program, and of its environment, keeps the types.        *)
LEMMA TypedNext == Typed /\ [Next]_vars => Typed'
<1> SUFFICES ASSUME Typed, [Next]_vars PROVE Typed'
  OBVIOUS
<1>1. ASSUME NEW p \in Process, StartProxy(p) \/ StartTrust(p) PROVE Typed'
  <2>1. [Off EXCEPT !.pc = "readCaCert"] \in ProcState
    BY DEF Off, ProcState, Value, Writes, Steps
  <2>2. \A pc \in {"readCaCert", "trust"} :
          [Off EXCEPT !.program = "trust-ca", !.pc = pc] \in ProcState
    BY DEF Off, ProcState, Value, Writes, Steps
  <2>3. \E r \in ProcState : r.pc \in {"readCaCert", "trust"} /\ proc' = [proc EXCEPT ![p] = r]
    BY <1>1, <2>1, <2>2 DEF StartProxy, StartTrust, Off
  <2>4. /\ proc' \in [Process -> ProcState]
        /\ \A q \in Process : Writing(proc'[q])
    BY <2>3 DEF Typed, Writing
  <2> QED
    BY <1>1, <2>4 DEF StartProxy, StartTrust, Typed
<1>2. ASSUME NEW p \in Process, ReadCaCert(p) \/ ReadCaKey(p) \/ ReadLeafCert(p) \/ ReadLeafKey(p)
      PROVE  Typed'
  BY <1>2, ReadType DEF ReadCaCert, ReadCaKey, ReadLeafCert, ReadLeafKey, File, Steps
<1>3. ASSUME NEW p \in Process, MintCa(p) PROVE Typed'
  <2>1. minted + 1 \in Pair
    BY <1>3, CertificatesAssumption DEF MintCa, Typed, Pair
  <2>2. [proc[p] EXCEPT !.pc = "truncate", !.next = "readLeafCert", !.caCert = minted + 1,
                        !.caKey = minted + 1, !.writes = CaFiles] \in ProcState
    <3>1. proc[p] \in ProcState
      BY DEF Typed
    <3>2. minted + 1 \in Value /\ CaFiles \in Writes /\ "truncate" \in Steps
      BY <2>1 DEF Value, Content, Writes, Steps
    <3> QED
      BY <3>1, <3>2 DEF ProcState
  <2>3. proc' \in [Process -> ProcState] /\ \A q \in Process : Writing(proc'[q])
    BY <1>3, <2>1, <2>2 DEF MintCa, Typed, Writing, WritesCa, CaFiles, ProcState
  <2>4. minted' \in 0 .. MaxMints
    BY <1>3, <2>1 DEF MintCa, Pair
  <2> QED
    BY <1>3, <2>3, <2>4 DEF MintCa, Typed
<1>4. ASSUME NEW p \in Process, MintLeaf(p) PROVE Typed'
  <2>1. minted + 1 \in Pair
    BY <1>4, CertificatesAssumption DEF MintLeaf, Typed, Pair
  <2>2. [proc[p] EXCEPT !.pc = "truncate", !.next = "finish", !.leafCert = minted + 1,
                        !.leafKey = minted + 1, !.writes = LeafFiles] \in ProcState
    <3>1. proc[p] \in ProcState
      BY DEF Typed
    <3>2. minted + 1 \in Value /\ LeafFiles \in Writes /\ "truncate" \in Steps
      BY <2>1 DEF Value, Content, Writes, Steps
    <3> QED
      BY <3>1, <3>2 DEF ProcState
  <2>3. proc' \in [Process -> ProcState] /\ \A q \in Process : Writing(proc'[q])
    BY <1>4, <2>1, <2>2 DEF MintLeaf, Typed, Writing, WritesLeaf, LeafFiles, ProcState
  <2>4. minted' \in 0 .. MaxMints
    BY <1>4, <2>1 DEF MintLeaf, Pair
  <2>5. proc[p].caKey \in Value
    BY DEF Typed, ProcState
  <2>6. signer' \in [Pair -> Value]
    BY <1>4, <2>5 DEF MintLeaf, Typed
  <2> QED
    BY <1>4, <2>3, <2>4, <2>6 DEF MintLeaf, Typed
<1>5. ASSUME NEW p \in Process, NEW pc \in {"off", "killed", "trust", "serving"}, Goto(p, pc),
             disk' = disk, minted' = minted, signer' = signer, due' = due,
             trusted' \in SUBSET Pair, partial' = partial, agings' = agings, crashes' \in 0 .. MaxCrashes
      PROVE  Typed'
  <2>1. proc' \in [Process -> ProcState] /\ \A q \in Process : Writing(proc'[q])
    BY <1>5, GotoType DEF Steps
  <2> QED
    BY <1>5, <2>1 DEF Typed
<1>6. ASSUME NEW p \in Process, MintLeafFails(p) \/ Finish(p) \/ Stop(p) PROVE Typed'
  BY <1>5, <1>6 DEF MintLeafFails, Finish, Stop, Typed
<1>7. ASSUME NEW p \in Process, Trust(p) PROVE Typed'
  BY <1>5, <1>7 DEF Trust, Typed
<1>8. ASSUME NEW p \in Process, Crash(p) PROVE Typed'
  <2>1. crashes' \in 0 .. MaxCrashes
    BY <1>8, CertificatesAssumption DEF Crash, Typed
  <2> QED
    BY <1>5, <1>8, <2>1 DEF Crash, Typed
<1>9. ASSUME NEW p \in Process, Truncate(p) PROVE Typed'
  <2>1. proc[p] \in ProcState /\ (WritesCa(proc[p]) \/ WritesLeaf(proc[p]))
    BY <1>9 DEF Truncate, Typed, Writing
  <2>2. Head(proc[p].writes) \in File
    BY <2>1, WritesFacts DEF WritesCa, WritesLeaf, File
  <2>3. disk' \in [File -> Content \cup {NoFile}]
    BY <1>9, <2>2 DEF Truncate, Typed, Content
  <2>4. proc' = [proc EXCEPT ![p] = [proc[p] EXCEPT !.pc = "fill"]]
    BY <1>9 DEF Truncate, Goto
  <2>5. LET r == [proc[p] EXCEPT !.pc = "fill"] IN r \in ProcState /\ (WritesCa(r) \/ WritesLeaf(r))
    BY <2>1 DEF ProcState, Steps, WritesCa, WritesLeaf
  <2>6. proc' \in [Process -> ProcState] /\ \A q \in Process : Writing(proc'[q])
    BY <2>4, <2>5 DEF Typed, Writing
  <2> QED
    BY <1>9, <2>3, <2>6 DEF Truncate, Typed, Written
<1>13. ASSUME NEW p \in Process, Fill(p) PROVE Typed'
  <2> DEFINE r == proc[p]
             file == Head(r.writes)
             rest == Tail(r.writes)
             s == [r EXCEPT !.writes = rest, !.pc = IF rest = <<>> THEN r.next ELSE "truncate"]
  <2>1. r \in ProcState /\ (WritesCa(r) \/ WritesLeaf(r))
    BY <1>13 DEF Fill, Typed, Writing
  <2>2. file \in File /\ rest \in {<<"caKey">>, <<"leafKey">>, <<>>} /\ r[file] \in Pair
    BY <2>1, WritesFacts DEF WritesCa, WritesLeaf, File
  <2>3. disk' \in [File -> Content \cup {NoFile}]
    BY <1>13, <2>2 DEF Fill, Typed, Content
  <2>4. proc' = [proc EXCEPT ![p] = s]
    BY <1>13 DEF Fill
  <2>5. s \in ProcState
    BY <2>1, <2>2 DEF ProcState, Steps, Writes, WritesCa, WritesLeaf
  <2>6. Writing(s)
    BY <2>1, WritesFacts DEF Writing, WritesCa, WritesLeaf, ProcState
  <2> HIDE DEF s
  <2>7. proc' \in [Process -> ProcState] /\ \A q \in Process : Writing(proc'[q])
    BY <2>4, <2>5, <2>6 DEF Typed
  <2> QED
    BY <1>13, <2>3, <2>7 DEF Fill, Typed, Written
<1>10. ASSUME NEW p \in Process, Untrust(p) PROVE Typed'
  BY <1>10 DEF Untrust, Typed
<1>11. ASSUME NEW n \in Pair, Age(n) PROVE Typed'
  BY <1>11, CertificatesAssumption DEF Age, Typed
<1>12. CASE UNCHANGED vars
  BY <1>12 DEF vars, Typed
<1> QED
  BY <1>1, <1>2, <1>3, <1>4, <1>6, <1>7, <1>8, <1>9, <1>10, <1>11, <1>12, <1>13
     DEF Next, Program, EnsureCertificates

(* The files, the processes with what they have read, and the trust store  *)
(* have their types, for any number of processes at the same time.         *)
THEOREM TypeCorrect == Spec => []TypeOK
<1>1. Init => Typed
  BY TypedInit
<1>2. Typed /\ [Next]_vars => Typed'
  BY TypedNext
<1>3. Typed => TypeOK
  BY TypedIsTypeOK
<1> QED
  BY <1>1, <1>2, <1>3, PTL DEF Spec

-----------------------------------------------------------------------------
(* What is served. *)

(* What one process, alone, knows of the disk at each of its steps.        *)
Knows(r) ==
    /\ r.pc = "readCaKey" => r.caCert = disk["caCert"]
    /\ r.pc \in {"readLeafCert", "readLeafKey", "mintLeaf"} =>
          r.caCert = disk["caCert"] /\ r.caKey = disk["caKey"]
    /\ r.pc = "readLeafKey" => r.leafCert = disk["leafCert"]
    /\ r.pc \in {"truncate", "fill"} /\ r.writes = <<"caKey">> => r.caCert = disk["caCert"]
    /\ r.pc \in {"truncate", "fill"} /\ r.next = "finish" => signer[r.leafCert] = disk["caKey"]
    /\ r.pc \in {"truncate", "fill"} /\ r.writes = <<"leafKey">> => r.leafCert = disk["leafCert"]
    /\ r.pc \in {"finish", "serving"} =>
          /\ r.leafCert = disk["leafCert"] /\ r.leafKey = disk["leafKey"]
          /\ signer[r.leafCert] \in {disk["caCert"], disk["caKey"]}
    /\ r.pc = "serving" => r.leafKey \in {r.leafCert, Empty}

(* A key is only empty while, or because, its writing did not end.         *)
KeyEmpty == disk["leafKey"] = Empty => "leaf" \in partial

IInv == Typed /\ KeyEmpty /\ \A p \in Process : Knows(proc[p])

OneProcess == \A p, q \in Process : p = q

LEMMA KnowsInit == Init => KeyEmpty /\ \A p \in Process : Knows(proc[p])
<1> SUFFICES ASSUME Init PROVE KeyEmpty /\ \A p \in Process : Knows(proc[p])
  OBVIOUS
<1>1. \A p \in Process : proc[p].pc = "off"
  BY DEF Init, Off
<1>2. KeyEmpty
  BY CertificatesAssumption DEF Init, File, KeyEmpty
<1> QED
  BY <1>1, <1>2 DEF Knows

(* The only step that empties the leaf's key says so.                      *)
LEMMA KeyEmptyNext == Typed /\ KeyEmpty /\ [Next]_vars => KeyEmpty'
<1> SUFFICES ASSUME Typed, KeyEmpty, [Next]_vars PROVE KeyEmpty'
  OBVIOUS
<1>1. CASE UNCHANGED <<disk, partial>>
  BY <1>1 DEF KeyEmpty
<1>2. ASSUME NEW p \in Process, Truncate(p) PROVE KeyEmpty'
  <2>1. WritesCa(proc[p]) \/ WritesLeaf(proc[p])
    BY <1>2 DEF Truncate, Typed, Writing
  <2>2. CASE WritesLeaf(proc[p])
    BY <1>2, <2>2 DEF Truncate, Written, WritesLeaf, KeyEmpty
  <2>3. CASE WritesCa(proc[p])
    <3>1. Head(proc[p].writes) \in {"caCert", "caKey"}
      BY <2>3, WritesFacts DEF WritesCa
    <3>2. disk'["leafKey"] = disk["leafKey"] /\ partial \subseteq partial'
      BY <1>2, <3>1 DEF Truncate, Typed, File
    <3> QED
      BY <3>2 DEF KeyEmpty
  <2> QED
    BY <2>1, <2>2, <2>3
<1>3. ASSUME NEW p \in Process, Fill(p) PROVE KeyEmpty'
  <2>1. WritesCa(proc[p]) \/ WritesLeaf(proc[p])
    BY <1>3 DEF Fill, Typed, Writing
  <2>2. CASE WritesLeaf(proc[p])
    <3>1. Empty \notin Pair
      BY CertificatesAssumption DEF Pair
    <3>2. CASE proc[p].writes = LeafFiles
      <4>1. Head(proc[p].writes) = "leafCert" /\ Tail(proc[p].writes) # <<>>
        BY <3>2, WritesFacts
      <4>2. disk'["leafKey"] = disk["leafKey"] /\ partial' = partial
        BY <1>3, <4>1 DEF Fill, Typed, File
      <4> QED
        BY <4>2 DEF KeyEmpty
    <3>3. CASE proc[p].writes = <<"leafKey">>
      BY <1>3, <2>2, <3>1, <3>3, WritesFacts DEF Fill, WritesLeaf, KeyEmpty, Typed, File
    <3> QED
      BY <2>2, <3>2, <3>3 DEF WritesLeaf
  <2>3. CASE WritesCa(proc[p])
    <3>1. Head(proc[p].writes) \in {"caCert", "caKey"} /\ Written(p) = "ca"
      BY <2>3, WritesFacts DEF WritesCa, Written
    <3>2. disk'["leafKey"] = disk["leafKey"] /\ ("leaf" \in partial => "leaf" \in partial')
      BY <1>3, <3>1 DEF Fill, Typed, File
    <3> QED
      BY <3>2 DEF KeyEmpty
  <2> QED
    BY <2>1, <2>2, <2>3
<1> QED
  BY <1>1, <1>2, <1>3, ZenonT(30) DEF Next, Program, EnsureCertificates, StartProxy, StartTrust, ReadCaCert,
     ReadCaKey, ReadLeafCert, ReadLeafKey, Read, MintCa, MintLeaf, MintLeafFails, Finish, Trust,
     Untrust, Stop, Crash, Age, vars

(* Each step of the one process, and of its environment.                   *)
LEMMA KnowsNext ==
    ASSUME OneProcess, IInv, [Next]_vars
    PROVE  \A p \in Process : Knows(proc[p])'
<1> SUFFICES ASSUME NEW p \in Process PROVE Knows(proc[p])'
  OBVIOUS
<1> DEFINE r == proc[p]
<1>0. /\ r \in ProcState /\ Writing(r) /\ Knows(r)
      /\ proc \in [Process -> ProcState]
      /\ disk \in [File -> Content \cup {NoFile}]
      /\ \A q \in Process : q = p
      /\ signer \in [Pair -> Value]
  BY DEF IInv, Typed, OneProcess
<1>1. CASE StartProxy(p)
  BY <1>0, <1>1 DEF StartProxy, Off, Knows
<1>2. CASE StartTrust(p)
  BY <1>0, <1>2 DEF StartTrust, Off, Knows
<1>3. CASE ReadCaCert(p)
  BY <1>0, <1>3 DEF ReadCaCert, Read, Goto, Knows, ProcState
<1>4. CASE ReadCaKey(p)
  BY <1>0, <1>4 DEF ReadCaKey, Read, Goto, Knows, ProcState
<1>5. CASE MintCa(p)
  BY <1>0, <1>5 DEF MintCa, Knows, ProcState, CaFiles
<1>6. CASE ReadLeafCert(p)
  BY <1>0, <1>6 DEF ReadLeafCert, Read, Goto, Knows, ProcState
<1>7. CASE ReadLeafKey(p)
  BY <1>0, <1>7 DEF ReadLeafKey, Read, Goto, Knows, ProcState, LeafIsValid, IsUsable
<1>8. CASE MintLeaf(p)
  <2>1. minted + 1 \in Pair
    BY <1>8, CertificatesAssumption DEF MintLeaf, IInv, Typed, Pair
  <2>2. proc'[p] = [r EXCEPT !.pc = "truncate", !.next = "finish", !.leafCert = minted + 1,
                             !.leafKey = minted + 1, !.writes = LeafFiles]
    BY <1>0, <1>8 DEF MintLeaf, LeafFiles
  <2>3. /\ proc'[p].pc = "truncate" /\ proc'[p].leafCert = minted + 1
        /\ proc'[p].writes = LeafFiles
    BY <1>0, <2>2 DEF ProcState
  <2>4. signer'[minted + 1] = r.caKey /\ r.caKey = disk["caKey"] /\ disk' = disk
    BY <1>0, <1>8, <2>1 DEF MintLeaf, Knows
  <2>5. LeafFiles # <<"caKey">> /\ LeafFiles # <<"leafKey">>
    BY WritesFacts
  <2> QED
    BY <2>3, <2>4, <2>5 DEF Knows
<1>9. CASE MintLeafFails(p)
  BY <1>0, <1>9 DEF MintLeafFails, Goto, Knows, ProcState
<1>10. CASE Truncate(p)
  BY <1>0, <1>10, WritesFacts DEF Truncate, Goto, Knows, ProcState, Writing, WritesCa, WritesLeaf, File
<1>11. CASE Fill(p)
  BY <1>0, <1>11, WritesFacts DEF Fill, Knows, ProcState, Writing, WritesCa, WritesLeaf, File
<1>12. CASE Finish(p)
  BY <1>0, <1>12 DEF Finish, Goto, Knows, ProcState
<1>13. CASE Trust(p)
  BY <1>0, <1>13 DEF Trust, Goto, Knows, ProcState
<1>14. CASE Untrust(p)
  BY <1>0, <1>14 DEF Untrust, Knows
<1>15. CASE Stop(p)
  BY <1>0, <1>15 DEF Stop, Goto, Knows, ProcState
<1>16. CASE Crash(p)
  BY <1>0, <1>16 DEF Crash, Goto, Knows, ProcState
<1>17. ASSUME NEW n \in Pair, Age(n) PROVE Knows(proc[p])'
  BY <1>0, <1>17 DEF Age, Knows
<1>18. CASE UNCHANGED vars
  BY <1>0, <1>18 DEF vars, Knows
<1> HIDE DEF r
<1> QED
  BY <1>0, <1>1, <1>2, <1>3, <1>4, <1>5, <1>6, <1>7, <1>8, <1>9, <1>10, <1>11, <1>12, <1>13,
     <1>14, <1>15, <1>16, <1>17, <1>18 DEF Next, Program, EnsureCertificates

(* However often the one program is killed or its certificates come up for *)
(* renewal: what it serves is what lies on disk, and that is a matching    *)
(* pair, or a certificate whose key a kill left empty (certs.ts:81-85).    *)
THEOREM ServesPairOnDisk == ASSUME OneProcess PROVE Spec => []ServedPairOnDisk
<1>1. Init => IInv
  BY TypedInit, KnowsInit DEF IInv
<1>2. IInv /\ [Next]_vars => IInv'
  BY TypedNext, KeyEmptyNext, KnowsNext DEF IInv
<1>3. IInv => ServedPairOnDisk
  BY DEF IInv, KeyEmpty, Knows, ServedPairOnDisk
<1> QED
  BY <1>1, <1>2, <1>3, PTL DEF Spec

(* And if the two files of the CA on disk belong together, that CA signed  *)
(* what is served: nothing renewed, half-renewed or left behind by an      *)
(* older CA gets past the checks of ensureCertificates (certs.ts:40-70).   *)
THEOREM ServesLeafOfWholeCa == ASSUME OneProcess PROVE Spec => []LeafFitsWholeCa
<1>1. Init => IInv
  BY TypedInit, KnowsInit DEF IInv
<1>2. IInv /\ [Next]_vars => IInv'
  BY TypedNext, KeyEmptyNext, KnowsNext DEF IInv
<1>3. IInv => LeafFitsWholeCa
  BY DEF IInv, Knows, LeafFitsWholeCa
<1> QED
  BY <1>1, <1>2, <1>3, PTL DEF Spec

-----------------------------------------------------------------------------
(* How long trust lasts. *)

(* When a new CA is on its way, the one on disk had to go.                 *)
Replaces(r) ==
    /\ r.pc = "mintCa" \/ (r.pc = "truncate" /\ r.writes = CaFiles) =>
          (disk["caCert"] \in Pair => disk["caCert"] \in due \/ disk["caKey"] = NoFile)
    /\ r.pc = "fill" /\ r.writes = CaFiles => disk["caCert"] \notin Pair

RInv == IInv /\ \A p \in Process : Replaces(proc[p])

LEMMA ReplacesNext ==
    ASSUME OneProcess, RInv, [Next]_vars
    PROVE  \A p \in Process : Replaces(proc[p])'
<1> SUFFICES ASSUME NEW p \in Process PROVE Replaces(proc[p])'
  OBVIOUS
<1> DEFINE r == proc[p]
<1>0. /\ r \in ProcState /\ Writing(r) /\ Knows(r) /\ Replaces(r)
      /\ proc \in [Process -> ProcState]
      /\ disk \in [File -> Content \cup {NoFile}]
      /\ \A q \in Process : q = p
      /\ due \in SUBSET Pair
      /\ NoFile \notin Pair /\ Empty \notin Pair
  BY CertificatesAssumption DEF RInv, IInv, Typed, OneProcess, Pair
<1>1. CASE StartProxy(p)
  BY <1>0, <1>1 DEF StartProxy, Off, Replaces
<1>2. CASE StartTrust(p)
  BY <1>0, <1>2 DEF StartTrust, Off, Replaces
<1>3. CASE ReadCaCert(p)
  BY <1>0, <1>3 DEF ReadCaCert, Read, Goto, Replaces, ProcState
<1>4. CASE ReadCaKey(p)
  BY <1>0, <1>4 DEF ReadCaKey, Read, Goto, Replaces, ProcState, IsUsable, Knows
<1>5. CASE MintCa(p)
  BY <1>0, <1>5 DEF MintCa, Replaces, ProcState, CaFiles
<1>6. CASE ReadLeafCert(p)
  BY <1>0, <1>6 DEF ReadLeafCert, Read, Goto, Replaces, ProcState
<1>7. CASE ReadLeafKey(p)
  BY <1>0, <1>7 DEF ReadLeafKey, Read, Goto, Replaces, ProcState
<1>8. CASE MintLeaf(p)
  <2>1. proc'[p].pc = "truncate" /\ proc'[p].writes = LeafFiles
    BY <1>0, <1>8 DEF MintLeaf, LeafFiles, ProcState
  <2>2. LeafFiles # CaFiles
    BY WritesFacts
  <2> QED
    BY <2>1, <2>2 DEF Replaces
<1>9. CASE MintLeafFails(p)
  BY <1>0, <1>9 DEF MintLeafFails, Goto, Replaces, ProcState
<1>10. CASE Truncate(p)
  BY <1>0, <1>10, WritesFacts DEF Truncate, Goto, Replaces, ProcState, File
<1>11. CASE Fill(p)
  <2>1. proc'[p].writes = Tail(r.writes) /\ r.writes \in Writes
    BY <1>0, <1>11 DEF Fill, ProcState
  <2>2. Writing(r) /\ r.pc = "fill"
    BY <1>0, <1>11 DEF Fill
  <2>3. proc'[p].writes # CaFiles
    <3>1. r.writes \in {CaFiles, <<"caKey">>, LeafFiles, <<"leafKey">>}
      BY <2>2 DEF Writing, WritesCa, WritesLeaf
    <3>2. Tail(r.writes) \in {<<"caKey">>, <<"leafKey">>, <<>>}
      BY <3>1, WritesFacts
    <3>3. CaFiles \notin {<<"caKey">>, <<"leafKey">>, <<>>}
      BY WritesFacts
    <3> QED
      BY <2>1, <3>2, <3>3
  <2>4. proc'[p].pc # "mintCa" /\ proc'[p].pc # "fill"
    BY <1>0, <1>11, <2>2 DEF Fill, ProcState, Writing, WritesCa, WritesLeaf
  <2> QED
    BY <2>3, <2>4 DEF Replaces
<1>12. CASE Finish(p)
  BY <1>0, <1>12 DEF Finish, Goto, Replaces, ProcState
<1>13. CASE Trust(p)
  BY <1>0, <1>13 DEF Trust, Goto, Replaces, ProcState
<1>14. CASE Untrust(p)
  BY <1>0, <1>14 DEF Untrust, Replaces
<1>15. CASE Stop(p)
  BY <1>0, <1>15 DEF Stop, Goto, Replaces, ProcState
<1>16. CASE Crash(p)
  BY <1>0, <1>16 DEF Crash, Goto, Replaces, ProcState
<1>17. ASSUME NEW n \in Pair, Age(n) PROVE Replaces(proc[p])'
  BY <1>0, <1>17 DEF Age, Replaces
<1>18. CASE UNCHANGED vars
  BY <1>0, <1>18 DEF vars, Replaces
<1> HIDE DEF r
<1> QED
  BY <1>0, <1>1, <1>2, <1>3, <1>4, <1>5, <1>6, <1>7, <1>8, <1>9, <1>10, <1>11, <1>12, <1>13,
     <1>14, <1>15, <1>16, <1>17, <1>18 DEF Next, Program, EnsureCertificates

TrustedStep ==
    \A n \in trusted :
        (disk["caCert"] = n /\ disk'["caCert"] # n) => n \in due \/ disk["caKey"] = NoFile

(* Only the two steps of writePair write, and only a CA's over a CA.       *)
LEMMA TrustedNext ==
    ASSUME OneProcess, RInv, [Next]_vars
    PROVE  TrustedStep
<1> SUFFICES ASSUME NEW n \in trusted, disk["caCert"] = n, disk'["caCert"] # n
             PROVE  n \in due \/ disk["caKey"] = NoFile
  BY DEF TrustedStep
<1>1. n \in Pair
  BY DEF RInv, IInv, Typed
<1>2. PICK p \in Process : Truncate(p) \/ Fill(p)
  <2>1. disk' # disk
    OBVIOUS
  <2> QED
    BY <2>1, ZenonT(30) DEF Next, Program, EnsureCertificates, StartProxy, StartTrust, ReadCaCert, ReadCaKey,
                ReadLeafCert, ReadLeafKey, Read, MintCa, MintLeaf, MintLeafFails, Finish, Trust,
                Untrust, Stop, Crash, Age, vars
<1> DEFINE r == proc[p]
<1>3. /\ Writing(r) /\ Replaces(r) /\ disk \in [File -> Content \cup {NoFile}]
  BY DEF RInv, IInv, Typed
<1>4. r.pc \in {"truncate", "fill"} /\ \A f \in File : f # Head(r.writes) => disk'[f] = disk[f]
  BY <1>2, <1>3 DEF Truncate, Fill
<1>5. r.writes = CaFiles
  <2>1. Head(r.writes) = "caCert"
    BY <1>4 DEF File
  <2> QED
    BY <1>3, <1>4, <2>1, WritesFacts DEF Writing, WritesCa, WritesLeaf
<1> HIDE DEF r
<1> QED
  BY <1>1, <1>3, <1>4, <1>5 DEF Replaces

(* Trust the CA once: however often the one program is killed or renews a  *)
(* certificate, a CA that is trusted is only overwritten when it is due,   *)
(* or a kill has left it without its key (certs.ts:5-8, 51-67).            *)
THEOREM TrustIsKept == ASSUME OneProcess PROVE Spec => TrustLasts
<1>1. Init => RInv
  <2>1. Init => \A p \in Process : Replaces(proc[p])
    <3> SUFFICES ASSUME Init, NEW p \in Process PROVE Replaces(proc[p])
      OBVIOUS
    <3>1. proc[p].pc = "off"
      BY DEF Init, Off
    <3> QED
      BY <3>1 DEF Replaces
  <2> QED
    BY <2>1, TypedInit, KnowsInit DEF RInv, IInv
<1>2. RInv /\ [Next]_vars => RInv'
  BY TypedNext, KeyEmptyNext, KnowsNext, ReplacesNext DEF RInv, IInv
<1>3. RInv /\ [Next]_vars => [TrustedStep]_vars
  BY TrustedNext
<1>4. Spec => [][TrustedStep]_vars
  BY <1>1, <1>2, <1>3, PTL DEF Spec
<1> QED
  BY <1>4 DEF TrustLasts, TrustedStep
=============================================================================
