---------------------------- MODULE SignInProofs ----------------------------
(***************************************************************************)
(* Theorems about SignIn, for every value of its constants; the last ones  *)
(* show that it implements SignInPromise.                                  *)
(***************************************************************************)
EXTENDS SignInInvariant, TLAPS

(* A handler with a given program counter is of the matching kind. *)
LEMMA HandlerKind ==
    ASSUME TypeOK, NEW r \in Request
    PROVE  /\ handler[r].pc = "issue" => handler[r] \in Issuing
           /\ handler[r].pc = "send" => handler[r] \in Sending
           /\ handler[r].pc = "consume" => handler[r] \in Consuming
           /\ handler[r].pc = "token" => handler[r] \in Tokening
BY DEF TypeOK, HandlerState, Idle, Issuing, Sending, Consuming, Tokening

(* The purge only ever removes entries. *)
LEMMA PurgeType ==
    ASSUME TypeOK, NEW t
    PROVE  /\ PurgeExpired(t) \in [Address -> CodeRecord \cup {NoRecord}]
           /\ \A a \in Address : PurgeExpired(t)[a] \in {records[a], NoRecord}
BY DEF TypeOK, PurgeExpired

(* Every initial state is well typed. *)
LEMMA TypeInit == Init => TypeOK
<1> SUFFICES ASSUME Init PROVE TypeOK
  OBVIOUS
<1>1. Idle \in HandlerState
  BY DEF HandlerState
<1>2. serial \in 0 .. MaxIssues
  BY SignInAssumption DEF Init
<1> QED
  BY <1>1, <1>2 DEF Init, TypeOK

(* Every step keeps the state well typed. *)
LEMMA TypeStep == TypeOK /\ [Next]_vars => TypeOK'
<1> SUFFICES ASSUME TypeOK, [Next]_vars PROVE TypeOK'
  OBVIOUS
<1> USE SignInAssumption DEF TypeOK, HandlerState
<1>1. ASSUME NEW r \in Request, NEW raw \in RawEmail, BeginRequestCode(r, raw)
      PROVE TypeOK'
  <2>1. PICK c \in Code :
          handler' = [handler EXCEPT
             ![r] = [pc |-> "issue", address |-> Normalize[raw], code |-> c, at |-> now]]
    BY <1>1 DEF BeginRequestCode
  <2>2. [pc |-> "issue", address |-> Normalize[raw], code |-> c, at |-> now] \in Issuing
    BY <1>1 DEF BeginRequestCode, Issuing
  <2> QED
    BY <1>1, <2>1, <2>2 DEF BeginRequestCode, history
<1>2. ASSUME NEW r \in Request, IssueTooSoon(r)
      PROVE TypeOK'
  BY <1>2, PurgeType DEF IssueTooSoon, history
<1>3. ASSUME NEW r \in Request, IssueStored(r)
      PROVE TypeOK'
  <2> DEFINE h == handler[r]
             rec == [hash |-> <<h.address, h.code>>, issuedAt |-> h.at,
                     expiresAt |-> h.at + CodeTTL, attempts |-> 0, id |-> serial + 1]
             hnd == [pc |-> "send", address |-> h.address, id |-> serial + 1]
  <2>1. h \in Issuing
    BY <1>3, HandlerKind DEF IssueStored
  <2>2. serial + 1 \in Id /\ serial + 1 \in 0 .. MaxIssues
    BY <1>3 DEF IssueStored, Id
  <2>3. rec \in CodeRecord /\ hnd \in Sending /\ h.address \in Address /\ h.at \in Nat
    BY <2>1, <2>2 DEF Issuing, CodeRecord, Hash, Sending
  <2>4. PurgeExpired(h.at) \in [Address -> CodeRecord \cup {NoRecord}]
    BY PurgeType
  <2>5. records' = [PurgeExpired(h.at) EXCEPT ![h.address] = rec]
        /\ handler' = [handler EXCEPT ![r] = hnd]
        /\ serial' = serial + 1
        /\ owner' = [owner EXCEPT ![serial + 1] = h.address]
        /\ issuedAt' = [issuedAt EXCEPT ![serial + 1] = h.at]
        /\ UNCHANGED <<now, users, sessions, wrong, redeemed, lost, undelivered>>
    BY <1>3 DEF IssueStored
  <2> HIDE DEF h, rec, hnd
  <2> QED
    BY <2>2, <2>3, <2>4, <2>5
<1>4. ASSUME NEW r \in Request, SendAccepted(r)
      PROVE TypeOK'
  BY <1>4 DEF SendAccepted, history
<1>5. ASSUME NEW r \in Request, SendFailed(r)
      PROVE TypeOK'
  <2>1. handler[r].id \in Id
    BY <1>5, HandlerKind DEF SendFailed, Sending
  <2> QED
    BY <1>5, <2>1 DEF SendFailed
<1>6. ASSUME NEW r \in Request, NEW raw \in RawEmail, NEW c \in Code,
             BeginVerifyCode(r, raw, c)
      PROVE TypeOK'
  <2>1. [pc |-> "consume", address |-> Normalize[raw], code |-> c, at |-> now] \in Consuming
    BY <1>6 DEF BeginVerifyCode, Consuming
  <2> QED
    BY <1>6, <2>1 DEF BeginVerifyCode, history
<1>7. ASSUME NEW r \in Request, ConsumeUnknown(r)
      PROVE TypeOK'
  BY <1>7 DEF ConsumeUnknown, history
<1>8. ASSUME NEW r \in Request, ConsumeExpired(r)
      PROVE TypeOK'
  BY <1>8 DEF ConsumeExpired, history
<1>9. ASSUME NEW r \in Request, ConsumeWrong(r)
      PROVE TypeOK'
  <2> DEFINE rec == records[handler[r].address]
  <2>1. rec \in CodeRecord
    BY <1>9, HandlerKind DEF ConsumeWrong, HasRecord, Consuming
  <2>2. Charged(rec) \in CodeRecord \cup {NoRecord}
    BY <2>1 DEF Charged, CodeRecord
  <2>3. wrong[rec.id] + 1 \in Nat
    BY <2>1 DEF CodeRecord
  <2> QED
    BY <1>9, <2>2, <2>3 DEF ConsumeWrong
<1>10. ASSUME NEW r \in Request, ConsumeRight(r)
      PROVE TypeOK'
  <2> DEFINE rec == records[handler[r].address]
  <2>1. rec \in CodeRecord /\ handler[r].address \in Address
    BY <1>10, HandlerKind DEF ConsumeRight, HasRecord, Consuming
  <2>2. [pc |-> "token", address |-> handler[r].address, id |-> rec.id] \in Tokening
    BY <2>1 DEF Tokening, CodeRecord
  <2>3. redeemed[rec.id] + 1 \in Nat
    BY <2>1 DEF CodeRecord
  <2> QED
    BY <1>10, <2>2, <2>3 DEF ConsumeRight
<1>11. ASSUME NEW r \in Request, IssueToken(r)
      PROVE TypeOK'
  <2>1. [id |-> handler[r].id, email |-> handler[r].address,
         role |-> RoleFor(handler[r].address)] \in Session
    BY <1>11, HandlerKind DEF IssueToken, Tokening, Session
  <2> QED
    BY <1>11, <2>1 DEF IssueToken, history
<1>12. ASSUME NEW r \in Request, IssueTokenFails(r)
      PROVE TypeOK'
  BY <1>12 DEF IssueTokenFails, history
<1>13. CASE Tick
  BY <1>13 DEF Tick, history
<1>14. ASSUME NEW m \in UserMaps, Restart(m)
      PROVE TypeOK'
  BY <1>14 DEF Restart
<1>15. CASE UNCHANGED vars
  BY <1>15 DEF vars, history
<1> QED
  BY <1>1, <1>2, <1>3, <1>4, <1>5, <1>6, <1>7, <1>8, <1>9, <1>10, <1>11, <1>12,
     <1>13, <1>14, <1>15 DEF Next, RequestCode, VerifyCode

(* Every variable keeps its type in every behaviour. *)
THEOREM TypeCorrect == Spec => []TypeOK
BY TypeInit, TypeStep, PTL DEF Spec

-----------------------------------------------------------------------------
(* The inductive invariant. *)

(* The history conjuncts depend on the history variables and the clock.    *)
LEMMA HistoryFrame ==
    ASSUME TypeOK, FreshInv, StoredInv, now' \in Nat, now <= now',
           UNCHANGED <<serial, owner, issuedAt, wrong, redeemed, lost>>
    PROVE  FreshInv' /\ StoredInv'
<1>1. FreshInv'
  BY DEF FreshInv
<1>2. StoredInv'
  BY DEF StoredInv, TypeOK, Id
<1> QED
  BY <1>1, <1>2

(* Dropping entries of the store disturbs nothing said of those that stay. *)
LEMMA RecordFrame ==
    ASSUME RecordInv, UNCHANGED <<users, serial, owner, issuedAt, wrong, redeemed, lost>>,
           \A a \in Address : records'[a] \in {records[a], NoRecord}
    PROVE  RecordInv'
BY DEF RecordInv, RecordAgrees, HasRecord, Recognizes

(* A handler that answers its request and becomes idle.                    *)
LEMMA HandlerDone ==
    ASSUME TypeOK, HandlerInv, TokenInv, SessionInv, NEW r \in Request,
           handler' = [handler EXCEPT ![r] = Idle],
           UNCHANGED <<now, users, owner, redeemed, sessions>>
    PROVE  HandlerInv' /\ TokenInv' /\ SessionInv'
<1>1. \A q \in Request : handler'[q] = IF q = r THEN Idle ELSE handler[q]
  BY DEF TypeOK
<1>2. HandlerInv'
  BY <1>1 DEF HandlerInv, Idle, Recognizes
<1>3. TokenInv'
  BY <1>1 DEF TokenInv, Idle
<1>4. SessionInv'
  BY DEF SessionInv
<1> QED
  BY <1>2, <1>3, <1>4

LEMMA IInvInit == Init => IInv
<1> SUFFICES ASSUME Init PROVE IInv
  OBVIOUS
<1>1. TypeOK
  BY TypeInit
<1>2. FreshInv
  BY DEF Init, FreshInv
<1>3. StoredInv
  BY DEF Init, StoredInv, Id
<1>4. RecordInv
  BY DEF Init, RecordInv, HasRecord
<1>5. HandlerInv /\ TokenInv /\ SessionInv
  BY DEF Init, HandlerInv, TokenInv, SessionInv, Idle
<1> QED
  BY <1>1, <1>2, <1>3, <1>4, <1>5 DEF IInv

LEMMA IInvStep == IInv /\ [Next]_vars => IInv'
<1> SUFFICES ASSUME IInv, [Next]_vars PROVE IInv'
  OBVIOUS
<1> USE SignInAssumption
<1>t. TypeOK /\ TypeOK'
  BY TypeStep DEF IInv
<1>i. FreshInv /\ StoredInv /\ RecordInv /\ HandlerInv /\ TokenInv /\ SessionInv
  BY DEF IInv
<1>n. now \in Nat /\ now <= now
  BY <1>t DEF TypeOK
<1>1. ASSUME NEW r \in Request, NEW raw \in RawEmail, BeginRequestCode(r, raw)
      PROVE IInv'
  <2> USE <1>1 DEF BeginRequestCode, history
  <2>1. PICK c \in Code :
          handler' = [handler EXCEPT
             ![r] = [pc |-> "issue", address |-> Normalize[raw], code |-> c, at |-> now]]
    OBVIOUS
  <2>2. FreshInv' /\ StoredInv'
    BY <1>t, <1>i, <1>n, HistoryFrame
  <2>3. RecordInv'
    BY <1>i, RecordFrame
  <2>4. HandlerInv'
    BY <1>t, <1>i, <1>n, <2>1 DEF HandlerInv, TypeOK, Recognizes
  <2>5. TokenInv'
    BY <1>t, <1>i, <2>1 DEF TokenInv, TypeOK
  <2>6. SessionInv'
    BY <1>i DEF SessionInv
  <2> QED
    BY <1>t, <2>2, <2>3, <2>4, <2>5, <2>6 DEF IInv
<1>2. ASSUME NEW r \in Request, IssueTooSoon(r)
      PROVE IInv'
  <2> USE <1>2 DEF IssueTooSoon, history
  <2>1. FreshInv' /\ StoredInv'
    BY <1>t, <1>i, <1>n, HistoryFrame
  <2>2. RecordInv'
    BY <1>t, <1>i, RecordFrame, PurgeType
  <2>3. HandlerInv' /\ TokenInv' /\ SessionInv'
    BY <1>t, <1>i, HandlerDone
  <2> QED
    BY <1>t, <2>1, <2>2, <2>3 DEF IInv
<1>3. ASSUME NEW r \in Request, IssueStored(r)
      PROVE IInv'
  <2> DEFINE h == handler[r]
             new == serial + 1
             rec == [hash |-> <<h.address, h.code>>, issuedAt |-> h.at,
                     expiresAt |-> h.at + CodeTTL, attempts |-> 0, id |-> new]
             hnd == [pc |-> "send", address |-> h.address, id |-> new]
  <2>1. /\ h.pc = "issue" /\ h.address \in Address /\ h.at \in Nat /\ h.at <= now
        /\ Recognizes(h.address)
    BY <1>3, <1>t, <1>i, HandlerKind DEF IssueStored, Issuing, HandlerInv
  <2>2. new \in Id /\ new > serial /\ serial \in Nat
    BY <1>3, <1>t DEF IssueStored, TypeOK, Id
  <2>3. /\ records' = [PurgeExpired(h.at) EXCEPT ![h.address] = rec]
        /\ handler' = [handler EXCEPT ![r] = hnd]
        /\ serial' = new
        /\ owner' = [owner EXCEPT ![new] = h.address]
        /\ issuedAt' = [issuedAt EXCEPT ![new] = h.at]
        /\ UNCHANGED <<now, users, sessions, wrong, redeemed, lost, undelivered>>
    BY <1>3 DEF IssueStored
  <2>4. \A i \in Id : /\ owner'[i] = IF i = new THEN h.address ELSE owner[i]
                     /\ issuedAt'[i] = IF i = new THEN h.at ELSE issuedAt[i]
    BY <1>t, <2>2, <2>3 DEF TypeOK
  <2>5. \A a \in Address : IF a = h.address THEN records'[a] = rec
                          ELSE records'[a] \in {records[a], NoRecord}
    BY <1>t, <2>3, PurgeType
  <2>6. \A q \in Request : handler'[q] = IF q = r THEN hnd ELSE handler[q]
    BY <1>t, <2>3 DEF TypeOK
  <2> HIDE DEF h
  <2>7. FreshInv'
    BY <1>i, <2>2, <2>3, <2>4 DEF FreshInv, Id
  <2>8. StoredInv'
    BY <1>t, <1>i, <2>1, <2>2, <2>3, <2>4, SMTT(20) DEF StoredInv, FreshInv, Id, TypeOK
  <2>9. RecordInv'
    <3> SUFFICES ASSUME NEW a \in Address, HasRecord(a)'
                 PROVE  RecordAgrees(a)'
      BY DEF RecordInv
    <3>1. CASE a = h.address
      BY <3>1, <1>i, <2>1, <2>2, <2>3, <2>4, <2>5
         DEF RecordAgrees, FreshInv, Recognizes, Id
    <3>2. CASE a # h.address
      <4>1. records'[a] = records[a] /\ HasRecord(a) /\ records[a] \in CodeRecord
        BY <3>2, <2>5, <1>t DEF HasRecord, TypeOK
      <4>2. RecordAgrees(a) /\ records[a].id \in Id
        BY <4>1, <1>i DEF RecordInv, CodeRecord
      <4> QED
        BY <3>2, <4>1, <4>2, <2>2, <2>3, <2>4 DEF RecordAgrees, Recognizes, Id
    <3> QED
      BY <3>1, <3>2
  <2>10. HandlerInv'
    BY <1>i, <2>3, <2>6 DEF HandlerInv, Recognizes
  <2>11. TokenInv'
    BY <1>t, <1>i, <2>2, <2>3, <2>4, <2>6, HandlerKind DEF TokenInv, Tokening, FreshInv
  <2>12. SessionInv'
    BY <1>t, <1>i, <2>2, <2>3, <2>4 DEF SessionInv, FreshInv, TypeOK, Session
  <2> QED
    BY <1>t, <2>7, <2>8, <2>9, <2>10, <2>11, <2>12 DEF IInv
<1>4. ASSUME NEW r \in Request, SendAccepted(r)
      PROVE IInv'
  <2> USE <1>4 DEF SendAccepted, history
  <2>1. FreshInv' /\ StoredInv'
    BY <1>t, <1>i, <1>n, HistoryFrame
  <2>2. RecordInv'
    BY <1>t, <1>i, RecordFrame
  <2>3. HandlerInv' /\ TokenInv' /\ SessionInv'
    BY <1>t, <1>i, HandlerDone
  <2> QED
    BY <1>t, <2>1, <2>2, <2>3 DEF IInv
<1>5. ASSUME NEW r \in Request, SendFailed(r)
      PROVE IInv'
  <2> USE <1>5 DEF SendFailed, history
  <2>1. FreshInv' /\ StoredInv'
    BY <1>t, <1>i, <1>n, HistoryFrame
  <2>2. RecordInv'
    BY <1>t, <1>i, RecordFrame
  <2>3. HandlerInv' /\ TokenInv' /\ SessionInv'
    BY <1>t, <1>i, HandlerDone
  <2> QED
    BY <1>t, <2>1, <2>2, <2>3 DEF IInv
<1>6. ASSUME NEW r \in Request, NEW raw \in RawEmail, NEW c \in Code,
             BeginVerifyCode(r, raw, c)
      PROVE IInv'
  <2> USE <1>6 DEF BeginVerifyCode, history
  <2>1. FreshInv' /\ StoredInv'
    BY <1>t, <1>i, <1>n, HistoryFrame
  <2>2. RecordInv'
    BY <1>i, RecordFrame
  <2>3. HandlerInv'
    BY <1>t, <1>i, <1>n DEF HandlerInv, TypeOK, Recognizes
  <2>4. TokenInv'
    BY <1>t, <1>i DEF TokenInv, TypeOK
  <2>5. SessionInv'
    BY <1>i DEF SessionInv
  <2> QED
    BY <1>t, <2>1, <2>2, <2>3, <2>4, <2>5 DEF IInv
<1>7. ASSUME NEW r \in Request, ConsumeUnknown(r)
      PROVE IInv'
  <2> USE <1>7 DEF ConsumeUnknown, history
  <2>1. FreshInv' /\ StoredInv'
    BY <1>t, <1>i, <1>n, HistoryFrame
  <2>2. RecordInv'
    BY <1>t, <1>i, RecordFrame
  <2>3. HandlerInv' /\ TokenInv' /\ SessionInv'
    BY <1>t, <1>i, HandlerDone
  <2> QED
    BY <1>t, <2>1, <2>2, <2>3 DEF IInv
<1>8. ASSUME NEW r \in Request, ConsumeExpired(r)
      PROVE IInv'
  <2> USE <1>8 DEF ConsumeExpired, history
  <2>1. FreshInv' /\ StoredInv'
    BY <1>t, <1>i, <1>n, HistoryFrame
  <2>2. RecordInv'
    BY <1>t, <1>i, RecordFrame DEF TypeOK
  <2>3. HandlerInv' /\ TokenInv' /\ SessionInv'
    BY <1>t, <1>i, HandlerDone
  <2> QED
    BY <1>t, <2>1, <2>2, <2>3 DEF IInv
<1>9. ASSUME NEW r \in Request, ConsumeWrong(r)
      PROVE IInv'
  <2> DEFINE b == handler[r].address
             rec == records[b]
  <2>1. /\ b \in Address
        /\ rec \in CodeRecord
        /\ RecordAgrees(b)
    BY <1>9, <1>t, <1>i, HandlerKind
       DEF ConsumeWrong, HasRecord, RecordInv, Consuming, TypeOK
  <2>2. /\ records' = [records EXCEPT ![b] = Charged(rec)]
        /\ wrong' = [wrong EXCEPT ![rec.id] = @ + 1]
        /\ handler' = [handler EXCEPT ![r] = Idle]
        /\ UNCHANGED <<now, users, sessions, serial, owner, issuedAt, redeemed, lost>>
    BY <1>9 DEF ConsumeWrong
  <2>3. rec.id \in Id /\ rec.id <= serial /\ rec.attempts \in Nat
    BY <2>1 DEF RecordAgrees, CodeRecord
  <2>4. \A i \in Id : wrong'[i] = IF i = rec.id THEN wrong[i] + 1 ELSE wrong[i]
    BY <1>t, <2>2, <2>3 DEF TypeOK
  <2>5. \A a \in Address : records'[a] = IF a = b THEN Charged(rec) ELSE records[a]
    BY <1>t, <2>1, <2>2 DEF TypeOK
  <2>6. FreshInv'
    BY <1>t, <1>i, <2>2, <2>3, <2>4, SMTT(20) DEF FreshInv, TypeOK, Id
  <2>7. StoredInv'
    BY <1>i, <2>2 DEF StoredInv
  <2>8. RecordInv'
    <3> SUFFICES ASSUME NEW a \in Address, HasRecord(a)'
                 PROVE  RecordAgrees(a)'
      BY DEF RecordInv
    <3>1. CASE a = b
      <4>1. records'[a] = [rec EXCEPT !.attempts = rec.attempts + 1]
            /\ rec.attempts + 1 < MaxAttempts
        BY <3>1, <2>3, <2>5 DEF HasRecord, Charged
      <4>2. /\ records'[a].id = rec.id /\ records'[a].issuedAt = rec.issuedAt
            /\ records'[a].expiresAt = rec.expiresAt
            /\ records'[a].attempts = rec.attempts + 1
        BY <2>1, <4>1 DEF CodeRecord
      <4>3. wrong'[rec.id] = wrong[rec.id] + 1
        BY <2>3, <2>4
      <4>4. Recognizes(a)'
        BY <2>1, <2>2, <3>1 DEF RecordAgrees, Recognizes
      <4> QED
        <5>1. /\ rec.id <= serial' /\ owner'[rec.id] = a
              /\ \A j \in Id : j > rec.id => owner'[j] # a
              /\ rec.issuedAt = issuedAt'[rec.id] /\ rec.expiresAt = rec.issuedAt + CodeTTL
              /\ redeemed'[rec.id] = 0 /\ rec.id \notin lost'
          BY <2>1, <2>2, <3>1 DEF RecordAgrees
        <5>2. records'[a].attempts = wrong'[rec.id]
          BY <2>1, <4>2, <4>3 DEF RecordAgrees
        <5>3. records'[a].attempts < MaxAttempts
          BY <4>1, <4>2
        <5> QED
          BY <4>2, <4>4, <5>1, <5>2, <5>3 DEF RecordAgrees
    <3>2. CASE a # b
      <4>1. records'[a] = records[a] /\ HasRecord(a) /\ records[a] \in CodeRecord
        BY <3>2, <2>5, <1>t DEF HasRecord, TypeOK
      <4>2. RecordAgrees(a) /\ records[a].id \in Id
        BY <4>1, <1>i DEF RecordInv, CodeRecord
      <4>3. records[a].id # rec.id
        BY <3>2, <4>2, <2>1 DEF RecordAgrees
      <4> QED
        BY <4>1, <4>2, <4>3, <2>2, <2>4 DEF RecordAgrees, Recognizes
    <3> QED
      BY <3>1, <3>2
  <2>9. HandlerInv' /\ TokenInv' /\ SessionInv'
    BY <1>t, <1>i, <2>2, HandlerDone
  <2> QED
    BY <1>t, <2>6, <2>7, <2>8, <2>9 DEF IInv
<1>10. ASSUME NEW r \in Request, ConsumeRight(r)
      PROVE IInv'
  <2> DEFINE b == handler[r].address
             rec == records[b]
             hnd == [pc |-> "token", address |-> b, id |-> rec.id]
  <2>1. /\ b \in Address
        /\ rec \in CodeRecord
        /\ RecordAgrees(b)
    BY <1>10, <1>t, <1>i, HandlerKind
       DEF ConsumeRight, HasRecord, RecordInv, Consuming, TypeOK
  <2>2. /\ records' = [records EXCEPT ![b] = NoRecord]
        /\ redeemed' = [redeemed EXCEPT ![rec.id] = @ + 1]
        /\ handler' = [handler EXCEPT ![r] = hnd]
        /\ UNCHANGED <<now, users, sessions, serial, owner, issuedAt, wrong, lost>>
    BY <1>10 DEF ConsumeRight
  <2>3. /\ rec.id \in Id /\ rec.id <= serial
        /\ redeemed[rec.id] = 0 /\ owner[rec.id] = b /\ Recognizes(b)
    BY <2>1 DEF RecordAgrees, CodeRecord
  <2>4. \A i \in Id : redeemed'[i] = IF i = rec.id THEN 1 ELSE redeemed[i]
    BY <1>t, <2>2, <2>3 DEF TypeOK
  <2>5. \A a \in Address : records'[a] = IF a = b THEN NoRecord ELSE records[a]
    BY <1>t, <2>1, <2>2 DEF TypeOK
  <2>6. \A q \in Request : handler'[q] = IF q = r THEN hnd ELSE handler[q]
    BY <1>t, <2>2 DEF TypeOK
  <2> HIDE DEF b, rec
  <2>7. FreshInv'
    BY <1>t, <1>i, <2>2, <2>3, <2>4 DEF FreshInv, TypeOK, Id
  <2>8. StoredInv'
    BY <1>i, <2>2, <2>4 DEF StoredInv
  <2>9. RecordInv'
    <3> SUFFICES ASSUME NEW a \in Address, HasRecord(a)'
                 PROVE  RecordAgrees(a)'
      BY DEF RecordInv
    <3>1. a # b /\ records'[a] = records[a] /\ HasRecord(a) /\ records[a] \in CodeRecord
      BY <2>5, <1>t DEF HasRecord, TypeOK
    <3>2. RecordAgrees(a) /\ records[a].id \in Id
      BY <3>1, <1>i DEF RecordInv, CodeRecord
    <3>3. records[a].id # rec.id
      BY <3>1, <3>2, <2>3 DEF RecordAgrees
    <3> QED
      BY <3>1, <3>2, <3>3, <2>2, <2>4 DEF RecordAgrees, Recognizes
  <2>10. HandlerInv'
    BY <1>i, <2>2, <2>3, <2>6 DEF HandlerInv, Recognizes
  <2>11. TokenInv'
    BY <1>t, <1>i, <2>2, <2>3, <2>4, <2>6, HandlerKind
       DEF TokenInv, SessionInv, Tokening, TypeOK, Session
  <2>12. SessionInv'
    BY <1>t, <1>i, <2>2, <2>3, <2>4 DEF SessionInv, TypeOK, Session
  <2> QED
    BY <1>t, <2>7, <2>8, <2>9, <2>10, <2>11, <2>12 DEF IInv
<1>11. ASSUME NEW r \in Request, IssueToken(r)
      PROVE IInv'
  <2> USE <1>11 DEF IssueToken, history
  <2>1. FreshInv' /\ StoredInv'
    BY <1>t, <1>i, <1>n, HistoryFrame
  <2>2. RecordInv'
    BY <1>i, RecordFrame
  <2>3. \A q \in Request : handler'[q] = IF q = r THEN Idle ELSE handler[q]
    BY <1>t DEF TypeOK
  <2>4. HandlerInv'
    BY <1>i, <2>3 DEF HandlerInv, Idle, Recognizes
  <2>5. TokenInv'
    BY <1>i, <2>3 DEF TokenInv, Idle
  <2>6. SessionInv'
    BY <1>i DEF SessionInv, TokenInv
  <2> QED
    BY <1>t, <2>1, <2>2, <2>4, <2>5, <2>6 DEF IInv
<1>12. ASSUME NEW r \in Request, IssueTokenFails(r)
      PROVE IInv'
  <2> USE <1>12 DEF IssueTokenFails, history
  <2>1. FreshInv' /\ StoredInv'
    BY <1>t, <1>i, <1>n, HistoryFrame
  <2>2. RecordInv'
    BY <1>t, <1>i, RecordFrame
  <2>3. HandlerInv' /\ TokenInv' /\ SessionInv'
    BY <1>t, <1>i, HandlerDone
  <2> QED
    BY <1>t, <2>1, <2>2, <2>3 DEF IInv
<1>13. CASE Tick
  <2> USE <1>13 DEF Tick, history
  <2>1. now' \in Nat /\ now <= now'
    BY <1>n
  <2>2. FreshInv' /\ StoredInv'
    BY <1>t, <1>i, <2>1, HistoryFrame
  <2>3. RecordInv'
    BY <1>i, RecordFrame
  <2>4. HandlerInv'
    <3>1. \A q \in Request : handler[q].pc \in {"issue", "consume"} => handler[q].at \in Nat
      BY <1>t, HandlerKind DEF Issuing, Consuming
    <3>2. handler' = handler /\ users' = users
      OBVIOUS
    <3> QED
      BY <1>i, <1>n, <2>1, <3>1, <3>2 DEF HandlerInv, Recognizes
  <2>5. TokenInv' /\ SessionInv'
    BY <1>i DEF TokenInv, SessionInv
  <2> QED
    BY <1>t, <2>2, <2>3, <2>4, <2>5 DEF IInv
<1>14. ASSUME NEW m \in UserMaps, Restart(m)
      PROVE IInv'
  <2> USE <1>14 DEF Restart
  <2>1. \A i \in Id : Outstanding(i) => i <= serial
    BY <1>i DEF Outstanding, RecordInv, RecordAgrees
  <2>2. FreshInv'
    BY <1>t, <1>i, <2>1 DEF FreshInv, TypeOK, Id
  <2>3. StoredInv'
    BY <1>i DEF StoredInv
  <2>4. RecordInv'
    BY DEF RecordInv, HasRecord
  <2>5. HandlerInv' /\ TokenInv'
    BY DEF HandlerInv, TokenInv, Idle
  <2>6. SessionInv'
    BY <1>i DEF SessionInv
  <2> QED
    BY <1>t, <2>2, <2>3, <2>4, <2>5, <2>6 DEF IInv
<1>15. CASE UNCHANGED vars
  <2> USE <1>15 DEF vars, history
  <2>1. FreshInv' /\ StoredInv'
    BY <1>t, <1>i, <1>n, HistoryFrame
  <2>2. RecordInv'
    BY <1>i, RecordFrame
  <2>3. HandlerInv' /\ TokenInv' /\ SessionInv'
    BY <1>i DEF HandlerInv, TokenInv, SessionInv, Recognizes
  <2> QED
    BY <1>t, <2>1, <2>2, <2>3 DEF IInv
<1> QED
  BY <1>1, <1>2, <1>3, <1>4, <1>5, <1>6, <1>7, <1>8, <1>9, <1>10, <1>11, <1>12,
     <1>13, <1>14, <1>15 DEF Next, RequestCode, VerifyCode

(* The store, the handlers, the sessions and the history fit together in   *)
(* every reachable state.                                                  *)
THEOREM Invariance == Spec => []IInv
BY IInvInit, IInvStep, PTL DEF Spec

(* service.go:177-181: roleFor finds every address it is asked about.      *)
THEOREM LookupAlwaysSucceeds == Spec => []LookupSucceeds
<1>1. IInv => LookupSucceeds
  <2> SUFFICES ASSUME IInv, NEW r \in Request, handler[r].pc = "token"
               PROVE  RoleFor(handler[r].address) \in Role
    BY DEF LookupSucceeds
  <2>1. Recognizes(handler[r].address) /\ users \in UserMaps
    BY DEF IInv, HandlerInv, TypeOK
  <2>2. PICK D \in SUBSET Address : users \in [D -> Role]
    BY <2>1, SignInAssumption
  <2> QED
    BY <2>1, <2>2 DEF Recognizes, RoleFor, Role
<1> QED
  BY <1>1, Invariance, PTL

(* service.go:104, 163, 177-187: a session belongs to its code's address,  *)
(* with the role that the running USERS setting gives it.                  *)
THEOREM GrantsAsConfigured == Spec => GrantedAsConfigured
<1> DEFINE Granted == \A s \in sessions' \ sessions :
         /\ s.email = owner[s.id]
         /\ DOMAIN users = {} => s.role = "admin"
         /\ DOMAIN users # {} => s.email \in DOMAIN users /\ s.role = users[s.email]
<1>1. IInv /\ [Next]_vars => [Granted]_vars
  <2> SUFFICES ASSUME IInv, [Next]_vars, NEW s \in sessions' \ sessions
               PROVE  /\ s.email = owner[s.id]
                      /\ DOMAIN users = {} => s.role = "admin"
                      /\ DOMAIN users # {} =>
                           s.email \in DOMAIN users /\ s.role = users[s.email]
    OBVIOUS
  <2>1. PICK r \in Request : IssueToken(r)
    BY DEF Next, RequestCode, VerifyCode, BeginRequestCode, IssueTooSoon, IssueStored,
         SendAccepted, SendFailed, BeginVerifyCode, ConsumeUnknown, ConsumeExpired,
         ConsumeWrong, ConsumeRight, IssueTokenFails, Tick, Restart, vars, history
  <2>2. /\ handler[r].pc = "token"
        /\ s = [id |-> handler[r].id, email |-> handler[r].address,
                role |-> RoleFor(handler[r].address)]
    BY <2>1 DEF IssueToken
  <2>3. owner[handler[r].id] = handler[r].address
    BY <2>2 DEF IInv, TokenInv
  <2>4. Recognizes(handler[r].address)
    BY <2>2 DEF IInv, HandlerInv
  <2>5. /\ s.id = handler[r].id /\ s.email = handler[r].address
        /\ s.role = RoleFor(handler[r].address)
    BY <2>2
  <2> QED
    BY <2>3, <2>4, <2>5 DEF Recognizes, RoleFor
<1> QED
  BY <1>1, Invariance, PTL DEF Spec, GrantedAsConfigured

-----------------------------------------------------------------------------
(* The cooldown between two codes, and the time within which a code is     *)
(* redeemed.                                                               *)

(* What every step does to the codes stored before it.                     *)
HistoryGrows ==
    /\ now <= now'
    /\ lost \subseteq lost'
    /\ serial \in Nat /\ serial' \in Nat /\ serial <= serial'
    /\ \A i \in 1 .. serial :
         /\ owner'[i] = owner[i]
         /\ issuedAt'[i] = issuedAt[i]
         /\ redeemed[i] <= redeemed'[i]
         /\ wrong[i] <= wrong'[i]

LEMMA PurgeValue ==
    ASSUME TypeOK, NEW t, NEW a \in Address
    PROVE  PurgeExpired(t)[a] =
             IF HasRecord(a) /\ t > records[a].expiresAt THEN NoRecord ELSE records[a]
BY DEF PurgeExpired, Expired, TypeOK

LEMMA HistoryGrowth == TypeOK /\ [Next]_vars => HistoryGrows
<1> SUFFICES ASSUME TypeOK, [Next]_vars PROVE HistoryGrows
  OBVIOUS
<1> USE SignInAssumption DEF HistoryGrows
<1>t. TypeOK'
  BY TypeStep
<1>u. /\ now \in Nat /\ now <= now /\ serial \in Nat /\ 1 .. serial \subseteq Id
      /\ \A i \in Id : /\ redeemed[i] \in Nat /\ redeemed[i] <= redeemed[i]
                       /\ wrong[i] \in Nat /\ wrong[i] <= wrong[i]
  BY DEF TypeOK, Id
<1>1. CASE UNCHANGED <<serial, owner, issuedAt, wrong, redeemed>>
           /\ now <= now' /\ lost \subseteq lost'
  BY <1>1, <1>u
<1>2. ASSUME NEW r \in Request, IssueStored(r)
      PROVE HistoryGrows
  BY <1>2, <1>t, <1>u DEF IssueStored, TypeOK
<1>3. ASSUME NEW r \in Request, ConsumeWrong(r)
      PROVE HistoryGrows
  <2>1. records[handler[r].address].id \in Id
    BY <1>3, HandlerKind DEF ConsumeWrong, HasRecord, Consuming, TypeOK, CodeRecord
  <2>2. \A i \in Id : wrong[i] <= wrong'[i]
    BY <1>3, <1>u, <2>1 DEF ConsumeWrong, TypeOK
  <2>3. UNCHANGED <<now, serial, owner, issuedAt, redeemed, lost>>
    BY <1>3 DEF ConsumeWrong
  <2> QED
    BY <1>u, <2>2, <2>3
<1>4. ASSUME NEW r \in Request, ConsumeRight(r)
      PROVE HistoryGrows
  <2>1. records[handler[r].address].id \in Id
    BY <1>4, HandlerKind DEF ConsumeRight, HasRecord, Consuming, TypeOK, CodeRecord
  <2>2. \A i \in Id : redeemed[i] <= redeemed'[i]
    BY <1>4, <1>u, <2>1 DEF ConsumeRight, TypeOK
  <2> QED
    BY <1>4, <1>u, <2>2 DEF ConsumeRight
<1> QED
  BY <1>1, <1>2, <1>3, <1>4, <1>u
     DEF Next, RequestCode, VerifyCode, BeginRequestCode, IssueTooSoon, SendAccepted,
         SendFailed, BeginVerifyCode, ConsumeUnknown, ConsumeExpired, IssueToken,
         IssueTokenFails, Tick, Restart, vars, history

(* A settled code stays settled, a replaced one stays replaced.            *)
LEMMA SettledStays ==
    ASSUME TypeOK, TypeOK', HistoryGrows, NEW i \in 1 .. serial
    PROVE  /\ Settled(i) => Settled(i)'
           /\ \A k \in 1 .. serial : ReplacedBy(k, i) => ReplacedBy(k, i)'
<1>1. /\ i \in Id /\ redeemed[i] \in Nat /\ redeemed'[i] \in Nat
      /\ wrong[i] \in Nat /\ wrong'[i] \in Nat /\ now \in Nat /\ now' \in Nat
      /\ issuedAt[i] \in Nat /\ MaxAttempts \in Nat /\ CodeTTL \in Nat
  BY SignInAssumption DEF TypeOK, Id
<1>2. Settled(i) => Settled(i)'
  BY <1>1 DEF Settled, HistoryGrows
<1>3. \A k \in 1 .. serial : ReplacedBy(k, i) => ReplacedBy(k, i)'
  BY DEF ReplacedBy, HistoryGrows
<1> QED
  BY <1>2, <1>3

(* A step takes a code out of the store only by settling it, or by storing *)
(* its replacement after the cooldown.                                     *)
LEMMA LeavesProperly ==
    ASSUME IInv, [Next]_vars, NEW i \in 1 .. serial, Outstanding(i)
    PROVE  \/ Outstanding(i)'
           \/ Settled(i)'
           \/ \E k \in 1 .. serial' : ReplacedBy(k, i)'
<1> USE SignInAssumption
<1>t. TypeOK /\ TypeOK' /\ HistoryGrows
  BY TypeStep, HistoryGrowth DEF IInv
<1>a. PICK a \in Address : HasRecord(a) /\ records[a].id = i
  BY DEF Outstanding
<1>b. /\ records[a] \in CodeRecord
      /\ RecordAgrees(a)
      /\ HandlerInv
      /\ i \in Id
  BY <1>a, <1>t DEF IInv, RecordInv, TypeOK, HasRecord, CodeRecord
<1>c. /\ records[a].expiresAt = issuedAt[i] + CodeTTL
      /\ records[a].issuedAt = issuedAt[i]
      /\ issuedAt'[i] = issuedAt[i] /\ issuedAt[i] \in Nat
      /\ owner[i] = a /\ owner'[i] = a
  BY <1>a, <1>b, <1>t DEF RecordAgrees, HistoryGrows, TypeOK
<1>1. HasRecord(a)' /\ records'[a].id = i => Outstanding(i)'
  BY DEF Outstanding
<1>2. ASSUME NEW t \in Nat, t > records[a].expiresAt, t <= now
      PROVE  Settled(i)'
  BY <1>2, <1>c, <1>t DEF Settled, HistoryGrows, TypeOK
<1>3. ASSUME NEW r \in Request, IssueTooSoon(r), ~Outstanding(i)'
      PROVE  Settled(i)'
  <2>1. handler[r].at \in Nat /\ handler[r].at <= now
    BY <1>3, <1>t, <1>b, HandlerKind DEF IssueTooSoon, HandlerInv, Issuing
  <2>2. records'[a] = PurgeExpired(handler[r].at)[a]
    BY <1>3 DEF IssueTooSoon
  <2>3. handler[r].at > records[a].expiresAt
    BY <1>1, <1>3, <1>a, <1>t, <2>2, PurgeValue DEF HasRecord
  <2> QED
    BY <1>2, <2>1, <2>3
<1>4. ASSUME NEW r \in Request, IssueStored(r), ~Outstanding(i)'
      PROVE  Settled(i)' \/ \E k \in 1 .. serial' : ReplacedBy(k, i)'
  <2> DEFINE h == handler[r]
  <2>1. /\ h.at \in Nat /\ h.at <= now /\ h.address \in Address
        /\ serial + 1 \in Id
    BY <1>4, <1>t, <1>b, HandlerKind DEF IssueStored, HandlerInv, Issuing, Id, TypeOK
  <2>2. a # h.address => records'[a] = PurgeExpired(h.at)[a]
    BY <1>4, <1>t, PurgeType DEF IssueStored
  <2>3. CASE PurgeExpired(h.at)[a] = NoRecord
    BY <2>3, <2>1, <1>2, <1>a, <1>t, PurgeValue DEF HasRecord
  <2>4. CASE PurgeExpired(h.at)[a] # NoRecord
    <3>1. PurgeExpired(h.at)[a] = records[a]
      BY <2>4, <1>t, PurgeValue
    <3>2. a = h.address
      BY <3>1, <2>2, <1>1, <1>4, <1>a DEF HasRecord
    <3>3. h.at - issuedAt[i] >= ResendAfter
      BY <3>2, <2>1, <2>4, <1>c, <1>4 DEF IssueStored, TooSoon
    <3>4. /\ serial' = serial + 1
          /\ owner'[serial + 1] = a
          /\ issuedAt'[serial + 1] = h.at
      BY <1>4, <1>t, <2>1, <3>2 DEF IssueStored, TypeOK
    <3>5. \A k \in Id : k = serial + 1 => ReplacedBy(k, i)'
      BY <3>3, <3>4, <2>1, <1>c, <1>t DEF ReplacedBy, TypeOK
    <3>6. serial + 1 \in 1 .. serial'
      BY <3>4, <1>t DEF HistoryGrows
    <3> QED
      BY <3>5, <3>6, <2>1
  <2> QED
    BY <2>3, <2>4
<1>5. ASSUME NEW r \in Request, ConsumeExpired(r), ~Outstanding(i)'
      PROVE  Settled(i)'
  <2>1. handler[r].at \in Nat /\ handler[r].at <= now
    BY <1>5, <1>t, <1>b, HandlerKind DEF ConsumeExpired, HandlerInv, Consuming
  <2>2. handler[r].address = a
    BY <1>1, <1>5, <1>a, <1>t DEF ConsumeExpired, TypeOK, HasRecord
  <2> QED
    BY <2>1, <2>2, <1>2, <1>5 DEF ConsumeExpired, Expired
<1>6. ASSUME NEW r \in Request, ConsumeWrong(r), ~Outstanding(i)'
      PROVE  Settled(i)'
  <2>1. handler[r].address = a
    BY <1>1, <1>6, <1>a, <1>t DEF ConsumeWrong, TypeOK, HasRecord
  <2>2. wrong'[i] = records[a].attempts + 1 /\ records[a].attempts \in Nat
    BY <2>1, <1>6, <1>a, <1>b, <1>t DEF ConsumeWrong, RecordAgrees, TypeOK, CodeRecord
  <2>3. records[a].attempts + 1 >= MaxAttempts
    <3> SUFFICES ASSUME ~(records[a].attempts + 1 >= MaxAttempts)
                 PROVE  FALSE
      OBVIOUS
    <3>1. records'[a] = [records[a] EXCEPT !.attempts = records[a].attempts + 1]
      BY <2>1, <1>6, <1>t DEF ConsumeWrong, Charged, TypeOK
    <3>2. records'[a] \in CodeRecord /\ records'[a].id = i
      BY <3>1, <1>a, <1>b, <2>2 DEF CodeRecord
    <3> QED
      BY <3>2, <1>1, <1>6 DEF HasRecord
  <2> QED
    BY <2>2, <2>3 DEF Settled
<1>7. ASSUME NEW r \in Request, ConsumeRight(r), ~Outstanding(i)'
      PROVE  Settled(i)'
  <2>1. handler[r].address = a
    BY <1>1, <1>7, <1>a, <1>t DEF ConsumeRight, TypeOK, HasRecord
  <2>2. redeemed'[i] = 1
    BY <2>1, <1>7, <1>a, <1>b, <1>t DEF ConsumeRight, RecordAgrees, TypeOK
  <2> QED
    BY <2>2 DEF Settled
<1>8. ASSUME NEW m \in UserMaps, Restart(m)
      PROVE  Settled(i)'
  BY <1>8, <1>b DEF Restart, Settled
<1> QED
  BY <1>1, <1>3, <1>4, <1>5, <1>6, <1>7, <1>8, <1>a
     DEF Next, RequestCode, VerifyCode, BeginRequestCode, SendAccepted,
         SendFailed, BeginVerifyCode, ConsumeUnknown, IssueToken,
         IssueTokenFails, Tick, vars, HasRecord

LEMMA CooldownStep == IInv /\ CooldownInv /\ [Next]_vars => CooldownInv'
<1> SUFFICES ASSUME IInv, CooldownInv, [Next]_vars PROVE CooldownInv'
  OBVIOUS
<1> USE SignInAssumption
<1>t. TypeOK /\ TypeOK' /\ HistoryGrows /\ AccountedFor /\ CooldownUnlessSettled
  BY TypeStep, HistoryGrowth DEF IInv, CooldownInv
(* A step that stores a code stores exactly one.                           *)
<1>s. \/ serial' = serial
      \/ /\ serial' = serial + 1
         /\ \E r \in Request : IssueStored(r)
  BY ZenonT(30) DEF Next, RequestCode, VerifyCode, BeginRequestCode, IssueTooSoon, IssueStored,
         SendAccepted, SendFailed, BeginVerifyCode, ConsumeUnknown, ConsumeExpired,
         ConsumeWrong, ConsumeRight, IssueToken, IssueTokenFails, Tick, Restart, vars,
         history
<1>1. AccountedFor'
  <2> SUFFICES ASSUME NEW i \in 1 .. serial'
               PROVE  \/ Outstanding(i)'
                      \/ Settled(i)'
                      \/ \E k \in 1 .. serial' : ReplacedBy(k, i)'
    BY DEF AccountedFor
  <2>1. CASE i \in 1 .. serial
    <3>1. CASE Outstanding(i)
      BY <2>1, <3>1, LeavesProperly
    <3>2. CASE Settled(i)
      BY <2>1, <3>2, <1>t, SettledStays
    <3>3. ASSUME NEW k \in 1 .. serial, ReplacedBy(k, i)
          PROVE  \E j \in 1 .. serial' : ReplacedBy(j, i)'
      <4>1. ReplacedBy(k, i)' /\ k \in 1 .. serial'
        BY <2>1, <3>3, <1>t, SettledStays DEF HistoryGrows
      <4> QED
        BY <4>1
    <3> QED
      BY <2>1, <3>1, <3>2, <3>3, <1>t DEF AccountedFor
  <2>2. CASE i \notin 1 .. serial
    <3>1. PICK r \in Request : IssueStored(r)
      BY <2>2, <1>s
    <3>2. i = serial + 1
      BY <2>2, <3>1, <1>t DEF IssueStored, HistoryGrows
    <3>3. PICK b \in Address : b = handler[r].address
      BY <3>1, <1>t, HandlerKind DEF IssueStored, Issuing
    <3> DEFINE rec == [hash |-> <<b, handler[r].code>>, issuedAt |-> handler[r].at,
                       expiresAt |-> handler[r].at + CodeTTL, attempts |-> 0,
                       id |-> serial + 1]
    <3>4. rec \in CodeRecord
      <4>1. handler[r] \in Issuing
        BY <3>1, <1>t, HandlerKind DEF IssueStored
      <4>2. serial + 1 \in Id
        BY <3>1, <1>t DEF IssueStored, HistoryGrows, Id
      <4> QED
        BY <3>3, <4>1, <4>2 DEF Issuing, CodeRecord, Hash
    <3>5. records'[b] = rec
      BY <3>1, <3>3, <1>t, PurgeType DEF IssueStored
    <3> QED
      BY <3>2, <3>4, <3>5 DEF Outstanding, HasRecord
  <2> QED
    BY <2>1, <2>2
<1>2. CooldownUnlessSettled'
  <2> SUFFICES ASSUME NEW i \in 1 .. serial', NEW j \in 1 .. serial',
                      i < j, owner'[i] = owner'[j],
                      issuedAt'[j] < issuedAt'[i] + ResendAfter
               PROVE  \/ Settled(i)'
                      \/ \E k \in 1 .. serial' : k < j /\ ReplacedBy(k, i)'
    BY DEF CooldownUnlessSettled
  <2>1. i \in 1 .. serial
    BY <1>s, <1>t DEF HistoryGrows
  (* The codes that replaced i before still do. *)
  <2>2. ASSUME NEW k \in 1 .. serial, k < j, ReplacedBy(k, i)
        PROVE  \E l \in 1 .. serial' : l < j /\ ReplacedBy(l, i)'
    <3>1. ReplacedBy(k, i)' /\ k \in 1 .. serial'
      BY <2>1, <2>2, <1>t, SettledStays DEF HistoryGrows
    <3> QED
      BY <2>2, <3>1
  <2>3. Settled(i) => Settled(i)'
    BY <2>1, <1>t, SettledStays
  <2>4. CASE j \in 1 .. serial
    <3>1. owner[i] = owner[j] /\ issuedAt[j] < issuedAt[i] + ResendAfter
      BY <2>1, <2>4, <1>t DEF HistoryGrows
    <3> QED
      BY <2>1, <2>2, <2>3, <2>4, <3>1, <1>t DEF CooldownUnlessSettled
  <2>5. CASE j \notin 1 .. serial
    <3>1. PICK r \in Request : IssueStored(r)
      BY <2>5, <1>s
    <3> DEFINE h == handler[r]
    <3>2. j = serial + 1 /\ serial + 1 \in Id
      BY <2>5, <3>1, <1>t DEF IssueStored, HistoryGrows, TypeOK, Id
    <3>3. h.address \in Address /\ h.at \in Nat /\ h.at <= now
      BY <3>1, <1>t, HandlerKind DEF IssueStored, Issuing, IInv, HandlerInv
    <3>4. owner[i] = h.address /\ h.at < issuedAt[i] + ResendAfter
      BY <2>1, <3>1, <3>2, <1>t DEF IssueStored, HistoryGrows, TypeOK
    <3>5. CASE Outstanding(i)
      <4>1. HasRecord(h.address) /\ records[h.address].id = i
        BY <3>4, <3>5 DEF Outstanding, IInv, RecordInv, RecordAgrees
      <4>2. /\ records[h.address].issuedAt = issuedAt[i] /\ issuedAt[i] \in Nat
            /\ records[h.address].expiresAt = issuedAt[i] + CodeTTL
            /\ issuedAt'[i] = issuedAt[i]
        <5>1. RecordAgrees(h.address)
          BY <3>3, <4>1 DEF IInv, RecordInv
        <5>2. issuedAt[i] \in Nat
          BY <2>1, <1>t DEF TypeOK, Id
        <5> QED
          BY <2>1, <4>1, <5>1, <5>2, <1>t DEF RecordAgrees, HistoryGrows
      <4>3. PurgeExpired(h.at)[h.address] = NoRecord
        <5>1. ~TooSoon(h.address, h.at)
          BY <3>1 DEF IssueStored
        <5>2. h.at - records[h.address].issuedAt < ResendAfter
          BY <3>3, <3>4, <4>2
        <5> QED
          BY <5>1, <5>2 DEF TooSoon
      <4>4. h.at > issuedAt[i] + CodeTTL
        BY <4>1, <4>2, <4>3, <3>3, <1>t, PurgeValue DEF HasRecord
      <4> QED
        BY <4>2, <4>4, <3>3, <1>t DEF Settled, HistoryGrows, TypeOK
    <3>6. ASSUME NEW k \in 1 .. serial, ReplacedBy(k, i)
          PROVE  \E l \in 1 .. serial' : l < j /\ ReplacedBy(l, i)'
      BY <2>2, <3>2, <3>6, <1>t DEF HistoryGrows
    <3> QED
      BY <2>1, <2>3, <3>5, <3>6, <1>t DEF AccountedFor
  <2> QED
    BY <2>4, <2>5
<1> QED
  BY <1>1, <1>2 DEF CooldownInv

LEMMA CooldownInvariance == Spec => []CooldownInv
<1>1. Init => CooldownInv
  BY DEF Init, CooldownInv, AccountedFor, CooldownUnlessSettled
<1> QED
  BY <1>1, Invariance, CooldownStep, PTL DEF Spec

(* codes.go:76-80: two codes stored for one address within the cooldown    *)
(* mean that the first was settled or properly replaced.                   *)
THEOREM CooldownHolds == Spec => []CooldownUnlessSettled
<1>1. CooldownInv => CooldownUnlessSettled
  BY DEF CooldownInv
<1> QED
  BY <1>1, CooldownInvariance, PTL

(* codes.go:82-88, 91-128: a code leaves the store only when it is settled *)
(* (redeemed, guessed out, expired, lost with the process) or replaced     *)
(* after its cooldown; none ever disappears for another reason.            *)
THEOREM CodesAccountedFor == Spec => []AccountedFor
<1>1. CooldownInv => AccountedFor
  BY DEF CooldownInv
<1> QED
  BY <1>1, CooldownInvariance, PTL

(* codes.go:99-102: a code is redeemed only by a request that reached the  *)
(* server within CodeTTL of its issue, and never after a restart.          *)
THEOREM RedemptionInTime == Spec => RedeemedInTime
<1> DEFINE InTime == \A i \in Id : redeemed'[i] # redeemed[i] =>
         /\ i \notin lost
         /\ \E r \in Request : /\ handler[r].pc = "consume"
                               /\ handler[r].address = owner[i]
                               /\ handler[r].at <= issuedAt[i] + CodeTTL
<1>1. IInv /\ [Next]_vars => [InTime]_vars
  <2> SUFFICES ASSUME IInv, [Next]_vars, NEW i \in Id, redeemed'[i] # redeemed[i]
               PROVE  /\ i \notin lost
                      /\ \E r \in Request : /\ handler[r].pc = "consume"
                                            /\ handler[r].address = owner[i]
                                            /\ handler[r].at <= issuedAt[i] + CodeTTL
    OBVIOUS
  <2>1. PICK r \in Request : ConsumeRight(r)
    BY DEF Next, RequestCode, VerifyCode, BeginRequestCode, IssueTooSoon, IssueStored,
         SendAccepted, SendFailed, BeginVerifyCode, ConsumeUnknown, ConsumeExpired,
         ConsumeWrong, IssueToken, IssueTokenFails, Tick, Restart, vars, history
  <2> DEFINE b == handler[r].address
  <2>2. /\ handler[r].pc = "consume" /\ HasRecord(b) /\ b \in Address
        /\ handler[r].at \in Nat /\ ~Expired(records[b], handler[r].at)
        /\ redeemed' = [redeemed EXCEPT ![records[b].id] = @ + 1]
    BY <2>1, HandlerKind DEF ConsumeRight, Consuming, IInv
  <2>3. RecordAgrees(b) /\ records[b] \in CodeRecord
    BY <2>2 DEF IInv, RecordInv, TypeOK, HasRecord
  <2>4. i = records[b].id
    BY <2>2, <2>3 DEF IInv, TypeOK, CodeRecord
  <2>5. handler[r].at <= issuedAt[i] + CodeTTL
    BY <2>2, <2>3, <2>4, SignInAssumption DEF RecordAgrees, Expired, IInv, TypeOK
  <2> QED
    BY <2>2, <2>3, <2>4, <2>5 DEF RecordAgrees
<1> QED
  BY <1>1, Invariance, PTL DEF Spec, RedeemedInTime
-----------------------------------------------------------------------------
(* SignIn implements SignInPromise: every step of the code store and of    *)
(* the handlers is a step of the promise, or leaves it unchanged.          *)

(* Codes that the step takes out of the store.                             *)
Leaving == {i \in Id : Outstanding(i) /\ ~Outstanding(i)'}

(* In a reachable state exactly the codes in the store are live.           *)
LEMMA LiveIsOutstanding ==
    ASSUME IInv, NEW i \in Id
    PROVE  /\ Outstanding(i) <=> Fate(i) = "live"
           /\ Outstanding(i) => i <= serial /\ redeemed[i] = 0
           /\ \A a \in Address : HasRecord(a) /\ records[a].id = i => owner[i] = a
<1>1. serial \in Nat /\ i \in Nat
  BY SignInAssumption DEF IInv, TypeOK, Id
<1>2. \A a \in Address : HasRecord(a) /\ records[a].id = i =>
        i <= serial /\ redeemed[i] = 0 /\ owner[i] = a
  BY DEF IInv, RecordInv, RecordAgrees
<1>3. Outstanding(i) => i <= serial /\ redeemed[i] = 0
  BY <1>2 DEF Outstanding
<1> QED
  BY <1>1, <1>2, <1>3 DEF Fate

LEMMA PromiseInit == Init => Promise!Init
<1> SUFFICES ASSUME Init PROVE Promise!Init
  OBVIOUS
<1>1. \A i \in Id : Fate(i) = "unissued"
  BY DEF Init, Fate, Id
<1> QED
  BY <1>1 DEF Init, Promise!Init

(* The promise does not see a step that leaves these variables alone.      *)
LEMMA PromiseFrame ==
    ASSUME UNCHANGED <<records, serial, redeemed, owner, wrong, sessions>>
    PROVE  UNCHANGED Promise!promiseVars
BY DEF Promise!promiseVars, Fate, Outstanding, HasRecord

(* Dropping entries of the store discards the codes they hold.             *)
LEMMA PromiseDrop ==
    ASSUME IInv, UNCHANGED <<serial, redeemed, owner, wrong, sessions>>,
           \A a \in Address : records'[a] \in {records[a], NoRecord}
    PROVE  Promise!Next
<1>1. \A i \in Id : Outstanding(i)' => Outstanding(i)
  BY DEF Outstanding, HasRecord
<1>2. \A i \in Id : Fate(i)' = IF i \in Leaving THEN "dead" ELSE Fate(i)
  BY <1>1, LiveIsOutstanding DEF Leaving, Fate
<1>3. Leaving \in SUBSET Promise!Live
  BY LiveIsOutstanding DEF Leaving, Promise!Live
<1>4. Promise!Discard(Leaving)
  BY <1>2 DEF Promise!Discard
<1> QED
  BY <1>3, <1>4 DEF Promise!Next

LEMMA PromiseStep == IInv /\ IInv' /\ [Next]_vars => [Promise!Next]_Promise!promiseVars
<1> SUFFICES ASSUME IInv, IInv', [Next]_vars
             PROVE  Promise!Next \/ UNCHANGED Promise!promiseVars
  OBVIOUS
<1> USE SignInAssumption
<1>t. TypeOK /\ TypeOK'
  BY DEF IInv
<1>1. ASSUME NEW r \in Request, IssueTooSoon(r)
      PROVE  Promise!Next
  <2>1. \A a \in Address : records'[a] \in {records[a], NoRecord}
    BY <1>1, <1>t, PurgeType DEF IssueTooSoon
  <2> QED
    BY <1>1, <2>1, PromiseDrop DEF IssueTooSoon, history
<1>2. ASSUME NEW r \in Request, IssueStored(r)
      PROVE  Promise!Next
  <2>0. PICK new \in Id : new = serial + 1
    BY <1>2, <1>t DEF IssueStored, TypeOK, Id
  <2> DEFINE h == handler[r]
             rec == [hash |-> <<h.address, h.code>>, issuedAt |-> h.at,
                     expiresAt |-> h.at + CodeTTL, attempts |-> 0, id |-> new]
  <2>1. PICK b \in Address : b = h.address
    BY <1>2, <1>t, HandlerKind DEF IssueStored, Issuing
  <2>2. /\ serial' = new /\ serial \in Nat
        /\ owner' = [owner EXCEPT ![new] = b]
        /\ UNCHANGED <<wrong, redeemed, sessions>>
    BY <1>2, <1>t, <2>0, <2>1 DEF IssueStored, TypeOK
  <2>3. \A a \in Address : IF a = b THEN records'[a] = rec
                          ELSE records'[a] \in {records[a], NoRecord}
    BY <1>2, <1>t, <2>0, <2>1, PurgeType DEF IssueStored
  <2>4. rec # NoRecord /\ rec.id = new
    <3>1. h \in Issuing
      BY <1>2, <1>t, HandlerKind DEF IssueStored
    <3> QED
      BY <3>1 DEF Issuing, CodeRecord, Hash
  <2> HIDE DEF rec, h
  <2>5. \A i \in Id : i # new /\ Outstanding(i)' => Outstanding(i)
    BY <2>3, <2>4 DEF Outstanding, HasRecord
  <2>6. Fate(new) = "unissued"
    BY <2>0, <2>2 DEF Fate, Id
  <2>7. Fate(new)' = "live"
    <3>1. Outstanding(new)'
      BY <2>3, <2>4, <2>1 DEF Outstanding, HasRecord
    <3>2. redeemed'[new] = 0
      BY <2>0, <2>2 DEF IInv, FreshInv, Id
    <3> QED
      BY <2>0, <2>2, <3>1, <3>2 DEF Fate, Id
  <2>8. \A i \in Id : Outstanding(i) /\ owner[i] = b => i \in Leaving
    <3> SUFFICES ASSUME NEW i \in Id, Outstanding(i), owner[i] = b, Outstanding(i)'
                 PROVE  FALSE
      BY DEF Leaving
    <3>1. i # new
      BY <2>0, <2>2, LiveIsOutstanding DEF Id
    <3>2. PICK a \in Address : records'[a] # NoRecord /\ records'[a].id = i
      BY DEF Outstanding, HasRecord
    <3>3. a # b /\ records'[a] = records[a]
      BY <2>3, <2>4, <3>1, <3>2
    <3> QED
      BY <3>2, <3>3, LiveIsOutstanding DEF HasRecord
  <2>9. \A i \in Id : i # new =>
          Fate(i)' = IF i \in Leaving THEN "dead" ELSE Fate(i)
    <3> SUFFICES ASSUME NEW i \in Id, i # new
                 PROVE  Fate(i)' = IF i \in Leaving THEN "dead" ELSE Fate(i)
      OBVIOUS
    <3>1. i > serial' <=> i > serial
      BY <2>0, <2>2 DEF Id
    <3>2. redeemed'[i] = redeemed[i]
      BY <2>2
    <3>3. i \in Leaving => i <= serial /\ redeemed[i] = 0 /\ ~Outstanding(i)'
      BY LiveIsOutstanding DEF Leaving
    <3>4. i \notin Leaving => (Outstanding(i)' <=> Outstanding(i))
      BY <2>5 DEF Leaving
    <3> QED
      BY <2>2, <3>1, <3>2, <3>3, <3>4 DEF Fate, Id
  <2>10. Leaving \in SUBSET Promise!Live
    BY LiveIsOutstanding DEF Leaving, Promise!Live
  <2>11. Promise!Issue(new, b, Leaving)
    <3>1. \A i \in Id : i \in Promise!Live <=> Outstanding(i)
      BY LiveIsOutstanding DEF Promise!Live
    <3> QED
      BY <2>2, <2>6, <2>7, <2>8, <2>9, <3>1 DEF Promise!Issue
  <2> QED
    BY <2>10, <2>11 DEF Promise!Next
<1>3. ASSUME NEW r \in Request, ConsumeExpired(r)
      PROVE  Promise!Next
  <2>1. \A a \in Address : records'[a] \in {records[a], NoRecord}
    BY <1>3, <1>t DEF ConsumeExpired, TypeOK
  <2> QED
    BY <1>3, <2>1, PromiseDrop DEF ConsumeExpired, history
<1>4. ASSUME NEW r \in Request, ConsumeWrong(r)
      PROVE  Promise!Next
  <2>1. PICK b \in Address : b = handler[r].address
    BY <1>4, <1>t, HandlerKind DEF ConsumeWrong, Consuming
  <2>2. HasRecord(b) /\ RecordAgrees(b) /\ records[b] \in CodeRecord
    BY <1>4, <1>t, <2>1 DEF ConsumeWrong, IInv, RecordInv, TypeOK, HasRecord
  <2>3. PICK i \in Id : i = records[b].id
    BY <2>2 DEF CodeRecord
  <2>4. /\ records' = [records EXCEPT ![b] = Charged(records[b])]
        /\ wrong' = [wrong EXCEPT ![i] = @ + 1]
        /\ UNCHANGED <<serial, redeemed, owner, sessions>>
    BY <1>4, <2>1, <2>3 DEF ConsumeWrong
  <2>5. /\ Fate(i) = "live" /\ i <= serial /\ redeemed[i] = 0 /\ owner[i] = b
        /\ serial \in Nat /\ i \in Nat
    <3>1. Outstanding(i)
      BY <2>1, <2>2, <2>3 DEF Outstanding
    <3>2. Fate(i) = "live" /\ i <= serial /\ redeemed[i] = 0 /\ owner[i] = b
      BY <2>1, <2>2, <2>3, <3>1, LiveIsOutstanding
    <3>3. serial \in Nat /\ i \in Nat
      BY <1>t DEF TypeOK, Id
    <3> QED
      BY <3>2, <3>3
  <2>6. wrong[i] = records[b].attempts /\ wrong[i] < MaxAttempts /\ wrong[i] \in Nat
    BY <2>2, <2>3 DEF RecordAgrees, CodeRecord
  <2>7. \A a \in Address : a # b => records'[a] = records[a]
    BY <1>t, <2>4 DEF TypeOK
  <2>8. records'[b] = Charged(records[b])
    BY <1>t, <2>4 DEF TypeOK
  <2>9. Outstanding(i)' <=> wrong[i] + 1 # MaxAttempts
    <3>1. \A a \in Address : a # b => ~(records'[a] # NoRecord /\ records'[a].id = i)
      BY <2>5, <2>7, LiveIsOutstanding DEF HasRecord
    <3>2. CASE wrong[i] + 1 = MaxAttempts
      <4>1. records'[b] = NoRecord
        BY <2>6, <2>8, <3>2 DEF Charged
      <4> QED
        BY <3>1, <3>2, <4>1 DEF Outstanding, HasRecord
    <3>3. CASE wrong[i] + 1 # MaxAttempts
      <4>1. ~(records[b].attempts + 1 >= MaxAttempts)
        BY <2>6, <3>3
      <4>2. records'[b] = [records[b] EXCEPT !.attempts = records[b].attempts + 1]
        BY <2>8, <4>1 DEF Charged
      <4>3. records'[b] \in CodeRecord /\ records'[b].id = i
        BY <2>2, <2>3, <4>2 DEF CodeRecord
      <4> QED
        BY <3>3, <4>3 DEF Outstanding, HasRecord
    <3> QED
      BY <3>2, <3>3
  <2>10. \A j \in Id : j # i => (Outstanding(j)' <=> Outstanding(j))
    <3>1. records'[b] = NoRecord \/ records'[b].id = i
      BY <2>2, <2>3, <2>8 DEF Charged, CodeRecord
    <3> QED
      BY <2>3, <2>7, <3>1 DEF Outstanding, HasRecord
  <2>11. \A j \in Id : j # i => Fate(j)' = Fate(j)
    BY <2>4, <2>10 DEF Fate
  <2>12. Fate(i)' = IF wrong[i] + 1 = MaxAttempts THEN "dead" ELSE "live"
    BY <2>4, <2>5, <2>9 DEF Fate
  <2>13. Promise!Guess(i)
    BY <2>4, <2>5, <2>6, <2>11, <2>12 DEF Promise!Guess
  <2> QED
    BY <2>13 DEF Promise!Next
<1>5. ASSUME NEW r \in Request, ConsumeRight(r)
      PROVE  Promise!Next
  <2>1. PICK b \in Address : b = handler[r].address
    BY <1>5, <1>t, HandlerKind DEF ConsumeRight, Consuming
  <2>2. HasRecord(b) /\ records[b] \in CodeRecord
    BY <1>5, <1>t, <2>1 DEF ConsumeRight, TypeOK, HasRecord
  <2>3. PICK i \in Id : i = records[b].id
    BY <2>2 DEF CodeRecord
  <2>4. /\ records' = [records EXCEPT ![b] = NoRecord]
        /\ redeemed' = [redeemed EXCEPT ![i] = @ + 1]
        /\ UNCHANGED <<serial, wrong, owner, sessions>>
    BY <1>5, <2>1, <2>3 DEF ConsumeRight
  <2>5. /\ Fate(i) = "live" /\ i <= serial /\ redeemed[i] = 0 /\ owner[i] = b
        /\ serial \in Nat /\ i \in Nat
    <3>1. Outstanding(i)
      BY <2>1, <2>2, <2>3 DEF Outstanding
    <3>2. Fate(i) = "live" /\ i <= serial /\ redeemed[i] = 0 /\ owner[i] = b
      BY <2>1, <2>2, <2>3, <3>1, LiveIsOutstanding
    <3>3. serial \in Nat /\ i \in Nat
      BY <1>t DEF TypeOK, Id
    <3> QED
      BY <3>2, <3>3
  <2>6. \A a \in Address : records'[a] = IF a = b THEN NoRecord ELSE records[a]
    BY <1>t, <2>4 DEF TypeOK
  <2>7. \A j \in Id : redeemed'[j] = IF j = i THEN 1 ELSE redeemed[j]
    BY <1>t, <2>4, <2>5 DEF TypeOK
  <2>8. Fate(i)' = "redeemed"
    BY <2>4, <2>5, <2>7 DEF Fate
  <2>9. \A j \in Id : j # i => (Outstanding(j)' <=> Outstanding(j))
    BY <2>3, <2>6 DEF Outstanding, HasRecord
  <2>10. \A j \in Id : j # i => Fate(j)' = Fate(j)
    BY <2>4, <2>7, <2>9 DEF Fate
  <2>11. Promise!Redeem(i)
    BY <2>4, <2>5, <2>8, <2>10 DEF Promise!Redeem
  <2> QED
    BY <2>11 DEF Promise!Next
<1>6. ASSUME NEW r \in Request, IssueToken(r)
      PROVE  Promise!Next
  <2>1. PICK i \in Id : i = handler[r].id
    BY <1>6, <1>t, HandlerKind DEF IssueToken, Tokening
  <2>2. /\ redeemed[i] = 1 /\ owner[i] = handler[r].address
        /\ \A s \in sessions : s.id # i
    <3>1. TokenInv /\ handler[r].pc = "token"
      BY <1>6 DEF IssueToken, IInv
    <3> QED
      BY <2>1, <3>1 DEF TokenInv
  <2>3. /\ sessions' = sessions \cup {[id |-> i, email |-> handler[r].address,
                                     role |-> RoleFor(handler[r].address)]}
        /\ UNCHANGED <<records, serial, redeemed, owner, wrong>>
    BY <1>6, <2>1 DEF IssueToken, history
  <2>4. i <= serial /\ serial \in Nat /\ i \in Nat
    <3>1. serial \in Nat /\ i \in Nat
      BY <1>t DEF TypeOK, Id
    <3>2. ~(i > serial)
      BY <2>2 DEF IInv, FreshInv
    <3> QED
      BY <3>1, <3>2
  <2>5. Fate(i) = "redeemed"
    BY <2>2, <2>4 DEF Fate
  <2>6. \A j \in Id : Fate(j)' = Fate(j)
    BY <2>3 DEF Fate, Outstanding, HasRecord
  <2>7. {<<s.id, s.email>> : s \in sessions}' =
          {<<s.id, s.email>> : s \in sessions} \cup {<<i, owner[i]>>}
    <3>1. PICK s0 : s0 = [id |-> i, email |-> handler[r].address,
                          role |-> RoleFor(handler[r].address)]
      OBVIOUS
    <3>2. s0.id = i /\ s0.email = owner[i]
      BY <2>2, <3>1
    <3>3. sessions' = sessions \cup {s0}
      BY <2>3, <3>1
    <3> QED
      BY ONLY <3>2, <3>3
  <2>8. \A g \in {<<s.id, s.email>> : s \in sessions} : g[1] # i
    BY <2>2
  <2>9. Promise!Grant(i)
    BY <2>3, <2>5, <2>6, <2>7, <2>8 DEF Promise!Grant
  <2> QED
    BY <2>9 DEF Promise!Next
<1>7. ASSUME NEW m \in UserMaps, Restart(m)
      PROVE  Promise!Next
  <2>1. \A a \in Address : records'[a] \in {records[a], NoRecord}
    BY <1>7 DEF Restart
  <2> QED
    BY <1>7, <2>1, PromiseDrop DEF Restart
<1> QED
  <2>1. CASE UNCHANGED <<records, serial, redeemed, owner, wrong, sessions>>
    BY <2>1, PromiseFrame
  <2> QED
    BY <2>1, <1>1, <1>2, <1>3, <1>4, <1>5, <1>6, <1>7
       DEF Next, RequestCode, VerifyCode, BeginRequestCode, SendAccepted, SendFailed,
           BeginVerifyCode, ConsumeUnknown, IssueTokenFails, Tick, vars, history

(* Under any interleaving of handlers, with clocks read before the lock,   *)
(* mail failures and restarts, the sign-in keeps its promise (codes.go:    *)
(* 70-117, service.go:91-172): a code is redeemed at most once, only while *)
(* it is the latest of its address, only before its wrong guesses reach    *)
(* the limit, and yields at most one session, of its own address.          *)
THEOREM Refinement == Spec => PromiseKept
BY PromiseInit, PromiseStep, Invariance, PTL DEF Spec, PromiseKept, Promise!Spec
=============================================================================
