------------------------------- MODULE SignIn -------------------------------
(***************************************************************************)
(* The passwordless sign-in of the backend (backend/internal/auth): the    *)
(* in-memory code store, and Service.RequestCode / Service.VerifyCode as   *)
(* the HTTP server runs them, one goroutine per request.                   *)
(*                                                                         *)
(* A handler reads the clock BEFORE it takes the store's mutex, so the     *)
(* time it works with may be stale when it gets the lock; each critical    *)
(* section of MemoryCodeStore is one action, everything a handler does     *)
(* between two of them is another.  The process may restart at any point,  *)
(* with another USERS setting; sign-in codes do not survive it, session    *)
(* cookies do.                                                             *)
(*                                                                         *)
(* A request that is answered without touching shared state (malformed     *)
(* address, address outside the allowlist, blank code, a failure of        *)
(* generateCode) is a stuttering step and has no action.                   *)
(***************************************************************************)
EXTENDS Integers

CONSTANTS
    RawEmail,       \* addresses as a client types them
    Address,        \* addresses as NormalizeEmail returns them
    Normalize,      \* NormalizeEmail: RawEmail -> Address, or BadEmail
    BadEmail,       \* NormalizeEmail's error
    Code,           \* the digit strings generateCode can draw
    UserMaps,       \* the USERS settings the process may be started with
    Request,        \* goroutines serving a request at the same time
    CodeTTL,        \* OTP_TTL
    ResendAfter,    \* OTP_RESEND_AFTER
    MaxAttempts,    \* OTP_MAX_ATTEMPTS
    MaxTime,        \* bound: the clock stops here
    MaxIssues,      \* bound: codes stored in a behaviour
    NoRecord,       \* an address with no entry in the store's map
    Nobody          \* history only: owner of a code not yet issued

Role == {"admin", "user"}
Id == 1 .. MaxIssues
Hash == Address \X Code

CodeRecord == [hash : Hash, issuedAt : Nat, expiresAt : Nat, attempts : Nat, id : Id]

ASSUME SignInAssumption ==
    /\ Normalize \in [RawEmail -> Address \cup {BadEmail}]
    /\ UserMaps # {}
    /\ UserMaps \subseteq UNION {[D -> Role] : D \in SUBSET Address}
    /\ CodeTTL \in Nat \ {0}
    /\ ResendAfter \in Nat
    /\ MaxAttempts \in Nat \ {0}
    /\ MaxTime \in Nat
    /\ MaxIssues \in Nat
    /\ NoRecord \notin CodeRecord
    /\ Nobody \notin Address

VARIABLES
    now,            \* the wall clock
    users,          \* ServiceConfig.Users of the running process
    records,        \* MemoryCodeStore.records
    handler,        \* handler[r]: where goroutine r is, and its local variables
    sessions,       \* session tokens handed out; cookies outlive the process
    serial,         \* history: codes stored so far; the n-th has identity n
    owner,          \* history: owner[i], the address code i was stored for
    issuedAt,       \* history: the time code i was stored under
    wrong,          \* history: wrong guesses answered against code i
    redeemed,       \* history: successful Consume calls on code i
    lost,           \* history: codes a restart dropped
    undelivered     \* history: codes whose SendSignInCode returned an error

history == <<serial, owner, issuedAt, wrong, redeemed, lost, undelivered>>
vars == <<now, users, records, handler, sessions, history>>

-----------------------------------------------------------------------------
(* Handler states.  A goroutine that waits for the store's mutex in Issue  *)
(* or Consume carries the time it captured before.                         *)

Idle == [pc |-> "idle"]
Issuing == [pc : {"issue"}, address : Address, code : Code, at : Nat]
Sending == [pc : {"send"}, address : Address, id : Id]
Consuming == [pc : {"consume"}, address : Address, code : Code, at : Nat]
Tokening == [pc : {"token"}, address : Address, id : Id]

HandlerState == {Idle} \cup Issuing \cup Sending \cup Consuming \cup Tokening

Session == [id : Id, email : Address, role : Role]

TypeOK ==
    /\ now \in Nat
    /\ users \in UserMaps
    /\ records \in [Address -> CodeRecord \cup {NoRecord}]
    /\ handler \in [Request -> HandlerState]
    /\ sessions \in SUBSET Session
    /\ serial \in 0 .. MaxIssues
    /\ owner \in [Id -> Address \cup {Nobody}]
    /\ issuedAt \in [Id -> Nat]
    /\ wrong \in [Id -> Nat]
    /\ redeemed \in [Id -> Nat]
    /\ lost \in SUBSET Id
    /\ undelivered \in SUBSET Id

Init ==
    /\ now = 0
    /\ users \in UserMaps
    /\ records = [a \in Address |-> NoRecord]
    /\ handler = [r \in Request |-> Idle]
    /\ sessions = {}
    /\ serial = 0
    /\ owner = [i \in Id |-> Nobody]
    /\ issuedAt = [i \in Id |-> 0]
    /\ wrong = [i \in Id |-> 0]
    /\ redeemed = [i \in Id |-> 0]
    /\ lost = {}
    /\ undelivered = {}

-----------------------------------------------------------------------------
(* Service helpers. *)

Recognizes(a) == DOMAIN users = {} \/ a \in DOMAIN users

(* Mutant of RoleFor: the rule for development, without a list, forgotten. *)
RoleForWithoutDevelopment(a) == IF a \in DOMAIN users THEN users[a] ELSE "user"

(* An address the map does not hold gives Go's zero value, the empty role. *)
RoleFor(a) ==
    IF DOMAIN users = {} THEN "admin"
    ELSE IF a \in DOMAIN users THEN users[a] ELSE ""

(* Code store helpers. *)

HasRecord(a) == records[a] # NoRecord

(* Mutant of Expired: off by one.                                          *)
ExpiredLate(rec, t) == t > rec.expiresAt + 1

(* Mutant of Expired: off by one the other way.                            *)
ExpiredEarly(rec, t) == t >= rec.expiresAt

Expired(rec, t) == t > rec.expiresAt

PurgeExpired(t) ==
    [a \in Address |-> IF HasRecord(a) /\ Expired(records[a], t)
                       THEN NoRecord ELSE records[a]]

(* Mutant of TooSoon: the comparison is off by one.                        *)
TooSoonShort(a, t) ==
    PurgeExpired(t)[a] # NoRecord /\ t - records[a].issuedAt + 1 < ResendAfter

(* Evaluated on what the purge left behind. *)
TooSoon(a, t) ==
    PurgeExpired(t)[a] # NoRecord /\ t - records[a].issuedAt < ResendAfter

Outstanding(i) == \E a \in Address : HasRecord(a) /\ records[a].id = i

-----------------------------------------------------------------------------
(* Service.RequestCode *)

(* Up to the call of codes.Issue: the address is normalised, the clock     *)
(* read, the allowlist consulted and a code drawn.                         *)
BeginRequestCode(r, raw) ==
    /\ handler[r] = Idle
    /\ Normalize[raw] # BadEmail
    /\ Recognizes(Normalize[raw])
    /\ \E c \in Code :
         handler' = [handler EXCEPT
             ![r] = [pc |-> "issue", address |-> Normalize[raw], code |-> c, at |-> now]]
    /\ UNCHANGED <<now, users, records, sessions, history>>

(* MemoryCodeStore.Issue inside the cooldown: the purge has happened.      *)
IssueTooSoon(r) ==
    /\ handler[r].pc = "issue"
    /\ TooSoon(handler[r].address, handler[r].at)
    /\ records' = PurgeExpired(handler[r].at)
    /\ handler' = [handler EXCEPT ![r] = Idle]
    /\ UNCHANGED <<now, users, sessions, history>>

(* MemoryCodeStore.Issue otherwise: purge, then overwrite the entry.       *)
IssueStored(r) ==
    LET h == handler[r] IN
    /\ h.pc = "issue"
    /\ ~TooSoon(h.address, h.at)
    /\ serial < MaxIssues
    /\ serial' = serial + 1
    /\ records' = [PurgeExpired(h.at) EXCEPT
           ![h.address] = [hash |-> <<h.address, h.code>>, issuedAt |-> h.at,
                           expiresAt |-> h.at + CodeTTL, attempts |-> 0,
                           id |-> serial + 1]]
    /\ handler' = [handler EXCEPT
           ![r] = [pc |-> "send", address |-> h.address, id |-> serial + 1]]
    /\ owner' = [owner EXCEPT ![serial + 1] = h.address]
    /\ issuedAt' = [issuedAt EXCEPT ![serial + 1] = h.at]
    /\ UNCHANGED <<now, users, sessions, wrong, redeemed, lost, undelivered>>

(* sender.SendSignInCode returned nil. *)
SendAccepted(r) ==
    /\ handler[r].pc = "send"
    /\ handler' = [handler EXCEPT ![r] = Idle]
    /\ UNCHANGED <<now, users, records, sessions, history>>

(* It returned an error.  The relay may have accepted the message all the  *)
(* same (smtp.SendMail also fails when only the closing QUIT does); the    *)
(* stored code stays where it is.                                          *)
SendFailed(r) ==
    /\ handler[r].pc = "send"
    /\ undelivered' = undelivered \cup {handler[r].id}
    /\ handler' = [handler EXCEPT ![r] = Idle]
    /\ UNCHANGED <<now, users, records, sessions, serial, owner, issuedAt, wrong,
                   redeemed, lost>>

-----------------------------------------------------------------------------
(* Service.VerifyCode *)

(* Up to the call of codes.Consume.  The client may send any code: the one *)
(* it was mailed, an older one, or a guess.                                *)
BeginVerifyCode(r, raw, c) ==
    /\ handler[r] = Idle
    /\ Normalize[raw] # BadEmail
    /\ handler' = [handler EXCEPT
           ![r] = [pc |-> "consume", address |-> Normalize[raw], code |-> c, at |-> now]]
    /\ UNCHANGED <<now, users, records, sessions, history>>

ConsumeUnknown(r) ==
    /\ handler[r].pc = "consume"
    /\ ~HasRecord(handler[r].address)
    /\ handler' = [handler EXCEPT ![r] = Idle]
    /\ UNCHANGED <<now, users, records, sessions, history>>

ConsumeExpired(r) ==
    LET h == handler[r] IN
    /\ h.pc = "consume"
    /\ HasRecord(h.address)
    /\ Expired(records[h.address], h.at)
    /\ records' = [records EXCEPT ![h.address] = NoRecord]
    /\ handler' = [handler EXCEPT ![r] = Idle]
    /\ UNCHANGED <<now, users, sessions, history>>

(* Mutant of Charged: one guess too many.                                  *)
ChargedLate(rec) ==
    IF rec.attempts + 1 > MaxAttempts THEN NoRecord
    ELSE [rec EXCEPT !.attempts = @ + 1]

(* The record after one more wrong guess: gone once the limit is reached.  *)
Charged(rec) ==
    IF rec.attempts + 1 >= MaxAttempts THEN NoRecord
    ELSE [rec EXCEPT !.attempts = @ + 1]

ConsumeWrong(r) ==
    LET h == handler[r]
        rec == records[h.address]
    IN
    /\ h.pc = "consume"
    /\ HasRecord(h.address)
    /\ ~Expired(rec, h.at)
    /\ rec.hash # <<h.address, h.code>>
    /\ records' = [records EXCEPT ![h.address] = Charged(rec)]
    /\ wrong' = [wrong EXCEPT ![rec.id] = @ + 1]
    /\ handler' = [handler EXCEPT ![r] = Idle]
    /\ UNCHANGED <<now, users, sessions, serial, owner, issuedAt, redeemed, lost,
                   undelivered>>

(* Mutant of ConsumeRight: the redeemed code stays in the store.           *)
ConsumeRightKeeps(r) ==
    LET h == handler[r]
        rec == records[h.address]
    IN
    /\ h.pc = "consume"
    /\ HasRecord(h.address)
    /\ ~Expired(rec, h.at)
    /\ rec.hash = <<h.address, h.code>>
    /\ redeemed' = [redeemed EXCEPT ![rec.id] = @ + 1]
    /\ handler' = [handler EXCEPT
           ![r] = [pc |-> "token", address |-> h.address, id |-> rec.id]]
    /\ UNCHANGED <<now, users, records, sessions, serial, owner, issuedAt, wrong,
                   lost, undelivered>>

ConsumeRight(r) ==
    LET h == handler[r]
        rec == records[h.address]
    IN
    /\ h.pc = "consume"
    /\ HasRecord(h.address)
    /\ ~Expired(rec, h.at)
    /\ rec.hash = <<h.address, h.code>>
    /\ records' = [records EXCEPT ![h.address] = NoRecord]
    /\ redeemed' = [redeemed EXCEPT ![rec.id] = @ + 1]
    /\ handler' = [handler EXCEPT
           ![r] = [pc |-> "token", address |-> h.address, id |-> rec.id]]
    /\ UNCHANGED <<now, users, sessions, serial, owner, issuedAt, wrong, lost,
                   undelivered>>

(* roleFor and tokens.Issue, which refuses a role it does not know. *)
IssueToken(r) ==
    LET h == handler[r] IN
    /\ h.pc = "token"
    /\ RoleFor(h.address) \in Role
    /\ sessions' = sessions \cup
           {[id |-> h.id, email |-> h.address, role |-> RoleFor(h.address)]}
    /\ handler' = [handler EXCEPT ![r] = Idle]
    /\ UNCHANGED <<now, users, records, history>>

(* tokens.Issue fails (unknown role, no randomness, signing error): the    *)
(* code is spent and no session exists.                                    *)
IssueTokenFails(r) ==
    /\ handler[r].pc = "token"
    /\ handler' = [handler EXCEPT ![r] = Idle]
    /\ UNCHANGED <<now, users, records, sessions, history>>

-----------------------------------------------------------------------------
(* The environment. *)

Tick ==
    /\ now < MaxTime
    /\ now' = now + 1
    /\ UNCHANGED <<users, records, handler, sessions, history>>

(* Mutant of Restart: the store survives it.                               *)
RestartKeepsCodes(m) ==
    /\ users' = m
    /\ handler' = [r \in Request |-> Idle]
    /\ UNCHANGED <<now, records, sessions, serial, owner, issuedAt, wrong, redeemed,
                   lost, undelivered>>

(* The process ends, with requests in flight or not, and is started again  *)
(* with the USERS setting m and an empty MemoryCodeStore.                  *)
Restart(m) ==
    /\ users' = m
    /\ records' = [a \in Address |-> NoRecord]
    /\ handler' = [r \in Request |-> Idle]
    /\ lost' = lost \cup {i \in Id : Outstanding(i)}
    /\ UNCHANGED <<now, sessions, serial, owner, issuedAt, wrong, redeemed, undelivered>>

RequestCode(r) ==
    \/ \E raw \in RawEmail : BeginRequestCode(r, raw)
    \/ IssueTooSoon(r)
    \/ IssueStored(r)
    \/ SendAccepted(r)
    \/ SendFailed(r)

VerifyCode(r) ==
    \/ \E raw \in RawEmail, c \in Code : BeginVerifyCode(r, raw, c)
    \/ ConsumeUnknown(r)
    \/ ConsumeExpired(r)
    \/ ConsumeWrong(r)
    \/ ConsumeRight(r)
    \/ IssueToken(r)
    \/ IssueTokenFails(r)

Next ==
    \/ \E r \in Request : RequestCode(r) \/ VerifyCode(r)
    \/ Tick
    \/ \E m \in UserMaps : Restart(m)

Spec == Init /\ [][Next]_vars

-----------------------------------------------------------------------------
(* Properties. *)

(* What the promise calls the fate of a code, read off the store itself    *)
(* and not from bookkeeping: a code that is neither redeemed nor in the    *)
(* store any more is dead.                                                 *)
Fate(i) ==
    IF i > serial THEN "unissued"
    ELSE IF redeemed[i] > 0 THEN "redeemed"
    ELSE IF Outstanding(i) THEN "live"
    ELSE "dead"

Promise == INSTANCE SignInPromise WITH
    fate <- [i \in Id |-> Fate(i)],
    granted <- {<<s.id, s.email>> : s \in sessions}

(* Concurrent handlers, stale clocks, overwrites, purges and restarts      *)
(* together keep the promise: a code is redeemed at most once, by a        *)
(* request whose guess came before the limit, and only while no newer code *)
(* exists for its address (codes.go: Issue, Consume; service.go).          *)
PromiseKept == Promise!Spec

(* service.go:177-181 says of roleFor that its lookup always succeeds once *)
(* an allowlist is configured: a code redeemed by this process was issued  *)
(* to an address this process's USERS setting names, restarts included.    *)
LookupSucceeds ==
    \A r \in Request : handler[r].pc = "token" => RoleFor(handler[r].address) \in Role

(* Code i is out of use: redeemed, voided by wrong guesses, past its time, *)
(* or dropped by a restart.                                                *)
Settled(i) ==
    \/ redeemed[i] > 0
    \/ wrong[i] >= MaxAttempts
    \/ now > issuedAt[i] + CodeTTL
    \/ i \in lost

(* Code k took the place of code i, and not before i's cooldown was over.  *)
ReplacedBy(k, i) ==
    /\ i < k
    /\ owner[k] = owner[i]
    /\ issuedAt[k] >= issuedAt[i] + ResendAfter

(* The cooldown: two codes stored for one address less than ResendAfter    *)
(* apart mean that the first was settled, or properly replaced by a third, *)
(* before the second was stored (codes.go:76-80).  The third case needs a  *)
(* request that waits for the lock while another code comes and goes.      *)
CooldownUnlessSettled ==
    \A i, j \in 1 .. serial :
        (i < j /\ owner[i] = owner[j] /\ issuedAt[j] < issuedAt[i] + ResendAfter) =>
            \/ Settled(i)
            \/ \E k \in 1 .. serial : k < j /\ ReplacedBy(k, i)

(* A code is only ever redeemed by a request that arrived within CodeTTL   *)
(* of the time the code was stored under, and never one that a restart     *)
(* dropped (codes.go:99-102).                                              *)
RedeemedInTime ==
    [][\A i \in Id : redeemed'[i] # redeemed[i] =>
         /\ i \notin lost
         /\ \E r \in Request : /\ handler[r].pc = "consume"
                               /\ handler[r].address = owner[i]
                               /\ handler[r].at <= issuedAt[i] + CodeTTL]_vars

(* A session belongs to the address its code was stored for, and carries   *)
(* the role that the USERS setting in force gives that address, although   *)
(* the code was asked for, and recognised, several steps and perhaps a     *)
(* restart earlier (service.go:104, 163, 177-187).                         *)
GrantedAsConfigured ==
    [][\A s \in sessions' \ sessions :
         /\ s.email = owner[s.id]
         /\ DOMAIN users = {} => s.role = "admin"
         /\ DOMAIN users # {} => s.email \in DOMAIN users /\ s.role = users[s.email]]_vars

-----------------------------------------------------------------------------
(* A statement of the documentation that the code does not meet. *)

(* service.go:120 "Delivery failed, so the stored code is unusable", and   *)
(* the name of TestRequestCodeDoesNotStoreCodeWhenDeliveryFails: after     *)
(* RequestCode failed to deliver a code, that code is not redeemable.      *)
UndeliveredCodeUnusable ==
    \A i \in undelivered : redeemed[i] = 0 /\ ~Outstanding(i)
=============================================================================
