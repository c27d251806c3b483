------------------------------ MODULE Session -------------------------------
(***************************************************************************)
(* The session of one browser: the cookie, what the page's query cache     *)
(* believes about it (frontend/src/api/auth.ts, main.tsx), the two steps   *)
(* of LoginPage.tsx, and the four calls of httpapi/auth.go they make, with *)
(* RequireAuth and TokenService.Verify in front of /auth/me.               *)
(*                                                                         *)
(* A call leaves the page, is answered by the server, and its answer       *)
(* reaches browser and page.  Calls overtake each other at each of these   *)
(* steps, any of them may fail on the way, the page may be reloaded and    *)
(* the process restarted meanwhile.  SignIn has the code store in full;    *)
(* here it keeps the latest code of an address and when it was issued.     *)
(*                                                                         *)
(* The cache is what every component that asks for the session is shown;   *)
(* when TanStack Query renders which of them again is left out.  A page    *)
(* behind the guard that still waits for its first answer offers nothing   *)
(* to do; /login has its form at once, and that is the page opened here.   *)
(***************************************************************************)
EXTENDS Integers, FiniteSets

CONSTANTS
    Address, Role,
    Setting,        \* what the process may be started with: [users, secret],
                    \* users a function from some addresses to roles
    FirstSetting,
    CodeTTL, ResendAfter, TokenTTL,
    Leeway,         \* jwt.WithLeeway
    Second,         \* a second, in ticks of the clock; a tick is no shorter
                    \* than the staleTime of the session query
    Nothing,        \* null, undefined; no token, no code, no answer, no header
    Cleared,        \* a Set-Cookie that has run out
    MaxCalls,       \* bound: calls that may be under way at a time
    MaxTime,        \* bound: the clock stops here
    MaxIssues,      \* bound: codes stored
    MaxRestarts     \* bound: restarts of the process

ASSUME SessionAssumption ==
    /\ FirstSetting \in Setting /\ "admin" \in Role
    /\ \A s \in Setting :
         /\ DOMAIN s.users \subseteq Address
         /\ \A a \in DOMAIN s.users : s.users[a] \in Role
    /\ {CodeTTL, ResendAfter, TokenTTL, Leeway, MaxTime, MaxIssues, MaxRestarts, MaxCalls}
            \subseteq Nat
    /\ MaxCalls > 0 /\ Second \in Nat \ {0}

VARIABLES
    now,
    setting,        \* server: USERS and the signing secret
    codes,          \* server: codes[a], the latest code of a, or Nothing
    issued,         \* server: how many codes were stored; a code is its number
    cookie,         \* browser: the token in the cookie, or Nothing
    net,            \* browser: the calls under way
    cache,          \* page: the session query's state
    pending,        \* page: LoginPage's pending, with the resend deadline
    entered,        \* page: the address last submitted in LoginPage
    calm,           \* history: since the load no calls overlapped or failed
    out,            \* history: a sign-out was answered, and no verify-code
                    \* call's answer has signed in since
    changedAt,      \* history: when USERS last changed
    restarts        \* history: how often the process started again

server == <<setting, codes, issued, changedAt, restarts>>
page == <<cache, pending, entered>>
vars == <<now, server, cookie, net, page, calm, out>>

Kind == {"me", "request-code", "verify-code", "logout"}
Secret == {s.secret : s \in Setting}
Identity == [email : Address, role : Role]
Token == [email : Address, role : Role, exp : Nat, secret : Secret]
CodeRequested == [email : Address, expiresAt : Nat, resendAfter : Nat]
Pending == [email : Address, expiresAt : Nat, resendAt : Nat]
CodeRecord == [code : 1 .. MaxIssues, issuedAt : Nat, expiresAt : Nat]
CacheState == [status : {"pending", "success", "error"},
               data : Identity \cup {Nothing}, fresh : BOOLEAN]
Answer == [status : {0, 200, 202, 204, 401, 429, 500},
           body : Identity \cup CodeRequested \cup {Nothing},
           setCookie : Token \cup {Nothing, Cleared}]
Call == [kind : Kind, no : 1 .. MaxCalls,
         email : Address \cup {Nothing}, code : 0 .. MaxIssues,
         token : Token \cup {Nothing}, hop : {"out", "back"},
         tab : BOOLEAN,         \* the page that made it is still there
         mounted : BOOLEAN,     \* and so is the form that made it
         sure : BOOLEAN,        \* history: Resend, with no other request about
         answer : Answer \cup {Nothing}]

(* Nothing and Cleared are none of the values they stand beside.          *)
ASSUME NothingAssumption ==
    /\ Nothing \notin Address \cup Identity \cup CodeRequested
    /\ Nothing \notin Token \cup CodeRecord \cup Pending \cup Answer
    /\ Cleared \notin Token \cup {Nothing}

TypeOK ==
    /\ now \in Nat /\ changedAt \in 0 .. now /\ restarts \in 0 .. MaxRestarts
    /\ setting \in Setting
    /\ codes \in [Address -> CodeRecord \cup {Nothing}] /\ issued \in 0 .. MaxIssues
    /\ cookie \in Token \cup {Nothing}
    /\ net \subseteq Call /\ IsFiniteSet(net) /\ Cardinality(net) <= MaxCalls
    /\ cache \in CacheState
    /\ pending \in Pending \cup {Nothing}
    /\ entered \in Address \cup {Nothing}
    /\ calm \in BOOLEAN /\ out \in BOOLEAN

-----------------------------------------------------------------------------
(* The server. *)

(* With no users at all, which only development may have, everybody is one *)
(* (Service.recognizes), and everybody is an administrator (roleFor).      *)
Listed(a) == DOMAIN setting.users = {} \/ a \in DOMAIN setting.users
RoleFor(a) == IF DOMAIN setting.users = {} THEN "admin" ELSE setting.users[a]

(* Mutant of Accepts: a token is good for ever. *)
AcceptsExpired(token) == token # Nothing /\ token.secret = setting.secret

(* Verify: signed with this secret, and not past its expiry and leeway.    *)
Accepts(token) ==
    /\ token # Nothing
    /\ token.secret = setting.secret
    /\ now < token.exp + Leeway

Names(token) == [email |-> token.email, role |-> token.role]

Issue(id) ==
    [email |-> id.email, role |-> id.role, exp |-> now + TokenTTL, secret |-> setting.secret]

Reply(status, body, setCookie) ==
    [status |-> status, body |-> body, setCookie |-> setCookie]

(* RequireAuth and handleMe. *)
AnswerMe(token) ==
    IF Accepts(token) THEN Reply(200, Names(token), Nothing)
    ELSE Reply(401, Nothing, IF token = Nothing THEN Nothing ELSE Cleared)

(* Mutant of WholeSeconds: whole minutes, say. *)
WholeSecondsCoarse(d) == (d \div (2 * Second)) * (2 * Second)

WholeSeconds(d) == (d \div Second) * Second

Sent(a) == Reply(202, [email |-> a, expiresAt |-> now + CodeTTL,
                       resendAfter |-> WholeSeconds(ResendAfter)], Nothing)

TooSoon(a) ==
    /\ codes[a] # Nothing
    /\ now <= codes[a].expiresAt
    /\ now < codes[a].issuedAt + ResendAfter

Usable(a) == codes[a] # Nothing /\ now <= codes[a].expiresAt
Redeems(call) == Usable(call.email) /\ codes[call.email].code = call.code

(* Mutant of AnswerLogout: the attributes differ, the browser keeps it. *)
AnswerLogoutKeeps == Reply(204, Nothing, Nothing)

AnswerLogout == Reply(204, Nothing, Cleared)

-----------------------------------------------------------------------------
(* The browser. *)

(* What it attaches to a call: the cookie, until it has run out.           *)
Carried(jar) == IF jar # Nothing /\ now < jar.exp THEN jar ELSE Nothing

(* What the headers of an answer make of the cookie.                       *)
CookieAfter(answer) ==
    CASE answer.setCookie = Nothing -> cookie
      [] answer.setCookie = Cleared -> Nothing
      [] OTHER -> answer.setCookie

(* The one answer that brings a cookie.                                    *)
SignsIn(c) == c.kind = "verify-code" /\ c.hop = "back" /\ c.answer.status = 200

Heard == {c \in net : c.tab}
Of(kind) == {c \in net : c.kind = kind}
Waiting(kind) == {c \in Of(kind) : c.mounted} # {}

(* A second call of one kind has a number of its own.                      *)
FreeNumber(kind, n) == (\A c \in Of(kind) : c.no # n) /\ \A m \in 1 .. n - 1 : \E c \in Of(kind) : c.no = m
Number(kind) == CHOOSE n \in 1 .. MaxCalls : FreeNumber(kind, n)

Outgoing(kind, email, code, sure) ==
    [kind |-> kind, no |-> Number(kind), email |-> email, code |-> code, token |-> Nothing,
     hop |-> "out", tab |-> TRUE, mounted |-> TRUE, sure |-> sure, answer |-> Nothing]

(* Only /auth/me is behind RequireAuth: nobody else looks at the cookie.   *)
AskMe(jar) ==
    [kind |-> "me", no |-> 1, email |-> Nothing, code |-> 0, token |-> Carried(jar),
     hop |-> "out", tab |-> TRUE, mounted |-> FALSE, sure |-> FALSE, answer |-> Nothing]

Send(call) ==
    /\ Cardinality(net) < MaxCalls
    /\ net' = net \cup {call}
    /\ calm' = (calm /\ Heard = {})

(* The forms of LoginPage are gone: their calls go on without them.        *)
Unmounted(calls) == {[c EXCEPT !.mounted = FALSE] : c \in calls}

Empty == [status |-> "pending", data |-> Nothing, fresh |-> FALSE]
Says(id) == [status |-> "success", data |-> id, fresh |-> TRUE]

Init ==
    /\ now = 0
    /\ setting = FirstSetting /\ issued = 0
    /\ codes = [a \in Address |-> Nothing]
    /\ cookie = Nothing
    /\ cache = Empty /\ pending = Nothing /\ entered = Nothing
    /\ net = {AskMe(Nothing)}
    /\ calm = TRUE /\ out = FALSE
    /\ changedAt = 0 /\ restarts = 0

(* Opening or reloading a page: nothing is left of the old one but the     *)
(* calls that are still on their way to the server.                        *)
(* RequireSession and LoginPage both ask for the session.                  *)
Load(jar) ==
    LET left == {c \in net : c.hop = "out" /\ c.kind # "me"} IN
    /\ Cardinality(left) < MaxCalls
    /\ cookie' = jar
    /\ net' = {[c EXCEPT !.tab = FALSE] : c \in Unmounted(left)} \cup {AskMe(jar)}
    /\ cache' = Empty /\ pending' = Nothing /\ entered' = Nothing
    /\ calm' = (left = {})
    /\ UNCHANGED <<now, server>>

Reload == Load(cookie) /\ UNCHANGED out

(* The browser may have taken the cookie from an answer it has not given   *)
(* to the page.                                                            *)
ReloadTaking(c) ==
    /\ c.hop = "back"
    /\ Load(CookieAfter(c.answer))
    /\ out' = (out /\ ~SignsIn(c))

(* A component mounts, or the connection returns, and the answer is stale. *)
FetchMe ==
    /\ Of("me") = {} /\ ~cache.fresh
    /\ Send(AskMe(cookie))
    /\ UNCHANGED <<now, server, cookie, page, out>>

-----------------------------------------------------------------------------
(* LoginPage and Layout. *)

LoginShown == cache.data = Nothing

(* EmailStep: Send code. *)
SubmitEmail(a) ==
    /\ LoginShown /\ pending = Nothing
    /\ ~Waiting("request-code")
    /\ entered' = a
    /\ Send(Outgoing("request-code", a, 0, FALSE))
    /\ UNCHANGED <<now, server, cookie, cache, pending, out>>

(* CodeStep: Resend code. *)
Resend ==
    /\ LoginShown /\ pending # Nothing
    /\ pending.resendAt <= now
    /\ ~Waiting("request-code")
    /\ Send(Outgoing("request-code", pending.email, 0, calm /\ Of("request-code") = {}))
    /\ UNCHANGED <<now, server, cookie, page, out>>

(* CodeStep: Sign in, with the code that is good for the address now, or   *)
(* another one (0), which never will be.                                   *)
SubmitCode(code) ==
    /\ LoginShown /\ pending # Nothing
    /\ code \in {0} \cup {r.code : r \in {codes[pending.email]} \ {Nothing}}
    /\ now < pending.expiresAt
    /\ ~Waiting("verify-code")
    /\ Send(Outgoing("verify-code", pending.email, code, FALSE))
    /\ UNCHANGED <<now, server, cookie, page, out>>

(* CodeStep: Use a different address. *)
StartOver ==
    /\ LoginShown /\ pending # Nothing
    /\ pending' = Nothing
    /\ net' = Unmounted(net)
    /\ UNCHANGED <<now, server, cookie, cache, entered, calm, out>>

(* Layout: Logga ut. *)
SignOut ==
    /\ cache.status = "success" /\ cache.data # Nothing
    /\ Of("logout") \cap Heard = {}
    /\ Send(Outgoing("logout", Nothing, 0, FALSE))
    /\ UNCHANGED <<now, server, cookie, page, out>>

-----------------------------------------------------------------------------
(* The calls at the server. *)

(* The answer goes back, or nowhere when the page has been left.           *)
Respond(c, answer) ==
    /\ net' = (net \ {c}) \cup (IF c.tab THEN {[c EXCEPT !.hop = "back", !.answer = answer]} ELSE {})

Arrived(c, kind) == c.kind = kind /\ c.hop = "out"

ServeMe(c) ==
    /\ Arrived(c, "me")
    /\ Respond(c, AnswerMe(c.token))
    /\ UNCHANGED <<now, server, cookie, page, calm, out>>

(* handleRequestCode for an address that is not on the list, or too soon.  *)
RequestCodeRefused(c) ==
    /\ Arrived(c, "request-code")
    /\ Listed(c.email) => TooSoon(c.email)
    /\ Respond(c, IF Listed(c.email) THEN Reply(429, Nothing, Nothing) ELSE Sent(c.email))
    /\ UNCHANGED <<now, server, cookie, page, calm, out>>

(* handleRequestCode: the code is stored, whether it can be mailed or not. *)
RequestCodeServed(c, mailed) ==
    /\ Arrived(c, "request-code")
    /\ Listed(c.email) /\ ~TooSoon(c.email)
    /\ issued < MaxIssues
    /\ issued' = issued + 1
    /\ codes' = [codes EXCEPT ![c.email] = [code |-> issued + 1, issuedAt |-> now,
                                            expiresAt |-> now + CodeTTL]]
    /\ Respond(c, IF mailed THEN Sent(c.email) ELSE Reply(500, Nothing, Nothing))
    /\ calm' = (calm /\ mailed)
    /\ UNCHANGED <<now, setting, changedAt, restarts, cookie, page, out>>

VerifyCodeServed(c) ==
    LET id == [email |-> c.email, role |-> RoleFor(c.email)] IN
    /\ Arrived(c, "verify-code") /\ Redeems(c)
    /\ codes' = [codes EXCEPT ![c.email] = Nothing]
    /\ Respond(c, Reply(200, id, Issue(id)))
    /\ UNCHANGED <<now, setting, issued, changedAt, restarts, cookie, page, calm, out>>

(* A wrong code.  The last guess takes the code away, and so does its end. *)
VerifyCodeRefused(c, last) ==
    /\ Arrived(c, "verify-code") /\ ~Redeems(c)
    /\ last => Usable(c.email)
    /\ codes' = IF last \/ ~Usable(c.email) THEN [codes EXCEPT ![c.email] = Nothing] ELSE codes
    /\ Respond(c, Reply(IF last THEN 429 ELSE 401, Nothing, Nothing))
    /\ UNCHANGED <<now, setting, issued, changedAt, restarts, cookie, page, calm, out>>

ServeLogout(c) ==
    /\ Arrived(c, "logout")
    /\ Respond(c, AnswerLogout)
    /\ UNCHANGED <<now, server, cookie, page, calm, out>>

(* The process starts again: codes are lost, the settings may be others.   *)
Restart(new) ==
    /\ restarts < MaxRestarts
    /\ restarts' = restarts + 1
    /\ setting' = new
    /\ changedAt' = IF new.users = setting.users THEN changedAt ELSE now
    /\ codes' = [a \in Address |-> Nothing]
    /\ UNCHANGED <<now, issued, cookie, net, page, calm, out>>

-----------------------------------------------------------------------------
(* The answers at the page. *)

(* The call fails on the way there (with or without an answer of the       *)
(* proxy) or on the way back: apiFetch throws an ApiError that is no 401.  *)
Fail(c) ==
    /\ c.hop = "back" => c.answer.status # 0
    /\ net' = (net \ {c}) \cup
                 (IF c.tab THEN {[c EXCEPT !.hop = "back", !.answer = Reply(0, Nothing, Nothing)]}
                  ELSE {})
    /\ calm' = FALSE
    /\ UNCHANGED <<now, server, cookie, page, out>>

(* An answer arrives, and the browser takes the cookie from its headers.   *)
Landed(c, kind) ==
    /\ c.kind = kind /\ c.hop = "back"
    /\ cookie' = CookieAfter(c.answer)

(* The guard and LoginPage go by what the cache says now: once it names    *)
(* somebody, LoginPage is gone, and its state with it.                     *)
Believe(state, calls) ==
    /\ cache' = state
    /\ IF state.data # Nothing
       THEN pending' = Nothing /\ entered' = Nothing /\ net' = Unmounted(calls)
       ELSE net' = calls /\ UNCHANGED <<pending, entered>>

(* sessionQuery: whatever is in the cache by now is replaced.              *)
SettleMe(c) ==
    /\ Landed(c, "me")
    /\ Believe(CASE c.answer.status = 200 -> Says(c.answer.body)
                 [] c.answer.status = 401 -> Says(Nothing)
                 [] OTHER -> [cache EXCEPT !.status = "error", !.fresh = FALSE], net \ {c})
    /\ UNCHANGED <<now, server, calm, out>>

(* Mutant of Hears: the answer counts even when the form is gone. *)
HearsAlways(call) == call.answer.status = 202

(* mutate's onSuccess is only called while the form is there.              *)
Hears(call) == call.answer.status = 202 /\ call.mounted

SettleRequestCode(c) ==
    /\ Landed(c, "request-code")
    /\ net' = net \ {c}
    /\ pending' = IF Hears(c)
                  THEN [email |-> c.answer.body.email, expiresAt |-> c.answer.body.expiresAt,
                        resendAt |-> now + c.answer.body.resendAfter]
                  ELSE pending
    /\ UNCHANGED <<now, server, cache, entered, calm, out>>

(* Mutant of Seeded: the cache is left to find out by itself. *)
SeededNot(answer) == IF answer.status = 401 THEN Says(Nothing) ELSE cache

(* useVerifyCode's onSuccess, and main.tsx's onApiError.                   *)
Seeded(answer) ==
    CASE answer.status = 200 -> Says(answer.body)
      [] answer.status = 401 -> Says(Nothing)
      [] OTHER -> cache

SettleVerifyCode(c) ==
    /\ Landed(c, "verify-code")
    /\ Believe(Seeded(c.answer), net \ {c})
    /\ out' = (out /\ ~SignsIn(c))
    /\ UNCHANGED <<now, server, calm>>

(* useLogout's onSettled: clear() gives up the query under way.            *)
SettleLogout(c) ==
    /\ Landed(c, "logout")
    /\ Believe(Says(Nothing), net \ ({c} \cup Of("me")))
    /\ out' = (c.answer.status = 204 \/ out)
    /\ UNCHANGED <<now, server, calm>>

Tick ==
    /\ now < MaxTime
    /\ now' = now + 1
    /\ cache' = [cache EXCEPT !.fresh = FALSE]
    /\ UNCHANGED <<server, cookie, net, pending, entered, calm, out>>

Serve(c) ==
    \/ ServeMe(c) \/ ServeLogout(c)
    \/ RequestCodeRefused(c) \/ VerifyCodeServed(c)
    \/ \E yes \in BOOLEAN : RequestCodeServed(c, yes) \/ VerifyCodeRefused(c, yes)

Settle(c) == SettleMe(c) \/ SettleRequestCode(c) \/ SettleVerifyCode(c) \/ SettleLogout(c)

Next ==
    \/ Reload \/ FetchMe \/ Resend \/ StartOver \/ SignOut \/ Tick
    \/ \E a \in Address : SubmitEmail(a)
    \/ \E code \in 0 .. issued : SubmitCode(code)
    \/ \E c \in net : Serve(c) \/ Fail(c) \/ Settle(c) \/ ReloadTaking(c)
    \/ \E new \in Setting : Restart(new)

Spec == Init /\ [][Next]_vars

-----------------------------------------------------------------------------
(* Properties *)

Quiet == Heard = {}

(* After a sign-out the server answered, the page and the cookie stay      *)
(* signed out until a call to verify-code is answered with a session: no   *)
(* answer to /auth/me and no other call's cookie signs in (useLogout,      *)
(* auth.ts:90-95, clearSessionCookie).  That answer may be to a code       *)
(* submitted before the sign-out: nothing gives that call up.              *)
OutMeansOut == out => cache.data = Nothing /\ cookie = Nothing

(* Once all calls are answered, and none of them overlapped or failed, the *)
(* page and the cookie agree: the page shows the session the cookie names, *)
(* or nobody while the server would turn the cookie away.  A reload that   *)
(* leaves no call behind gets there from wherever the page has been.       *)
AgreeWhenQuiet ==
    calm /\ Quiet /\ cache.status = "success" =>
        IF cache.data = Nothing THEN ~Accepts(Carried(cookie))
        ELSE cookie # Nothing /\ Names(cookie) = cache.data

(* The Resend button is not offered while the server would refuse it       *)
(* (httpapi/auth.go:40-41: "the UI already knows the cooldown from the     *)
(* previous response"), unless a call failed or overlapped with another,   *)
(* or less than a second of the cooldown is left: the answer has its whole *)
(* seconds only (auth.go:53).                                              *)
ResendAccepted ==
    [][\A c \in net :
         c.sure /\ c.mounted /\ Listed(c.email) /\ RequestCodeRefused(c)
            => now + Second > codes[c.email].issuedAt + ResendAfter]_vars

(* The code step is for the address entered last: an answer that comes     *)
(* after "Use a different address" does not bring the old one back.        *)
PendingIsEntered == pending # Nothing => pending.email = entered

(* A token outlives a change of USERS, with its old role, but not by more  *)
(* than its lifetime and the leeway (RequireAuth, TokenService.Verify).    *)
OldRoleRunsOut ==
    [][\A c \in net :
         ServeMe(c) /\ Accepts(c.token)
            => \/ Listed(c.token.email) /\ RoleFor(c.token.email) = c.token.role
               \/ now < changedAt + TokenTTL + Leeway]_vars

(* What auth.ts:77-78 says of the cache that verify-code seeds: the guard   *)
(* lets the user through.  No answer to /auth/me turns a page with a good  *)
(* cookie away again.                                                      *)
SeedStands ==
    [][\A c \in net : SettleMe(c) /\ cache.data # Nothing /\ Accepts(Carried(cookie))
                         => cache'.data # Nothing]_vars
=============================================================================
