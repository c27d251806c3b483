------------------------------- MODULE Server -------------------------------
(***************************************************************************)
(* The process of cmd/server/main.go from its environment to its exit,     *)
(* with the requests it answers meanwhile: run is the main goroutine,      *)
(* every request has one of its own, signals and the port come from        *)
(* outside.                                                                *)
(*                                                                         *)
(* Handlers are seen by what they write and by what they wait for: the     *)
(* store's Ping, which handleReady bounds, and the mail relay, which       *)
(* nothing bounds (net/smtp takes no context).  Any of them may panic.     *)
(***************************************************************************)
EXTENDS Startup, Responses, FiniteSets

CONSTANTS
    Environment,    \* the environments the process may be started in
    Request,        \* bound: requests under way at a time
    Done            \* the environment once nothing reads it any more

(* The texts that config.go and NewTokenService tell apart in JWT_SECRET.  *)
ASSUME EnvironmentAssumption ==
    \A e \in Environment : e.JWT_SECRET \in {"unset", "short", "fine"}

VARIABLES
    env,
    phase,          \* where run is
    signalled,      \* SIGINT or SIGTERM came (ctx is done)
    sqlite,         \* which store was opened
    store,          \* "none", "open", "closed"
    hurried,        \* history: Shutdown gave up, or Serve failed
    stage,          \* stage[r]: what the request waits for, or does
    todo,           \* what its handler has still to do
    response,
    late            \* it panicked after it had begun to answer

main == <<env, phase, sqlite, store, hurried>>
request == <<stage, todo, response, late>>
vars == <<main, signalled, request>>

Phase == {"start", "loaded", "opened", "built", "serving", "draining", "closing", "closed", "exited"}
Route == {"health", "ready", "request-code", "verify-code", "logout", "me", "unknown", "method"}
Stage == {"idle", "pings", "mails", "writes", "done"}

TypeOK ==
    /\ env \in Environment \cup {Done}
    /\ phase \in Phase /\ store \in {"none", "open", "closed"}
    /\ signalled \in BOOLEAN /\ sqlite \in BOOLEAN /\ hurried \in BOOLEAN
    /\ stage \in [Request -> Stage]
    /\ todo \in [Request -> Seq(Op)]
    /\ response \in [Request -> Response]
    /\ late \in [Request -> BOOLEAN]

UnderWay == {r \in Request : stage[r] # "idle"}
Pinging == {r \in Request : stage[r] = "pings"}

AllIdle ==
    /\ stage' = [r \in Request |-> "idle"]
    /\ todo' = [r \in Request |-> <<>>]
    /\ response' = [r \in Request |-> NoResponse]
    /\ late' = [r \in Request |-> FALSE]

Init ==
    /\ env \in Environment
    /\ phase = "start" /\ signalled = FALSE /\ sqlite = FALSE
    /\ store = "none" /\ hurried = FALSE
    /\ stage = [r \in Request |-> "idle"]
    /\ todo = [r \in Request |-> <<>>]
    /\ response = [r \in Request |-> NoResponse]
    /\ late = [r \in Request |-> FALSE]

-----------------------------------------------------------------------------
(* run *)

LoadConfig ==
    /\ phase = "start"
    /\ phase' = IF Loads(env) THEN "loaded" ELSE "exited"
    /\ UNCHANGED <<env, sqlite, store, hurried, signalled, request>>

(* openStore: NewSQLite pings with the context that signals end.           *)
OpenStore ==
    LET ok == env.SQLITE_PATH = "unset" \/ (env.SQLITE_PATH = "fine" /\ ~signalled) IN
    /\ phase = "loaded"
    /\ sqlite' = (env.SQLITE_PATH # "unset")
    /\ store' = IF ok THEN "open" ELSE "none"
    /\ phase' = IF ok THEN "opened" ELSE "exited"
    /\ UNCHANGED <<env, hurried, signalled, request>>

(* From here on every return goes through the deferred Close.              *)
BuildAuth ==
    /\ phase = "opened"
    /\ phase' = IF BuildsAuth(env) THEN "built" ELSE "closing"
    /\ UNCHANGED <<env, sqlite, store, hurried, signalled, request>>

(* net.Listen, unless the port is taken, and Serve in its goroutine.       *)
Listen(free) ==
    /\ phase = "built"
    /\ phase' = IF free THEN "serving" ELSE "closing"
    /\ env' = Done
    /\ UNCHANGED <<sqlite, store, hurried, signalled, request>>

(* select: Serve returned an error. *)
ServeFails ==
    /\ phase = "serving"
    /\ phase' = "closing" /\ hurried' = TRUE
    /\ UNCHANGED <<env, sqlite, store, signalled, request>>

(* select: the context is done.  Shutdown takes no new requests.           *)
Drain ==
    /\ phase = "serving" /\ signalled
    /\ phase' = "draining"
    /\ UNCHANGED <<env, sqlite, store, hurried, signalled, request>>

(* Mutant of Drained: Shutdown is started and not waited for. *)
DrainedAtOnce ==
    /\ phase = "draining"
    /\ phase' = "closing"
    /\ UNCHANGED <<env, sqlite, store, hurried, signalled, request>>

Drained ==
    /\ phase = "draining" /\ UnderWay = {}
    /\ phase' = "closing"
    /\ UNCHANGED <<env, sqlite, store, hurried, signalled, request>>

(* Mutant of TimeOut: Shutdown waits as long as it takes. *)
TimeOutNever == FALSE /\ UNCHANGED vars

(* ShutdownTimeout: run returns an error, with requests under way.         *)
TimeOut ==
    /\ phase = "draining" /\ UnderWay # {}
    /\ phase' = "closing" /\ hurried' = TRUE
    /\ UNCHANGED <<env, sqlite, store, signalled, request>>

(* sql.DB.Close waits for what runs, whatever its context says.            *)
CloseStore ==
    /\ phase = "closing"
    /\ sqlite => Pinging = {}
    /\ store' = "closed"
    /\ phase' = "closed"
    /\ UNCHANGED <<env, sqlite, hurried, signalled, request>>

(* run returns, and the process ends with whatever is still at work.       *)
Exit ==
    /\ phase = "closed"
    /\ phase' = "exited"
    /\ AllIdle
    /\ UNCHANGED <<env, sqlite, store, hurried, signalled>>

(* Before NotifyContext a signal ends the process; once the context is     *)
(* done, and until run returns, further ones are swallowed.                *)
Signal ==
    /\ ~signalled /\ phase # "exited"
    /\ signalled' = TRUE
    /\ phase' = IF phase = "start" THEN "exited" ELSE phase
    /\ UNCHANGED <<env, sqlite, store, hurried, request>>

-----------------------------------------------------------------------------
(* Requests *)

(* A connection that Shutdown has not closed may bring a request even      *)
(* after Serve has failed.                                                 *)
Taken == phase = "serving" \/ (phase \in {"closing", "closed"} /\ hurried /\ ~signalled)

(* What each route has to do, as far as it is known at the start.  One     *)
(* status stands for the others a handler refuses with: 400, 429 or 500.   *)
Todo(route, ok) ==
    CASE route = "health" -> JSON(200)
      [] route \in {"me", "verify-code"} -> IF ok THEN JSON(200) ELSE JSON(401)
      [] route = "request-code" /\ ~ok -> JSON(429)
      [] route = "logout" -> NoContent
      [] route = "unknown" -> MuxError(404)
      [] route = "method" -> MuxError(405)
      [] OTHER -> <<>>

Accept(r, route, ok) ==
    /\ Taken /\ stage[r] = "idle"
    /\ todo' = [todo EXCEPT ![r] = Todo(route, ok)]
    /\ stage' = [stage EXCEPT ![r] = CASE route = "ready" -> "pings"
                                       [] route = "request-code" /\ ok -> "mails"
                                       [] OTHER -> "writes"]
    /\ UNCHANGED <<main, signalled, response, late>>

(* What the handler waited for has come. *)
Proceed(r, answer) ==
    /\ stage' = [stage EXCEPT ![r] = "writes"]
    /\ todo' = [todo EXCEPT ![r] = answer]
    /\ UNCHANGED <<main, signalled, response, late>>

(* handleReady: Ping fails on a closed store, and after two seconds.       *)
PingAnswered(r, ok) ==
    /\ stage[r] = "pings"
    /\ ok => store = "open"
    /\ Proceed(r, IF ok THEN JSON(200) ELSE JSON(503))

(* handleRequestCode: the relay takes the mail, or not.                    *)
MailAnswered(r, ok) ==
    /\ stage[r] = "mails"
    /\ Proceed(r, IF ok THEN JSON(202) ELSE JSON(500))

Perform(r) ==
    /\ stage[r] = "writes" /\ todo[r] # <<>>
    /\ response' = [response EXCEPT ![r] = Apply(@, Head(todo[r]))]
    /\ todo' = [todo EXCEPT ![r] = Tail(@)]
    /\ UNCHANGED <<main, signalled, stage, late>>

Return(r) ==
    /\ stage[r] = "writes" /\ todo[r] = <<>>
    /\ stage' = [stage EXCEPT ![r] = "done"]
    /\ response' = [response EXCEPT ![r] = Send(@, 200)]
    /\ UNCHANGED <<main, signalled, todo, late>>

(* Recover answers for a handler that panicked.  No handler here panics    *)
(* with http.ErrAbortHandler, which Recover would let through.             *)
Panic(r) ==
    /\ stage[r] \in {"pings", "mails", "writes"}
    /\ stage' = [stage EXCEPT ![r] = "done"]
    /\ todo' = [todo EXCEPT ![r] = <<>>]
    /\ response' = [response EXCEPT ![r] = Recovered(@)]
    /\ late' = [late EXCEPT ![r] = response[r].sent # 0]
    /\ UNCHANGED <<main, signalled>>

(* Logger's line is written, and the connection is free again.             *)
Finish(r) ==
    /\ stage[r] = "done"
    /\ stage' = [stage EXCEPT ![r] = "idle"]
    /\ response' = [response EXCEPT ![r] = NoResponse]
    /\ late' = [late EXCEPT ![r] = FALSE]
    /\ UNCHANGED <<main, signalled, todo>>

Run ==
    \/ LoadConfig \/ OpenStore \/ BuildAuth
    \/ \E free \in BOOLEAN : Listen(free)
    \/ Drain \/ Drained \/ CloseStore \/ Exit

Next ==
    \/ Run \/ TimeOut \/ ServeFails \/ Signal
    \/ \E r \in Request :
        \/ \E route \in Route, ok \in BOOLEAN : Accept(r, route, ok)
        \/ \E ok \in BOOLEAN : PingAnswered(r, ok) \/ MailAnswered(r, ok)
        \/ Perform(r) \/ Return(r) \/ Panic(r) \/ Finish(r)

(* The main goroutine runs whenever it can, its timer fires, and a ping    *)
(* ends after two seconds.  Nothing else is taken for granted: a request   *)
(* may hang for ever in the mail relay.                                    *)
Fairness ==
    /\ WF_vars(Run) /\ WF_vars(TimeOut)
    /\ \A r \in Request : WF_vars(\E ok \in BOOLEAN : PingAnswered(r, ok))

Spec == Init /\ [][Next]_vars /\ Fairness

-----------------------------------------------------------------------------
(* Properties *)

(* Outside development a process that gets as far as listening has a       *)
(* secret of its own, a cookie for HTTPS only, and a list of users         *)
(* (README.md:333-334, config.go), however the variables are written.      *)
DeployedSafely ==
    phase = "built" /\ ~Development(env) =>
        /\ Secret(env) = "fine"
        /\ CookieSecure(env) = "true"
        /\ \E k \in DOMAIN env.RECOGNIZED_USERS : env.RECOGNIZED_USERS[k] # NoEntry
        /\ \A d \in Durations : env[d] # "zero"

(* The store is not closed under a request, unless Shutdown gave up or     *)
(* Serve failed (main.go:57-63, 119-130); and whichever way run returns,   *)
(* it leaves no open store behind.                                         *)
StoreOutlivesRequests ==
    /\ store = "closed" /\ UnderWay # {} => hurried
    /\ phase = "exited" => store # "open"

(* A response has one status, and Logger logs that one.  Its body is one   *)
(* writer's, and an error is JSON (problems.go:9-10), unless the handler   *)
(* panicked after it had begun to answer: Recover's words then follow the  *)
(* handler's, under the handler's status.                                  *)
OneAnswer ==
    \A r \in Request :
        LET w == response[r] IN
        stage[r] = "done" =>
            /\ w.recorded.status = w.sent
            /\ \/ late[r]
               \/ /\ Len(w.body) = IF w.sent = 204 THEN 0 ELSE 1
                  /\ w.sent >= 400 => w.sentType = "json"

(* Once asked to, the process ends, whatever its requests do.              *)
StopsInTheEnd == signalled ~> phase = "exited"
=============================================================================
