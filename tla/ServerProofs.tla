---------------------------- MODULE ServerProofs ----------------------------
(***************************************************************************)
(* Three facts about the process, for any set of environments and any      *)
(* number of requests.  The store outlives the requests: where run is says *)
(* what has become of the store, and a request is only under way once      *)
(* Shutdown is over when Shutdown gave up or Serve failed.  What listens   *)
(* was started safely: Load's and buildAuth's checks are behind it.  And   *)
(* every response is one answer: what a handler has still to write goes    *)
(* with what the writers have kept of the answer so far.                   *)
(***************************************************************************)
EXTENDS Server, TLAPS

(* What phase says about the store.                                        *)
StoreInv ==
    /\ phase \in {"start", "loaded"} => store = "none"
    /\ phase \in {"opened", "built", "serving", "draining", "closing"} => store = "open"
    /\ phase = "closed" => store = "closed"
    /\ phase = "exited" => store # "open"

(* When requests may be under way. *)
RequestInv ==
    UnderWay # {} =>
        /\ phase \in {"serving", "draining", "closing", "closed"}
        /\ phase \in {"closing", "closed"} => hurried

Lifecycle ==
    /\ phase \in Phase
    /\ stage \in [Request -> Stage]
    /\ StoreInv
    /\ RequestInv

LEMMA LifecycleInit == Init => Lifecycle
  BY DEF Init, Lifecycle, StoreInv, RequestInv, UnderWay, Phase, Stage

(* The steps of run, and the signal, leave the requests alone, or end them *)
(* all; what they make of the store goes with the phase they leave.        *)
LEMMA RunKeepsLifecycle ==
    ASSUME Lifecycle, Run \/ TimeOut \/ ServeFails \/ Signal
    PROVE  Lifecycle'
<1> USE DEF Lifecycle, StoreInv, RequestInv, UnderWay, Phase, request
<1>1. CASE LoadConfig
  BY <1>1 DEF LoadConfig
<1>2. CASE OpenStore
  BY <1>2 DEF OpenStore
<1>3. CASE BuildAuth
  BY <1>3 DEF BuildAuth
<1>4. CASE \E free \in BOOLEAN : Listen(free)
  BY <1>4 DEF Listen
<1>5. CASE Drain
  BY <1>5 DEF Drain
<1>6. CASE Drained
  BY <1>6 DEF Drained
<1>7. CASE CloseStore
  BY <1>7 DEF CloseStore
<1>8. CASE Exit
  BY <1>8 DEF Exit, AllIdle, Stage
<1>9. CASE TimeOut
  BY <1>9 DEF TimeOut
<1>10. CASE ServeFails
  BY <1>10 DEF ServeFails
<1>11. CASE Signal
  BY <1>11 DEF Signal
<1>12. QED
  BY <1>1, <1>2, <1>3, <1>4, <1>5, <1>6, <1>7, <1>8, <1>9, <1>10, <1>11 DEF Run

(* A request that begins does so while it is taken, and every other step   *)
(* of a request starts from one that is under way.                         *)
LEMMA RequestKeepsLifecycle ==
    ASSUME Lifecycle, UNCHANGED main,
           NEW r \in Request, NEW next \in Stage,
           stage' = [stage EXCEPT ![r] = next],
           Taken \/ stage[r] # "idle"
    PROVE  Lifecycle'
<1>1. /\ phase' = phase /\ store' = store /\ hurried' = hurried
  BY DEF main
<1>2. stage' \in [Request -> Stage]
  BY DEF Lifecycle
<1>3. /\ phase \in {"serving", "draining", "closing", "closed"}
      /\ phase \in {"closing", "closed"} => hurried
  BY DEF Lifecycle, RequestInv, UnderWay, Taken
<1>4. QED
  BY <1>1, <1>2, <1>3 DEF Lifecycle, StoreInv, RequestInv, UnderWay

LEMMA StepKeepsLifecycle == Lifecycle /\ [Next]_vars => Lifecycle'
<1> SUFFICES ASSUME Lifecycle, [Next]_vars PROVE Lifecycle'
  OBVIOUS
<1>1. CASE Run \/ TimeOut \/ ServeFails \/ Signal
  BY <1>1, RunKeepsLifecycle
<1>2. ASSUME NEW r \in Request, NEW route \in Route, NEW ok \in BOOLEAN, Accept(r, route, ok)
      PROVE  Lifecycle'
  <2> DEFINE next == CASE route = "ready" -> "pings"
                       [] route = "request-code" -> "mails"
                       [] OTHER -> "writes"
  <2>1. next \in Stage
    BY DEF Stage
  <2>2. stage' = [stage EXCEPT ![r] = next] /\ Taken /\ UNCHANGED main
    BY <1>2 DEF Accept
  <2>3. QED
    BY <2>1, <2>2, RequestKeepsLifecycle
<1>3. ASSUME NEW r \in Request, NEW ok \in BOOLEAN, PingAnswered(r, ok) \/ MailAnswered(r, ok)
      PROVE  Lifecycle'
  <2>1. /\ stage' = [stage EXCEPT ![r] = "writes"]
        /\ stage[r] # "idle" /\ UNCHANGED main
    BY <1>3 DEF PingAnswered, MailAnswered, Proceed
  <2>2. QED
    BY <2>1, RequestKeepsLifecycle DEF Stage
<1>4. ASSUME NEW r \in Request, Perform(r)
      PROVE  Lifecycle'
  BY <1>4 DEF Perform, main, Lifecycle, StoreInv, RequestInv, UnderWay
<1>5. ASSUME NEW r \in Request, Return(r) \/ Panic(r)
      PROVE  Lifecycle'
  <2>1. /\ stage' = [stage EXCEPT ![r] = "done"]
        /\ stage[r] # "idle" /\ UNCHANGED main
    BY <1>5 DEF Return, Panic
  <2>2. QED
    BY <2>1, RequestKeepsLifecycle DEF Stage
<1>6. ASSUME NEW r \in Request, Finish(r)
      PROVE  Lifecycle'
  <2>1. /\ stage' = [stage EXCEPT ![r] = "idle"]
        /\ stage[r] # "idle" /\ UNCHANGED main
    BY <1>6 DEF Finish
  <2>2. QED
    BY <2>1, RequestKeepsLifecycle DEF Stage
<1>7. CASE UNCHANGED vars
  BY <1>7 DEF vars, main, request, Lifecycle, StoreInv, RequestInv, UnderWay
<1>8. QED
  BY <1>1, <1>2, <1>3, <1>4, <1>5, <1>6, <1>7 DEF Next

(* The store is not closed under a request unless Shutdown gave up or      *)
(* Serve failed, and no way out of run leaves it open (main.go:57-63,      *)
(* 119-130).                                                               *)
THEOREM StoreOutlives == Spec => []StoreOutlivesRequests
<1>1. Lifecycle => StoreOutlivesRequests
  BY DEF Lifecycle, StoreInv, RequestInv, StoreOutlivesRequests, Phase
<1>2. QED
  BY <1>1, LifecycleInit, StepKeepsLifecycle, PTL DEF Spec

-----------------------------------------------------------------------------
(* Types. *)

LEMMA NoResponseTyped == NoResponse \in Response
  BY DEF NoResponse, Response, ContentType, Writer

LEMMA SendTyped ==
    ASSUME NEW w \in Response, NEW status \in Nat
    PROVE  Send(w, status) \in Response
  BY DEF Send, Response

LEMMA BodyTyped ==
    ASSUME NEW w \in Response, NEW body \in Seq(Writer)
    PROVE  [w EXCEPT !.body = body] \in Response
  BY DEF Response

LEMMA SendBodyTyped ==
    ASSUME NEW w \in Response, NEW writer \in Writer
    PROVE  SendBody(w, writer) \in Response
<1> DEFINE v == Send(w, 200)
<1>1. v \in Response
  BY SendTyped
<1>2. v.body \in Seq(Writer)
  BY <1>1 DEF Response
<1>3. Append(v.body, writer) \in Seq(Writer)
  BY <1>2
<1>4. SendBody(w, writer) = [v EXCEPT !.body = Append(v.body, writer)]
  BY DEF SendBody
<1> HIDE DEF v
<1>5. [v EXCEPT !.body = Append(v.body, writer)] \in Response
  BY <1>1, <1>3, BodyTyped
<1>6. QED
  BY <1>4, <1>5

LEMMA RecordHeaderTyped ==
    ASSUME NEW w \in Response, NEW status \in Nat
    PROVE  RecordHeader(w, status) \in Response
<1>1. [w EXCEPT !.recorded = [wrote |-> TRUE, status |-> status]] \in Response
  BY DEF Response
<1>2. QED
  BY <1>1, SendTyped DEF RecordHeader

LEMMA RecordBodyTyped ==
    ASSUME NEW w \in Response, NEW writer \in Writer
    PROVE  RecordBody(w, writer) \in Response
<1>1. [w EXCEPT !.recorded.wrote = TRUE] \in Response
  BY DEF Response
<1>2. QED
  BY <1>1, SendBodyTyped DEF RecordBody

LEMMA RecordErrorTyped ==
    ASSUME NEW w \in Response, NEW status \in Nat, NEW writer \in Writer
    PROVE  RecordError(w, status, writer) \in Response
<1>1. Typed(w, "json") \in Response
  BY DEF Typed, Response, ContentType
<1>2. QED
  BY <1>1, RecordHeaderTyped, RecordBodyTyped DEF RecordError

LEMMA WriteHeaderTyped ==
    ASSUME NEW w \in Response, NEW status \in Nat
    PROVE  WriteHeader(w, status) \in Response
<1> DEFINE v == [w EXCEPT !.problem.wrote = TRUE]
           u == [v EXCEPT !.problem.replaced = TRUE]
<1>1. v \in Response /\ u \in Response
  BY DEF Response
<1>2. RecordError(u, status, "problems") \in Response
  BY <1>1, RecordErrorTyped DEF Writer
<1>3. RecordHeader(v, status) \in Response
  BY <1>1, RecordHeaderTyped
<1>4. WriteHeader(w, status) \in {w, RecordError(u, status, "problems"), RecordHeader(v, status)}
  BY DEF WriteHeader
<1>5. QED
  BY <1>2, <1>3, <1>4

LEMMA WriteTyped ==
    ASSUME NEW w \in Response, NEW writer \in Writer
    PROVE  Write(w, writer) \in Response
  BY WriteHeaderTyped, RecordBodyTyped DEF Write

LEMMA ApplyTyped ==
    ASSUME NEW w \in Response, NEW op \in Op
    PROVE  Apply(w, op) \in Response
<1>1. CASE op[1] = "type" /\ op[2] \in ContentType
  BY <1>1 DEF Apply, Typed, Response
<1>2. CASE op[1] = "header" /\ op[2] \in Nat
  BY <1>2, WriteHeaderTyped DEF Apply
<1>3. CASE op[1] = "body" /\ op[2] \in Writer
  BY <1>3, WriteTyped DEF Apply
<1>4. QED
  BY <1>1, <1>2, <1>3 DEF Op

LEMMA JSONTyped == ASSUME NEW status \in Nat PROVE JSON(status) \in Seq(Op)
  BY DEF JSON, Op, ContentType, Writer

LEMMA MuxErrorTyped == ASSUME NEW status \in Nat PROVE MuxError(status) \in Seq(Op)
  BY DEF MuxError, Op, ContentType, Writer

LEMMA TodoTyped ==
    ASSUME NEW route \in Route, NEW ok \in BOOLEAN
    PROVE  Todo(route, ok) \in Seq(Op)
<1>1. \/ Todo(route, ok) = JSON(200) \/ Todo(route, ok) = JSON(401) \/ Todo(route, ok) = JSON(429)
      \/ Todo(route, ok) = MuxError(404) \/ Todo(route, ok) = MuxError(405)
      \/ Todo(route, ok) = NoContent \/ Todo(route, ok) = <<>>
  BY DEF Todo
<1>2. JSON(200) \in Seq(Op) /\ JSON(401) \in Seq(Op) /\ JSON(429) \in Seq(Op)
  BY JSONTyped
<1>3. MuxError(404) \in Seq(Op) /\ MuxError(405) \in Seq(Op)
  BY MuxErrorTyped
<1>4. NoContent \in Seq(Op) /\ <<>> \in Seq(Op)
  BY DEF NoContent, Op, ContentType
<1>5. CASE Todo(route, ok) = JSON(200) \/ Todo(route, ok) = JSON(401) \/ Todo(route, ok) = JSON(429)
  BY <1>2, <1>5
<1>6. CASE Todo(route, ok) = MuxError(404) \/ Todo(route, ok) = MuxError(405)
  BY <1>3, <1>6
<1>7. CASE Todo(route, ok) = NoContent \/ Todo(route, ok) = <<>>
  BY <1>4, <1>7, Zenon
<1>8. QED
  BY <1>1, <1>5, <1>6, <1>7, ZenonT(30)

LEMMA TypeInit == Init => TypeOK
<1>1. <<>> \in Seq(Op)
  OBVIOUS
<1>2. QED
  BY <1>1, NoResponseTyped DEF Init, TypeOK, Phase, Stage

LEMMA TypeStep == TypeOK /\ [Next]_vars => TypeOK'
<1> SUFFICES ASSUME TypeOK, [Next]_vars PROVE TypeOK'
  OBVIOUS
<1> USE DEF TypeOK, request, main
<1>1. CASE Run \/ TimeOut \/ ServeFails \/ Signal
  <2> USE DEF Phase
  <2>1. CASE LoadConfig \/ BuildAuth \/ Drain \/ Drained
    BY <2>1 DEF LoadConfig, BuildAuth, Drain, Drained
  <2>2. CASE OpenStore
    BY <2>2 DEF OpenStore
  <2>3. CASE \E free \in BOOLEAN : Listen(free)
    BY <2>3 DEF Listen
  <2>4. CASE CloseStore
    BY <2>4 DEF CloseStore
  <2>5. CASE Exit
    BY <2>5, NoResponseTyped DEF Exit, AllIdle, Stage
  <2>6. CASE TimeOut \/ ServeFails \/ Signal
    BY <2>6 DEF TimeOut, ServeFails, Signal
  <2>7. QED
    BY <1>1, <2>1, <2>2, <2>3, <2>4, <2>5, <2>6 DEF Run
<1>2. ASSUME NEW r \in Request, NEW route \in Route, NEW ok \in BOOLEAN, Accept(r, route, ok)
      PROVE  TypeOK'
  <2>1. todo' \in [Request -> Seq(Op)]
    BY <1>2, TodoTyped DEF Accept
  <2>2. stage' \in [Request -> Stage]
    BY <1>2 DEF Accept, Stage
  <2>3. QED
    BY <1>2, <2>1, <2>2 DEF Accept
<1>3. ASSUME NEW r \in Request, NEW ok \in BOOLEAN, PingAnswered(r, ok) \/ MailAnswered(r, ok)
      PROVE  TypeOK'
  <2>1. PICK status \in Nat : Proceed(r, JSON(status))
    BY <1>3 DEF PingAnswered, MailAnswered
  <2>2. QED
    BY <2>1, JSONTyped DEF Proceed, Stage
<1>4. ASSUME NEW r \in Request, Perform(r)
      PROVE  TypeOK'
  <2>1. Head(todo[r]) \in Op /\ Tail(todo[r]) \in Seq(Op)
    BY <1>4 DEF Perform
  <2>2. Apply(response[r], Head(todo[r])) \in Response
    BY <2>1, ApplyTyped
  <2>3. QED
    BY <1>4, <2>1, <2>2 DEF Perform
<1>5. ASSUME NEW r \in Request, Return(r)
      PROVE  TypeOK'
  <2>1. Send(response[r], 200) \in Response
    BY SendTyped
  <2>2. QED
    BY <1>5, <2>1 DEF Return, Stage
<1>6. ASSUME NEW r \in Request, Panic(r)
      PROVE  TypeOK'
  <2>1. Recovered(response[r]) \in Response
    BY RecordErrorTyped DEF Recovered, Writer
  <2>2. <<>> \in Seq(Op)
    OBVIOUS
  <2>3. late' \in [Request -> BOOLEAN]
    BY <1>6 DEF Panic
  <2>4. QED
    BY <1>6, <2>1, <2>2, <2>3 DEF Panic, Stage
<1>7. ASSUME NEW r \in Request, Finish(r)
      PROVE  TypeOK'
  BY <1>7, NoResponseTyped DEF Finish, Stage
<1>8. CASE UNCHANGED vars
  BY <1>8 DEF vars
<1>9. QED
  BY <1>1, <1>2, <1>3, <1>4, <1>5, <1>6, <1>7, <1>8 DEF Next

(* Whatever handlers write, in whatever order they panic, what is kept of  *)
(* a response and of the process has its type (respond.go, problems.go,    *)
(* middleware.go, main.go).                                                *)
THEOREM TypeCorrect == Spec => []TypeOK
  BY TypeInit, TypeStep, PTL DEF Spec

-----------------------------------------------------------------------------
(* What a process that listens was started with. *)

(* The checks of Load and buildAuth are behind the process.                *)
CheckedInv ==
    /\ phase \in {"start", "loaded", "opened", "built"} => env \in Environment
    /\ phase \in {"loaded", "opened", "built"} => Loads(env)
    /\ phase = "built" => BuildsAuth(env)

LEMMA CheckedStep == TypeOK /\ CheckedInv /\ [Next]_vars => CheckedInv'
<1> SUFFICES ASSUME TypeOK, CheckedInv, [Next]_vars PROVE CheckedInv'
  OBVIOUS
<1> USE DEF CheckedInv
<1>1. CASE UNCHANGED <<env, phase>>
  BY <1>1
<1>2. CASE LoadConfig \/ OpenStore \/ BuildAuth
  BY <1>2 DEF LoadConfig, OpenStore, BuildAuth
<1>3. CASE \E free \in BOOLEAN : Listen(free)
  BY <1>3 DEF Listen
<1>4. CASE Drain \/ Drained \/ CloseStore \/ Exit \/ TimeOut \/ ServeFails \/ Signal
  BY <1>4 DEF Drain, Drained, CloseStore, Exit, TimeOut, ServeFails, Signal
<1>5. ASSUME NEW r \in Request,
             \/ \E route \in Route, ok \in BOOLEAN : Accept(r, route, ok)
             \/ \E ok \in BOOLEAN : PingAnswered(r, ok) \/ MailAnswered(r, ok)
             \/ Perform(r) \/ Return(r) \/ Panic(r) \/ Finish(r)
      PROVE  UNCHANGED <<env, phase>>
  BY <1>5 DEF Accept, PingAnswered, MailAnswered, Proceed, Perform, Return, Panic, Finish, main
<1>6. QED
  BY <1>1, <1>2, <1>3, <1>4, <1>5 DEF Next, Run, vars, main

(* What Load and buildAuth let through outside development.                *)
LEMMA WhatIsLetThrough ==
    ASSUME NEW e \in Environment, Loads(e), BuildsAuth(e), ~Development(e)
    PROVE  /\ Secret(e) = "fine"
           /\ CookieSecure(e) = "true"
           /\ \E k \in DOMAIN e.RECOGNIZED_USERS : e.RECOGNIZED_USERS[k] # NoEntry
           /\ \A d \in Durations : e[d] # "zero"
<1>1. Secret(e) = "fine"
  BY EnvironmentAssumption DEF Loads, LoadsAuth, Secret
<1>2. CookieSecure(e) = "true"
  BY DEF Loads, LoadsAuth
<1>3. \E k \in DOMAIN e.RECOGNIZED_USERS : e.RECOGNIZED_USERS[k] # NoEntry
  <2>1. DOMAIN Users(e) # {}
    BY DEF Loads, LoadsAuth
  <2>2. DOMAIN Users(e) = {e.RECOGNIZED_USERS[k].email : k \in Entries(e)}
    BY DEF Users
  <2>3. QED
    BY <2>1, <2>2 DEF Entries
<1>4. ASSUME NEW d \in Durations
      PROVE  e[d] # "zero"
  <2>1. Duration(e, d)
    BY DEF Loads, LoadsAuth, Durations
  <2>2. QED
    BY <2>1 DEF Duration, Or
<1>5. QED
  BY <1>1, <1>2, <1>3, <1>4

(* Outside development no process listens without a secret of its own, a   *)
(* cookie for HTTPS only, a user, and lifetimes that are some: whatever    *)
(* the environment is (README.md:333-334; Load, NewTokenService).          *)
THEOREM NothingUnsafeListens == Spec => []DeployedSafely
<1>1. Init => CheckedInv
  BY DEF Init, CheckedInv
<1>2. CheckedInv => DeployedSafely
  BY WhatIsLetThrough DEF CheckedInv, DeployedSafely
<1>3. QED
  BY <1>1, <1>2, CheckedStep, TypeInit, TypeStep, PTL DEF Spec

-----------------------------------------------------------------------------
(* Every response is one answer. *)

(* Nothing has been sent or recorded yet.                                  *)
Blank(w) ==
    /\ w.sent = 0 /\ w.body = <<>>
    /\ ~w.recorded.wrote /\ ~w.problem.wrote /\ ~w.problem.replaced

(* The handler's header went out, recorded as it was sent.                 *)
Begun(w, status) ==
    /\ w.sent = status /\ w.sentType = "json"
    /\ w.recorded.wrote /\ w.recorded.status = status
    /\ w.problem.wrote /\ ~w.problem.replaced

(* JSONProblems answered in the handler's place.                           *)
Replaced(w, status) ==
    /\ w.sent = status /\ w.sentType = "json" /\ Len(w.body) = 1
    /\ w.recorded.wrote /\ w.recorded.status = status
    /\ w.problem.wrote /\ w.problem.replaced

Status == {200, 202, 401, 429, 500, 503}

(* How far the writing of an answer is: what is still to be done, and what *)
(* has become of the response.                                             *)
WritesJSON(w, left, status) ==
    \/ left = JSON(status) /\ Blank(w)
    \/ left = << <<"header", status>>, <<"body", "handler">> >> /\ Blank(w) /\ w.type = "json"
    \/ left = << <<"body", "handler">> >> /\ Begun(w, status) /\ w.body = <<>>
    \/ left = <<>> /\ Begun(w, status) /\ Len(w.body) = 1

WritesNoContent(w, left) ==
    \/ left = NoContent /\ Blank(w)
    \/ left = << <<"header", 204>> >> /\ Blank(w) /\ w.type = "json"
    \/ left = <<>> /\ Begun(w, 204) /\ w.body = <<>>

WritesMuxError(w, left, status) ==
    \/ left = MuxError(status) /\ Blank(w)
    \/ left = << <<"header", status>>, <<"body", "mux">> >> /\ Blank(w) /\ w.type = "text"
    \/ left = << <<"body", "mux">> >> /\ Replaced(w, status)
    \/ left = <<>> /\ Replaced(w, status)

Writes(w, left) ==
    \/ \E status \in Status : WritesJSON(w, left, status)
    \/ WritesNoContent(w, left)
    \/ \E status \in Problems : WritesMuxError(w, left, status)

(* OneAnswer's condition. *)
Whole(w, panicked) ==
    /\ w.recorded.status = w.sent
    /\ \/ panicked
       \/ /\ Len(w.body) = IF w.sent = 204 THEN 0 ELSE 1
          /\ w.sent >= 400 => w.sentType = "json"

AnswerInv ==
    \A r \in Request :
        /\ stage[r] \in {"idle", "pings", "mails"} => response[r] = NoResponse
        /\ stage[r] = "writes" => Writes(response[r], todo[r])
        /\ stage[r] = "done" => Whole(response[r], late[r])

LEMMA BlankNoResponse == Blank(NoResponse)
  BY DEF Blank, NoResponse

LEMMA TypeOp ==
    ASSUME NEW w \in Response, Blank(w), NEW type
    PROVE  LET v == Apply(w, <<"type", type>>) IN Blank(v) /\ v.type = type
<1>1. PICK v : v = [w EXCEPT !.type = type]
  OBVIOUS
<1>2. Apply(w, <<"type", type>>) = v
  BY <1>1 DEF Apply, Typed
<1>3. Blank(v) /\ v.type = type
  BY <1>1 DEF Blank, Response
<1>4. QED
  BY <1>2, <1>3

(* A header that is let through. *)
LEMMA RecordHeaderOp ==
    ASSUME NEW w \in Response, w.sent = 0, ~w.recorded.wrote, NEW status \in Nat
    PROVE  LET v == RecordHeader(w, status) IN
           /\ v.sent = status /\ v.sentType = w.type
           /\ v.recorded.wrote /\ v.recorded.status = status
           /\ v.problem = w.problem /\ v.body = w.body
<1>1. PICK u : u = [w EXCEPT !.recorded = [wrote |-> TRUE, status |-> status]]
  OBVIOUS
<1>2. /\ u.sent = 0 /\ u.type = w.type /\ u.problem = w.problem /\ u.body = w.body
      /\ u.recorded.wrote /\ u.recorded.status = status /\ u \in Response
  BY <1>1 DEF Response
<1>3. PICK v : v = [u EXCEPT !.sent = status, !.sentType = u.type]
  OBVIOUS
<1>4. RecordHeader(w, status) = v
  BY <1>1, <1>2, <1>3 DEF RecordHeader, Send
<1>5. /\ v.sent = status /\ v.sentType = w.type
      /\ v.recorded.wrote /\ v.recorded.status = status
      /\ v.problem = w.problem /\ v.body = w.body
  BY <1>2, <1>3 DEF Response
<1>6. QED
  BY <1>4, <1>5

(* A part of a body, once the header is out. *)
LEMMA RecordBodyOp ==
    ASSUME NEW w \in Response, w.sent # 0, NEW writer \in Writer
    PROVE  LET v == RecordBody(w, writer) IN
           /\ v.sent = w.sent /\ v.sentType = w.sentType /\ v.problem = w.problem
           /\ v.recorded.wrote /\ v.recorded.status = w.recorded.status
           /\ w.body = <<>> => Len(v.body) = 1
<1>1. PICK u : u = [w EXCEPT !.recorded.wrote = TRUE]
  OBVIOUS
<1>2. /\ u.sent = w.sent /\ u.sentType = w.sentType /\ u.problem = w.problem /\ u.body = w.body
      /\ u.recorded.wrote /\ u.recorded.status = w.recorded.status /\ u \in Response
  BY <1>1 DEF Response
<1>3. PICK v : v = [u EXCEPT !.body = Append(u.body, writer)]
  OBVIOUS
<1>4. RecordBody(w, writer) = v
  BY <1>1, <1>2, <1>3 DEF RecordBody, SendBody, Send
<1>5. /\ v.sent = w.sent /\ v.sentType = w.sentType /\ v.problem = w.problem
      /\ v.recorded.wrote /\ v.recorded.status = w.recorded.status
      /\ v.body = Append(w.body, writer)
  BY <1>2, <1>3 DEF Response
<1>6. w.body \in Seq(Writer)
  BY DEF Response
<1>7. w.body = <<>> => Len(v.body) = 1
  BY <1>5, <1>6
<1>8. QED
  BY <1>4, <1>5, <1>7

LEMMA HeaderOp ==
    ASSUME NEW w \in Response, Blank(w), NEW status \in Nat \ {0}, w.type = "json"
    PROVE  LET v == Apply(w, <<"header", status>>) IN Begun(v, status) /\ v.body = <<>>
<1>1. PICK u : u = [w EXCEPT !.problem.wrote = TRUE]
  OBVIOUS
<1>2. /\ u \in Response /\ u.sent = 0 /\ ~u.recorded.wrote /\ u.body = <<>>
      /\ u.problem.wrote /\ ~u.problem.replaced /\ u.type = "json"
  BY <1>1 DEF Response, Blank
<1>3. Apply(w, <<"header", status>>) = RecordHeader(u, status)
  BY <1>1 DEF Apply, WriteHeader, Blank
<1>4. PICK v : v = RecordHeader(u, status)
  OBVIOUS
<1>5. Begun(v, status) /\ v.body = <<>>
  BY <1>2, <1>4, RecordHeaderOp DEF Begun
<1>6. QED
  BY <1>3, <1>4, <1>5

LEMMA ReplacedOp ==
    ASSUME NEW w \in Response, Blank(w), NEW status \in Problems, w.type = "text"
    PROVE  Replaced(Apply(w, <<"header", status>>), status)
<1>1. PICK u : u = [[w EXCEPT !.problem.wrote = TRUE] EXCEPT !.problem.replaced = TRUE]
  OBVIOUS
<1>2. /\ u \in Response /\ u.sent = 0 /\ ~u.recorded.wrote /\ u.body = <<>>
      /\ u.problem.wrote /\ u.problem.replaced
  BY <1>1 DEF Response, Blank
<1>3. Apply(w, <<"header", status>>) = RecordError(u, status, "problems")
  BY <1>1 DEF Apply, WriteHeader, Blank
<1>4. PICK t : t = Typed(u, "json")
  OBVIOUS
<1>5. /\ t \in Response /\ t.sent = 0 /\ ~t.recorded.wrote /\ t.body = <<>>
      /\ t.problem.wrote /\ t.problem.replaced /\ t.type = "json"
  BY <1>2, <1>4 DEF Typed, Response, ContentType
<1>6. PICK h : h = RecordHeader(t, status)
  OBVIOUS
<1>7. status \in Nat /\ status # 0
  BY DEF Problems
<1>8. /\ h.sent = status /\ h.sentType = "json" /\ h.body = <<>>
      /\ h.recorded.wrote /\ h.recorded.status = status
      /\ h.problem.wrote /\ h.problem.replaced /\ h \in Response
  BY <1>5, <1>6, <1>7, RecordHeaderOp, RecordHeaderTyped
<1>9. PICK v : v = RecordBody(h, "problems")
  OBVIOUS
<1>10. Replaced(v, status)
  <2>1. "problems" \in Writer
    BY DEF Writer
  <2>2. QED
    BY <1>7, <1>8, <1>9, <2>1, RecordBodyOp DEF Replaced
<1>11. QED
  BY <1>3, <1>4, <1>6, <1>9, <1>10 DEF RecordError

LEMMA BodyOp ==
    ASSUME NEW w \in Response, NEW status \in Nat \ {0}, Begun(w, status), w.body = <<>>,
           NEW writer \in Writer
    PROVE  LET v == Apply(w, <<"body", writer>>) IN Begun(v, status) /\ Len(v.body) = 1
<1>1. WriteHeader(w, 200) = w
  BY DEF WriteHeader, Begun
<1>2. Apply(w, <<"body", writer>>) = RecordBody(w, writer)
  BY <1>1 DEF Apply, Write, Begun
<1>3. PICK v : v = RecordBody(w, writer)
  OBVIOUS
<1>4. w.sent # 0
  BY DEF Begun
<1>5. Begun(v, status) /\ Len(v.body) = 1
  BY <1>3, <1>4, RecordBodyOp DEF Begun
<1>6. QED
  BY <1>2, <1>3, <1>5

LEMMA ReplacedBodyOp ==
    ASSUME NEW w \in Response, NEW status, Replaced(w, status), NEW writer
    PROVE  Apply(w, <<"body", writer>>) = w
BY DEF Apply, Write, WriteHeader, Replaced

(* Recover's answer, to a request that has none, or at the end of another. *)
LEMMA RecoverWhole ==
    ASSUME NEW w \in Response, Blank(w) \/ (w.sent # 0 /\ w.recorded.wrote /\ w.recorded.status = w.sent)
    PROVE  Whole(Recovered(w), w.sent # 0)
<1>1. PICK t : t = Typed(w, "json")
  OBVIOUS
<1>2. /\ t \in Response /\ t.sent = w.sent /\ t.recorded = w.recorded /\ t.body = w.body
      /\ t.type = "json" /\ t.problem = w.problem
  BY <1>1 DEF Typed, Response, ContentType
<1>3. PICK h : h = RecordHeader(t, 500)
  OBVIOUS
<1>4. PICK v : v = RecordBody(h, "recover")
  OBVIOUS
<1>5. Recovered(w) = v
  BY <1>1, <1>3, <1>4 DEF Recovered, RecordError
<1>6. "recover" \in Writer /\ h \in Response
  BY <1>2, <1>3, RecordHeaderTyped DEF Writer
<1>7. CASE Blank(w)
  <2>1. /\ h.sent = 500 /\ h.sentType = "json" /\ h.body = <<>>
        /\ h.recorded.wrote /\ h.recorded.status = 500
    BY <1>2, <1>3, <1>7, RecordHeaderOp DEF Blank
  <2>2. v.sent = 500 /\ v.sentType = "json" /\ Len(v.body) = 1 /\ v.recorded.status = 500
    BY <1>4, <1>6, <2>1, RecordBodyOp
  <2>3. QED
    BY <1>5, <2>2 DEF Whole
<1>8. CASE w.sent # 0 /\ w.recorded.wrote /\ w.recorded.status = w.sent
  <2>1. h = t
    BY <1>2, <1>3, <1>8 DEF RecordHeader
  <2>2. v.recorded.status = v.sent
    BY <1>2, <1>4, <1>6, <1>8, <2>1, RecordBodyOp
  <2>3. QED
    BY <1>5, <1>8, <2>2 DEF Whole
<1>9. QED
  BY <1>7, <1>8

-----------------------------------------------------------------------------
(* A step of an answer. *)

LEMMA JSONSteps ==
    ASSUME NEW w \in Response, NEW left, NEW status \in Status, WritesJSON(w, left, status), left # <<>>
    PROVE  WritesJSON(Apply(w, Head(left)), Tail(left), status)
<1>1. status \in Nat \ {0} /\ "handler" \in Writer
  BY DEF Status, Writer
<1>2. CASE left = JSON(status) /\ Blank(w)
  <2>1. /\ Head(left) = <<"type", "json">>
        /\ Tail(left) = << <<"header", status>>, <<"body", "handler">> >>
    BY <1>2 DEF JSON
  <2>2. QED
    BY <1>2, <2>1, TypeOp DEF WritesJSON
<1>3. CASE left = << <<"header", status>>, <<"body", "handler">> >> /\ Blank(w) /\ w.type = "json"
  <2>1. Head(left) = <<"header", status>> /\ Tail(left) = << <<"body", "handler">> >>
    BY <1>3
  <2>2. QED
    BY <1>1, <1>3, <2>1, HeaderOp DEF WritesJSON
<1>4. CASE left = << <<"body", "handler">> >> /\ Begun(w, status) /\ w.body = <<>>
  <2>1. Head(left) = <<"body", "handler">> /\ Tail(left) = <<>>
    BY <1>4
  <2>2. QED
    BY <1>1, <1>4, <2>1, BodyOp DEF WritesJSON
<1>5. QED
  BY <1>2, <1>3, <1>4 DEF WritesJSON

LEMMA NoContentSteps ==
    ASSUME NEW w \in Response, NEW left, WritesNoContent(w, left), left # <<>>
    PROVE  WritesNoContent(Apply(w, Head(left)), Tail(left))
<1>1. CASE left = NoContent /\ Blank(w)
  <2>1. Head(left) = <<"type", "json">> /\ Tail(left) = << <<"header", 204>> >>
    BY <1>1 DEF NoContent
  <2>2. QED
    BY <1>1, <2>1, TypeOp DEF WritesNoContent
<1>2. CASE left = << <<"header", 204>> >> /\ Blank(w) /\ w.type = "json"
  <2>1. Head(left) = <<"header", 204>> /\ Tail(left) = <<>>
    BY <1>2
  <2>2. QED
    BY <1>2, <2>1, HeaderOp DEF WritesNoContent
<1>3. QED
  BY <1>1, <1>2 DEF WritesNoContent

LEMMA MuxErrorSteps ==
    ASSUME NEW w \in Response, NEW left, NEW status \in Problems, WritesMuxError(w, left, status),
           left # <<>>
    PROVE  WritesMuxError(Apply(w, Head(left)), Tail(left), status)
<1>1. CASE left = MuxError(status) /\ Blank(w)
  <2>1. /\ Head(left) = <<"type", "text">>
        /\ Tail(left) = << <<"header", status>>, <<"body", "mux">> >>
    BY <1>1 DEF MuxError
  <2>2. QED
    BY <1>1, <2>1, TypeOp DEF WritesMuxError
<1>2. CASE left = << <<"header", status>>, <<"body", "mux">> >> /\ Blank(w) /\ w.type = "text"
  <2>1. Head(left) = <<"header", status>> /\ Tail(left) = << <<"body", "mux">> >>
    BY <1>2
  <2>2. QED
    BY <1>2, <2>1, ReplacedOp DEF WritesMuxError
<1>3. CASE left = << <<"body", "mux">> >> /\ Replaced(w, status)
  <2>1. Head(left) = <<"body", "mux">> /\ Tail(left) = <<>>
    BY <1>3
  <2>2. QED
    BY <1>3, <2>1, ReplacedBodyOp DEF WritesMuxError
<1>4. QED
  BY <1>1, <1>2, <1>3 DEF WritesMuxError

LEMMA WriteSteps ==
    ASSUME NEW w \in Response, NEW left, Writes(w, left)
    PROVE  /\ left # <<>> => Writes(Apply(w, Head(left)), Tail(left))
           /\ left = <<>> => Send(w, 200) = w /\ Whole(w, FALSE)
           /\ Blank(w) \/ (w.sent # 0 /\ w.recorded.wrote /\ w.recorded.status = w.sent)
<1>1. ASSUME NEW status \in Status, WritesJSON(w, left, status)
      PROVE  /\ left # <<>> => Writes(Apply(w, Head(left)), Tail(left))
             /\ left = <<>> => Begun(w, status) /\ Len(w.body) = 1
             /\ Blank(w) \/ Begun(w, status)
  <2>1. JSON(status) # <<>>
    BY DEF JSON
  <2>2. left # <<>> => Writes(Apply(w, Head(left)), Tail(left))
    BY <1>1, JSONSteps DEF Writes
  <2>3. QED
    BY <1>1, <2>1, <2>2 DEF WritesJSON
<1>2. ASSUME WritesNoContent(w, left)
      PROVE  /\ left # <<>> => Writes(Apply(w, Head(left)), Tail(left))
             /\ left = <<>> => Begun(w, 204) /\ w.body = <<>>
             /\ Blank(w) \/ Begun(w, 204)
  <2>1. NoContent # <<>>
    BY DEF NoContent
  <2>2. left # <<>> => Writes(Apply(w, Head(left)), Tail(left))
    BY <1>2, NoContentSteps DEF Writes
  <2>3. QED
    BY <1>2, <2>1, <2>2 DEF WritesNoContent
<1>3. ASSUME NEW status \in Problems, WritesMuxError(w, left, status)
      PROVE  /\ left # <<>> => Writes(Apply(w, Head(left)), Tail(left))
             /\ left = <<>> => Replaced(w, status)
             /\ Blank(w) \/ Replaced(w, status)
  <2>1. MuxError(status) # <<>>
    BY DEF MuxError
  <2>2. left # <<>> => Writes(Apply(w, Head(left)), Tail(left))
    BY <1>3, MuxErrorSteps DEF Writes
  <2>3. QED
    BY <1>3, <2>1, <2>2 DEF WritesMuxError
<1>4. CASE \E status \in Status : WritesJSON(w, left, status)
  <2>1. PICK status \in Status : WritesJSON(w, left, status)
    BY <1>4
  <2>2. status # 0 /\ status # 204
    BY DEF Status
  <2>3. Begun(w, status) /\ Len(w.body) = 1 => Send(w, 200) = w /\ Whole(w, FALSE)
    BY <2>2 DEF Begun, Whole, Send
  <2>4. QED
    BY <1>1, <2>1, <2>2, <2>3 DEF Begun
<1>5. CASE WritesNoContent(w, left)
  <2>1. w.body = <<>> => Len(w.body) = 0
    OBVIOUS
  <2>2. Begun(w, 204) /\ w.body = <<>> => Send(w, 200) = w /\ Whole(w, FALSE)
    BY <2>1 DEF Begun, Whole, Send
  <2>3. Begun(w, 204) => w.sent # 0 /\ w.recorded.wrote /\ w.recorded.status = w.sent
    BY DEF Begun
  <2>4. QED
    BY <1>2, <1>5, <2>2, <2>3, Zenon
<1>6. CASE \E status \in Problems : WritesMuxError(w, left, status)
  <2>1. PICK status \in Problems : WritesMuxError(w, left, status)
    BY <1>6
  <2>2. status # 0 /\ status # 204
    BY DEF Problems
  <2>3. Replaced(w, status) => Send(w, 200) = w /\ Whole(w, FALSE)
    BY <2>2 DEF Replaced, Whole, Send
  <2>4. QED
    BY <1>3, <2>1, <2>2, <2>3 DEF Replaced
<1>7. QED
  BY <1>4, <1>5, <1>6 DEF Writes

-----------------------------------------------------------------------------
(* A step of a request changes that request, and no other. *)

LEMMA OneRequest ==
    ASSUME NEW r \in Request, AnswerInv,
           stage \in [Request -> Stage], todo \in [Request -> Seq(Op)],
           response \in [Request -> Response], late \in [Request -> BOOLEAN],
           NEW s, NEW t, NEW w, NEW l,
           stage' = [stage EXCEPT ![r] = s], todo' = [todo EXCEPT ![r] = t],
           response' = [response EXCEPT ![r] = w], late' = [late EXCEPT ![r] = l],
           s \in {"idle", "pings", "mails"} => w = NoResponse,
           s = "writes" => Writes(w, t),
           s = "done" => Whole(w, l)
    PROVE  AnswerInv'
<1>1. ASSUME NEW q \in Request
      PROVE  /\ stage'[q] \in {"idle", "pings", "mails"} => response'[q] = NoResponse
             /\ stage'[q] = "writes" => Writes(response'[q], todo'[q])
             /\ stage'[q] = "done" => Whole(response'[q], late'[q])
  <2>1. CASE q = r
    BY <2>1
  <2>2. CASE q # r
    <3>1. /\ stage'[q] = stage[q] /\ todo'[q] = todo[q]
          /\ response'[q] = response[q] /\ late'[q] = late[q]
      BY <2>2
    <3>2. QED
      BY <3>1 DEF AnswerInv
  <2>3. QED
    BY <2>1, <2>2
<1>2. QED
  BY <1>1 DEF AnswerInv, Writes, Whole, WritesJSON, WritesNoContent, WritesMuxError,
              Blank, Begun, Replaced

(* The steps of one request. *)
LEMMA RequestAnswers ==
    ASSUME TypeOK, AnswerInv, NEW r \in Request,
           \/ \E route \in Route, ok \in BOOLEAN : Accept(r, route, ok)
           \/ \E ok \in BOOLEAN : PingAnswered(r, ok) \/ MailAnswered(r, ok)
           \/ Perform(r) \/ Return(r) \/ Panic(r) \/ Finish(r)
    PROVE  AnswerInv'
<1> DEFINE w == response[r]
<1>1. /\ stage \in [Request -> Stage] /\ todo \in [Request -> Seq(Op)]
      /\ response \in [Request -> Response] /\ late \in [Request -> BOOLEAN]
      /\ w \in Response
  BY DEF TypeOK
<1>2. /\ stage[r] \in {"idle", "pings", "mails"} => w = NoResponse
      /\ stage[r] = "writes" => Writes(w, todo[r])
      /\ stage[r] = "done" => Whole(w, late[r])
  BY DEF AnswerInv
<1>3. ASSUME NEW status \in Status
      PROVE  Writes(NoResponse, JSON(status))
  BY <1>3, BlankNoResponse DEF Writes, WritesJSON
<1>4. ASSUME NEW route \in Route, NEW ok \in BOOLEAN, Accept(r, route, ok)
      PROVE  AnswerInv'
  <2>1. /\ response' = [response EXCEPT ![r] = w] /\ late' = [late EXCEPT ![r] = late[r]]
        /\ w = NoResponse
    BY <1>1, <1>2, <1>4 DEF Accept
  <2>2. PICK s : /\ s = CASE route = "ready" -> "pings"
                          [] route = "request-code" /\ ok -> "mails"
                          [] OTHER -> "writes"
                 /\ stage' = [stage EXCEPT ![r] = s]
    BY <1>4 DEF Accept
  <2>3. s = "writes" => Writes(w, Todo(route, ok))
    <3>1. SUFFICES ASSUME s = "writes" PROVE Writes(w, Todo(route, ok))
      OBVIOUS
    <3>2. \/ route \in {"health", "me", "verify-code", "logout", "unknown", "method"}
          \/ route = "request-code" /\ ~ok
      BY <2>2, <3>1 DEF Route
    <3>3. CASE route \in {"health", "me", "verify-code"} \/ (route = "request-code" /\ ~ok)
      BY <2>1, <1>3, <3>3 DEF Todo, Status
    <3>4. CASE route = "logout"
      BY <2>1, <3>4, BlankNoResponse DEF Todo, Writes, WritesNoContent
    <3>5. CASE route = "unknown"
      BY <2>1, <3>5, BlankNoResponse DEF Todo, Writes, WritesMuxError, Problems
    <3>6. CASE route = "method"
      BY <2>1, <3>6, BlankNoResponse DEF Todo, Writes, WritesMuxError, Problems
    <3>7. QED
      BY <3>2, <3>3, <3>4, <3>5, <3>6
  <2>4. s # "done" /\ todo' = [todo EXCEPT ![r] = Todo(route, ok)]
    BY <1>4, <2>2 DEF Accept
  <2>5. PICK t : t = Todo(route, ok)
    OBVIOUS
  <2>6. QED
    BY <1>1, <2>1, <2>2, <2>3, <2>4, <2>5, OneRequest
<1>5. ASSUME NEW status \in Status, stage[r] \in {"pings", "mails"}, Proceed(r, JSON(status))
      PROVE  AnswerInv'
  <2>1. PICK t : t = JSON(status)
    OBVIOUS
  <2>2. /\ stage' = [stage EXCEPT ![r] = "writes"] /\ todo' = [todo EXCEPT ![r] = t]
        /\ response' = [response EXCEPT ![r] = w] /\ late' = [late EXCEPT ![r] = late[r]]
    BY <1>1, <1>5, <2>1 DEF Proceed
  <2>3. Writes(w, t)
    BY <1>2, <1>3, <1>5, <2>1
  <2>4. QED
    BY <1>1, <2>2, <2>3, OneRequest
<1>6. CASE \E ok \in BOOLEAN : PingAnswered(r, ok) \/ MailAnswered(r, ok)
  <2>1. \E status \in Status : Proceed(r, JSON(status))
    <3>1. PICK ok \in BOOLEAN : PingAnswered(r, ok) \/ MailAnswered(r, ok)
      BY <1>6
    <3>2. 200 \in Status /\ 202 \in Status /\ 500 \in Status /\ 503 \in Status
      BY DEF Status
    <3>3. CASE PingAnswered(r, ok)
      BY <3>2, <3>3 DEF PingAnswered
    <3>4. CASE MailAnswered(r, ok)
      BY <3>2, <3>4 DEF MailAnswered
    <3>5. QED
      BY <3>1, <3>3, <3>4
  <2>2. stage[r] \in {"pings", "mails"}
    BY <1>6 DEF PingAnswered, MailAnswered
  <2>3. QED
    BY <1>5, <2>1, <2>2
<1>7. CASE Perform(r)
  <2>1. PICK v : v = Apply(w, Head(todo[r]))
    OBVIOUS
  <2>2. /\ stage[r] = "writes" /\ todo[r] # <<>>
        /\ stage' = [stage EXCEPT ![r] = "writes"]
        /\ todo' = [todo EXCEPT ![r] = Tail(todo[r])]
        /\ response' = [response EXCEPT ![r] = v] /\ late' = [late EXCEPT ![r] = late[r]]
    BY <1>1, <1>7, <2>1 DEF Perform
  <2>3. Writes(v, Tail(todo[r]))
    BY <1>1, <1>2, <2>1, <2>2, WriteSteps
  <2>4. QED
    BY <1>1, <2>2, <2>3, OneRequest
<1>8. CASE Return(r)
  <2>1. stage[r] = "writes" /\ todo[r] = <<>>
    BY <1>8 DEF Return
  <2>2. Send(w, 200) = w /\ Whole(w, FALSE)
    BY <1>1, <1>2, <2>1, WriteSteps
  <2>3. /\ stage' = [stage EXCEPT ![r] = "done"] /\ todo' = [todo EXCEPT ![r] = todo[r]]
        /\ response' = [response EXCEPT ![r] = w] /\ late' = [late EXCEPT ![r] = late[r]]
    BY <1>1, <1>8, <2>2 DEF Return
  <2>4. Whole(w, late[r])
    BY <2>2 DEF Whole
  <2>5. QED
    BY <1>1, <2>3, <2>4, OneRequest
<1>9. CASE Panic(r)
  <2>1. PICK v : v = Recovered(w)
    OBVIOUS
  <2>2. PICK l : l = (w.sent # 0)
    OBVIOUS
  <2>3. /\ stage[r] \in {"pings", "mails", "writes"}
        /\ stage' = [stage EXCEPT ![r] = "done"] /\ todo' = [todo EXCEPT ![r] = <<>>]
        /\ response' = [response EXCEPT ![r] = v] /\ late' = [late EXCEPT ![r] = l]
    BY <1>1, <1>9, <2>1, <2>2 DEF Panic
  <2>4. Blank(w) \/ (w.sent # 0 /\ w.recorded.wrote /\ w.recorded.status = w.sent)
    BY <1>1, <1>2, <2>3, BlankNoResponse, WriteSteps
  <2>5. Whole(v, l)
    BY <1>1, <2>1, <2>2, <2>4, RecoverWhole
  <2>6. QED
    BY <1>1, <2>3, <2>5, OneRequest
<1>10. CASE Finish(r)
  <2>1. PICK l : l = FALSE
    OBVIOUS
  <2>2. /\ stage' = [stage EXCEPT ![r] = "idle"] /\ todo' = [todo EXCEPT ![r] = todo[r]]
        /\ response' = [response EXCEPT ![r] = NoResponse] /\ late' = [late EXCEPT ![r] = l]
    BY <1>1, <1>10, <2>1 DEF Finish
  <2>3. QED
    BY <1>1, <2>2, OneRequest
<1>11. QED
  BY <1>4, <1>6, <1>7, <1>8, <1>9, <1>10

LEMMA AnswerStep == TypeOK /\ AnswerInv /\ [Next]_vars => AnswerInv'
<1> SUFFICES ASSUME TypeOK, AnswerInv, [Next]_vars PROVE AnswerInv'
  OBVIOUS
<1>1. CASE UNCHANGED request
  BY <1>1 DEF request, AnswerInv, Writes, Whole, WritesJSON, WritesNoContent, WritesMuxError,
              Blank, Begun, Replaced
<1>2. CASE (Run /\ ~Exit) \/ TimeOut \/ ServeFails \/ Signal
  BY <1>1, <1>2 DEF Run, LoadConfig, OpenStore, BuildAuth, Listen, Drain, Drained, CloseStore,
                    TimeOut, ServeFails, Signal
<1>3. CASE Exit
  BY <1>3 DEF Exit, AllIdle, AnswerInv
<1>4. QED
  BY <1>1, <1>2, <1>3, RequestAnswers DEF Next, vars, Run

(* A response has the one status that Logger logs, and one writer's body,  *)
(* as JSON if it is an error, unless its handler panicked after it had     *)
(* begun to answer (Recover, Logger, JSONProblems; problems.go:9-10): for  *)
(* any number of requests.                                                 *)
THEOREM EveryResponseIsOneAnswer == Spec => []OneAnswer
<1>1. Init => AnswerInv
  BY DEF Init, AnswerInv
<1>2. AnswerInv => OneAnswer
  BY DEF AnswerInv, OneAnswer, Whole
<1>3. QED
  BY <1>1, <1>2, AnswerStep, TypeInit, TypeStep, PTL DEF Spec
=============================================================================
