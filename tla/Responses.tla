----------------------------- MODULE Responses ------------------------------
(***************************************************************************)
(* One response on its way through the writers the middleware of           *)
(* httpapi/router.go stacks up: a handler writes to JSONProblems'          *)
(* problemWriter, that to Logger's statusRecorder, and that to net/http.   *)
(* Recover and JSONProblems write answers of their own with Error.         *)
(*                                                                         *)
(* A part of a body is known by who wrote it; what it says is left out.    *)
(***************************************************************************)
EXTENDS Naturals, Sequences

Writer == {"handler", "mux", "problems", "recover"}
ContentType == {"none", "text", "json"}
Response == [type : ContentType,            \* the header map's Content-Type
             sent : Nat,                    \* the status net/http sent, 0 before
             sentType : ContentType,
             body : Seq(Writer),
             recorded : [wrote : BOOLEAN, status : Nat],
             problem : [wrote : BOOLEAN, replaced : BOOLEAN]]

NoResponse ==
    [type |-> "none", sent |-> 0, sentType |-> "none", body |-> <<>>,
     recorded |-> [wrote |-> FALSE, status |-> 200],
     problem |-> [wrote |-> FALSE, replaced |-> FALSE]]

Typed(w, type) == [w EXCEPT !.type = type]

(* net/http: headers go out once, at the latest with the first of the body. *)
Send(w, status) ==
    IF w.sent # 0 THEN w ELSE [w EXCEPT !.sent = status, !.sentType = w.type]

SendBody(w, writer) ==
    LET v == Send(w, 200) IN [v EXCEPT !.body = Append(@, writer)]

(* Mutant of RecordHeader: the last status is what is recorded. *)
RecordHeaderLast(w, status) == Send([w EXCEPT !.recorded = [wrote |-> TRUE, status |-> status]], status)

(* statusRecorder. *)
RecordHeader(w, status) ==
    IF w.recorded.wrote THEN w
    ELSE Send([w EXCEPT !.recorded = [wrote |-> TRUE, status |-> status]], status)

RecordBody(w, writer) == SendBody([w EXCEPT !.recorded.wrote = TRUE], writer)

(* Error, with the writer it is given: the recorder.                       *)
RecordError(w, status, writer) ==
    RecordBody(RecordHeader(Typed(w, "json"), status), writer)

Problems == {404, 405}

(* problemWriter. *)
WriteHeader(w, status) ==
    LET v == [w EXCEPT !.problem.wrote = TRUE] IN
    CASE w.problem.wrote -> w
      [] ~w.problem.wrote /\ status \in Problems /\ w.type # "json"
            -> RecordError([v EXCEPT !.problem.replaced = TRUE], status, "problems")
      [] OTHER -> RecordHeader(v, status)

Write(w, writer) ==
    LET v == WriteHeader(w, 200) IN
    IF v.problem.replaced THEN v ELSE RecordBody(v, writer)

(* Recover, inside Logger and outside JSONProblems.                        *)
Recovered(w) == RecordError(w, 500, "recover")

(* What a handler does, in order.  JSON(status, v) and http.Error are      *)
(* three steps, and JSON(status, nil) two.                                 *)
Op == ({"type"} \X ContentType) \cup ({"header"} \X Nat) \cup ({"body"} \X Writer)
JSON(status) == << <<"type", "json">>, <<"header", status>>, <<"body", "handler">> >>
NoContent == << <<"type", "json">>, <<"header", 204>> >>
MuxError(status) == << <<"type", "text">>, <<"header", status>>, <<"body", "mux">> >>

Apply(w, op) ==
    CASE op[1] = "type" -> Typed(w, op[2])
      [] op[1] = "header" -> WriteHeader(w, op[2])
      [] op[1] = "body" -> Write(w, op[2])
=============================================================================
