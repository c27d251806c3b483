------------------------------ MODULE MCServer -------------------------------
(***************************************************************************)
(* Environments that differ in one variable from what a developer or a     *)
(* deployment would have.                                                  *)
(***************************************************************************)
EXTENDS Server, TLC

CONSTANTS anna, bo, r1, r2

Anna == [email |-> anna, role |-> "admin"]
Bo == [email |-> bo, role |-> "user"]
UserLists == { <<>>, <<NoEntry, NoEntry>>, <<Anna, NoEntry, Bo>>,
               <<Anna, [Anna EXCEPT !.role = "user"]>>,
               <<Anna, [Bo EXCEPT !.role = "bad"]>>, << [Bo EXCEPT !.email = "bad"] >> }

Names == Numbers \cup Durations \cup Levels

Developer ==
    [n \in Names |-> "unset"] @@
    [APP_ENV |-> "unset", JWT_SECRET |-> "unset", AUTH_COOKIE_SECURE |-> "unset",
     RECOGNIZED_USERS |-> <<>>, SMTP_HOST |-> "unset", SMTP_FROM |-> "unset",
     SQLITE_PATH |-> "unset"]

Deployed ==
    [Developer EXCEPT !.APP_ENV = "production", !.JWT_SECRET = "fine",
                      !.RECOGNIZED_USERS = <<Anna, NoEntry, Bo>>,
                      !.SMTP_HOST = "fine", !.SMTP_FROM = "fine", !.SQLITE_PATH = "fine"]

(* What a variable may be instead. *)
Texts(name) ==
    CASE name \in Names -> {"bad", "zero", "fine"}
      [] name = "APP_ENV" -> {"development", "production"}
      [] name = "JWT_SECRET" -> {"unset", "short", "fine"}
      [] name = "AUTH_COOKIE_SECURE" -> {"false", "true", "bad"}
      [] name = "RECOGNIZED_USERS" -> UserLists
      [] OTHER -> {"unset", "bad", "fine"}

Changed(e) == UNION {{[e EXCEPT ![n] = t] : t \in Texts(n)} : n \in DOMAIN e}

Environments == Changed(Developer) \cup Changed(Deployed)
=============================================================================
