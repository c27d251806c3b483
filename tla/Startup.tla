------------------------------ MODULE Startup -------------------------------
(***************************************************************************)
(* What the process makes of its environment (config/config.go) and what   *)
(* buildAuth makes of that (cmd/server/main.go, NewTokenService,           *)
(* NewService, NewSMTPSender): which environments a process starts in, and *)
(* with which settings.                                                    *)
(*                                                                         *)
(* A variable's text is one of the classes its parser tells apart: "unset" *)
(* (or empty, which is the same), "bad" (does not parse), "zero" (parses,  *)
(* and is not positive) or "fine"; a list of users is a sequence of        *)
(* entries.                                                                *)
(***************************************************************************)
EXTENDS Naturals, Sequences

CONSTANTS
    Address,        \* normalised e-mail addresses
    Role,           \* the roles Role.Valid knows
    NoEntry         \* an empty entry between two commas

Numbers == {"PORT", "OTP_LENGTH", "OTP_MAX_ATTEMPTS", "SMTP_PORT"}
Durations == {"SHUTDOWN_TIMEOUT", "SESSION_TTL", "OTP_TTL", "OTP_RESEND_AFTER"}
Levels == {"LOG_LEVEL"}

(* An entry of RECOGNIZED_USERS as strings.Cut, NormalizeEmail and         *)
(* Role.Valid see it.                                                      *)
Entry == [email : Address \cup {"bad"}, role : Role \cup {"bad", "missing"}]

(* env: the given text, or the default. *)
Or(raw, default) == IF raw = "unset" THEN default ELSE raw

Development(env) == Or(env.APP_ENV, "development") = "development"

Number(env, name) == Or(env[name], "fine") # "bad"

Duration(env, name) == Or(env[name], "fine") = "fine"

Level(env) == Or(env.LOG_LEVEL, "fine") = "fine"

(* Where the list has an entry. *)
Entries(env) == {k \in DOMAIN env.RECOGNIZED_USERS : env.RECOGNIZED_USERS[k] # NoEntry}

ParsesUsers(env) ==
    \A k \in Entries(env) :
        LET entry == env.RECOGNIZED_USERS[k] IN entry.email \in Address /\ entry.role \in Role

(* parseUsers: of two entries for one address the later one stands.        *)
Users(env) ==
    LET given == env.RECOGNIZED_USERS
        last(a) == CHOOSE k \in Entries(env) :
                        /\ given[k].email = a
                        /\ \A j \in Entries(env) : given[j].email = a => j <= k
    IN [a \in {given[k].email : k \in Entries(env)} |-> given[last(a)].role]

Secret(env) == IF env.JWT_SECRET = "unset" THEN "builtin" ELSE env.JWT_SECRET
CookieSecure(env) == Or(env.AUTH_COOKIE_SECURE, "true")

(* Mutant of LoadsAuth: an empty list is told by the text, not by its users. *)
LoadsAuthByText(env) ==
    /\ Development(env) \/ env.JWT_SECRET # "unset"
    /\ Secret(env) # "short"
    /\ \A d \in {"SESSION_TTL", "OTP_TTL", "OTP_RESEND_AFTER"} : Duration(env, d)
    /\ Number(env, "OTP_LENGTH") /\ Number(env, "OTP_MAX_ATTEMPTS")
    /\ CookieSecure(env) # "bad"
    /\ Development(env) \/ CookieSecure(env) = "true"
    /\ ParsesUsers(env)
    /\ Development(env) \/ env.RECOGNIZED_USERS # <<>>

LoadsAuth(env) ==
    /\ Development(env) \/ env.JWT_SECRET # "unset"
    /\ Secret(env) # "short"
    /\ \A d \in {"SESSION_TTL", "OTP_TTL", "OTP_RESEND_AFTER"} : Duration(env, d)
    /\ Number(env, "OTP_LENGTH") /\ Number(env, "OTP_MAX_ATTEMPTS")
    /\ CookieSecure(env) # "bad"
    /\ Development(env) \/ CookieSecure(env) = "true"
    /\ ParsesUsers(env)
    /\ Development(env) \/ DOMAIN Users(env) # {}

(* Load. *)
Loads(env) ==
    /\ Number(env, "PORT") /\ Level(env) /\ Duration(env, "SHUTDOWN_TIMEOUT")
    /\ LoadsAuth(env)
    /\ Number(env, "SMTP_PORT")

Mails(env) == env.SMTP_HOST # "unset"

(* buildSender and NewSMTPSender: without a host, codes are printed.       *)
BuildsSender(env) ==
    Mails(env) => Or(env.SMTP_PORT, "fine") = "fine" /\ env.SMTP_FROM = "fine"

(* NewTokenService asks again for what Load has checked; NewService also   *)
(* wants some attempts.                                                    *)
BuildsAuth(env) ==
    /\ Secret(env) # "short" /\ Duration(env, "SESSION_TTL")
    /\ BuildsSender(env)
    /\ Duration(env, "OTP_TTL") /\ Or(env.OTP_MAX_ATTEMPTS, "fine") = "fine"
=============================================================================
