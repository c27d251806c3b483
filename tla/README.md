# Homban in TLA+

A verification project for Homban ("Ring På"), kept beside its code: TLA+ modules for
the parts of the program that keep state or decide something, TLC configurations that
model-check them on small instances, and TLAPS proofs of what matters most for every
instance.

Run from this directory:

    tlc -workers 4 -config SignIn.cfg MCSignIn      # any run of section 4
    tlapm SignInProofs.tla                          # any *Proofs

## 1. The system

Homban plans a household's cleaning. A Go backend signs users in with mailed one-time
codes; a React frontend plans sessions and keeps its data in the browser's
`localStorage`; in development a Node proxy puts both behind one HTTPS origin.

| # | Part | State it keeps | Operations | Interacts with |
|---|------|----------------|------------|----------------|
| 1 | Sign-in codes `backend/internal/auth/codes.go` | map address -> hash, times, attempts; one mutex | `Issue`, `Consume`, purge | called by 2 from one goroutine per request |
| 2 | Auth service `auth/service.go` | configuration (users and roles) | `RequestCode`, `VerifyCode` | 1, 3, 7 |
| 3 | Session tokens `auth/token.go` | none: a signed token carries address and role | `Issue`, `Verify` | 2, 4 |
| 4 | HTTP layer `internal/httpapi` | per response: headers written or not | request-code, verify-code, me, logout; cookie, guards, recovery | 2, 3, browser |
| 5 | Server lifecycle `cmd/server/main.go` | listener, signal, open store | start, drain, stop | everything in the backend |
| 6 | Configuration `internal/config` | read once | `Load` | 5 |
| 7 | Mail and store back ends `internal/email`, `internal/store` | none; the stores only ping and close | `SendSignInCode`, `Ping`, `Close` | 2, 5 |
| 8 | Browser session `frontend/src/api`, `main.tsx`, `LoginPage`, `RequireSession` | query cache, cookie, form state | sign in, resend, sign out, guard | 4 over HTTP |
| 9 | Task engine `domain/taskEngine.ts`, schedule, weekly overview, seasons | release schedule in `localStorage` | `buildPlan`, `loadOrCreateTaskSchedule`, recommendations | 10, 11 |
| 10 | Home session `pages/HomePage.tsx` | screen, plan, completed cards, a copy of the history | start, finish a card, bonus, weekly, incident | 9, 11 |
| 11 | Task history `domain/taskHistory.ts` | completions in `localStorage` | load, add, prune, save, cooldown | 10, 12, all tabs |
| 12 | Room checklists `pages/RoomChecklistPage.tsx`, `domain/roomChecklist*.ts` | progress in `localStorage`, copies of it and of the history | mark, skip, restart, credit the planner | 11, all tabs |
| 13 | Development certificates `proxy/src/certs.ts`, `proxy/scripts/trust-ca.ts` | four files, the machine's trust store | `ensureCertificates`, trust, remove | 14 |
| 14 | HTTPS proxy `proxy/src/index.ts` | connections | forward, error page, shutdown | 4, 13 |

The household's data (task banks, rooms, links), static pages, styles, build and deployment
hold no logic of their own; PROJECT.json lists them as not modelled.

### What is hard here, and what correct means

* **Sign-in (1-3, 5).** Requests run concurrently; a handler reads the clock *before* it
  waits for the store's mutex; the mail is sent outside it; a restart drops the codes and
  may bring another user list. Correct: a code is redeemed at most once, by a request
  within its lifetime, after fewer than the permitted wrong guesses, and only while no
  newer code exists for the address; a session belongs to the address and has the
  configured role; a second code does not follow the first before its cooldown unless the
  first is out of use.
* **Browser session (3, 4, 8).** Calls and answers overtake each other, fail, and outlive a
  page; the process restarts with other users or another secret. Correct: page and cookie
  agree once the network is quiet; signing out signs out, and only a code answered with a
  session signs in; an answer never belongs to an address the user left; an old role runs out.
* **History and checklists (10-12).** Every tab works on a copy loaded at mount and writes
  it back whole; writes can fail silently; the same card can be credited by two rooms and
  by a session. Correct: nothing recorded is forgotten before its retention is over, no
  work is counted twice, nothing that must be done is put aside, and every task of a list
  is in exactly one row.
* **Schedule and overview (9).** First due dates are made once and kept, while versions with
  other tasks are deployed and completions come and go. Correct: a date the store took
  stands while the versions have the task; what was released stays released; a release is announced; nothing is suggested
  too soon.
* **Planner (9).** A greedy loop under many filters. Correct: no one is given more minutes
  than available, no adult task goes to a child, no work is asked for twice, nothing that
  fits is left out, and nothing important for something less so.
* **Home session (10).** Plans are made with the time and history of the last render,
  bonus tasks with those of the session's start. Correct: nothing is asked for again too
  soon, no card is counted twice, a session that says it is over has all its work recorded.
* **Certificates (13).** Four files, no lock, killed at any point, renewals in any order.
  Correct: what is served is on disk, with its own key, signed by the CA there; a trusted CA
  stays; a start ends in service. The first and the last have exceptions, which the properties name.
* **Lifecycle (4-7).** Many ways out of `run`; Shutdown gives up on handlers that do not
  finish; writers are stacked up around every response. Correct: the store is closed, and
  not under a running handler unless Shutdown gave up; the process stops when asked; a
  response is one answer; a deployment does not start with a developer's settings.

PROJECT.json lists the hazards at their lines, with the properties that cover them.

## 2. Plan

In order of importance. All of it is built.

1. `SignInPromise`, `SignIn`, `SignInInvariant`, `SignInProofs`: the backend's sign-in.
2. `Planning`, `Planner`, `PlannerProofs`: `buildPlan`, its loop and what it guarantees.
3. `Weekly` over `Planning`, `HomeSession` over `Weekly`, and `HomeSessionProofs`: the home page.
4. `Condense`, `Checklist`, `ChecklistProofs`: rows, history and checklists over tabs.
5. `Certificates`, `CertificatesProofs`: the proxy's certificates.
6. `Session`, `SessionProofs`: one browser, its cookie and query cache, calls under way, restarts.
7. `Startup`, `Responses`, composed by `Server`, and `ServerProofs`: the process from its
   environment to its exit.
8. `Rotation` over `Weekly`, and `RotationProofs`: first due dates over versions and visits.

What extends what: `Planner`, `Weekly` extend `Planning`; `HomeSession`, `Rotation` extend
`Weekly`; `Checklist` extends `Condense`; `Server` extends `Startup` and `Responses`. `SignIn`
implements `SignInPromise` (`INSTANCE ... WITH`). The modules `MC*` hold the instances.

What could follow: the schedule in `HomeSession` taken from `Rotation` instead of a
constant; the promise of the session's cache as an abstract specification of its own.

## 3. The modules

### SignInPromise, SignIn

`SignInPromise` says what a user is promised about codes without clock, lock, handlers or
storage. Codes have identities there, so that two codes with the same digits are two.

`SignIn` is the code. `records` is `MemoryCodeStore.records`, `users` the service's
`Users`, `handler[r]` the local variables of the goroutine serving request `r` and where it
is. Each critical section of the store is one action and everything between two of them
another:

| Code | Actions |
|------|---------|
| `Service.RequestCode` up to `Issue` | `BeginRequestCode` (normalise, read the clock, allowlist, draw a code) |
| `MemoryCodeStore.Issue` | `IssueTooSoon`, `IssueStored`, both after `PurgeExpired` |
| `SendSignInCode` | `SendAccepted`, `SendFailed` (the relay may have taken the mail all the same) |
| `Service.VerifyCode` up to `Consume` | `BeginVerifyCode` (the client may send any code) |
| `MemoryCodeStore.Consume` | `ConsumeUnknown`, `ConsumeExpired`, `ConsumeWrong`, `ConsumeRight` |
| `roleFor`, `tokens.Issue` | `IssueToken`, `IssueTokenFails` |
| the process ends and starts again | `Restart(m)`: empty store, user list `m`, no handlers |

A request that fails before it touches shared state is a stuttering step. A code is a
member of a small set; `hashCode` is the pair of address and code (two addresses never
share a hash). `serial`, `owner`, `issuedAt`, `wrong`, `redeemed`, `lost` and
`undelivered` are history: no action reads them except to number the codes. The
refinement maps the fate of a code to what is *in the store* (`Fate`), so it would fail if
the store kept a redeemed code or lost a live one silently.

`MemoryCodeStore.Len` reads only and is left out. What becomes of a token is `Session`'s.

### Session

One browser against the server. `net` is the set of calls under way, each a record that
says how far it is: made, answered, answer received. `Call*` actions are the page's
(`useSession`, `useRequestCode`, `useVerifyCode`, `useLogout`), `Serve*` the handlers of
`httpapi/auth.go` with `RequireAuth` and `TokenService.Verify` (`Accepts`), `Settle*` what the
page makes of an answer, in any order, and calls get lost on either way. The cookie is
written by the browser when the answer arrives, also when the page that asked is gone.
`cache` is the session query (status, data, freshness), `pending` and `entered` are
`LoginPage`'s. The code store is reduced to the latest code of an address, as `SignIn` has
it in full. With an empty list of users everybody is one, and an administrator (`Listed`,
`RoleFor`). A reload may come after the browser took the cookie of an answer and before the
page got it (`ReloadTaking`). `calm`, `out` and `changedAt` are history: `out` begins with a
logout answered 204, whatever else is under way, and ends only with a verify-code answer that
brings a session (`SignsIn`).

### Startup, Responses, Server

`Startup` is `config.Load` and `buildAuth` as predicates on an environment whose texts are
classes ("unset", "bad", "zero", "fine", ...): what a parser tells apart. `Responses` is
one response as a record that `statusRecorder`, `problemWriter` and `net/http` change in turn,
and what `JSON`, `Error` and `http.Error` write to it. `Server` composes them: `phase` is where
`run` is, with an action for each step and early return (`LoadConfig`, `OpenStore`, `BuildAuth`,
`Listen`, `Drain`, `Drained`, `TimeOut`, `ServeFails`, `CloseStore`, `Exit`); a request
goes from `Accept` over its waits (`PingAnswered`, `MailAnswered`) and writes (`Perform`) to
`Return` or `Panic`, and `Finish`. `todo` is what the handler has still to write; of the
statuses a handler refuses with, one stands for all (an error is written in the same three steps).
`Recover` lets `http.ErrAbortHandler` through, with which nothing here panics: left out.

### Checklist

Browser tabs over `localStorage`. `storedProgress` and `storedHistory` are its two entries;
`page[t]` is the page tab `t` shows with the copies its `useState(load...)` made at mount.
Handlers are actions, since a browser runs a tab's handlers one at a time and they write
synchronously: `FinishTask` (HomePage), `SetItemStatus` with `syncCompletedPlannerTasks`,
`ResetChecklist`, and mounting a page (`OpenHome`, `OpenChecklist`, `OpenOther`);
`SwitchRoom` is history navigation that keeps the page mounted. `Save` may leave the old
entry in place (`StorageMayFail`). The history is a set of completions, because its readers
only ask which entries exist; which cards HomePage shows is left open (`HomeCard`, each
with its `completionIds`). Progress is one function over all items, as a room's items are
its own; "open" is the absence of an entry. `Condense` makes the rows from a source list:
tasks about the floor move to the last section of the floor (`Rehomed`), and a section's tasks
of one phase and topic become one row (`CondenseSection`), which may be put aside only if
none of them must always be done (`CombinedCondition`). What the patterns find in a
Swedish title is data: `Source` gives each task its phase, topic and whether it moves. `done` and `marks` are history variables.

The assumption `Cooldown[card] <= Retention` holds of the data: the longest interval is a
year, the retention two.

### Planning, Planner

`Planning` is `buildPlan` as operators: the candidates with cooldown and release
(`IsCandidate`), replacement (`Covers`, `Eligible`), the order of consideration
(`SelectionScore`, `Before`), the member a task goes to (`Able`, `MemberScore`, `Best`) and
the plan (`BuildPlan`, `UnassignedTasks`). The task bank is the constant `Info`; the
factors of `score` that never change are one number per task and mode. `BankAssumption`
says of the bank what `taskBank.ts` meets: of two cards that share a part one replaces
the other; `PartsAssumption` what `microTaskBank.ts` meets: parts replace nothing. What is
sorted or filtered of a sorted list is some tasks `InOrder`, each at the place that as many
of them come before. Both sorts are stable in JavaScript, hence `Position` and `Chosen`.

`Planner` runs the loop a task a step (`PassOver`, `Assign`), from any input in `Inputs`;
`LoopIsBuildPlan` ties the two together.

### HomeSession

The page's state, one action per handler: `StartSetup`, `SelectMinutes`, `SelectArea`,
`ToggleMember`, `StartSession` (also from the rest screen, ignoring the history),
`StartIncident`, `StartWeeklyRecommendation`, `FinishTask`, `StartBonus`, `TimerTick`, and the
buttons that only change the screen. `rendered` is `planningNow`: a handler plans with the
time of the last render, so `Tick` moves the clock without it. A card is the sequence of
its tasks, as bundling makes them (`DisplayPlan`). `timeLeft` is `secondsLeft > 0`; it ends
at any tick. Bundles and `toggleMember` keep the order of what they filter (`Picked`);
`ProtocolAssumption` says that an incident's protocol has steps and no id twice. The area the overview suggests is that of `Weekly!Suggestions`. One tab, a store
that can be written: the other cases are `Checklist`'s. `started`, `repeated` and `starts` are
history variables (`starts` also bounds the run).

### Weekly, Rotation

`Weekly` has, as operators on a view (bank, history, schedule, time), what the overview
proposes: `WeeklyRecommendation` with its score cross-multiplied to stay in integers,
`DeepCleanTask`, `SecondRecommendation`, `Suggestions`, and `NextRelease`. `Rotation` is
`taskSchedule.ts` over time: `Open` mounts the page in some version of the program
(`loadOrCreateTaskSchedule`: what is stored keeps its date, what was done before is due now,
the rest is dated by `InitialDueDate`) and writes the schedule, or fails to; `Complete` records
completions, or fails to store them. Two variables are history: `promised` has the first date
the store ever took for each task, and is never changed; `dropped` has the tasks whose entry a
version without them has since removed from the store.

### Certificates

Four files, each the number of the key pair its content belongs to, `Empty` after a
truncation, or `NoFile`. `proc[p]` is a run of the proxy or of trust-ca and where it is in
`ensureCertificates`: the two reads of `readPair` (`ReadCaCert`, `ReadCaKey`, ...), making
a pair, and the two writes of `writePair`, each a truncation and a filling (`writeFileSync`
opens with truncation; a program can end in between). `Finish` is `https.createServer`,
which refuses a key that is not the certificate's, but takes an empty one for none and lets the
proxy listen. `partial` is history: which of the two pairs a kill left half written. `Age` brings a certificate up for
renewal (or, for a leaf, changes the domains). `Trust` and `Untrust` are the operating
system's commands; on Linux trust-ca prints them and the developer runs them.

## 4. What the runs show

Passing runs:

| Run | Shows | Bounds |
|-----|-------|--------|
| `SignIn` | The detailed sign-in implements `SignInPromise` (`PromiseKept`); codes are redeemed in time (`RedeemedInTime`); `IInv` is invariant; when a second code may follow a first (`CooldownUnlessSettled`), and that every code is in the store, settled or properly replaced (`AccountedFor`); roles and allowlist over restarts (`LookupSucceeds`, `GrantedAsConfigured`) | 2 requests, 1 address in two spellings, 2 codes issued of 2 values, lifetime 2, cooldown 1, 2 guesses, restarts with other user lists or none, clock to 3 |
| `Session` | Out means out until a code is answered with a session (`OutMeansOut`); page and cookie agree (`AgreeWhenQuiet`); a Resend that is offered is refused only in the second its answer cut off (`ResendAccepted`); the code step is for the address entered last (`PendingIsEntered`); how long an old role lives (`OldRoleRunsOut`) | 2 addresses, one unknown; 2 calls under way, 2 codes, 1 restart with the same users, other ones or none; tokens live 1 and 1 of leeway, codes 2, cooldown 3 where a second is 2 ticks, clock to 2 |
| `Server` | `DeployedSafely`, `StoreOutlivesRequests`, `OneAnswer`, `StopsInTheEnd` | 91 environments: a developer's and a deployment's with any one variable changed; 2 requests on 8 routes, any of which may panic at any step |
| `Planner` | `WithinMeans`, `MinutesAddUp`, `NoDoubleWork`, `NothingWasted`, `PriorityRespected`, `LoopIsBuildPlan` | 9 tasks (a replaced and a shared one, two odour tasks, solo and team guest tasks, a season), 8 teams of 4 people, 4 lengths, histories of up to 2 completions, 2 schedules: 11,264 inputs |
| `HomeSession` | `CardsDisjoint`, `NothingTooSoon`, `DoneMeansDone`, `BonusCounted`, `NoDeadEnd` | 2 sessions, 5 tasks (two variants, a card with a part, a bundle, a weekly one), 2 people, 2 schedules, longest cooldown 2, clock to 2 |
| `Rotation` | `KeepsItsWord`, `ReleasedForGood`, `Announced`, `RestedBeforeSuggested` | 2 versions, 4 tasks (two deep ones and a weekly one of one group, one with a season), up to 2 completions and a card's parts, retention 5, clock to 6, any write may fail |
| `ChecklistOneTab` | `Remembered`, `ProgressKept`, `NoDoubleCredit`, `NothingOutdatedWritten`, `NeverPutAside` | 2 rooms crediting one card, rows over two sections with mixed conditions, a card with an included one, retention 3, cooldown 2, clock to 6 |
| `Certificates` | `ServedPairOnDisk`, `LeafFitsWholeCa`, `TrustLasts`, `StartSucceeds` | 1 program at a time, 8 pairs made, 3 renewals, 2 kills at any step |

Why the bounds suffice. Two requests are the smallest number that race for the mutex, and
the store treats addresses independently except in the purge. A third code, that lets one
come and go while a request waits with an old time, and a second address are left to the
proofs, which hold for any number of either. The clock passes the lifetime and the cooldown of
the first code, and reaches the time after expiry. One-tab checklists see a completion
through cooldown and past retention. Certificates see CA and leaf renewed in both orders
and a second renewal of either. The planner's inputs take every branch of its filters but
`recommendationOnly`, plans have up to four cards, and a task is passed over for time, for
role and for odour. Home sessions see a completion made in one and felt in the next, inside and
after its cooldown, a set-up that stood open over a release or a change of month, and a
bonus taken and refused; what does not happen there is that a session outlives the retention, so
that exception in `DoneMeansDone` is not reached. Two calls under way are the least that overtake each other; the
clock passes a token's lifetime and leeway and reaches the tick in which the page offers a Resend and
the server refuses it; that codes run out is `SignIn`'s run. A sign-out comes while a code submitted
before it is not yet answered. The rotation sees a task arrive, leave with a
rollback and come back with another date than before, a completion outlive its retention, a date moved into a season, and a write fail
before and after one that succeeded.

Two requests and two codes of `SignIn` are interchangeable, hence its symmetry set; no run
with symmetry checks liveness. `CHECK_DEADLOCK FALSE` stands where the program may stop:
a server that exited, a browser whose calls and clock are used up.

Runs that find the code at odds with what the repository says of it (details in
PROJECT.json, "findings"):

* `SignInUndelivered`: a code whose delivery failed stays redeemable (and starts the
  cooldown), though a comment calls it unusable and a test's name says it is not stored.
* `SessionLateMe`: an answer to `/auth/me` that was asked for before the sign-in arrives after
  it and puts null in place of the identity that was just seeded.
* `ChecklistStaleCredit`: ticks outlive the cooldown, so touching any other row of the room
  records the card as done again, now.
* `CertificatesRenewalKilled`: killed between the CA's certificate and its key, every later
  start signs leaves with a key that is not the CA's.

Five findings have no run of their own: the first two lie outside what the properties of the runs
speak of, the others are the exceptions these properties name. With two tabs, the later write of a stale copy removes a
completion, and a tick, that the other tab stored: `Remembered` and `ProgressKept` fail as
soon as `Tab` has two members. And where the store cannot be written, the schedule is made
anew at every visit and the first due dates of recurring tasks move ahead of the user:
`ReleasedForGood` speaks only of what is stored for that reason, although a
comment says that such a store must not prevent planning (`taskSchedule.ts:111`).

A sign-out can be undone. Somebody whose verify-code answer is late reloads the page: the
browser took the cookie, `/login` shows its form while `/auth/me` is unanswered, and a second code is
asked for and submitted. Then the identity arrives and the form is gone; "Logga ut" is answered; and
now the answer to the second code arrives, sets the cookie (`httpapi/auth.go:90`) and fills the cache
(`auth.ts:76-79`). Nothing gives that call up. `OutMeansOut` says that this is the only way.

A renewal of the leaf killed between `localhost.crt` and `localhost.key` leaves a certificate and a key that do
not belong together. `leafIsValid` looks at the certificate only (`certs.ts:57,101-107`), so every
later start ends at `https.createServer` until the certificate is due again or `npm run certs:clean`. Killed
while `localhost.key` is emptied, every later start listens without a key, and says that it
listens, though no handshake can succeed. `StartSucceeds` and `ServedPairOnDisk` name these states, with
the history `partial`, and hold for all others.

More observations:

* The contract of `Issue` (`codes.go:36-37`) names a cooldown without condition, where
  `CooldownUnlessSettled` is what holds: the code only sees a code that is still stored.
* Whether an error is shown for a second code too soon: `auth.go:40-41` says that the page
  knows the cooldown from the previous response, but after "Use a different address" or a
  reload it does not; `ResendAccepted` speaks of a page that does. `OTP_RESEND_AFTER` is cut
  to whole seconds for the page (`httpapi/auth.go:53`), so with 1500ms the button is back half a second too
  soon; the run has such a setting, and `ResendAccepted` allows for no more than that.
* A schedule keeps entries only for the tasks of the version that writes it (`taskSchedule.ts:28,39`).
  After a rollback the tasks that are gone lose their first due dates, and the next version that
  has them dates them anew, maybe later than the overview announced (`weeklyOverview.ts:94`): the run has such
  sequences, and `dropped` in `KeepsItsWord` is there for them.
* A wrong code sent for a verification the user has abandoned is answered 401 and empties
  the cache, though a cookie may be good by then; `main.tsx:13-15` says that the guard then
  redirects and the page asks again, but a page that stays mounted does not ask. A reload
  repairs both: hence `calm` in `AgreeWhenQuiet`.
* `OTP_LENGTH` outside 4 to 12 is accepted at the start, and every request then fails
  (`config.go:200`, `codes.go:138`); the name of the cookie is not validated at all.
* After a panic in the middle of an answer, `Recover`'s JSON follows the handler's own body
  (`middleware.go:100`): the exception in `OneAnswer`. `sqlite.go`'s `Close` ignores the five
  seconds its context allows.
* Nothing keeps the proxy and trust-ca from making a CA at the same time, so `TrustLasts`
  fails with two processes. A program killed after it emptied the CA's key file, and
  before it filled it, makes every later start that needs a new leaf fail until the files are deleted: the
  other exception in `StartSucceeds`.
* The two bathrooms' deep cleanings share a `repeatGroup`, so that one cools the other down
  (`taskEngine.ts:73`), but a plan for two adults holds both, and with one adult the second
  is the bonus offered right after the first: hence the last line of `NothingTooSoon`.
* The overview counts a weekly bathroom care toward the deep clean by its group, with
  `DEEP_CLEAN_INTERVAL_DAYS`, not the cooldown of the deep task: it can suggest one the
  planner still refuses. `RestedBeforeSuggested` states the interval the overview keeps.
* The rest screen, which says that everything was done recently (`HomePage.tsx:465`), is shown
  for every empty plan, also when nothing was ever done and the tasks are not yet
  released. "Plan anyway" ignores the history but not the schedule, so a task that counts
  as released only because it was done before is left out (`HomePage.tsx:194`).

Every property of a passing run has a mutant in PROJECT.json: a plausible bug in one mapped
definition under which the run finds the property violated. The type invariants were checked
with the runs as well, and are theorems now (section 5).

**Fairness.** Two modules have liveness properties. In `Certificates`, `WF_vars(Program(p))` for
each process says that a program that has started goes on executing; starting, stopping,
renewing and being killed are not fair. `StartSucceeds` promises nothing of a start that is itself
killed; of the starts after it only those may fail that find one of the two half-written pairs above. In `Server`, `WF_vars(Run)` says that the main goroutine is scheduled whenever
it can go on, `WF_vars(TimeOut)` that the timer of `Shutdown`'s context fires, and
`WF_vars(PingAnswered)` that a ping ends, which `handleReady` bounds by two seconds. A request
is not fair: nothing bounds the mail relay, and `StopsInTheEnd` holds because the
timeout does not wait for it. Signals, failures and panics are never assumed to happen.
The other modules have safety properties only: a handler may wait for ever, a user may never click.

## 5. What is proved

With TLAPS. About the sign-in, for every value of the constants that meets `SignInAssumption` (lifetime and
guess limit positive, as `NewService` demands; the cooldown any natural number; any user
lists; any sets of addresses, codes and requests, finite or not; `MaxIssues` any
number of codes):

| Theorem | States |
|---------|--------|
| `SignInProofs!TypeCorrect` | `Spec => []TypeOK` |
| `SignInProofs!Invariance` | `Spec => []IInv` |
| `SignInProofs!LookupAlwaysSucceeds` | `Spec => []LookupSucceeds`: the comment on `roleFor` is right, restarts included |
| `SignInProofs!GrantsAsConfigured` | `Spec => GrantedAsConfigured` |
| `SignInProofs!CooldownHolds` | `Spec => []CooldownUnlessSettled` |
| `SignInProofs!CodesAccountedFor` | `Spec => []AccountedFor` |
| `SignInProofs!RedemptionInTime` | `Spec => RedeemedInTime` |
| `SignInProofs!Refinement` | `Spec => PromiseKept` |

The argument. None of the properties is inductive alone: that a code is redeemed once
needs that the store's entry is the latest code of its address and was never redeemed;
that a session belongs to the code's owner needs that a handler about to sign a token
holds a redeemed code nobody else holds. `IInv` (module `SignInInvariant`) collects these:
`FreshInv` and `StoredInv` (codes not yet, and already, stored), `RecordInv` (an entry is
the latest code of its address, agrees with the history, has guesses left and a
recognised address), `HandlerInv` (captured times are not in the future; recognised
addresses), `TokenInv`, `SessionInv`. `LookupSucceeds` rests on `HandlerInv`: a code
redeemed by this process was issued by it, because a restart empties the store.
`CooldownUnlessSettled` is inductive together with `AccountedFor`: when a second code is
stored, the first is either still there, and then its cooldown is over, or it was settled
or replaced before. The refinement takes each action to a step of the promise: purge and
restart discard codes, `IssueStored` is `Issue` with the purged codes discarded on the way,
`ConsumeWrong`, `ConsumeRight` and `IssueToken` are `Guess`, `Redeem` and `Grant`, the rest
stutters. Each proof has one step per action.

TLC checks `IInv` and `AccountedFor` in the run first.

About the browser session, for any users, addresses, secrets, lifetimes, number of calls under way, codes
and restarts that meet `SessionAssumption` (the types of the settings)
and `NothingAssumption` (nothing is no address, token or answer); the cooldown need not be a whole
number of seconds:

| Theorem | States |
|---------|--------|
| `SessionProofs!TypeCorrect` | `Spec => []TypeOK` |
| `SessionProofs!SigningOutHolds` | `Spec => []OutMeansOut` |
| `SessionProofs!PageAgrees` | `Spec => []AgreeWhenQuiet` |
| `SessionProofs!ResendIsAccepted` | `Spec => ResendAccepted` |
| `SessionProofs!CodeStepIsForEntered` | `Spec => []PendingIsEntered` |
| `SessionProofs!OldRolesRunOut` | `Spec => OldRoleRunsOut` |

The argument. Every property speaks of the end of an exchange, and the invariant says what is
true of the calls on the way there. `TypeInv` types calls by how far they are. `OutInv`:
after a sign-out no call to `/auth/me` carries a token, so none brings an identity.
`AloneInv`: as long as nothing overlapped, at most one call is under way, and the page that made it is
still there. `AgreeInv` then says what page and cookie have in common (`Believed`), and what that one call
carries. `EnteredInv` follows the address from the form into the calls that are still
listened to. `DeadlineInv` and `SureInv` compare the page's deadline with the server's
cooldown on the way out and back. `TokenInv` bounds every token, in the cookie, in a call or
in an answer, by the role its user has, or by the last change of users.

About the planner, for any household, bank and input that meet `PlanningAssumption`,
`BankAssumption` and `PlannerAssumption` (`BankAssumption` only for the third; the last also `OrderAssumption`):

| Theorem | States |
|---------|--------|
| `PlannerProofs!PlannerTypeCorrect` | `Spec => []TypeOK` |
| `PlannerProofs!PlanWithinMeans` | `Spec => []WithinMeans` |
| `PlannerProofs!PlanWithoutDoubleWork` | `Spec => []NoDoubleWork` |
| `PlannerProofs!PlanWastesNothing` | `Spec => []NothingWasted` |
| `PlannerProofs!MinutesAreThoseOfTheCards` | `Spec => []MinutesAddUp` |
| `PlannerProofs!NothingGoesFirst` | `Spec => []PriorityRespected` |
| `PlannerProofs!LoopDoesBuildPlan` | `Spec => []LoopIsBuildPlan` |

The argument. `PInv` says where every eligible task is (still to come, passed over, or on
exactly one card), that the flag for odour tasks tells the truth, and that the reason a task
was passed over for still holds: minutes only grow and the flag is never cleared, so what
did not fit when it was considered fits at no later time either. That is why a greedy
loop wastes nothing. `NoDoubleWork` follows because eligible tasks do not cover each other.
These do not use the order of the tasks, nor the choice among the able members.

The last three do. A sum over the cards is a recursive function; that it grows by the last
card, and that equal cards have equal sums, is shown by the least card at which it would fail (`LeastNat`, `Sums`, `SumsAgree`),
in place of induction. `OrderInv` says that every card's task comes before those still to
be considered, so the cards at the moment a task is passed over are those before it, and
their minutes are what left no room.

`LoopIsBuildPlan` compares the loop with two recursions, a list made by rank and the
function in `BuildPlan`. The loop takes the part of an induction: `LoopInv` says that as many
tasks come before the next one as were considered, so that it is at the next place of
`EligibleTasks` (`NextInTurn`); that the plan is the last value of a function that goes through
the tasks considered (`AsFar`), which each step extends by a value (`OneFarther`); and that
every place in the list of the tasks passed over is taken (`Placed`). At the end the
function is the one `BuildPlan` chooses (`BuildPlanIs`, `PlansAgree`).

About home sessions, for any household, bank, protocols and schedules, any number of sessions of any
kind, that meet `PlanningAssumption`, `BankAssumption`,
`HomeSessionAssumption` (the types of the settings), `OrderAssumption` (the bank lists its
tasks), `PartsAssumption` and `ProtocolAssumption`:

| Theorem | States |
|---------|--------|
| `HomeSessionProofs!TypeCorrect` | `Spec => []TypeOK` |
| `HomeSessionProofs!CardsAreDisjoint` | `Spec => []CardsDisjoint` |
| `HomeSessionProofs!NothingIsTooSoon` | `Spec => []NothingTooSoon` |
| `HomeSessionProofs!DoneIsDone` | `Spec => []DoneMeansDone` |
| `HomeSessionProofs!BonusIsCounted` | `Spec => []BonusCounted` |
| `HomeSessionProofs!NoScreenIsADeadEnd` | `Spec => []NoDeadEnd` |

The argument has two parts. First, what a plan is, whatever the planner was given. Sorting is
shown to list the tasks, each once, by counting how many come before each (`Ranks`,
`RankedLists`, `InOrderLists`); the plan after so many tasks deals different
eligible ones, or there would be a first place where it does not (`LeastNat`,
`BuildPlanSteps`); bundling puts every dealt task on one card (`DisplayedCards`), and the
bonus tasks are the rest (`OfferedCards`). So planned and offered cards are made of
eligible tasks that do not cover each other, and `PlannedDeck` follows: a `Deck` of cards that record
different completions.

Then the session. `HInv` keeps that deck while bonus tasks move over, and says how far the session
is (`Progress`: every card finished once, and which screens leave something to finish), that
what is finished is in the history (`Recorded`), and that whatever makes a task of an ordinary
session too early was finished in this session (`Rested`), which is why a plan made with an
old time or a bonus offer left standing does no harm: of two tasks that do not cover each
other, one can only hold back the other through their group. `DoneMeansDone` speaks of a session
younger than the retention, two years: after that the history forgets and the screen still stands.
`HInv` was checked with TLC first, on the instance of the run and with a retention of 1 and a clock to 3.

About the server, for any environments that meet `EnvironmentAssumption` (a secret is unset, too short or fine) and any number of requests:

| Theorem | States |
|---------|--------|
| `ServerProofs!StoreOutlives` | `Spec => []StoreOutlivesRequests` |
| `ServerProofs!NothingUnsafeListens` | `Spec => []DeployedSafely` |
| `ServerProofs!EveryResponseIsOneAnswer` | `Spec => []OneAnswer` |
| `ServerProofs!TypeCorrect` | `Spec => []TypeOK`, through every writer of `Responses` |

`Lifecycle` says what each phase of `run` knows of the store (`StoreInv`) and in which phases a
request may be under way (`RequestInv`): past draining only if something hurried.
`CheckedInv` keeps what `Load` and `buildAuth` let through until `run` is built. `AnswerInv` says of a
response how far its writers are: blank, or with a header and what the handler has still to
write, so that status, log and body agree at the end.

About the checklists, for any tabs, rooms, lists, links and cards that meet
`ChecklistAssumption` and `CondenseAssumption` (the longest cooldown is within the
retention; a task is in one section):

| Theorem | States |
|---------|--------|
| `ChecklistProofs!TypeCorrect` | `Spec => []TypeOK` |
| `ChecklistProofs!OutdatedIsDropped` | `Spec => NothingOutdatedWritten` |
| `ChecklistProofs!AlwaysStays` | `Spec => []NeverPutAside` |
| `ChecklistProofs!CreditsAreBacked` | `Spec => CreditBacked` |
| `ChecklistProofs!NothingForgotten` | one tab, durable store: `Spec => []Remembered` |
| `ChecklistProofs!ProgressIsKept` | one tab, durable store: `Spec => []ProgressKept` |
| `ChecklistProofs!CreditedOnce` | one tab, durable store: `Spec => NoDoubleCredit` |
| `ChecklistProofs!RowsPartition` | every item of a room is in exactly one row of it |

The first four hold whatever tabs overwrite each other and whichever writes fail. The next three
need what fails with two tabs: `Recalled` says that the page's copy of the history has all
that is recorded and not outdated, as the store does; a page prunes what it loads, so
the two are not equal, and that a cooldown fits into the retention is why that does no harm.
`RowsPartition` rests on `RehomedOnce`: a task leaves its section only if there is a last
section of the floor, and that is then its only home.

About the certificates, for any bounds:

| Theorem | States |
|---------|--------|
| `CertificatesProofs!TypeCorrect` | `Spec => []TypeOK`, any number of processes |
| `CertificatesProofs!ServesPairOnDisk` | one process at a time: `Spec => []ServedPairOnDisk` |
| `CertificatesProofs!ServesLeafOfWholeCa` | one process at a time: `Spec => []LeafFitsWholeCa` |
| `CertificatesProofs!TrustIsKept` | one process at a time: `Spec => TrustLasts` |

`Knows` says, for each step of the program, what its variables have in common with the disk:
what was read is still there, half of a pair is written, the leaf was signed with the key
on disk. `KeyEmpty` says that the leaf's key is empty only while, or because, its writing did not
end. `Replaces` adds why a new CA is on its way: the one on disk was due, or had no key.
With two processes both are false, and so are the properties.

About the rotation, for any banks, seasons, intervals and order of versions
(`RotationAssumption`, `WeeklyAssumption`, `PlanningAssumption`; the fourth with `FirstDueAssumption`: a first
due date lies within the retention of the visit that sets it, as 365 days and the gap of a season do within
730; the fifth with `DeepAssumption`: no deep clean is a weekly recommendation):

| Theorem | States |
|---------|--------|
| `RotationProofs!TypeCorrect` | `Spec => []TypeOK` |
| `RotationProofs!WordIsKept` | `Spec => []KeepsItsWord` |
| `RotationProofs!ReleasesAreAnnounced` | `Spec => Announced` |
| `RotationProofs!ReleasesLast` | `Spec => ReleasedForGood` |
| `RotationProofs!SuggestionsAreRested` | `Spec => []RestedBeforeSuggested` |

`Dated` ties the schedules together: what is stored agrees with what was promised but for what was
dropped (`StoreKeeps`), and a page shows every date in the store that is for a task of its bank
(`PageShows`). A task is released by its
date or by a completion, and a completion is forgotten: `Punctual` says that by then the date is past, because
a date the store took is never later than a completion's end of retention. `Punctual`, like
the server's `AnswerInv`, was checked with TLC on the run's instance before it was proved.

## 6. Only model-checked, and not modelled

Only model-checked: `StartSucceeds` and `StopsInTheEnd`, as liveness is out of this prover's reach;
and the properties of the four runs that find a violation. What is only proved: several addresses together
with a third code in `SignIn`, and several tabs in `Checklist`, which no run has.

Not modelled:

* wording, layout and logging; hashing, signing and random numbers (a code is drawn from a
  set, a hash is injective); the content of the data banks and of the lists, and the
  patterns that read Swedish titles;
* durations and steps that vary with the season (`taskForDate`: a plan sees one season), the
  overview's counts, minutes and pace, the checklist's estimate of the time left;
* a stored schedule or history of another shape: the code drops it, as if there were none;
* which observers TanStack Query renders again after `queryClient.clear()`, and the page the
  user is sent to after signing in;
* `RequireRole`, which no route uses, request ids, and the decoding of request bodies;
* the proxy's forwarding, its redirect, its error page and the timer of its shutdown, each a call of
  a library; its settings; `certs:clean`, which deletes the certificates by hand;
* more than one replica of the backend, which the code documents as unsupported
  (`codes.go:48-51`).
