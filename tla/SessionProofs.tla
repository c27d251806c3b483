---------------------------- MODULE SessionProofs ----------------------------
(***************************************************************************)
(* Theorems about Session, for every value of its constants: any number of *)
(* calls under way, codes and restarts, any settings and lifetimes.        *)
(***************************************************************************)
EXTENDS Session, FiniteSetTheorems, WellFoundedInduction, TLAPS

-----------------------------------------------------------------------------
(* Numbers, sets and records. *)

LEMMA LeastNat ==
    ASSUME NEW T \in SUBSET Nat, T # {}
    PROVE  \E n \in T : \A m \in T : n <= m
<1>1. PICK R : IsWellFoundedOn(R, Nat) /\ \A n, m \in Nat : m < n => <<m, n>> \in R
  <2>1. \A n, m \in Nat : m < n => <<m, n>> \in OpToRel(<, Nat)
    BY DEF OpToRel
  <2>2. QED
    BY <2>1, NatLessThanWellFounded
<1>2. PICK n \in T : \A m \in T : ~(<<m, n>> \in R)
  BY <1>1, WFMin
<1>3. \A m \in T : ~(m < n)
  BY <1>1, <1>2, Zenon
<1>4. QED
  BY <1>3

(* A set is no smaller than its image. *)
LEMMA ImageSize ==
    ASSUME NEW S, NEW T, IsFiniteSet(S), NEW f \in [S -> T],
           \A y \in T : \E x \in S : f[x] = y
    PROVE  IsFiniteSet(T) /\ Cardinality(T) <= Cardinality(S)
<1>1. f \in Surjection(S, T)
  BY DEF Surjection
<1>2. QED
  BY <1>1, FS_Surjection

(* A set with one element more. *)
LEMMA OneMore ==
    ASSUME NEW S, NEW d, IsFiniteSet(S)
    PROVE  /\ IsFiniteSet(S \cup {d})
           /\ Cardinality(S \cup {d}) \in {Cardinality(S), Cardinality(S) + 1}
BY FS_AddElement

(* There is a number for another call. *)
LEMMA NumberType ==
    ASSUME TypeOK, Cardinality(net) < MaxCalls, NEW kind \in Kind
    PROVE  Number(kind) \in 1 .. MaxCalls
<1> DEFINE Used == {c.no : c \in Of(kind)}
           Free == (1 .. MaxCalls) \ Used
<1>1. IsFiniteSet(Of(kind)) /\ Cardinality(Of(kind)) <= Cardinality(net)
  BY FS_Subset DEF Of, TypeOK
<1>2. IsFiniteSet(Used) /\ Cardinality(Used) <= Cardinality(Of(kind))
  <2> DEFINE f == [c \in Of(kind) |-> c.no]
  <2>1. f \in [Of(kind) -> Used] /\ \A y \in Used : \E x \in Of(kind) : f[x] = y
    OBVIOUS
  <2> HIDE DEF f, Used
  <2>2. QED
    BY <1>1, <2>1, ImageSize
<1>3. Free # {}
  <2>1. SUFFICES ASSUME 1 .. MaxCalls \subseteq Used
                 PROVE  FALSE
    OBVIOUS
  <2>2. IsFiniteSet(1 .. MaxCalls) /\ Cardinality(1 .. MaxCalls) = MaxCalls
    BY FS_Interval, SessionAssumption
  <2> HIDE DEF Used
  <2>3. MaxCalls <= Cardinality(Used)
    <3>1. 1 .. MaxCalls \in SUBSET Used
      BY <2>1
    <3>2. Cardinality(1 .. MaxCalls) <= Cardinality(Used)
      BY <1>2, <3>1, FS_Subset
    <3>3. QED
      BY <2>2, <3>2
  <2>4. Cardinality(Used) \in Nat /\ Cardinality(Of(kind)) \in Nat /\ Cardinality(net) \in Nat
    BY <1>1, <1>2, FS_CardinalityType DEF TypeOK
  <2>5. QED
    BY <1>1, <1>2, <2>3, <2>4, SessionAssumption
<1>4. PICK n \in Free : \A m \in Free : n <= m
  <2>1. Free \in SUBSET Nat
    OBVIOUS
  <2> HIDE DEF Free
  <2>2. QED
    BY <1>3, <2>1, LeastNat
<1>5. FreeNumber(kind, n)
  <2>1. \A m \in 1 .. n - 1 : m \in Used
    BY <1>4, SessionAssumption
  <2>2. QED
    BY <2>1 DEF FreeNumber
<1>6. QED
  BY <1>5 DEF Number

LEMMA OutgoingType ==
    ASSUME TypeOK, Cardinality(net) < MaxCalls, NEW kind \in Kind,
           NEW email \in Address \cup {Nothing}, NEW code \in 0 .. MaxIssues, NEW sure \in BOOLEAN
    PROVE  Outgoing(kind, email, code, sure) \in Call
BY NumberType DEF Outgoing, Call

LEMMA AskMeType ==
    ASSUME NEW jar \in Token \cup {Nothing}
    PROVE  AskMe(jar) \in Call
BY SessionAssumption DEF AskMe, Carried, Call, Kind

LEMMA SendType ==
    ASSUME TypeOK, NEW call \in Call, Send(call)
    PROVE  /\ net' \subseteq Call /\ IsFiniteSet(net') /\ Cardinality(net') <= MaxCalls
           /\ calm' \in BOOLEAN
<1>1. IsFiniteSet(net) /\ net \subseteq Call /\ calm \in BOOLEAN
  BY DEF TypeOK
<1>2. Cardinality(net) \in Nat /\ Cardinality(net) < MaxCalls /\ MaxCalls \in Nat
  BY <1>1, FS_CardinalityType, SessionAssumption DEF Send
<1>3. /\ IsFiniteSet(net \cup {call})
      /\ Cardinality(net \cup {call}) \in {Cardinality(net), Cardinality(net) + 1}
  BY <1>1, FS_AddElement
<1>4. Cardinality(net \cup {call}) <= MaxCalls
  BY <1>2, <1>3
<1>5. QED
  BY <1>1, <1>3, <1>4 DEF Send

LEMMA UnmountedType ==
    ASSUME NEW calls \in SUBSET Call, IsFiniteSet(calls)
    PROVE  /\ Unmounted(calls) \subseteq Call /\ IsFiniteSet(Unmounted(calls))
           /\ Cardinality(Unmounted(calls)) <= Cardinality(calls)
<1> DEFINE f == [c \in calls |-> [c EXCEPT !.mounted = FALSE]]
<1>1. f \in [calls -> Unmounted(calls)] /\ \A y \in Unmounted(calls) : \E x \in calls : f[x] = y
  BY DEF Unmounted
<1> HIDE DEF f
<1>2. Unmounted(calls) \subseteq Call
  BY DEF Unmounted, Call
<1>3. QED
  BY <1>1, <1>2, ImageSize

LEMMA ReplaceType ==
    ASSUME TypeOK, NEW c \in net, NEW d \in Call, NEW calls,
           calls = net \ {c} \/ calls = (net \ {c}) \cup {d}
    PROVE  calls \subseteq Call /\ IsFiniteSet(calls) /\ Cardinality(calls) <= MaxCalls
<1>1. PICK rest : rest = net \ {c}
  OBVIOUS
<1>2. /\ IsFiniteSet(rest) /\ Cardinality(rest) = Cardinality(net) - 1
      /\ Cardinality(net) \in Nat /\ Cardinality(rest) \in Nat
  BY <1>1, FS_RemoveElement, FS_CardinalityType DEF TypeOK
<1>3. PICK more : more = rest \cup {d}
  OBVIOUS
<1>4. IsFiniteSet(more) /\ Cardinality(more) \in {Cardinality(rest), Cardinality(rest) + 1}
  BY <1>2, <1>3, OneMore
<1>5. calls = rest \/ calls = more
  BY <1>1, <1>3
<1>6. calls \subseteq Call
  BY <1>1, <1>3, <1>5 DEF TypeOK
<1>7. Cardinality(net) <= MaxCalls /\ MaxCalls \in Nat
  BY SessionAssumption DEF TypeOK
<1>8. CASE calls = rest
  BY <1>2, <1>6, <1>7, <1>8
<1>9. CASE calls = more
  BY <1>2, <1>4, <1>6, <1>7, <1>9
<1>10. QED
  BY <1>5, <1>8, <1>9

-----------------------------------------------------------------------------
(* Types.  What a call carries depends on its kind and on how far it is.   *)

Failed == Reply(0, Nothing, Nothing)

(* The answers the server gives. *)
MeAnswer(c) ==
    \/ c.token # Nothing /\ c.answer = Reply(200, Names(c.token), Nothing)
    \/ c.answer = Reply(401, Nothing, IF c.token = Nothing THEN Nothing ELSE Cleared)

RequestCodeAnswer(c) ==
    \/ c.answer \in {Reply(429, Nothing, Nothing), Reply(500, Nothing, Nothing)}
    \/ /\ c.answer.status = 202 /\ c.answer.setCookie = Nothing
       /\ c.answer.body \in CodeRequested
       /\ c.answer.body.email = c.email
       /\ c.answer.body.resendAfter = WholeSeconds(ResendAfter)

VerifyCodeAnswer(c) ==
    \/ c.answer \in {Reply(429, Nothing, Nothing), Reply(401, Nothing, Nothing)}
    \/ /\ c.answer.status = 200
       /\ c.answer.setCookie \in Token
       /\ c.answer.body = Names(c.answer.setCookie)

Proper(c) ==
    /\ c.kind \in {"request-code", "verify-code"} => c.email \in Address
    /\ c.hop = "out" => c.answer = Nothing
    /\ c.hop = "back" => c.answer \in Answer
    /\ c.hop = "back" /\ c.answer # Failed =>
         CASE c.kind = "me" -> MeAnswer(c)
           [] c.kind = "request-code" -> RequestCodeAnswer(c)
           [] c.kind = "verify-code" -> VerifyCodeAnswer(c)
           [] c.kind = "logout" -> c.answer = AnswerLogout

NetOK ==
    /\ net \subseteq Call /\ IsFiniteSet(net) /\ Cardinality(net) <= MaxCalls
    /\ \A c \in net : Proper(c)

StoredInv == \A a \in Address : codes[a] # Nothing => Listed(a) /\ codes[a].issuedAt <= now

TypeInv == TypeOK /\ NetOK /\ StoredInv

LEMMA ReplyType ==
    ASSUME NEW status \in {0, 200, 202, 204, 401, 429, 500},
           NEW body \in Identity \cup CodeRequested \cup {Nothing},
           NEW setCookie \in Token \cup {Nothing, Cleared}
    PROVE  Reply(status, body, setCookie) \in Answer
BY DEF Reply, Answer

(* Whole seconds leave less than one out. *)
LEMMA ResendWhole ==
    /\ WholeSeconds(ResendAfter) \in Nat
    /\ ResendAfter < WholeSeconds(ResendAfter) + Second
<1>1. ASSUME NEW d \in Nat, NEW s \in Nat \ {0}
      PROVE  d \div s \in Nat /\ d < (d \div s) * s + s
  OBVIOUS
<1>2. ResendAfter \in Nat /\ Second \in Nat \ {0}
  BY SessionAssumption
<1>3. PICK q \in Nat : q = ResendAfter \div Second /\ ResendAfter < q * Second + Second
  BY <1>1, <1>2
<1>4. q * Second \in Nat
  BY <1>2
<1>5. QED
  BY <1>3, <1>4 DEF WholeSeconds

(* Whoever is on the list has a role. *)
LEMMA RoleType ==
    ASSUME setting \in Setting, NEW a \in Address, Listed(a)
    PROVE  RoleFor(a) \in Role
BY SessionAssumption DEF Listed, RoleFor

LEMMA SendNet ==
    ASSUME TypeInv, NEW call \in Call, Proper(call), Send(call)
    PROVE  NetOK' /\ calm' \in BOOLEAN
BY SendType DEF TypeInv, NetOK, Send

LEMMA RespondNet ==
    ASSUME TypeInv, NEW c \in net, NEW answer \in Answer, Respond(c, answer),
           Proper([c EXCEPT !.hop = "back", !.answer = answer])
    PROVE  NetOK'
<1>1. PICK d : d = [c EXCEPT !.hop = "back", !.answer = answer]
  OBVIOUS
<1>2. d \in Call /\ Proper(d)
  BY <1>1 DEF TypeInv, NetOK, Call
<1>3. PICK calls : calls = net' /\ (calls = net \ {c} \/ calls = (net \ {c}) \cup {d})
  BY <1>1 DEF Respond
<1>4. calls \subseteq Call /\ IsFiniteSet(calls) /\ Cardinality(calls) <= MaxCalls
  BY <1>2, <1>3, ReplaceType DEF TypeInv
<1>5. \A e \in calls : e \in net \/ e = d
  BY <1>3
<1>6. QED
  BY <1>2, <1>3, <1>4, <1>5 DEF TypeInv, NetOK

LEMMA ProperSame ==
    ASSUME NEW c, NEW d, Proper(c), d.kind = c.kind, d.hop = c.hop, d.answer = c.answer,
           d.email = c.email, d.token = c.token
    PROVE  Proper(d)
<1>1. /\ MeAnswer(d) = MeAnswer(c) /\ RequestCodeAnswer(d) = RequestCodeAnswer(c)
      /\ VerifyCodeAnswer(d) = VerifyCodeAnswer(c)
  BY DEF MeAnswer, RequestCodeAnswer, VerifyCodeAnswer
<1>2. QED
  BY <1>1 DEF Proper

LEMMA ProperUnmounted ==
    ASSUME NEW c \in Call, Proper(c), NEW d, d = [c EXCEPT !.mounted = FALSE]
    PROVE  d \in Call /\ Proper(d)
<1>1. /\ d \in Call /\ d.kind = c.kind /\ d.hop = c.hop /\ d.answer = c.answer
      /\ d.email = c.email /\ d.token = c.token
  BY DEF Call
<1>2. QED
  BY <1>1, ProperSame

LEMMA FewerNet ==
    ASSUME TypeInv, NEW calls \in SUBSET net, net' \in {calls, Unmounted(calls)}
    PROVE  NetOK'
<1>1. IsFiniteSet(calls) /\ Cardinality(calls) <= Cardinality(net) /\ calls \in SUBSET Call
  BY FS_Subset DEF TypeInv, TypeOK
<1>2. Cardinality(net) \in Nat /\ Cardinality(calls) \in Nat
  BY <1>1, FS_CardinalityType DEF TypeInv, TypeOK
<1>3. CASE net' = calls
  BY <1>1, <1>2, <1>3, SessionAssumption DEF TypeInv, NetOK
<1>4. CASE net' = Unmounted(calls)
  <2>1. /\ net' \subseteq Call /\ IsFiniteSet(net')
        /\ Cardinality(net') <= Cardinality(calls) /\ Cardinality(net') \in Nat
    BY <1>1, <1>4, UnmountedType, FS_CardinalityType
  <2>2. \A d \in net' : Proper(d)
    BY <1>4, ProperUnmounted DEF TypeInv, NetOK, Unmounted
  <2>3. QED
    BY <1>1, <1>2, <2>1, <2>2, SessionAssumption DEF TypeInv, NetOK
<1>5. QED
  BY <1>3, <1>4

LEMMA TypeInvInit == Init => TypeInv
<1> SUFFICES ASSUME Init PROVE TypeInv
  OBVIOUS
<1>1. PICK ask : ask = AskMe(Nothing) /\ net = {ask}
  BY DEF Init
<1>2. ask \in Call /\ Proper(ask)
  <2>1. ask \in Call
    BY <1>1, AskMeType
  <2>2. ask.kind = "me" /\ ask.hop = "out" /\ ask.answer = Nothing
    BY <1>1 DEF AskMe
  <2>3. QED
    BY <2>1, <2>2 DEF Proper
<1>3. IsFiniteSet(net) /\ Cardinality(net) = 1
  BY <1>1, FS_Singleton
<1>4. NetOK
  BY <1>1, <1>2, <1>3, SessionAssumption DEF NetOK
<1>5. cache \in CacheState
  BY DEF Init, Empty, CacheState
<1>6. codes \in [Address -> CodeRecord \cup {Nothing}]
  BY DEF Init
<1>7. TypeOK
  <2>1. now \in Nat /\ changedAt \in 0 .. now /\ restarts \in 0 .. MaxRestarts /\ issued \in 0 .. MaxIssues
    BY SessionAssumption DEF Init
  <2>2. setting \in Setting
    BY SessionAssumption DEF Init
  <2>3. QED
    BY <1>4, <1>5, <1>6, <2>1, <2>2 DEF Init, TypeOK, NetOK
<1>8. QED
  BY <1>4, <1>7 DEF TypeInv, StoredInv, Init

LEMMA CookieAfterType ==
    ASSUME TypeInv, NEW c \in net, c.hop = "back"
    PROVE  CookieAfter(c.answer) \in Token \cup {Nothing}
<1>1. c.answer \in Answer /\ cookie \in Token \cup {Nothing}
  BY DEF TypeInv, TypeOK, NetOK, Proper
<1>2. c.answer.setCookie \in Token \cup {Nothing, Cleared}
  BY <1>1 DEF Answer
<1>3. QED
  BY <1>1, <1>2 DEF CookieAfter

(* Where the cookie comes from that a page is opened with. *)
LEMMA Loads ==
    ASSUME TypeInv, Reload \/ \E c \in net : ReloadTaking(c)
    PROVE  /\ \E jar \in Token \cup {Nothing} : Load(jar)
           /\ \E jar : /\ Load(jar)
                       /\ jar = cookie \/ \E c \in net : c.hop = "back" /\ jar = CookieAfter(c.answer)
BY CookieAfterType DEF Reload, ReloadTaking, TypeInv, TypeOK

LEMMA LoadType ==
    ASSUME TypeInv, NEW jar \in Token \cup {Nothing}, Load(jar), out' \in BOOLEAN
    PROVE  TypeInv'
<1> DEFINE left == {c \in net : c.hop = "out" /\ c.kind # "me"}
           Dropped(c) == [c EXCEPT !.tab = FALSE]
           dropped == {Dropped(c) : c \in Unmounted(left)}
<1>1. left \in SUBSET Call /\ IsFiniteSet(left) /\ left \in SUBSET net
  BY FS_Subset DEF TypeInv, TypeOK
<1>2. /\ Unmounted(left) \subseteq Call /\ IsFiniteSet(Unmounted(left))
      /\ Cardinality(Unmounted(left)) <= Cardinality(left)
  BY <1>1, UnmountedType
<1>3. IsFiniteSet(dropped) /\ Cardinality(dropped) <= Cardinality(Unmounted(left))
  <2>1. PICK f : f = [c \in Unmounted(left) |-> Dropped(c)]
    OBVIOUS
  <2>2. f \in [Unmounted(left) -> dropped] /\ \A y \in dropped : \E x \in Unmounted(left) : f[x] = y
    BY <2>1
  <2> HIDE DEF left, dropped
  <2>3. QED
    BY <1>2, <2>2, ImageSize
<1>4. Cardinality(left) \in Nat /\ Cardinality(dropped) \in Nat /\ Cardinality(Unmounted(left)) \in Nat
  BY <1>1, <1>2, <1>3, FS_CardinalityType
<1>5. Cardinality(left) < MaxCalls
  BY DEF Load
<1>6. AskMe(jar) \in Call /\ Proper(AskMe(jar))
  BY AskMeType DEF AskMe, Proper
<1>7. \A d \in dropped : d \in Call /\ Proper(d)
  <2>1. \A d \in Unmounted(left) : d \in Call /\ Proper(d)
    BY <1>1, ProperUnmounted DEF Unmounted, TypeInv, NetOK
  <2>2. ASSUME NEW d \in Call, Proper(d)
        PROVE  Dropped(d) \in Call /\ Proper(Dropped(d))
    <3>1. PICK e : e = Dropped(d)
      OBVIOUS
    <3>2. /\ e \in Call /\ e.kind = d.kind /\ e.hop = d.hop /\ e.answer = d.answer
          /\ e.email = d.email /\ e.token = d.token
      BY <3>1 DEF Call
    <3>3. Proper(e)
      BY <2>2, <3>2, ProperSame
    <3>4. QED
      BY <3>1, <3>2, <3>3
  <2> HIDE DEF left
  <2>3. QED
    BY <2>1, <2>2
<1>8. net' = dropped \cup {AskMe(jar)}
  BY DEF Load
<1>9. NetOK'
  <2>1. PICK calls : calls = dropped \cup {AskMe(jar)}
    OBVIOUS
  <2> HIDE DEF left, dropped
  <2>2. IsFiniteSet(calls) /\ Cardinality(calls) \in {Cardinality(dropped), Cardinality(dropped) + 1}
    BY <1>3, <2>1, OneMore
  <2>3. Cardinality(calls) <= MaxCalls
    BY <1>2, <1>3, <1>4, <1>5, <2>2, SessionAssumption
  <2>4. QED
    BY <1>6, <1>7, <1>8, <2>1, <2>2, <2>3 DEF NetOK
<1>10. TypeOK' /\ StoredInv'
  BY <1>9 DEF Load, TypeInv, TypeOK, NetOK, StoredInv, Listed, server, Empty, CacheState
<1>11. QED
  BY <1>9, <1>10 DEF TypeInv

(* All of TypeInv but the calls. *)
RestOK ==
    /\ now \in Nat /\ changedAt \in 0 .. now /\ restarts \in 0 .. MaxRestarts
    /\ setting \in Setting
    /\ codes \in [Address -> CodeRecord \cup {Nothing}] /\ issued \in 0 .. MaxIssues
    /\ cookie \in Token \cup {Nothing}
    /\ cache \in CacheState
    /\ pending \in Pending \cup {Nothing}
    /\ entered \in Address \cup {Nothing}
    /\ calm \in BOOLEAN /\ out \in BOOLEAN
    /\ StoredInv

LEMMA TypeParts == (TypeInv <=> NetOK /\ RestOK) /\ (TypeInv' <=> NetOK' /\ RestOK')
BY DEF TypeInv, TypeOK, NetOK, RestOK

LEMMA OutgoingProper ==
    ASSUME NEW kind \in Kind, NEW email, NEW code, NEW sure,
           kind \in {"request-code", "verify-code"} => email \in Address
    PROVE  Proper(Outgoing(kind, email, code, sure))
<1>1. PICK d : d = Outgoing(kind, email, code, sure)
  OBVIOUS
<1>2. d.kind = kind /\ d.hop = "out" /\ d.email = email /\ d.answer = Nothing
  BY <1>1 DEF Outgoing
<1>3. Proper(d)
  BY <1>2 DEF Proper
<1>4. QED
  BY <1>1, <1>3

LEMMA AskMeProper == \A jar : Proper(AskMe(jar))
<1> TAKE jar
<1>1. PICK d : d = AskMe(jar)
  OBVIOUS
<1>2. d.kind = "me" /\ d.hop = "out" /\ d.answer = Nothing
  BY <1>1 DEF AskMe
<1>3. Proper(d)
  BY <1>2 DEF Proper
<1>4. QED
  BY <1>1, <1>3

LEMMA OutgoingNet ==
    ASSUME TypeInv, NEW kind \in Kind, NEW email \in Address \cup {Nothing},
           NEW code \in 0 .. MaxIssues, NEW sure \in BOOLEAN,
           kind \in {"request-code", "verify-code"} => email \in Address,
           Send(Outgoing(kind, email, code, sure))
    PROVE  NetOK' /\ calm' \in BOOLEAN
<1>1. PICK call : call = Outgoing(kind, email, code, sure)
  OBVIOUS
<1>2. TypeOK /\ Cardinality(net) < MaxCalls
  BY DEF TypeInv, Send
<1>3. call \in Call /\ Proper(call)
  BY <1>1, <1>2, OutgoingType, OutgoingProper
<1>4. QED
  BY <1>1, <1>3, SendNet

(* A step that leaves clock and server alone. *)
LEMMA RestFrame ==
    ASSUME RestOK, UNCHANGED <<now, server>>,
           cookie' \in Token \cup {Nothing}, cache' \in CacheState,
           pending' \in Pending \cup {Nothing}, entered' \in Address \cup {Nothing},
           calm' \in BOOLEAN, out' \in BOOLEAN
    PROVE  RestOK'
BY DEF RestOK, StoredInv, Listed, server

(* The page's own steps. *)
LEMMA PageType ==
    ASSUME TypeInv,
           \/ FetchMe \/ Resend \/ StartOver \/ SignOut \/ Tick
           \/ \E a \in Address : SubmitEmail(a)
           \/ \E code \in 0 .. issued : SubmitCode(code)
    PROVE  TypeInv'
<1>1. NetOK /\ RestOK /\ 0 \in 0 .. MaxIssues
  BY TypeParts, SessionAssumption
<1>2. SUFFICES NetOK' /\ RestOK'
  BY TypeParts
<1>3. CASE FetchMe
  <2>1. NetOK' /\ calm' \in BOOLEAN
    <3>1. AskMe(cookie) \in Call
      BY <1>1, AskMeType DEF RestOK
    <3>2. QED
      BY <1>3, <3>1, AskMeProper, SendNet DEF FetchMe
  <2>2. QED
    BY <1>1, <1>3, <2>1, RestFrame DEF FetchMe, RestOK, page
<1>4. CASE Resend
  <2>1. pending.email \in Address
    BY <1>1, <1>4 DEF Resend, RestOK, Pending
  <2>2. PICK sure \in BOOLEAN : Send(Outgoing("request-code", pending.email, 0, sure))
    BY <1>1, <1>4 DEF Resend, RestOK
  <2>3. NetOK' /\ calm' \in BOOLEAN
    BY <1>1, <2>1, <2>2, OutgoingNet DEF Kind
  <2>4. QED
    BY <1>1, <1>4, <2>3, RestFrame DEF Resend, RestOK, page
<1>5. CASE StartOver
  <2>1. NetOK'
    BY <1>5, FewerNet DEF StartOver
  <2>2. QED
    BY <1>1, <1>5, <2>1, RestFrame DEF StartOver, RestOK
<1>6. CASE SignOut
  <2>1. NetOK' /\ calm' \in BOOLEAN
    <3>1. Send(Outgoing("logout", Nothing, 0, FALSE)) /\ "logout" \in Kind
      BY <1>6 DEF SignOut, Kind
    <3>2. QED
      BY <1>1, <3>1, OutgoingNet
  <2>2. QED
    BY <1>1, <1>6, <2>1, RestFrame DEF SignOut, RestOK, page
<1>7. CASE Tick
  <2>1. NetOK'
    BY <1>1, <1>7 DEF Tick, NetOK
  <2>2. now' \in Nat /\ changedAt' \in 0 .. now' /\ StoredInv'
    BY <1>1, <1>7 DEF Tick, RestOK, StoredInv, Listed, server, CodeRecord
  <2>3. cache' \in CacheState
    BY <1>1, <1>7 DEF Tick, RestOK, CacheState
  <2>4. QED
    BY <1>1, <1>7, <2>1, <2>2, <2>3 DEF Tick, RestOK, server
<1>8. ASSUME NEW a \in Address, SubmitEmail(a)
      PROVE  NetOK' /\ RestOK'
  <2>1. NetOK' /\ calm' \in BOOLEAN
    <3>1. Send(Outgoing("request-code", a, 0, FALSE)) /\ "request-code" \in Kind
      BY <1>8 DEF SubmitEmail, Kind
    <3>2. QED
      BY <1>1, <3>1, OutgoingNet
  <2>2. QED
    BY <1>1, <1>8, <2>1, RestFrame DEF SubmitEmail, RestOK
<1>9. ASSUME NEW code \in 0 .. issued, SubmitCode(code)
      PROVE  NetOK' /\ RestOK'
  <2>1. pending.email \in Address /\ code \in 0 .. MaxIssues
    BY <1>1, <1>9, SessionAssumption DEF SubmitCode, RestOK, Pending
  <2>2. NetOK' /\ calm' \in BOOLEAN
    <3>1. Send(Outgoing("verify-code", pending.email, code, FALSE)) /\ "verify-code" \in Kind
      BY <1>9 DEF SubmitCode, Kind
    <3>2. QED
      BY <1>1, <2>1, <3>1, OutgoingNet
  <2>3. QED
    BY <1>1, <1>9, <2>2, RestFrame DEF SubmitCode, RestOK, page
<1>10. QED
  BY <1>3, <1>4, <1>5, <1>6, <1>7, <1>8, <1>9

(* The server's steps. *)
LEMMA ServeType ==
    ASSUME TypeInv, NEW c \in net, Serve(c)
    PROVE  TypeInv'
<1>1. NetOK /\ RestOK /\ c \in Call /\ Proper(c)
  BY TypeParts DEF NetOK
<1>2. SUFFICES NetOK' /\ RestOK'
  BY TypeParts
<1>3. ASSUME NEW answer \in Answer, Respond(c, answer),
             ASSUME NEW d \in Call, d.kind = c.kind, d.email = c.email, d.token = c.token,
                    d.hop = "back", d.answer = answer
             PROVE  Proper(d)
      PROVE  NetOK'
  <2>1. PICK d : d = [c EXCEPT !.hop = "back", !.answer = answer]
    OBVIOUS
  <2>2. /\ d \in Call /\ d.kind = c.kind /\ d.email = c.email /\ d.token = c.token
        /\ d.hop = "back" /\ d.answer = answer
    BY <1>1, <2>1 DEF Call
  <2>3. Proper(d)
    BY <1>3, <2>2
  <2>4. QED
    BY <1>3, <2>1, <2>3, RespondNet
<1>4. CASE ServeMe(c)
  <2>1. c.kind = "me" /\ c.token \in Token \cup {Nothing} /\ Respond(c, AnswerMe(c.token))
    BY <1>1, <1>4 DEF ServeMe, Arrived, Call
  <2>2. AnswerMe(c.token) \in Answer
    <3>1. Accepts(c.token) => Names(c.token) \in Identity
      BY <2>1 DEF Accepts, Names, Token, Identity
    <3>2. QED
      BY <3>1, ReplyType DEF AnswerMe
  <2>3. ASSUME NEW d \in Call, d.kind = c.kind, d.token = c.token, d.hop = "back",
               d.answer = AnswerMe(c.token)
        PROVE  Proper(d)
    BY <2>1, <2>2, <2>3 DEF Proper, MeAnswer, AnswerMe, Accepts
  <2>4. NetOK'
    BY <1>3, <2>1, <2>2, <2>3
  <2>5. QED
    BY <1>1, <1>4, <2>4, RestFrame DEF ServeMe, RestOK, page
<1>5. CASE ServeLogout(c)
  <2>1. c.kind = "logout" /\ Respond(c, AnswerLogout)
    BY <1>5 DEF ServeLogout, Arrived
  <2>2. AnswerLogout \in Answer
    BY ReplyType DEF AnswerLogout
  <2>3. ASSUME NEW d \in Call, d.kind = c.kind, d.hop = "back", d.answer = AnswerLogout
        PROVE  Proper(d)
    BY <2>1, <2>2, <2>3 DEF Proper
  <2>4. NetOK'
    BY <1>3, <2>1, <2>2, <2>3
  <2>5. QED
    BY <1>1, <1>5, <2>4, RestFrame DEF ServeLogout, RestOK, page
<1>6. /\ Arrived(c, "request-code") => Sent(c.email) \in Answer /\ c.email \in Address
      /\ \A d \in Call : d.kind = "request-code" /\ d.email = c.email /\ d.hop = "back"
               /\ d.email \in Address /\ d.answer = Sent(c.email) => Proper(d)
  <2>1. now + CodeTTL \in Nat /\ WholeSeconds(ResendAfter) \in Nat
    BY <1>1, ResendWhole, SessionAssumption DEF RestOK
  <2>2. PICK body : body = [email |-> c.email, expiresAt |-> now + CodeTTL,
                            resendAfter |-> WholeSeconds(ResendAfter)]
    OBVIOUS
  <2>3. body.email = c.email /\ body.resendAfter = WholeSeconds(ResendAfter)
    BY <2>2
  <2>4. c.email \in Address => body \in CodeRequested
    BY <2>1, <2>2 DEF CodeRequested
  <2>5. Sent(c.email) = Reply(202, body, Nothing)
    BY <2>2 DEF Sent
  <2>6. c.email \in Address => Sent(c.email) \in Answer
    BY <2>4, <2>5, ReplyType
  <2>7. ASSUME NEW d \in Call, d.kind = "request-code", d.email = c.email, d.hop = "back",
               d.email \in Address, d.answer = Sent(c.email)
        PROVE  Proper(d)
    <3>1. d.answer.status = 202 /\ d.answer.setCookie = Nothing /\ d.answer.body = body
      BY <2>5, <2>7 DEF Reply
    <3>2. RequestCodeAnswer(d)
      BY <2>3, <2>4, <2>7, <3>1 DEF RequestCodeAnswer
    <3>3. QED
      BY <2>6, <2>7, <3>2 DEF Proper
  <2>8. QED
    BY <1>1, <2>6, <2>7 DEF Proper, Arrived
<1>7. ASSUME NEW answer, Respond(c, answer), Arrived(c, "request-code"),
             \/ answer = Sent(c.email)
             \/ answer = Reply(429, Nothing, Nothing) \/ answer = Reply(500, Nothing, Nothing)
      PROVE  NetOK'
  <2>1. answer \in Answer /\ c.kind = "request-code" /\ c.email \in Address
    BY <1>6, <1>7, ReplyType DEF Arrived
  <2>2. ASSUME NEW d \in Call, d.kind = c.kind, d.email = c.email, d.token = c.token,
               d.hop = "back", d.answer = answer
        PROVE  Proper(d)
    <3>1. CASE answer = Sent(c.email)
      BY <1>6, <2>1, <2>2, <3>1
    <3>2. CASE answer # Sent(c.email)
      <4>1. RequestCodeAnswer(d)
        BY <1>7, <2>2, <3>2 DEF RequestCodeAnswer
      <4>2. QED
        BY <2>1, <2>2, <4>1 DEF Proper
    <3>3. QED
      BY <3>1, <3>2
  <2>3. QED
    BY <1>3, <1>7, <2>1, <2>2
<1>8. CASE RequestCodeRefused(c)
  <2>1. PICK answer : /\ Respond(c, answer) /\ Arrived(c, "request-code")
                      /\ answer = Sent(c.email) \/ answer = Reply(429, Nothing, Nothing)
    BY <1>8 DEF RequestCodeRefused
  <2>2. NetOK'
    BY <1>7, <2>1
  <2>3. QED
    BY <1>1, <1>8, <2>2, RestFrame DEF RequestCodeRefused, RestOK, page
<1>9. ASSUME NEW yes \in BOOLEAN, RequestCodeServed(c, yes)
      PROVE  NetOK' /\ RestOK'
  <2>1. PICK answer : /\ Respond(c, answer) /\ Arrived(c, "request-code")
                      /\ answer = Sent(c.email) \/ answer = Reply(500, Nothing, Nothing)
    BY <1>9 DEF RequestCodeServed
  <2>2. NetOK'
    BY <1>7, <2>1
  <2>3. PICK r : r = [code |-> issued + 1, issuedAt |-> now, expiresAt |-> now + CodeTTL]
    OBVIOUS
  <2>4. r \in CodeRecord /\ r.issuedAt = now /\ issued + 1 \in 0 .. MaxIssues
    BY <1>1, <1>9, <2>3, SessionAssumption DEF RequestCodeServed, RestOK, CodeRecord
  <2>5. codes' = [codes EXCEPT ![c.email] = r]
    BY <1>9, <2>3 DEF RequestCodeServed
  <2>6. codes' \in [Address -> CodeRecord \cup {Nothing}] /\ issued' \in 0 .. MaxIssues
    BY <1>1, <1>9, <2>4, <2>5, ZenonT(30) DEF RequestCodeServed, RestOK
  <2>7. StoredInv'
    BY <1>1, <1>9, <2>4, <2>5 DEF RequestCodeServed, RestOK, StoredInv, Listed
  <2>8. QED
    BY <1>1, <1>9, <2>2, <2>6, <2>7 DEF RequestCodeServed, RestOK, page
<1>10. CASE VerifyCodeServed(c)
  <2>1. c.kind = "verify-code" /\ c.email \in Address /\ Listed(c.email)
    BY <1>1, <1>10 DEF VerifyCodeServed, Arrived, Redeems, Usable, Proper, RestOK, StoredInv
  <2>2. RoleFor(c.email) \in Role
    BY <1>1, <2>1, RoleType DEF RestOK
  <2>3. PICK id : id = [email |-> c.email, role |-> RoleFor(c.email)]
    OBVIOUS
  <2>4. id \in Identity /\ Issue(id) \in Token /\ Names(Issue(id)) = id
    BY <1>1, <2>1, <2>2, <2>3, SessionAssumption DEF Identity, Issue, Token, Names, Secret, RestOK
  <2>5. Respond(c, Reply(200, id, Issue(id))) /\ Reply(200, id, Issue(id)) \in Answer
    BY <1>10, <2>3, <2>4, ReplyType DEF VerifyCodeServed
  <2>6. ASSUME NEW d \in Call, d.kind = c.kind, d.email = c.email, d.hop = "back",
               d.answer = Reply(200, id, Issue(id))
        PROVE  Proper(d)
    <3>1. d.answer.status = 200 /\ d.answer.setCookie = Issue(id) /\ d.answer.body = id
      BY <2>6 DEF Reply
    <3>2. VerifyCodeAnswer(d)
      BY <2>4, <3>1 DEF VerifyCodeAnswer
    <3>3. QED
      BY <2>1, <2>5, <2>6, <3>2 DEF Proper
  <2>7. NetOK'
    BY <1>3, <2>5, <2>6
  <2>8. codes' \in [Address -> CodeRecord \cup {Nothing}] /\ StoredInv'
    BY <1>1, <1>10 DEF VerifyCodeServed, RestOK, StoredInv, Listed
  <2>9. QED
    BY <1>1, <1>10, <2>7, <2>8 DEF VerifyCodeServed, RestOK, page
<1>11. ASSUME NEW yes \in BOOLEAN, VerifyCodeRefused(c, yes)
       PROVE  NetOK' /\ RestOK'
  <2>1. PICK status \in {401, 429} : Respond(c, Reply(status, Nothing, Nothing))
    BY <1>11 DEF VerifyCodeRefused
  <2>2. c.kind = "verify-code" /\ Reply(status, Nothing, Nothing) \in Answer
    BY <1>11, ReplyType DEF VerifyCodeRefused, Arrived
  <2>3. ASSUME NEW d \in Call, d.kind = c.kind, d.email = c.email, d.hop = "back",
               d.answer = Reply(status, Nothing, Nothing)
        PROVE  Proper(d)
    BY <1>1, <2>2, <2>3 DEF Proper, VerifyCodeAnswer
  <2>4. NetOK'
    BY <1>3, <2>1, <2>2, <2>3, ZenonT(30)
  <2>5. codes' \in [Address -> CodeRecord \cup {Nothing}] /\ StoredInv'
    <3>1. codes' = codes \/ codes' = [codes EXCEPT ![c.email] = Nothing]
      BY <1>11 DEF VerifyCodeRefused
    <3>2. UNCHANGED <<now, setting>>
      BY <1>11 DEF VerifyCodeRefused
    <3>3. QED
      BY <1>1, <3>1, <3>2 DEF RestOK, StoredInv, Listed
  <2>6. QED
    BY <1>1, <1>11, <2>4, <2>5 DEF VerifyCodeRefused, RestOK, page
<1>12. QED
  BY <1>4, <1>5, <1>8, <1>9, <1>10, <1>11 DEF Serve

LEMMA FailType ==
    ASSUME TypeInv, NEW c \in net, Fail(c)
    PROVE  TypeInv'
<1>1. NetOK /\ RestOK /\ c \in Call /\ Proper(c)
  BY TypeParts DEF NetOK
<1>2. Respond(c, Failed) /\ Failed \in Answer
  BY ReplyType DEF Fail, Respond, Failed
<1>3. PICK d : d = [c EXCEPT !.hop = "back", !.answer = Failed]
  OBVIOUS
<1>4. d.hop = "back" /\ d.answer = Failed /\ d.kind = c.kind /\ d.email = c.email
  BY <1>1, <1>3 DEF Call
<1>5. Proper(d)
  BY <1>1, <1>2, <1>4 DEF Proper
<1>6. NetOK'
  BY <1>2, <1>3, <1>5, RespondNet
<1>7. RestOK'
  BY <1>1, RestFrame DEF Fail, RestOK, page
<1>8. QED
  BY <1>6, <1>7, TypeParts

LEMMA BelieveType ==
    ASSUME TypeInv, NEW state \in CacheState, NEW calls \in SUBSET net, Believe(state, calls)
    PROVE  /\ NetOK' /\ cache' \in CacheState
           /\ pending' \in Pending \cup {Nothing} /\ entered' \in Address \cup {Nothing}
<1>1. net' \in {calls, Unmounted(calls)}
  BY DEF Believe
<1>2. NetOK'
  BY <1>1, FewerNet
<1>3. QED
  BY <1>2 DEF Believe, TypeInv, TypeOK

LEMMA SaysType ==
    ASSUME NEW id \in Identity \cup {Nothing}
    PROVE  Says(id) \in CacheState
BY DEF Says, CacheState

(* An answer that has one. *)
LEMMA NamedInBody ==
    ASSUME TypeInv, NEW c \in net, c.hop = "back", c.kind \in {"me", "verify-code"},
           c.answer.status = 200
    PROVE  c.answer.body \in Identity
<1>1. c \in Call /\ Proper(c) /\ c.answer # Failed
  BY DEF TypeInv, NetOK, Failed, Reply
<1>2. CASE c.kind = "me"
  <2>1. MeAnswer(c) /\ c.token \in Token \cup {Nothing}
    BY <1>1, <1>2 DEF Proper, Call
  <2>2. c.token \in Token /\ c.answer.body = Names(c.token)
    BY <2>1 DEF MeAnswer, Reply
  <2>3. QED
    BY <2>2 DEF Names, Token, Identity
<1>3. CASE c.kind = "verify-code"
  <2>1. VerifyCodeAnswer(c)
    BY <1>1, <1>3 DEF Proper
  <2>2. c.answer.setCookie \in Token /\ c.answer.body = Names(c.answer.setCookie)
    BY <2>1 DEF VerifyCodeAnswer, Reply
  <2>3. QED
    BY <2>2 DEF Names, Token, Identity
<1>4. QED
  BY <1>2, <1>3

(* The answers at the page. *)
LEMMA SettleType ==
    ASSUME TypeInv, NEW c \in net, Settle(c)
    PROVE  TypeInv'
<1>1. NetOK /\ RestOK /\ c \in Call /\ Proper(c) /\ c.hop = "back"
  BY TypeParts DEF NetOK, Settle, SettleMe, SettleRequestCode, SettleVerifyCode, SettleLogout, Landed
<1>2. cookie' \in Token \cup {Nothing}
  BY <1>1, CookieAfterType DEF Settle, SettleMe, SettleRequestCode, SettleVerifyCode, SettleLogout, Landed
<1>3. SUFFICES NetOK' /\ RestOK'
  BY TypeParts
<1>4. net \ {c} \in SUBSET net /\ net \ ({c} \cup Of("me")) \in SUBSET net
  OBVIOUS
<1>5. CASE SettleMe(c)
  <2>1. PICK state : /\ Believe(state, net \ {c})
                     /\ state = CASE c.answer.status = 200 -> Says(c.answer.body)
                                  [] c.answer.status = 401 -> Says(Nothing)
                                  [] OTHER -> [cache EXCEPT !.status = "error", !.fresh = FALSE]
    BY <1>5 DEF SettleMe
  <2>2. state \in CacheState
    <3>1. CASE c.answer.status = 200
      BY <1>1, <1>5, <2>1, <3>1, NamedInBody, SaysType DEF SettleMe, Landed
    <3>2. CASE c.answer.status = 401
      BY <2>1, <3>2, SaysType
    <3>3. CASE c.answer.status \notin {200, 401}
      <4>1. cache \in CacheState
        BY <1>1 DEF RestOK
      <4>2. [cache EXCEPT !.status = "error", !.fresh = FALSE] \in CacheState
        BY <4>1 DEF CacheState
      <4>3. QED
        BY <2>1, <3>3, <4>2
    <3>4. QED
      BY <3>1, <3>2, <3>3
  <2>3. QED
    BY <1>1, <1>2, <1>4, <1>5, <2>1, <2>2, BelieveType, RestFrame DEF SettleMe, RestOK
<1>6. CASE SettleRequestCode(c)
  <2>1. NetOK'
    BY <1>4, <1>6, FewerNet DEF SettleRequestCode
  <2>2. pending' \in Pending \cup {Nothing}
    <3>1. CASE Hears(c)
      <4>1. RequestCodeAnswer(c)
        BY <1>1, <1>6, <3>1 DEF Hears, Proper, Failed, Reply, SettleRequestCode, Landed
      <4>2. c.answer.body \in CodeRequested
        BY <3>1, <4>1 DEF Hears, RequestCodeAnswer, Reply
      <4>3. pending' \in Pending
        BY <1>1, <1>6, <3>1, <4>2 DEF SettleRequestCode, CodeRequested, Pending, RestOK
      <4>4. QED
        BY <4>3
    <3>2. CASE ~Hears(c)
      BY <1>1, <1>6, <3>2 DEF SettleRequestCode, RestOK
    <3>3. QED
      BY <3>1, <3>2
  <2>3. QED
    BY <1>1, <1>2, <1>6, <2>1, <2>2, RestFrame DEF SettleRequestCode, RestOK
<1>7. CASE SettleVerifyCode(c)
  <2>1. PICK state : Believe(state, net \ {c}) /\ state = Seeded(c.answer)
    BY <1>7 DEF SettleVerifyCode
  <2>2. state \in CacheState
    <3>1. CASE c.answer.status = 200
      BY <1>1, <1>7, <2>1, <3>1, NamedInBody, SaysType DEF SettleVerifyCode, Landed, Seeded
    <3>2. CASE c.answer.status = 401
      BY <2>1, <3>2, SaysType DEF Seeded
    <3>3. CASE c.answer.status \notin {200, 401}
      BY <1>1, <2>1, <3>3 DEF RestOK, Seeded
    <3>4. QED
      BY <3>1, <3>2, <3>3
  <2>3. QED
    BY <1>1, <1>2, <1>4, <1>7, <2>1, <2>2, BelieveType, RestFrame DEF SettleVerifyCode, RestOK
<1>8. CASE SettleLogout(c)
  <2>1. Believe(Says(Nothing), net \ ({c} \cup Of("me"))) /\ out' \in BOOLEAN
    BY <1>8 DEF SettleLogout
  <2>2. Says(Nothing) \in CacheState
    BY SaysType
  <2>3. QED
    BY <1>1, <1>2, <1>4, <1>8, <2>1, <2>2, BelieveType, RestFrame DEF SettleLogout, RestOK
<1>9. QED
  BY <1>5, <1>6, <1>7, <1>8 DEF Settle

LEMMA TypeInvStep == TypeInv /\ [Next]_vars => TypeInv'
<1> SUFFICES ASSUME TypeInv, [Next]_vars PROVE TypeInv'
  OBVIOUS
<1>1. CASE UNCHANGED vars
  BY <1>1 DEF vars, server, page, TypeInv, TypeOK, NetOK, StoredInv, Listed
<1>2. CASE Reload \/ \E c \in net : ReloadTaking(c)
  <2>1. PICK jar \in Token \cup {Nothing} : Load(jar)
    BY <1>2, Loads
  <2>2. out' \in BOOLEAN
    BY <1>2 DEF Reload, ReloadTaking, TypeInv, TypeOK
  <2>3. QED
    BY <2>1, <2>2, LoadType
<1>3. ASSUME NEW new \in Setting, Restart(new)
      PROVE  TypeInv'
  <2>1. NetOK' /\ StoredInv'
    BY <1>3 DEF TypeInv, NetOK, StoredInv, Restart
  <2>2. RestOK'
    BY <1>3, <2>1, SessionAssumption DEF TypeInv, TypeOK, RestOK, Restart, page
  <2>3. QED
    BY <2>1, <2>2, TypeParts
<1>4. QED
  BY <1>1, <1>2, <1>3, PageType, ServeType, FailType, SettleType DEF Next

(* Every variable has its type, however calls and answers overtake each    *)
(* other, and there is always a number for another call.                   *)
THEOREM TypeCorrect == Spec => []TypeOK
<1>1. TypeInv => TypeOK
  BY DEF TypeInv
<1>2. QED
  BY <1>1, TypeInvInit, TypeInvStep, PTL DEF Spec

-----------------------------------------------------------------------------
(* While nothing overlapped and nothing failed, one call is under way.     *)
AloneInv == calm => \A c, d \in net : c = d /\ c.tab

(* What the form waits for is what it was asked for.                       *)
EnteredInv ==
    /\ PendingIsEntered
    /\ \A c \in Of("request-code") : c.mounted => c.email = entered

(* Signed out, no call to /auth/me carries a token.                        *)
OutInv ==
    out => /\ cache.data = Nothing /\ cookie = Nothing
           /\ \A c \in Of("me") : c.token = Nothing

(* What the page shows for its cookie. *)
Believed ==
    IF cache.data = Nothing THEN Carried(cookie) = Nothing
    ELSE cookie # Nothing /\ Names(cookie) = cache.data

(* The page believes this as soon as it has asked; what it asks, it asks   *)
(* with the cookie it has, and it signs in only while nobody is.           *)
AgreeInv ==
    calm =>
      /\ cache.status = "success" => Believed
      /\ cache.status # "success" => Of("me") # {}
      /\ \A c \in Of("me") : c.token = cookie \/ (c.token = Nothing /\ Carried(cookie) = Nothing)
      /\ Of("verify-code") # {} => cache.status = "success" /\ cache.data = Nothing
      /\ \A c \in net : c.answer # Failed

(* The latest code of an address is so old at time t that the page, which  *)
(* was told whole seconds, offers another.                                 *)
Rested(a, t) == codes[a] # Nothing => codes[a].issuedAt + WholeSeconds(ResendAfter) <= t

(* The page's deadline is the server's, or an answer is about to bring it. *)
DeadlineInv ==
    calm /\ pending # Nothing =>
      /\ \A c \in Of("request-code") : c.mounted
      /\ \/ Rested(pending.email, pending.resendAt)
         \/ \E c \in Of("request-code") : c.hop = "back" /\ c.answer.status = 202

(* A Resend that met no other request comes when the page may offer it. *)
SureInv ==
    \A c \in net : c.sure =>
      /\ c.kind = "request-code"
      /\ c.mounted =>
           /\ Of("request-code") = {c}
           /\ c.hop = "out" => Rested(c.email, now)

(* A token has the role its user has, or is from before the last change.   *)
TokenOK(token) ==
    /\ token.exp <= now + TokenTTL
    /\ \/ Listed(token.email) /\ RoleFor(token.email) = token.role
       \/ token.exp <= changedAt + TokenTTL

TokenInv ==
    /\ cookie # Nothing => TokenOK(cookie)
    /\ \A c \in net :
         /\ c.token # Nothing => TokenOK(c.token)
         /\ c.hop = "back" /\ c.answer.setCookie \in Token => TokenOK(c.answer.setCookie)

(* The same call, further on its way. *)
Same(c, d) ==
    /\ d.kind = c.kind /\ d.email = c.email /\ d.token = c.token
    /\ d.tab = c.tab /\ d.sure = c.sure

LEMMA Responded ==
    ASSUME NEW c \in net, c \in Call, NEW answer, Respond(c, answer)
    PROVE  \E d : /\ Same(c, d) /\ d.mounted = c.mounted
                  /\ d.hop = "back" /\ d.answer = answer
                  /\ \A e \in net' : e = d \/ (e \in net /\ e # c)
                  /\ c.tab => d \in net'
                  /\ \A e \in net : e # c => e \in net'
<1>1. PICK d : d = [c EXCEPT !.hop = "back", !.answer = answer]
  OBVIOUS
<1>2. Same(c, d) /\ d.mounted = c.mounted /\ d.hop = "back" /\ d.answer = answer
  BY <1>1 DEF Same, Call
<1>3. net' = (net \ {c}) \cup (IF c.tab THEN {d} ELSE {})
  BY <1>1 DEF Respond
<1>4. QED
  BY <1>2, <1>3

LEMMA UnmountedSame ==
    ASSUME NEW calls \in SUBSET Call
    PROVE  /\ \A d \in Unmounted(calls) : \E c \in calls :
                  Same(c, d) /\ d.hop = c.hop /\ d.answer = c.answer /\ ~d.mounted
           /\ \A c \in calls : \E d \in Unmounted(calls) :
                  Same(c, d) /\ d.hop = c.hop /\ d.answer = c.answer /\ ~d.mounted
<1>1. ASSUME NEW c \in calls, NEW d, d = [c EXCEPT !.mounted = FALSE]
      PROVE  Same(c, d) /\ d.hop = c.hop /\ d.answer = c.answer /\ ~d.mounted
  BY <1>1 DEF Same, Call
<1>2. QED
  BY <1>1 DEF Unmounted

LEMMA Sends ==
    ASSUME NEW kind, NEW email, NEW code, NEW sure, Send(Outgoing(kind, email, code, sure))
    PROVE  \E d : /\ net' = net \cup {d} /\ calm' = (calm /\ Heard = {})
                  /\ d.kind = kind /\ d.email = email /\ d.token = Nothing /\ d.hop = "out"
                  /\ d.tab /\ d.mounted /\ d.sure = sure /\ d.answer = Nothing
<1>1. PICK d : d = Outgoing(kind, email, code, sure)
  OBVIOUS
<1>2. /\ d.kind = kind /\ d.email = email /\ d.token = Nothing /\ d.hop = "out"
      /\ d.tab /\ d.mounted /\ d.sure = sure /\ d.answer = Nothing
  BY <1>1 DEF Outgoing
<1>3. QED
  BY <1>1, <1>2 DEF Send

LEMMA Asks ==
    ASSUME NEW jar, NEW d, d = AskMe(jar)
    PROVE  /\ d.kind = "me" /\ d.email = Nothing /\ d.token = Carried(jar) /\ d.hop = "out"
           /\ d.tab /\ ~d.mounted /\ ~d.sure /\ d.answer = Nothing
BY DEF AskMe

LEMMA Loaded ==
    ASSUME TypeInv, NEW jar, Load(jar)
    PROVE  /\ AskMe(jar) \in net'
           /\ \A d \in net' : \/ d = AskMe(jar)
                              \/ \E c \in net : /\ d.kind = c.kind /\ d.email = c.email
                                               /\ d.token = c.token /\ d.sure = c.sure
                                               /\ c.hop = "out" /\ d.hop = "out"
                                               /\ c.kind # "me" /\ ~d.tab /\ ~d.mounted
                                               /\ d.answer = c.answer
           /\ calm' => net' = {AskMe(jar)}
<1>1. PICK left : left = {c \in net : c.hop = "out" /\ c.kind # "me"}
  OBVIOUS
<1>2. left \in SUBSET Call
  BY <1>1 DEF TypeInv, TypeOK
<1>3. net' = {[c EXCEPT !.tab = FALSE] : c \in Unmounted(left)} \cup {AskMe(jar)}
  BY <1>1 DEF Load
<1>4. Unmounted(left) \subseteq Call
  <2>1. ASSUME NEW c \in left
        PROVE  [c EXCEPT !.mounted = FALSE] \in Call
    BY <1>2 DEF Call
  <2>2. QED
    BY <2>1 DEF Unmounted
<1>5. ASSUME NEW d \in net', d # AskMe(jar)
      PROVE  \E c \in net : /\ d.kind = c.kind /\ d.email = c.email
                            /\ d.token = c.token /\ d.sure = c.sure
                            /\ c.hop = "out" /\ d.hop = "out"
                            /\ c.kind # "me" /\ ~d.tab /\ ~d.mounted
                            /\ d.answer = c.answer
  <2>1. PICK u \in Unmounted(left) : d = [u EXCEPT !.tab = FALSE]
    BY <1>3, <1>5
  <2>2. PICK c \in left : Same(c, u) /\ u.hop = c.hop /\ u.answer = c.answer /\ ~u.mounted
    BY <1>2, UnmountedSame
  <2>3. /\ d.kind = u.kind /\ d.email = u.email /\ d.token = u.token /\ d.sure = u.sure
        /\ d.hop = u.hop /\ d.answer = u.answer /\ d.mounted = u.mounted /\ ~d.tab
    BY <1>4, <2>1 DEF Call
  <2>4. QED
    BY <1>1, <2>2, <2>3 DEF Same
<1>6. calm' => left = {}
  BY <1>1 DEF Load
<1>7. left = {} => Unmounted(left) = {}
  BY DEF Unmounted
<1>8. QED
  BY <1>3, <1>5, <1>6, <1>7

(* What a step does to the calls, whatever else it does.                   *)
Sending == \E call \in Call : Send(call) /\ call.tab
Responding == \E c \in net, answer \in Answer : Respond(c, answer) /\ (calm' => calm)
Dropping == \E calls \in SUBSET net : net' \in {calls, Unmounted(calls)} /\ calm' = calm

LEMMA NetSteps ==
    ASSUME TypeInv, [Next]_vars
    PROVE  \/ Sending \/ Responding \/ Dropping
           \/ \E jar \in Token \cup {Nothing} : Load(jar)
           \/ UNCHANGED <<net, calm>>
<1>1. CASE UNCHANGED vars
  BY <1>1 DEF vars
<1>2. CASE Reload \/ \E c \in net : ReloadTaking(c)
  BY <1>2, Loads
<1>3. ASSUME NEW kind \in Kind, NEW email \in Address \cup {Nothing}, NEW code \in 0 .. MaxIssues,
             NEW sure \in BOOLEAN, Send(Outgoing(kind, email, code, sure))
      PROVE  Sending
  <2>1. PICK call : call = Outgoing(kind, email, code, sure)
    OBVIOUS
  <2>2. TypeOK /\ Cardinality(net) < MaxCalls
    BY <1>3 DEF TypeInv, Send
  <2>3. call \in Call /\ call.tab
    BY <2>1, <2>2, OutgoingType DEF Outgoing
  <2>4. QED
    BY <1>3, <2>1, <2>3 DEF Sending
<1>4. RestOK /\ 0 \in 0 .. MaxIssues /\ Nothing \in Address \cup {Nothing}
  BY TypeParts, SessionAssumption
<1>5. CASE FetchMe
  BY <1>4, <1>5, AskMeType, Asks DEF FetchMe, Sending, RestOK
<1>6. CASE Resend
  <2>1. PICK sure \in BOOLEAN : Send(Outgoing("request-code", pending.email, 0, sure))
    BY <1>4, <1>6 DEF Resend, RestOK
  <2>2. pending.email \in Address
    BY <1>4, <1>6 DEF Resend, RestOK, Pending
  <2>3. QED
    BY <1>3, <1>4, <2>1, <2>2 DEF Kind
<1>7. CASE SignOut
  BY <1>3, <1>4, <1>7 DEF SignOut, Kind
<1>8. ASSUME NEW a \in Address, SubmitEmail(a)
      PROVE  Sending
  BY <1>3, <1>4, <1>8 DEF SubmitEmail, Kind
<1>9. ASSUME NEW code \in 0 .. issued, SubmitCode(code)
      PROVE  Sending
  <2>1. pending.email \in Address /\ code \in 0 .. MaxIssues
    BY <1>4, <1>9, SessionAssumption DEF SubmitCode, RestOK, Pending
  <2>2. QED
    BY <1>3, <1>9, <2>1 DEF SubmitCode, Kind
<1>10. CASE StartOver
  BY <1>10 DEF StartOver, Dropping
<1>11. CASE Tick \/ \E new \in Setting : Restart(new)
  BY <1>11 DEF Tick, Restart
<1>12. ASSUME NEW c \in net, Serve(c)
       PROVE  Responding
  <2>1. Names(c.token) \in Identity \/ ~Accepts(c.token)
    BY <1>4 DEF TypeInv, TypeOK, Call, Accepts, Names, Token, Identity
  <2>2. CASE ServeMe(c)
    BY <2>1, <2>2, ReplyType DEF ServeMe, AnswerMe, Responding
  <2>3. CASE ServeLogout(c)
    BY <2>3, ReplyType DEF ServeLogout, AnswerLogout, Responding
  <2>4. CASE RequestCodeRefused(c) \/ \E yes \in BOOLEAN : RequestCodeServed(c, yes)
    <3>1. c.email \in Address
      BY <2>4 DEF TypeInv, NetOK, Proper, RequestCodeRefused, RequestCodeServed, Arrived
    <3>2. now + CodeTTL \in Nat /\ WholeSeconds(ResendAfter) \in Nat
      BY <1>4, ResendWhole, SessionAssumption DEF RestOK
    <3>3. Sent(c.email) \in Answer
      BY <3>1, <3>2, ReplyType DEF Sent, CodeRequested
    <3>4. Reply(429, Nothing, Nothing) \in Answer /\ Reply(500, Nothing, Nothing) \in Answer
      BY ReplyType
    <3>5. PICK answer \in Answer : Respond(c, answer)
      BY <2>4, <3>3, <3>4 DEF RequestCodeRefused, RequestCodeServed
    <3>6. QED
      BY <1>4, <2>4, <3>5 DEF RequestCodeRefused, RequestCodeServed, Responding, RestOK
  <2>5. CASE VerifyCodeServed(c)
    <3>1. c.email \in Address /\ Listed(c.email)
      BY <1>4, <2>5 DEF TypeInv, NetOK, Proper, VerifyCodeServed, Arrived, Redeems, Usable, RestOK, StoredInv
    <3>2. PICK id : id = [email |-> c.email, role |-> RoleFor(c.email)]
      OBVIOUS
    <3>3. id \in Identity /\ Issue(id) \in Token
      BY <1>4, <3>1, <3>2, RoleType, SessionAssumption DEF Identity, Issue, Token, Secret, RestOK
    <3>4. QED
      BY <2>5, <3>2, <3>3, ReplyType DEF VerifyCodeServed, Responding
  <2>6. CASE \E yes \in BOOLEAN : VerifyCodeRefused(c, yes)
    <3>1. PICK status \in {401, 429} : Respond(c, Reply(status, Nothing, Nothing)) /\ calm' = calm
      BY <2>6 DEF VerifyCodeRefused
    <3>2. Reply(status, Nothing, Nothing) \in Answer
      BY ReplyType
    <3>3. QED
      BY <3>1, <3>2 DEF Responding
  <2>7. QED
    BY <1>12, <2>2, <2>3, <2>4, <2>5, <2>6 DEF Serve
<1>13. ASSUME NEW c \in net, Fail(c)
       PROVE  Responding
  <2>1. Respond(c, Reply(0, Nothing, Nothing)) /\ calm' = FALSE
    BY <1>13 DEF Fail, Respond
  <2>2. Reply(0, Nothing, Nothing) \in Answer
    BY ReplyType
  <2>3. QED
    BY <2>1, <2>2 DEF Responding
<1>14. ASSUME NEW c \in net, Settle(c)
       PROVE  Dropping
  <2>1. net \ {c} \in SUBSET net /\ net \ ({c} \cup Of("me")) \in SUBSET net
    OBVIOUS
  <2>2. QED
    BY <1>14, <2>1 DEF Settle, SettleMe, SettleRequestCode, SettleVerifyCode, SettleLogout, Believe, Dropping
<1>15. QED
  BY <1>1, <1>2, <1>5, <1>6, <1>7, <1>8, <1>9, <1>10, <1>11, <1>12, <1>13, <1>14 DEF Next

LEMMA AloneStep == TypeInv /\ AloneInv /\ [Next]_vars => AloneInv'
<1> SUFFICES ASSUME TypeInv, AloneInv, [Next]_vars, calm'
             PROVE  \A c, d \in net' : c = d /\ c.tab
  BY DEF AloneInv
<1>1. calm => \A c, d \in net : c = d /\ c.tab
  BY DEF AloneInv
<1>2. net \subseteq Call
  BY DEF TypeInv, TypeOK
<1>3. CASE Sending
  BY <1>1, <1>3 DEF Sending, Send, Heard
<1>4. CASE Responding
  <2>1. PICK c \in net, answer \in Answer : Respond(c, answer) /\ calm
    BY <1>4 DEF Responding
  <2>2. QED
    BY <1>1, <1>2, <2>1, Responded DEF Same
<1>5. CASE Dropping
  <2>1. PICK calls \in SUBSET net : net' \in {calls, Unmounted(calls)} /\ calm
    BY <1>5 DEF Dropping
  <2>2. \A d \in Unmounted(calls) : d.tab
    BY <1>1, <1>2, <2>1, UnmountedSame DEF Same
  <2>3. \A c, d \in Unmounted(calls) : c = d
    BY <1>1, <2>1 DEF Unmounted
  <2>4. QED
    BY <1>1, <2>1, <2>2, <2>3
<1>6. CASE \E jar \in Token \cup {Nothing} : Load(jar)
  BY <1>6, Loaded, Asks
<1>7. CASE UNCHANGED <<net, calm>>
  BY <1>1, <1>7
<1>8. QED
  BY <1>3, <1>4, <1>5, <1>6, <1>7, NetSteps

-----------------------------------------------------------------------------
(* An answer leaves the server, or the call fails; an answer arrives.       *)

(* Call c becomes d, on its way back, and the other calls stay.             *)
Answered(c, d) ==
    /\ Same(c, d) /\ d.mounted = c.mounted /\ d.hop = "back"
    /\ \A e \in net' : e = d \/ (e \in net /\ e # c)
    /\ c.tab => d \in net'
    /\ \A e \in net : e # c => e \in net'

LEMMA Served ==
    ASSUME TypeInv, NEW c \in net, Serve(c)
    PROVE  /\ \E d : Answered(c, d) /\ d.answer.status # 0
           /\ c.hop = "out" /\ (calm' => calm)
           /\ UNCHANGED <<now, setting, changedAt, cookie, cache, pending, entered, out>>
<1>1. c \in Call /\ calm \in BOOLEAN
  BY DEF TypeInv, TypeOK
<1>2. \E status \in {200, 202, 204, 401, 429, 500} : \E body, setCookie :
          Respond(c, Reply(status, body, setCookie))
  BY DEF Serve, ServeMe, AnswerMe, ServeLogout, AnswerLogout, RequestCodeRefused, RequestCodeServed,
         Sent, VerifyCodeServed, VerifyCodeRefused
<1>3. PICK answer : Respond(c, answer) /\ answer.status # 0
  BY <1>2 DEF Reply
<1>4. PICK d : Answered(c, d) /\ d.answer = answer
  BY <1>1, <1>3, Responded DEF Answered
<1>5. c.hop = "out" /\ (calm' => calm)
  BY <1>1 DEF Serve, ServeMe, ServeLogout, RequestCodeRefused, RequestCodeServed, VerifyCodeServed,
         VerifyCodeRefused, Arrived
<1>6. UNCHANGED <<now, setting, changedAt, cookie, cache, pending, entered, out>>
  BY DEF Serve, ServeMe, ServeLogout, RequestCodeRefused, RequestCodeServed, VerifyCodeServed,
         VerifyCodeRefused, server, page
<1>7. QED
  BY <1>3, <1>4, <1>5, <1>6

LEMMA FailedCall ==
    ASSUME TypeInv, NEW c \in net, Fail(c)
    PROVE  /\ \E d : Answered(c, d) /\ d.answer = Failed
           /\ ~calm' /\ UNCHANGED <<now, server, cookie, page, out>>
<1>1. c \in Call /\ Respond(c, Failed)
  BY DEF TypeInv, TypeOK, Fail, Respond, Failed
<1>2. QED
  BY <1>1, Responded DEF Answered, Fail

LEMMA Believing ==
    ASSUME TypeInv, NEW state, NEW calls \in SUBSET net, Believe(state, calls)
    PROVE  /\ cache' = state
           /\ \A d \in net' : \E c \in calls : Same(c, d) /\ d.hop = c.hop /\ d.answer = c.answer
           /\ \/ net' = calls /\ UNCHANGED <<pending, entered>>
              \/ pending' = Nothing /\ \A d \in net' : ~d.mounted
<1>1. calls \in SUBSET Call
  BY DEF TypeInv, TypeOK
<1>2. CASE state.data = Nothing
  BY <1>2 DEF Believe, Same
<1>3. CASE state.data # Nothing
  BY <1>1, <1>3, UnmountedSame DEF Believe
<1>4. QED
  BY <1>2, <1>3 DEF Believe

(* What an answer other than to /auth/request-code makes of the page.       *)
LEMMA Settled ==
    ASSUME TypeInv, NEW c \in net, Settle(c)
    PROVE  /\ c.hop = "back" /\ cookie' = CookieAfter(c.answer)
           /\ UNCHANGED <<now, setting, codes, changedAt, calm>>
           /\ \A d \in net' : \E e \in net \ {c} :
                  Same(e, d) /\ d.hop = e.hop /\ d.answer = e.answer
           /\ \/ SettleRequestCode(c)
              \/ net' \subseteq net \ {c} /\ UNCHANGED <<pending, entered>>
              \/ pending' = Nothing /\ \A d \in net' : ~d.mounted
<1>1. /\ c.hop = "back" /\ cookie' = CookieAfter(c.answer)
      /\ UNCHANGED <<now, setting, codes, changedAt, calm>>
  BY DEF Settle, SettleMe, SettleRequestCode, SettleVerifyCode, SettleLogout, Landed, server
<1>2. CASE \E state, calls : calls \subseteq net \ {c} /\ Believe(state, calls)
  <2>1. PICK state, calls : calls \subseteq net \ {c} /\ Believe(state, calls)
    BY <1>2
  <2>2. calls \in SUBSET net
    BY <2>1
  <2>3. QED
    BY <1>1, <2>1, <2>2, Believing
<1>3. CASE SettleRequestCode(c)
  BY <1>1, <1>3 DEF SettleRequestCode, Same
<1>4. \/ SettleRequestCode(c)
      \/ \E state, calls : calls \subseteq net \ {c} /\ Believe(state, calls)
  <2>1. net \ {c} \subseteq net \ {c} /\ net \ ({c} \cup Of("me")) \subseteq net \ {c}
    OBVIOUS
  <2>2. \/ SettleRequestCode(c)
        \/ \E state : Believe(state, net \ {c}) \/ Believe(state, net \ ({c} \cup Of("me")))
    BY DEF Settle, SettleMe, SettleVerifyCode, SettleLogout
  <2>3. QED
    BY <2>1, <2>2, Zenon
<1>5. QED
  BY <1>2, <1>3, <1>4

-----------------------------------------------------------------------------
(* The code step is for the address entered last. *)

LEMMA EnteredStep == TypeInv /\ EnteredInv /\ [Next]_vars => EnteredInv'
<1> SUFFICES ASSUME TypeInv, EnteredInv, [Next]_vars PROVE EnteredInv'
  OBVIOUS
<1>1. /\ pending # Nothing => pending.email = entered
      /\ \A c \in net : c.kind = "request-code" /\ c.mounted => c.email = entered
  BY DEF EnteredInv, PendingIsEntered, Of
<1>2. /\ pending' # Nothing => pending'.email = entered'
      /\ \A c \in net' : c.kind = "request-code" /\ c.mounted => c.email = entered'
      => EnteredInv'
  BY DEF EnteredInv, PendingIsEntered, Of
<1>3. CASE UNCHANGED vars \/ Tick \/ \E new \in Setting : Restart(new)
  BY <1>1, <1>2, <1>3 DEF vars, page, Tick, Restart
<1>4. ASSUME NEW jar, Load(jar)
      PROVE  EnteredInv'
  <2>1. PICK ask : ask = AskMe(jar)
    OBVIOUS
  <2>2. ask.kind = "me"
    BY <2>1, Asks
  <2>3. \A d \in net' : d = ask \/ ~d.mounted
    BY <1>4, <2>1, Loaded
  <2>4. QED
    BY <1>2, <1>4, <2>2, <2>3 DEF Load
<1>5. CASE FetchMe
  BY <1>1, <1>2, <1>5, Asks DEF FetchMe, Send, page
<1>6. CASE Resend
  <2>1. PICK d : net' = net \cup {d} /\ d.email = pending.email
    BY <1>6, Sends DEF Resend
  <2>2. QED
    BY <1>1, <1>2, <1>6, <2>1 DEF Resend, page
<1>7. CASE SignOut
  <2>1. PICK no : Send(Outgoing("logout", Nothing, 0, no))
    BY <1>7 DEF SignOut
  <2>2. PICK d : net' = net \cup {d} /\ d.kind = "logout"
    BY <2>1, Sends
  <2>3. QED
    BY <1>1, <1>2, <1>7, <2>2 DEF SignOut, page
<1>8. ASSUME NEW a \in Address, SubmitEmail(a)
      PROVE  EnteredInv'
  <2>1. PICK no : Send(Outgoing("request-code", a, 0, no))
    BY <1>8 DEF SubmitEmail
  <2>2. PICK d : net' = net \cup {d} /\ d.email = a
    BY <2>1, Sends
  <2>3. QED
    BY <1>2, <1>8, <2>2 DEF SubmitEmail, Waiting, Of
<1>9. ASSUME NEW code \in 0 .. issued, SubmitCode(code)
      PROVE  EnteredInv'
  <2>1. PICK no : Send(Outgoing("verify-code", pending.email, code, no))
    BY <1>9 DEF SubmitCode
  <2>2. PICK d : net' = net \cup {d} /\ d.kind = "verify-code"
    BY <2>1, Sends
  <2>3. QED
    BY <1>1, <1>2, <1>9, <2>2 DEF SubmitCode, page
<1>10. CASE StartOver
  <2>1. net \in SUBSET Call
    BY DEF TypeInv, TypeOK
  <2>2. \A d \in net' : ~d.mounted
    BY <1>10, <2>1, UnmountedSame DEF StartOver
  <2>3. QED
    BY <1>2, <1>10, <2>2 DEF StartOver
<1>11. ASSUME NEW c \in net, Serve(c) \/ Fail(c)
       PROVE  EnteredInv'
  <2>1. (\E d : Answered(c, d)) /\ UNCHANGED <<pending, entered>>
    BY <1>11, Served, FailedCall DEF page
  <2>2. QED
    BY <1>1, <1>2, <2>1 DEF Answered, Same
<1>12. ASSUME NEW c \in net, Settle(c)
       PROVE  EnteredInv'
  <2>1. CASE SettleRequestCode(c)
    <3>1. CASE Hears(c)
      <4>1. c.kind = "request-code" /\ c.mounted /\ Proper(c) /\ c.hop = "back" /\ c.answer # Failed
        BY <2>1, <3>1 DEF Hears, SettleRequestCode, Landed, TypeInv, NetOK, Failed, Reply
      <4>2. RequestCodeAnswer(c)
        BY <4>1 DEF Proper
      <4>3. c.answer.body.email = c.email
        BY <3>1, <4>2 DEF RequestCodeAnswer, Hears, Reply
      <4>4. pending'.email = entered
        BY <1>1, <2>1, <3>1, <4>1, <4>3 DEF SettleRequestCode
      <4>5. QED
        BY <1>1, <1>2, <2>1, <4>4 DEF SettleRequestCode
    <3>2. CASE ~Hears(c)
      BY <1>1, <1>2, <2>1, <3>2 DEF SettleRequestCode
    <3>3. QED
      BY <3>1, <3>2
  <2>2. CASE net' \subseteq net \ {c} /\ UNCHANGED <<pending, entered>>
    BY <1>1, <1>2, <2>2
  <2>3. CASE pending' = Nothing /\ \A d \in net' : ~d.mounted
    BY <1>2, <2>3
  <2>4. QED
    BY <1>12, <2>1, <2>2, <2>3, Settled
<1>14. CASE Reload \/ \E c \in net : ReloadTaking(c)
  BY <1>4, <1>14, Loads
<1>13. QED
  BY <1>14, <1>3, <1>4, <1>5, <1>6, <1>7, <1>8, <1>9, <1>10, <1>11, <1>12 DEF Next

-----------------------------------------------------------------------------
(* A sign-out stands. *)

LEMMA OutAnswer ==
    ASSUME TypeInv, OutInv, out, NEW c \in net, c.hop = "back", ~SignsIn(c)
    PROVE  /\ CookieAfter(c.answer) = Nothing
           /\ c.kind = "me" => c.answer.status # 200
<1>1. /\ cookie = Nothing /\ (c.kind = "me" => c.token = Nothing)
      /\ Proper(c) /\ c.kind \in Kind
  BY DEF OutInv, Of, TypeInv, TypeOK, NetOK, Call
<1>2. c.answer.setCookie \in {Nothing, Cleared} /\ (c.kind = "me" => c.answer.status # 200)
  <2>1. CASE c.answer = Failed
    BY <2>1 DEF Failed, Reply
  <2>2. CASE c.answer # Failed /\ c.kind = "me"
    <3>1. MeAnswer(c)
      BY <1>1, <2>2 DEF Proper
    <3>2. QED
      BY <1>1, <2>2, <3>1 DEF MeAnswer, Reply
  <2>3. CASE c.answer # Failed /\ c.kind = "request-code"
    <3>1. RequestCodeAnswer(c)
      BY <1>1, <2>3 DEF Proper
    <3>2. QED
      BY <2>3, <3>1 DEF RequestCodeAnswer, Reply
  <2>4. CASE c.answer # Failed /\ c.kind = "logout"
    BY <1>1, <2>4 DEF Proper, AnswerLogout, Reply
  <2>5. CASE c.answer # Failed /\ c.kind = "verify-code"
    <3>1. VerifyCodeAnswer(c) /\ c.answer.status # 200
      BY <1>1, <2>5 DEF Proper, SignsIn
    <3>2. QED
      BY <2>5, <3>1 DEF VerifyCodeAnswer, Reply
  <2>6. QED
    BY <1>1, <2>1, <2>2, <2>3, <2>4, <2>5 DEF Kind
<1>3. QED
  BY <1>1, <1>2, NothingAssumption DEF CookieAfter

LEMMA OutStep == TypeInv /\ OutInv /\ [Next]_vars => OutInv'
<1> SUFFICES ASSUME TypeInv, OutInv, [Next]_vars, out' PROVE OutInv'
  BY DEF OutInv
<1>1. out => /\ cache.data = Nothing /\ cookie = Nothing
             /\ \A c \in net : c.kind = "me" => c.token = Nothing
  BY DEF OutInv, Of
<1>2. /\ cache'.data = Nothing /\ cookie' = Nothing
      /\ \A c \in net' : c.kind = "me" => c.token = Nothing
      => OutInv'
  BY DEF OutInv, Of
<1>3. cache \in CacheState
  BY DEF TypeInv, TypeOK
<1>4. CASE UNCHANGED vars \/ \E new \in Setting : Restart(new)
  BY <1>1, <1>2, <1>4 DEF vars, page, Restart
<1>5. CASE Tick
  BY <1>1, <1>2, <1>3, <1>5 DEF Tick, CacheState
<1>6. CASE Reload \/ \E c \in net : ReloadTaking(c)
  <2>1. out
    BY <1>6 DEF Reload, ReloadTaking
  <2>2. Load(Nothing)
    <3>1. CASE Reload
      BY <1>1, <2>1, <3>1 DEF Reload
    <3>2. ASSUME NEW c \in net, ReloadTaking(c)
          PROVE  Load(Nothing)
      <4>1. c.hop = "back" /\ ~SignsIn(c) /\ Load(CookieAfter(c.answer))
        BY <3>2 DEF ReloadTaking
      <4>2. QED
        BY <2>1, <4>1, OutAnswer
    <3>3. QED
      BY <1>6, <3>1, <3>2
  <2>3. PICK ask : ask = AskMe(Nothing)
    OBVIOUS
  <2>4. ask.kind = "me" /\ ask.token = Nothing
    BY <2>3, Asks DEF Carried
  <2>5. \A d \in net' : d = ask \/ d.kind # "me"
    BY <2>2, <2>3, Loaded
  <2>6. QED
    BY <1>2, <2>2, <2>4, <2>5 DEF Load, Empty
<1>7. CASE FetchMe
  <2>1. PICK ask : ask = AskMe(cookie)
    OBVIOUS
  <2>2. out /\ cookie = Nothing
    BY <1>1, <1>7 DEF FetchMe
  <2>3. ask.kind = "me" /\ ask.token = Nothing
    BY <2>1, <2>2, Asks DEF Carried
  <2>4. QED
    BY <1>1, <1>2, <1>7, <2>1, <2>2, <2>3 DEF FetchMe, Send, page
<1>8. CASE Resend \/ SignOut \/ (\E a \in Address : SubmitEmail(a)) \/ \E code \in 0 .. issued : SubmitCode(code)
  <2>1. \E kind, email, code, sure : Send(Outgoing(kind, email, code, sure))
    BY <1>8 DEF Resend, SignOut, SubmitEmail, SubmitCode
  <2>2. PICK d : net' = net \cup {d} /\ d.token = Nothing
    BY <2>1, Sends
  <2>3. UNCHANGED <<cache, cookie, out>>
    BY <1>8 DEF Resend, SignOut, SubmitEmail, SubmitCode, page
  <2>4. QED
    BY <1>1, <1>2, <2>2, <2>3
<1>10. CASE StartOver
  <2>1. net \in SUBSET Call
    BY DEF TypeInv, TypeOK
  <2>2. \A d \in net' : \E c \in net : Same(c, d)
    BY <1>10, <2>1, UnmountedSame DEF StartOver
  <2>3. QED
    BY <1>1, <1>2, <1>10, <2>2 DEF StartOver, Same
<1>11. ASSUME NEW c \in net, Serve(c) \/ Fail(c)
       PROVE  OutInv'
  <2>1. (\E d : Answered(c, d)) /\ UNCHANGED <<cookie, cache, out>>
    BY <1>11, Served, FailedCall DEF page
  <2>2. QED
    BY <1>1, <1>2, <2>1 DEF Answered, Same
<1>12. ASSUME NEW c \in net, Settle(c)
       PROVE  OutInv'
  <2>1. /\ c.hop = "back" /\ cookie' = CookieAfter(c.answer)
        /\ \A d \in net' : \E e \in net \ {c} : Same(e, d)
    BY <1>12, Settled
  <2>2. CASE SettleMe(c)
    <3>1. out /\ c.answer.status # 200 /\ cookie' = Nothing
      BY <2>1, <2>2, OutAnswer DEF SettleMe, Landed, SignsIn
    <3>2. cache'.data = Nothing
      BY <1>1, <1>3, <2>2, <3>1 DEF SettleMe, Believe, Says, CacheState
    <3>3. QED
      BY <1>1, <1>2, <2>1, <3>1, <3>2 DEF Same
  <2>3. CASE SettleRequestCode(c)
    <3>1. out /\ cookie' = Nothing /\ cache' = cache
      BY <2>1, <2>3, OutAnswer DEF SettleRequestCode, Landed, SignsIn
    <3>2. QED
      BY <1>1, <1>2, <2>1, <3>1 DEF Same
  <2>4. CASE SettleVerifyCode(c)
    <3>1. out /\ ~SignsIn(c) /\ c.kind = "verify-code"
      BY <2>4 DEF SettleVerifyCode, Landed
    <3>2. cookie' = Nothing /\ c.answer.status # 200
      BY <2>1, <3>1, OutAnswer DEF SignsIn
    <3>3. cache' = Seeded(c.answer)
      BY <2>4 DEF SettleVerifyCode, Believe
    <3>4. cache'.data = Nothing
      BY <1>1, <3>1, <3>2, <3>3 DEF Seeded, Says
    <3>5. QED
      BY <1>1, <1>2, <2>1, <3>1, <3>2, <3>4 DEF Same
  <2>5. CASE SettleLogout(c)
    <3>1. (c.answer.status = 204 \/ out) /\ c.kind = "logout"
      BY <2>5 DEF SettleLogout, Landed
    <3>2. cookie' = Nothing
      <4>1. CASE c.answer.status = 204
        <5>1. Proper(c) /\ c.answer # Failed
          BY <4>1 DEF TypeInv, NetOK, Failed, Reply
        <5>2. c.answer = AnswerLogout
          BY <2>1, <3>1, <5>1 DEF Proper
        <5>3. QED
          BY <2>1, <5>2, NothingAssumption DEF CookieAfter, AnswerLogout, Reply
      <4>2. CASE out
        BY <2>1, <3>1, <4>2, OutAnswer DEF SignsIn
      <4>3. QED
        BY <3>1, <4>1, <4>2
    <3>3. Believe(Says(Nothing), net \ ({c} \cup Of("me")))
      BY <2>5 DEF SettleLogout
    <3>4. net' = net \ ({c} \cup Of("me")) /\ cache'.data = Nothing
      BY <3>3 DEF Believe, Says
    <3>5. QED
      BY <1>2, <3>2, <3>4 DEF Of
  <2>6. QED
    BY <1>12, <2>2, <2>3, <2>4, <2>5 DEF Settle
<1>13. QED
  BY <1>4, <1>5, <1>6, <1>7, <1>8, <1>10, <1>11, <1>12 DEF Next

-----------------------------------------------------------------------------
(* Page and cookie agree. *)

(* The cookie stays, goes, or is another. *)
LEMMA CookieBy ==
    ASSUME NEW answer
    PROVE  /\ answer.setCookie = Nothing => CookieAfter(answer) = cookie
           /\ answer.setCookie = Cleared => CookieAfter(answer) = Nothing
           /\ answer.setCookie \in Token => CookieAfter(answer) = answer.setCookie
BY NothingAssumption DEF CookieAfter

(* What an answer makes of page and cookie, when no other call is about and *)
(* none has failed.                                                        *)
LEMMA AgreeSettled ==
    ASSUME TypeInv, AgreeInv, calm, NEW c \in net, net = {c}, Settle(c)
    PROVE  cache'.status = "success" /\ Believed' /\ net' = {}
<1>1. /\ c.kind \in Kind /\ c.hop = "back" /\ Proper(c) /\ c.answer # Failed
      /\ cookie' = CookieAfter(c.answer) /\ now' = now
  BY Settled DEF AgreeInv, TypeInv, TypeOK, NetOK, Call
<1>2. net' = {}
  BY Settled
<1>3. Carried(Nothing) = Nothing /\ Carried(Nothing)' = Nothing
  BY DEF Carried
<1>4. CASE SettleMe(c)
  <2>1. MeAnswer(c) /\ c.kind = "me"
    BY <1>1, <1>4 DEF Proper, SettleMe, Landed
  <2>2. c.token = cookie \/ (c.token = Nothing /\ Carried(cookie) = Nothing)
    BY <2>1 DEF AgreeInv, Of
  <2>3. CASE c.token # Nothing /\ c.answer = Reply(200, Names(c.token), Nothing)
    <3>1. cookie' = cookie /\ c.answer.status = 200 /\ c.answer.body = Names(cookie)
      BY <1>1, <2>2, <2>3, CookieBy DEF Reply
    <3>2. cache' = Says(Names(cookie))
      BY <1>4, <3>1 DEF SettleMe, Believe
    <3>3. cookie \in Token
      BY <2>2, <2>3 DEF TypeInv, TypeOK
    <3>4. Names(cookie) \in Identity
      BY <3>3 DEF Names, Token, Identity
    <3>5. QED
      BY <1>2, <2>2, <2>3, <3>1, <3>2, <3>4, NothingAssumption DEF Believed, Says, Names
  <2>4. CASE c.answer = Reply(401, Nothing, IF c.token = Nothing THEN Nothing ELSE Cleared)
    <3>1. c.answer.status = 401 /\ c.answer.setCookie = IF c.token = Nothing THEN Nothing ELSE Cleared
      BY <2>4 DEF Reply
    <3>2. cache' = Says(Nothing)
      BY <1>4, <3>1 DEF SettleMe, Believe
    <3>3. CASE c.token = Nothing
      <4>1. cookie' = cookie /\ Carried(cookie) = Nothing
        BY <1>1, <1>3, <2>2, <3>1, <3>3, CookieBy
      <4>2. Carried(cookie)' = Nothing
        BY <1>1, <4>1 DEF Carried
      <4>3. QED
        BY <1>2, <3>2, <4>2 DEF Believed, Says
    <3>4. CASE c.token # Nothing
      <4>1. cookie' = Nothing
        BY <1>1, <3>1, <3>4, CookieBy
      <4>2. QED
        BY <1>2, <3>2, <4>1 DEF Believed, Says, Carried
    <3>5. QED
      BY <3>3, <3>4
  <2>5. QED
    BY <2>1, <2>3, <2>4 DEF MeAnswer
<1>5. c.kind # "me" => cache.status = "success" /\ Believed
  BY DEF AgreeInv, Of
<1>6. cookie' = cookie /\ cache' = cache /\ cache.status = "success" /\ Believed
      => cache'.status = "success" /\ Believed'
  BY <1>1 DEF Believed, Carried
<1>7. CASE SettleRequestCode(c)
  <2>1. RequestCodeAnswer(c) /\ c.kind = "request-code" /\ cache' = cache
    BY <1>1, <1>7 DEF Proper, SettleRequestCode, Landed
  <2>2. c.answer.setCookie = Nothing
    BY <2>1 DEF RequestCodeAnswer, Reply
  <2>3. QED
    BY <1>1, <1>2, <1>5, <1>6, <2>1, <2>2, CookieBy
<1>8. CASE SettleVerifyCode(c)
  <2>1. VerifyCodeAnswer(c) /\ c.kind = "verify-code"
    BY <1>1, <1>8 DEF Proper, SettleVerifyCode, Landed
  <2>2. cache.data = Nothing
    BY <2>1 DEF AgreeInv, Of
  <2>3. cache' = Seeded(c.answer)
    BY <1>8 DEF SettleVerifyCode, Believe
  <2>4. CASE c.answer.status = 200 /\ c.answer.setCookie \in Token
             /\ c.answer.body = Names(c.answer.setCookie)
    <3>1. cookie' = c.answer.setCookie /\ cookie' # Nothing
      BY <1>1, <2>4, CookieBy, NothingAssumption
    <3>2. cache' = Says(c.answer.body)
      BY <2>3, <2>4 DEF Seeded
    <3>3. Names(c.answer.setCookie) \in Identity
      BY <2>4 DEF Names, Token, Identity
    <3>4. QED
      BY <1>2, <2>4, <3>1, <3>2, <3>3, NothingAssumption DEF Believed, Says, Names
  <2>5. CASE c.answer = Reply(429, Nothing, Nothing)
    <3>1. cookie' = cookie /\ cache' = cache
      BY <1>1, <2>3, <2>5, CookieBy DEF Reply, Seeded
    <3>2. QED
      BY <1>2, <1>5, <1>6, <2>1, <3>1
  <2>6. CASE c.answer = Reply(401, Nothing, Nothing)
    <3>1. cookie' = cookie /\ cache' = Says(Nothing)
      BY <1>1, <2>3, <2>6, CookieBy DEF Reply, Seeded
    <3>2. Carried(cookie) = Nothing
      BY <1>5, <2>1, <2>2 DEF Believed
    <3>3. Carried(cookie)' = Nothing
      BY <1>1, <3>1, <3>2 DEF Carried
    <3>4. QED
      BY <1>2, <3>1, <3>3 DEF Believed, Says
  <2>7. QED
    BY <2>1, <2>4, <2>5, <2>6 DEF VerifyCodeAnswer
<1>9. CASE SettleLogout(c)
  <2>1. c.answer = AnswerLogout /\ c.kind = "logout"
    BY <1>1, <1>9 DEF Proper, SettleLogout, Landed
  <2>2. cookie' = Nothing
    BY <1>1, <2>1, CookieBy DEF AnswerLogout, Reply
  <2>3. cache' = Says(Nothing)
    BY <1>9 DEF SettleLogout, Believe
  <2>4. QED
    BY <1>2, <2>2, <2>3 DEF Believed, Says, Carried
<1>10. QED
  BY <1>4, <1>7, <1>8, <1>9 DEF Settle

LEMMA AgreeStep == TypeInv /\ AloneInv /\ AgreeInv /\ [Next]_vars => AgreeInv'
<1> SUFFICES ASSUME TypeInv, AloneInv, AgreeInv, [Next]_vars, calm' PROVE AgreeInv'
  BY DEF AgreeInv
<1>1. calm => /\ cache.status = "success" => Believed
              /\ cache.status # "success" => \E c \in net : c.kind = "me"
              /\ \A c \in net :
                   /\ c.kind = "me" => c.token = cookie \/ (c.token = Nothing /\ Carried(cookie) = Nothing)
                   /\ c.kind = "verify-code" => cache.status = "success" /\ cache.data = Nothing
                   /\ c.answer # Failed
              /\ \A c, d \in net : c = d /\ c.tab
  BY DEF AgreeInv, AloneInv, Of
<1>2. /\ cache'.status = "success" => Believed'
      /\ cache'.status # "success" => \E c \in net' : c.kind = "me"
      /\ \A c \in net' :
           /\ c.kind = "me" => c.token = cookie' \/ (c.token = Nothing /\ Carried(cookie)' = Nothing)
           /\ c.kind = "verify-code" => cache'.status = "success" /\ cache'.data = Nothing
           /\ c.answer # Failed
      => AgreeInv'
  BY DEF AgreeInv, Of
<1>3. cache \in CacheState /\ now \in Nat /\ net \in SUBSET Call /\ calm \in BOOLEAN
      /\ cookie \in Token \cup {Nothing}
  BY DEF TypeInv, TypeOK
<1>4. Nothing # Failed
  BY ReplyType, NothingAssumption DEF Failed
<1>5. UNCHANGED <<now, cookie, cache>> => Believed' = Believed /\ Carried(cookie)' = Carried(cookie)
  BY DEF Believed, Carried
<1>6. CASE UNCHANGED vars \/ \E new \in Setting : Restart(new)
  <2>1. UNCHANGED <<now, cookie, cache, net, calm>>
    BY <1>6 DEF vars, page, Restart
  <2>2. QED
    BY <1>1, <1>2, <1>5, <2>1
<1>7. CASE Tick
  <2>1. UNCHANGED <<cookie, net, calm>> /\ now' = now + 1
        /\ cache'.status = cache.status /\ cache'.data = cache.data
    BY <1>3, <1>7 DEF Tick, CacheState
  <2>2. Carried(cookie) = Nothing => Carried(cookie)' = Nothing
    BY <1>3, <2>1 DEF Carried, Token
  <2>3. Believed => Believed'
    BY <2>1, <2>2 DEF Believed
  <2>4. QED
    BY <1>1, <1>2, <2>1, <2>2, <2>3
<1>8. ASSUME NEW jar, Load(jar)
      PROVE  AgreeInv'
  <2>1. PICK ask : ask = AskMe(jar)
    OBVIOUS
  <2>2. ask.kind = "me" /\ ask.token = Carried(jar) /\ ask.answer = Nothing
    BY <2>1, Asks
  <2>3. net' = {ask}
    BY <1>8, <2>1, Loaded
  <2>4. cookie' = jar /\ now' = now /\ cache'.status = "pending"
    BY <1>8 DEF Load, Empty
  <2>5. Carried(jar) = jar \/ (Carried(jar) = Nothing /\ Carried(cookie)' = Nothing)
    BY <2>4 DEF Carried
  <2>6. QED
    BY <1>2, <1>4, <2>2, <2>3, <2>4, <2>5
<1>9. Sending => calm /\ net = {}
  BY <1>1, <1>3 DEF Sending, Send, Heard
<1>10. CASE FetchMe
  <2>1. PICK ask : ask = AskMe(cookie)
    OBVIOUS
  <2>2. ask.kind = "me" /\ ask.token = Carried(cookie) /\ ask.answer = Nothing
    BY <2>1, Asks
  <2>3. net' = net \cup {ask} /\ UNCHANGED <<now, cookie, cache>> /\ calm /\ net = {}
    BY <1>1, <1>3, <1>10, <2>1 DEF FetchMe, Send, page, Heard
  <2>4. Carried(cookie) \in {cookie, Nothing}
    BY DEF Carried
  <2>5. QED
    BY <1>1, <1>2, <1>4, <1>5, <2>2, <2>3, <2>4
<1>11. ASSUME NEW kind \in Kind \ {"me"}, NEW email, NEW code, NEW sure,
              Send(Outgoing(kind, email, code, sure)), UNCHANGED <<now, cookie, cache>>,
              kind = "verify-code" => cache.data = Nothing
       PROVE  AgreeInv'
  <2>1. PICK d : net' = net \cup {d} /\ calm' = (calm /\ Heard = {}) /\ d.kind = kind
                 /\ d.answer = Nothing
    BY <1>11, Sends, ZenonT(30)
  <2>2. calm /\ net = {}
    BY <1>1, <1>3, <2>1 DEF Heard
  <2>3. cache.status = "success"
    BY <1>1, <2>2
  <2>4. QED
    BY <1>1, <1>2, <1>4, <1>5, <1>11, <2>1, <2>2, <2>3
<1>12. CASE Resend \/ SignOut \/ \E a \in Address : SubmitEmail(a)
  <2>1. \E kind \in {"request-code", "logout"} : \E email, sure : Send(Outgoing(kind, email, 0, sure))
    BY <1>12 DEF Resend, SignOut, SubmitEmail
  <2>2. UNCHANGED <<now, cookie, cache>>
    BY <1>12 DEF Resend, SignOut, SubmitEmail, page
  <2>3. QED
    BY <1>11, <2>1, <2>2 DEF Kind
<1>13. ASSUME NEW code \in 0 .. issued, SubmitCode(code)
       PROVE  AgreeInv'
  <2>1. \E sure : Send(Outgoing("verify-code", pending.email, code, sure))
    BY <1>13 DEF SubmitCode
  <2>2. UNCHANGED <<now, cookie, cache>> /\ cache.data = Nothing
    BY <1>13 DEF SubmitCode, LoginShown, page
  <2>3. QED
    BY <1>11, <2>1, <2>2 DEF Kind
<1>14. CASE StartOver
  <2>1. \A d \in net' : \E c \in net : Same(c, d) /\ d.answer = c.answer
    BY <1>3, <1>14, UnmountedSame DEF StartOver
  <2>2. \A c \in net : \E d \in net' : Same(c, d)
    BY <1>3, <1>14, UnmountedSame DEF StartOver
  <2>3. calm /\ UNCHANGED <<now, cookie, cache>>
    BY <1>14 DEF StartOver
  <2>4. QED
    BY <1>1, <1>2, <1>5, <2>1, <2>2, <2>3 DEF Same
<1>15. ASSUME NEW c \in net, Serve(c)
       PROVE  AgreeInv'
  <2>1. PICK d : Answered(c, d) /\ d.answer.status # 0
    BY <1>15, Served
  <2>2. calm /\ UNCHANGED <<now, cookie, cache>>
    BY <1>15, Served
  <2>3. net' = {d} /\ d.kind = c.kind /\ d.token = c.token /\ d.answer # Failed
    BY <1>1, <2>1, <2>2 DEF Answered, Same, Failed, Reply
  <2>4. QED
    BY <1>1, <1>2, <1>5, <2>2, <2>3
<1>16. ASSUME NEW c \in net, Fail(c)
       PROVE  AgreeInv'
  BY <1>16 DEF Fail
<1>17. ASSUME NEW c \in net, Settle(c)
       PROVE  AgreeInv'
  <2>1. calm
    BY <1>17, Settled
  <2>2. net = {c}
    BY <1>1, <2>1
  <2>3. cache'.status = "success" /\ Believed' /\ net' = {}
    BY <1>17, <2>1, <2>2, AgreeSettled
  <2>4. QED
    BY <1>2, <2>3
<1>19. CASE Reload \/ \E c \in net : ReloadTaking(c)
  BY <1>8, <1>19, Loads
<1>18. QED
  BY <1>6, <1>7, <1>19, <1>10, <1>12, <1>13, <1>14, <1>15, <1>16, <1>17 DEF Next

-----------------------------------------------------------------------------
(* A Resend is let through. *)

(* Codes stay, or go. *)
CodesGo ==
    \/ codes' = codes
    \/ \E a : codes' = [codes EXCEPT ![a] = Nothing]
    \/ codes' = [a \in Address |-> Nothing]

LEMMA StillRested ==
    ASSUME TypeInv, CodesGo, NEW a \in Address, NEW t, Rested(a, t)
    PROVE  Rested(a, t)'
<1>1. codes \in [Address -> CodeRecord \cup {Nothing}]
  BY DEF TypeInv, TypeOK
<1>2. codes'[a] = codes[a] \/ codes'[a] = Nothing
  BY <1>1 DEF CodesGo
<1>3. QED
  BY <1>2 DEF Rested

LEMMA ServeCodes ==
    ASSUME NEW c, Serve(c)
    PROVE  CodesGo \/ \E yes \in BOOLEAN : RequestCodeServed(c, yes)
<1>1. CASE ServeMe(c) \/ ServeLogout(c) \/ RequestCodeRefused(c)
  BY <1>1 DEF ServeMe, ServeLogout, RequestCodeRefused, server, CodesGo
<1>2. CASE VerifyCodeServed(c) \/ \E yes \in BOOLEAN : VerifyCodeRefused(c, yes)
  BY <1>2 DEF VerifyCodeServed, VerifyCodeRefused, CodesGo
<1>3. QED
  BY <1>1, <1>2 DEF Serve

LEMMA DeadlineStep ==
    TypeInv /\ AloneInv /\ DeadlineInv /\ [Next]_vars => DeadlineInv'
<1> SUFFICES ASSUME TypeInv, AloneInv, DeadlineInv, [Next]_vars, calm', pending' # Nothing
             PROVE  DeadlineInv'
  BY DEF DeadlineInv
<1>1. calm => /\ \A c, d \in net : c = d /\ c.tab
              /\ pending # Nothing =>
                   /\ \A c \in net : c.kind = "request-code" => c.mounted
                   /\ \/ Rested(pending.email, pending.resendAt)
                      \/ \E c \in net : c.kind = "request-code" /\ c.hop = "back" /\ c.answer.status = 202
  BY DEF DeadlineInv, AloneInv, Of
<1>2. /\ \A c \in net' : c.kind = "request-code" => c.mounted
      /\ \/ Rested(pending.email, pending.resendAt)'
         \/ \E c \in net' : c.kind = "request-code" /\ c.hop = "back" /\ c.answer.status = 202
      => DeadlineInv'
  BY DEF DeadlineInv, Of
<1>3. calm \in BOOLEAN /\ (pending # Nothing => pending.email \in Address) /\ net \in SUBSET Call
  BY DEF TypeInv, TypeOK, Pending
<1>4. ASSUME pending' = pending, CodesGo, Rested(pending.email, pending.resendAt)
      PROVE  Rested(pending.email, pending.resendAt)'
  <2>1. PICK a, t : a \in Address /\ a = pending.email /\ t = pending.resendAt
    BY <1>3, <1>4
  <2>2. Rested(a, t)'
    BY <1>4, <2>1, StillRested
  <2>3. QED
    BY <1>4, <2>1, <2>2 DEF Rested
<1>5. CASE UNCHANGED vars \/ Tick \/ \E new \in Setting : Restart(new)
  <2>1. CodesGo /\ UNCHANGED <<pending, net, calm>>
    BY <1>5 DEF vars, server, page, Tick, Restart, CodesGo
  <2>2. QED
    BY <1>1, <1>2, <1>4, <2>1
<1>6. CASE StartOver \/ Reload \/ \E c \in net : ReloadTaking(c)
  BY <1>6 DEF StartOver, Reload, ReloadTaking, Load
<1>7. ASSUME NEW d, net' = net \cup {d}, calm, UNCHANGED <<codes, pending>>,
             d.kind = "request-code" => d.mounted
      PROVE  DeadlineInv'
  BY <1>1, <1>2, <1>4, <1>7 DEF CodesGo
<1>8. CASE FetchMe
  <2>1. PICK ask : ask = AskMe(cookie)
    OBVIOUS
  <2>2. ask.kind = "me"
    BY <2>1, Asks
  <2>3. net' = net \cup {ask} /\ calm /\ UNCHANGED <<codes, pending>>
    BY <1>3, <1>8, <2>1 DEF FetchMe, Send, server, page
  <2>4. QED
    BY <1>7, <2>2, <2>3
<1>9. CASE Resend \/ SignOut \/ (\E a \in Address : SubmitEmail(a)) \/ \E code \in 0 .. issued : SubmitCode(code)
  <2>1. \E kind, email, code, sure : Send(Outgoing(kind, email, code, sure))
    BY <1>9 DEF Resend, SignOut, SubmitEmail, SubmitCode
  <2>2. PICK d : net' = net \cup {d} /\ calm' = (calm /\ Heard = {}) /\ d.mounted
    BY <2>1, Sends
  <2>3. UNCHANGED <<codes, pending>>
    BY <1>9 DEF Resend, SignOut, SubmitEmail, SubmitCode, server, page
  <2>4. QED
    BY <1>3, <1>7, <2>2, <2>3
<1>10. ASSUME NEW c \in net, Serve(c)
       PROVE  DeadlineInv'
  <2>1. PICK d : Answered(c, d)
    BY <1>10, Served
  <2>2. calm /\ pending' = pending /\ c.hop = "out"
    BY <1>10, Served
  <2>3. net' = {d} /\ d.kind = c.kind /\ d.mounted = c.mounted /\ d.hop = "back"
    BY <1>1, <2>1, <2>2 DEF Answered, Same
  <2>4. Rested(pending.email, pending.resendAt)
    BY <1>1, <2>2
  <2>5. CASE CodesGo
    BY <1>1, <1>2, <1>4, <2>2, <2>3, <2>4, <2>5
  <2>6. ASSUME NEW yes \in BOOLEAN, RequestCodeServed(c, yes)
        PROVE  DeadlineInv'
    <3>1. yes /\ Respond(c, Sent(c.email)) /\ c.kind = "request-code" /\ c.tab
      BY <1>1, <1>3, <2>2, <2>6 DEF RequestCodeServed, Arrived
    <3>2. PICK e : e \in net' /\ e.answer = Sent(c.email)
      BY <1>3, <3>1, Responded
    <3>3. e = d /\ e.answer.status = 202
      BY <2>3, <3>2 DEF Sent, Reply
    <3>4. QED
      BY <1>1, <1>2, <2>2, <2>3, <3>1, <3>3
  <2>7. QED
    BY <1>10, <2>5, <2>6, ServeCodes
<1>11. ASSUME NEW c \in net, Fail(c)
       PROVE  DeadlineInv'
  BY <1>11 DEF Fail
<1>12. ASSUME NEW c \in net, Settle(c)
       PROVE  DeadlineInv'
  <2>1. calm /\ codes' = codes /\ c.hop = "back" /\ now' = now /\ CodesGo
    BY <1>12, Settled DEF CodesGo
  <2>2. net' = {}
    BY <1>1, <1>12, <2>1, Settled
  <2>3. CASE SettleRequestCode(c)
    <3>1. c.kind = "request-code" /\ Proper(c)
      BY <2>3 DEF SettleRequestCode, Landed, TypeInv, NetOK
    <3>2. CASE Hears(c)
      <4>1. c.answer.status = 202 /\ c.answer # Failed
        BY <3>2 DEF Hears, Failed, Reply
      <4>2. RequestCodeAnswer(c)
        BY <2>1, <3>1, <4>1 DEF Proper
      <4>3. c.answer.body.email = c.email /\ c.answer.body.resendAfter = WholeSeconds(ResendAfter)
        BY <4>1, <4>2 DEF RequestCodeAnswer, Reply
      <4>4. pending'.email = c.email /\ pending'.resendAt = now + WholeSeconds(ResendAfter)
        BY <2>3, <3>2, <4>3 DEF SettleRequestCode
      <4>5. c.email \in Address
        BY <3>1 DEF Proper
      <4>6. codes[c.email] # Nothing => codes[c.email].issuedAt <= now /\ codes[c.email] \in CodeRecord
        BY <4>5 DEF TypeInv, TypeOK, StoredInv
      <4>7. Rested(c.email, now + WholeSeconds(ResendAfter))
        BY <4>6, ResendWhole DEF Rested, CodeRecord, TypeInv, TypeOK
      <4>8. Rested(pending.email, pending.resendAt)'
        BY <2>1, <4>4, <4>7 DEF Rested
      <4>9. QED
        BY <1>2, <2>2, <4>8
    <3>3. CASE ~Hears(c)
      <4>1. pending' = pending
        BY <2>3, <3>3 DEF SettleRequestCode
      <4>2. Rested(pending.email, pending.resendAt)
        BY <1>1, <2>1, <3>1, <3>3, <4>1 DEF Hears
      <4>3. QED
        BY <1>2, <1>4, <2>1, <2>2, <4>1, <4>2
    <3>4. QED
      BY <3>2, <3>3
  <2>4. CASE ~SettleRequestCode(c)
    <3>1. pending' = pending /\ c.kind # "request-code"
      BY <1>12, <2>4, Settled DEF Settle, SettleMe, SettleVerifyCode, SettleLogout, Landed
    <3>2. Rested(pending.email, pending.resendAt)
      BY <1>1, <2>1, <3>1
    <3>3. QED
      BY <1>2, <1>4, <2>1, <2>2, <3>1, <3>2
  <2>5. QED
    BY <2>3, <2>4
<1>13. QED
  BY <1>5, <1>6, <1>8, <1>9, <1>10, <1>11, <1>12 DEF Next

LEMMA SureStep ==
    TypeInv /\ DeadlineInv /\ SureInv /\ [Next]_vars => SureInv'
<1> SUFFICES ASSUME TypeInv, DeadlineInv, SureInv, [Next]_vars PROVE SureInv'
  OBVIOUS
<1>1. \A c \in net : c.sure =>
        /\ c.kind = "request-code"
        /\ c.mounted =>
             /\ \A d \in net : d.kind = "request-code" => d = c
             /\ c.hop = "out" => Rested(c.email, now)
  BY DEF SureInv, Of
<1>2. (\A c \in net' : c.sure =>
         /\ c.kind = "request-code"
         /\ c.mounted =>
              /\ \A d \in net' : d.kind = "request-code" => d = c
              /\ c.hop = "out" => Rested(c.email, now)')
      => SureInv'
  BY DEF SureInv, Of
<1>3. /\ now \in Nat /\ net \in SUBSET Call
      /\ \A c \in net : c.kind = "request-code" => c.email \in Address
  BY DEF TypeInv, TypeOK, NetOK, Proper
<1>4. ASSUME now' = now, CodesGo, NEW a \in Address, Rested(a, now)
      PROVE  Rested(a, now)'
  <2>1. PICK t : t = now
    OBVIOUS
  <2>2. Rested(a, t)'
    BY <1>4, <2>1, StillRested
  <2>3. QED
    BY <1>4, <2>1, <2>2 DEF Rested
<1>5. CASE UNCHANGED vars \/ \E new \in Setting : Restart(new)
  <2>1. CodesGo /\ UNCHANGED <<now, net>>
    BY <1>5 DEF vars, server, Restart, CodesGo
  <2>2. QED
    BY <1>1, <1>2, <1>3, <1>4, <2>1
<1>6. CASE Tick
  <2>1. now' = now + 1 /\ UNCHANGED <<net, codes>>
    BY <1>6 DEF Tick, server
  <2>2. ASSUME NEW a \in Address, Rested(a, now)
        PROVE  Rested(a, now)'
    BY <1>3, <2>1, <2>2, ResendWhole DEF Rested, TypeInv, TypeOK, CodeRecord
  <2>3. QED
    BY <1>1, <1>2, <1>3, <2>1, <2>2
<1>7. ASSUME NEW jar, Load(jar)
      PROVE  SureInv'
  <2>1. PICK ask : ask = AskMe(jar)
    OBVIOUS
  <2>2. ~ask.sure
    BY <2>1, Asks
  <2>3. \A d \in net' : d = ask \/ (~d.mounted /\ \E c \in net : d.kind = c.kind /\ d.sure = c.sure)
    BY <1>7, <2>1, Loaded
  <2>4. QED
    BY <1>1, <1>2, <2>2, <2>3
<1>8. CASE StartOver
  <2>1. \A d \in net' : ~d.mounted /\ \E c \in net : Same(c, d)
    BY <1>3, <1>8, UnmountedSame DEF StartOver
  <2>2. QED
    BY <1>1, <1>2, <2>1 DEF Same
<1>9. ASSUME NEW d, net' = net \cup {d}, d.kind # "request-code", ~d.sure, UNCHANGED <<now, codes>>
      PROVE  SureInv'
  BY <1>1, <1>2, <1>3, <1>4, <1>9 DEF CodesGo
<1>10. ASSUME NEW d, net' = net \cup {d}, ~Waiting("request-code"), UNCHANGED <<now, codes>>,
              d.sure => /\ d.kind = "request-code" /\ Rested(d.email, now)
                        /\ d.hop = "out" /\ Of("request-code") = {}
       PROVE  SureInv'
  <2>1. \A c \in net : c.sure => c.kind = "request-code" /\ ~c.mounted
    BY <1>1, <1>10 DEF Waiting, Of
  <2>2. d.sure => \A c \in net : c.kind # "request-code"
    BY <1>10 DEF Of
  <2>3. Rested(d.email, now) => Rested(d.email, now)'
    BY <1>10 DEF Rested
  <2>4. QED
    BY <1>2, <1>10, <2>1, <2>2, <2>3
<1>11. CASE FetchMe
  <2>1. PICK ask : ask = AskMe(cookie)
    OBVIOUS
  <2>2. ask.kind = "me" /\ ~ask.sure
    BY <2>1, Asks
  <2>3. net' = net \cup {ask} /\ UNCHANGED <<now, codes>>
    BY <1>11, <2>1 DEF FetchMe, Send, server
  <2>4. QED
    BY <1>9, <2>2, <2>3
<1>12. CASE SignOut \/ \E code \in 0 .. issued : SubmitCode(code)
  <2>1. PICK kind, email, code, sure :
          Send(Outgoing(kind, email, code, sure)) /\ kind # "request-code" /\ ~sure
    BY <1>12 DEF SignOut, SubmitCode
  <2>2. PICK d : net' = net \cup {d} /\ d.kind = kind /\ d.sure = sure
    BY <2>1, Sends
  <2>3. UNCHANGED <<now, codes>>
    BY <1>12 DEF SignOut, SubmitCode, server
  <2>4. QED
    BY <1>9, <2>1, <2>2, <2>3
<1>13. ASSUME NEW a \in Address, SubmitEmail(a)
       PROVE  SureInv'
  <2>1. PICK sure : Send(Outgoing("request-code", a, 0, sure)) /\ ~sure
    BY <1>13 DEF SubmitEmail
  <2>2. PICK d : net' = net \cup {d} /\ d.sure = sure
    BY <2>1, Sends
  <2>3. UNCHANGED <<now, codes>> /\ ~Waiting("request-code")
    BY <1>13 DEF SubmitEmail, server
  <2>4. QED
    BY <1>10, <2>1, <2>2, <2>3
<1>14. CASE Resend
  <2>1. PICK sure : /\ Send(Outgoing("request-code", pending.email, 0, sure))
                    /\ sure = (calm /\ Of("request-code") = {})
    BY <1>14 DEF Resend
  <2>2. PICK d : /\ net' = net \cup {d} /\ d.sure = sure /\ d.kind = "request-code"
                 /\ d.email = pending.email /\ d.hop = "out"
    BY <2>1, Sends
  <2>3. UNCHANGED <<now, codes>> /\ ~Waiting("request-code") /\ pending # Nothing
        /\ pending.resendAt <= now
    BY <1>14 DEF Resend, server
  <2>4. sure => Rested(pending.email, pending.resendAt)
    BY <2>1, <2>3 DEF DeadlineInv
  <2>5. pending.email \in Address /\ pending.resendAt \in Nat
    BY <2>3 DEF TypeInv, TypeOK, Pending
  <2>6. sure => Rested(pending.email, now)
    BY <1>3, <2>3, <2>4, <2>5, ResendWhole DEF Rested, TypeInv, TypeOK, CodeRecord
  <2>7. QED
    BY <1>10, <2>1, <2>2, <2>3, <2>6
<1>15. ASSUME NEW c \in net, NEW d, Answered(c, d), now' = now,
              CodesGo \/ c.kind = "request-code"
       PROVE  SureInv'
  <2>1. /\ d.kind = c.kind /\ d.sure = c.sure /\ d.mounted = c.mounted /\ d.hop = "back"
        /\ \A e \in net' : e = d \/ (e \in net /\ e # c)
    BY <1>15 DEF Answered, Same
  <2>2. ASSUME NEW e \in net', e.sure, e = d
        PROVE  /\ e.kind = "request-code"
               /\ e.mounted => (\A f \in net' : f.kind = "request-code" => f = e) /\ e.hop # "out"
    BY <1>1, <2>1, <2>2
  <2>3. ASSUME NEW e \in net', e.sure, e # d
        PROVE  /\ e.kind = "request-code"
               /\ e.mounted => /\ \A f \in net' : f.kind = "request-code" => f = e
                               /\ e.hop = "out" => Rested(e.email, now)'
    <3>1. e \in net /\ e # c /\ e.kind = "request-code"
      BY <1>1, <2>1, <2>3
    <3>2. e.mounted => c.kind # "request-code"
      BY <1>1, <2>3, <3>1
    <3>3. QED
      BY <1>1, <1>3, <1>4, <1>15, <2>1, <2>3, <3>1, <3>2
  <2>4. QED
    BY <1>2, <2>2, <2>3
<1>16. ASSUME NEW c \in net, Serve(c)
       PROVE  SureInv'
  <2>1. now' = now /\ \E d : Answered(c, d)
    BY <1>16, Served
  <2>2. CodesGo \/ c.kind = "request-code"
    BY <1>16, ServeCodes DEF RequestCodeServed, Arrived
  <2>3. QED
    BY <1>15, <2>1, <2>2
<1>17. ASSUME NEW c \in net, Fail(c)
       PROVE  SureInv'
  <2>1. now' = now /\ CodesGo /\ \E d : Answered(c, d)
    BY <1>17, FailedCall DEF server, CodesGo
  <2>2. QED
    BY <1>15, <2>1
<1>18. ASSUME NEW c \in net, Settle(c)
       PROVE  SureInv'
  <2>1. /\ \A d \in net' : \E e \in net \ {c} : Same(e, d) /\ d.hop = e.hop /\ d.answer = e.answer
        /\ now' = now /\ CodesGo
    BY <1>18, Settled DEF CodesGo
  <2>2. net' \subseteq net \/ \A d \in net' : ~d.mounted
    BY <1>18, Settled DEF SettleRequestCode
  <2>3. QED
    BY <1>1, <1>2, <1>3, <1>4, <2>1, <2>2 DEF Same
<1>20. CASE Reload \/ \E c \in net : ReloadTaking(c)
  BY <1>7, <1>20, Loads
<1>19. QED
  BY <1>5, <1>6, <1>20, <1>8, <1>11, <1>12, <1>13, <1>14, <1>16, <1>17, <1>18 DEF Next

(* What the page may offer, less than a second is missing to at the server. *)
LEMMA SureMeans ==
    ASSUME TypeInv, SureInv, NEW c \in net, c.sure, c.mounted, Listed(c.email),
           RequestCodeRefused(c)
    PROVE  now + Second > codes[c.email].issuedAt + ResendAfter
<1>1. Arrived(c, "request-code") /\ TooSoon(c.email)
  BY DEF RequestCodeRefused
<1>2. c.email \in Address /\ Rested(c.email, now)
  BY <1>1 DEF Arrived, SureInv, TypeInv, NetOK, Proper
<1>3. codes[c.email] \in CodeRecord
  BY <1>1, <1>2 DEF TooSoon, TypeInv, TypeOK
<1>4. now \in Nat /\ codes[c.email].issuedAt \in Nat
      /\ codes[c.email].issuedAt + WholeSeconds(ResendAfter) <= now
  BY <1>1, <1>2, <1>3 DEF Rested, TooSoon, CodeRecord, TypeInv, TypeOK
<1>5. QED
  BY <1>4, ResendWhole, SessionAssumption

-----------------------------------------------------------------------------
(* What a token says of its user. *)

(* A good token in every answer that brings one. *)
LEMMA TokenStep == TypeInv /\ TokenInv /\ [Next]_vars => TokenInv'
<1> SUFFICES ASSUME TypeInv, TokenInv, [Next]_vars PROVE TokenInv'
  OBVIOUS
<1> DEFINE Good(token) == token \in Token => TokenOK(token)
           Carries(c) == Good(c.token) /\ (c.hop = "back" => Good(c.answer.setCookie))
<1>1. Good(cookie) /\ \A c \in net : Carries(c)
  BY NothingAssumption DEF TokenInv, TypeInv, TypeOK, Call
<1>2. TypeInv'
  BY TypeInvStep
<1>3. Good(cookie)' /\ (\A c \in net' : Carries(c)') => TokenInv'
  <2>1. cookie' \in Token \cup {Nothing} /\ \A c \in net' : c.token \in Token \cup {Nothing}
    BY <1>2 DEF TypeInv, TypeOK, Call
  <2>2. QED
    BY <2>1 DEF TokenInv
<1>4. Nothing \notin Token /\ Cleared \notin Token /\ now \in Nat
  BY NothingAssumption DEF TypeInv, TypeOK
<1>5. UNCHANGED <<now, setting, changedAt>> => \A token : TokenOK(token)' = TokenOK(token)
  BY DEF TokenOK, Listed, RoleFor
<1>6. \A jar : AskMe(jar).token \in {jar, Nothing} /\ AskMe(jar).hop = "out"
  <2>1. ASSUME NEW jar
        PROVE  AskMe(jar).token \in {jar, Nothing} /\ AskMe(jar).hop = "out"
    BY Asks DEF Carried
  <2>2. QED
    BY <2>1
<1>7. CASE UNCHANGED vars
  BY <1>1, <1>3, <1>5, <1>7 DEF vars, server
<1>8. ASSUME NEW new \in Setting, Restart(new)
      PROVE  TokenInv'
  <2>1. UNCHANGED <<now, cookie, net>> /\ setting' = new
        /\ changedAt' = IF new.users = setting.users THEN changedAt ELSE now
    BY <1>8 DEF Restart
  <2>2. \A token : TokenOK(token) => TokenOK(token)'
    BY <2>1 DEF TokenOK, Listed, RoleFor
  <2>3. QED
    BY <1>1, <1>3, <2>1, <2>2
<1>9. CASE Tick
  <2>1. now' = now + 1 /\ UNCHANGED <<setting, changedAt, cookie, net>>
    BY <1>9 DEF Tick, server
  <2>2. \A token \in Token : TokenOK(token) => TokenOK(token)'
    BY <1>4, <2>1, SessionAssumption DEF TokenOK, Listed, RoleFor, Token
  <2>3. QED
    BY <1>1, <1>3, <2>1, <2>2
<1>10. CASE Reload \/ \E c \in net : ReloadTaking(c)
  <2>0. PICK jar : /\ Load(jar)
                   /\ jar = cookie \/ \E c \in net : c.hop = "back" /\ jar = CookieAfter(c.answer)
    BY <1>10, Loads
  <2>1. Good(jar)
    BY <1>1, <1>4, <2>0, Zenon DEF CookieAfter
  <2>2. PICK ask : ask = AskMe(jar)
    OBVIOUS
  <2>3. ask.hop = "out" /\ Good(ask.token)
    BY <1>4, <1>6, <2>1, <2>2
  <2>4. \A d \in net' : d = ask \/ (d.hop = "out" /\ \E c \in net : d.token = c.token)
    BY <2>0, <2>2, Loaded
  <2>5. UNCHANGED <<now, setting, changedAt>> /\ cookie' = jar
    BY <2>0 DEF Load, server
  <2>6. QED
    BY <1>1, <1>3, <1>5, <2>1, <2>3, <2>4, <2>5
<1>11. ASSUME NEW d, net' = net \cup {d}, d.hop = "out", Good(d.token),
              UNCHANGED <<now, setting, changedAt, cookie>>
       PROVE  TokenInv'
  BY <1>1, <1>3, <1>5, <1>11
<1>12. CASE FetchMe
  <2>1. PICK ask : ask = AskMe(cookie)
    OBVIOUS
  <2>2. ask.hop = "out" /\ Good(ask.token)
    BY <1>1, <1>4, <1>6, <2>1
  <2>3. net' = net \cup {ask} /\ UNCHANGED <<now, setting, changedAt, cookie>>
    BY <1>12, <2>1 DEF FetchMe, Send, server
  <2>4. QED
    BY <1>11, <2>2, <2>3
<1>13. CASE Resend \/ SignOut \/ (\E a \in Address : SubmitEmail(a)) \/ \E code \in 0 .. issued : SubmitCode(code)
  <2>1. \E kind, email, code, sure : Send(Outgoing(kind, email, code, sure))
    BY <1>13 DEF Resend, SignOut, SubmitEmail, SubmitCode
  <2>2. PICK d : net' = net \cup {d} /\ d.hop = "out" /\ d.token = Nothing
    BY <2>1, Sends
  <2>3. UNCHANGED <<now, setting, changedAt, cookie>>
    BY <1>13 DEF Resend, SignOut, SubmitEmail, SubmitCode, server
  <2>4. QED
    BY <1>4, <1>11, <2>2, <2>3
<1>14. ASSUME \A d \in net' : \E c \in net : Same(c, d) /\ d.hop = c.hop /\ d.answer = c.answer,
              UNCHANGED <<now, setting, changedAt>>, Good(cookie')
       PROVE  TokenInv'
  BY <1>1, <1>3, <1>5, <1>14 DEF Same
<1>15. CASE StartOver
  <2>1. net \in SUBSET Call
    BY DEF TypeInv, TypeOK
  <2>2. \A d \in net' : \E c \in net : Same(c, d) /\ d.hop = c.hop /\ d.answer = c.answer
    BY <1>15, <2>1, UnmountedSame DEF StartOver
  <2>3. UNCHANGED <<now, setting, changedAt, cookie>>
    BY <1>15 DEF StartOver, server
  <2>4. QED
    BY <1>1, <1>14, <2>2, <2>3
<1>16. ASSUME NEW c \in net, Settle(c)
       PROVE  TokenInv'
  <2>1. c.hop = "back" /\ cookie' = CookieAfter(c.answer) /\ UNCHANGED <<now, setting, changedAt>>
    BY <1>16, Settled
  <2>2. \A d \in net' : \E e \in net \ {c} : Same(e, d) /\ d.hop = e.hop /\ d.answer = e.answer
    BY <1>16, Settled
  <2>3. CookieAfter(c.answer) \in {cookie, Nothing, c.answer.setCookie}
    BY DEF CookieAfter
  <2>4. Good(cookie')
    BY <1>1, <1>4, <2>1, <2>3
  <2>5. QED
    BY <1>14, <2>1, <2>2, <2>4
<1>17. ASSUME NEW c \in net, NEW d, Answered(c, d), Good(d.answer.setCookie),
              UNCHANGED <<now, setting, changedAt, cookie>>
       PROVE  TokenInv'
  <2>1. d.token = c.token
    BY <1>17 DEF Answered, Same
  <2>2. QED
    BY <1>1, <1>3, <1>5, <1>17, <2>1 DEF Answered
<1>18. ASSUME NEW c \in net, Serve(c)
       PROVE  TokenInv'
  <2>1. UNCHANGED <<now, setting, changedAt, cookie>> /\ c \in Call
    BY <1>18, Served DEF TypeInv, TypeOK
  <2>2. ASSUME NEW status, NEW body, NEW token, Good(token), Respond(c, Reply(status, body, token))
        PROVE  TokenInv'
    <3>1. PICK d : Answered(c, d) /\ d.answer = Reply(status, body, token)
      BY <2>1, <2>2, Responded DEF Answered
    <3>2. d.answer.setCookie = token
      BY <3>1 DEF Reply
    <3>3. QED
      BY <1>17, <2>1, <2>2, <3>1, <3>2
  <2>3. CASE VerifyCodeServed(c)
    <3>1. PICK id : id = [email |-> c.email, role |-> RoleFor(c.email)]
      OBVIOUS
    <3>2. Respond(c, Reply(200, id, Issue(id))) /\ Listed(c.email)
      BY <2>3, <3>1 DEF VerifyCodeServed, Arrived, Redeems, Usable, TypeInv, NetOK, Proper, StoredInv
    <3>3. TokenOK(Issue(id))
      BY <1>4, <3>1, <3>2, SessionAssumption DEF TokenOK, Issue
    <3>4. QED
      BY <2>2, <3>2, <3>3
  <2>4. CASE ~VerifyCodeServed(c)
    <3>1. \E status, body, token : token \in {Nothing, Cleared} /\ Respond(c, Reply(status, body, token))
      BY <1>18, <2>4 DEF Serve, ServeMe, AnswerMe, ServeLogout, AnswerLogout, RequestCodeRefused,
         RequestCodeServed, Sent, VerifyCodeRefused
    <3>2. QED
      BY <1>4, <2>2, <3>1
  <2>5. QED
    BY <2>3, <2>4
<1>19. ASSUME NEW c \in net, Fail(c)
       PROVE  TokenInv'
  <2>1. PICK d : Answered(c, d) /\ d.answer = Failed
    BY <1>19, FailedCall
  <2>2. d.answer.setCookie = Nothing /\ UNCHANGED <<now, setting, changedAt, cookie>>
    BY <1>19, <2>1 DEF Failed, Reply, Fail, server
  <2>3. QED
    BY <1>4, <1>17, <2>1, <2>2
<1>20. QED
  BY <1>7, <1>8, <1>9, <1>10, <1>12, <1>13, <1>15, <1>16, <1>18, <1>19 DEF Next

-----------------------------------------------------------------------------
(* The theorems *)

LEMMA InvInit ==
    Init => AloneInv /\ EnteredInv /\ OutInv /\ AgreeInv /\ DeadlineInv /\ SureInv /\ TokenInv
<1> SUFFICES ASSUME Init
             PROVE  AloneInv /\ EnteredInv /\ OutInv /\ AgreeInv /\ DeadlineInv /\ SureInv /\ TokenInv
  OBVIOUS
<1>1. PICK ask : ask = AskMe(Nothing) /\ net = {ask}
  BY DEF Init
<1>2. /\ ask.kind = "me" /\ ask.token = Nothing /\ ask.hop = "out" /\ ask.tab /\ ~ask.sure
      /\ ask.answer = Nothing
  BY <1>1, Asks DEF Carried
<1>3. /\ cookie = Nothing /\ pending = Nothing /\ entered = Nothing /\ ~out
      /\ cache.status = "pending"
  BY DEF Init, Empty
<1>4. Nothing # Failed /\ Carried(cookie) = Nothing
  BY <1>3, ReplyType, NothingAssumption DEF Failed, Carried
<1>5. AloneInv /\ DeadlineInv /\ OutInv
  BY <1>1, <1>2, <1>3 DEF AloneInv, DeadlineInv, OutInv
<1>6. EnteredInv /\ SureInv /\ TokenInv
  BY <1>1, <1>2, <1>3 DEF EnteredInv, PendingIsEntered, SureInv, TokenInv, Of
<1>7. AgreeInv
  BY <1>1, <1>2, <1>3, <1>4 DEF AgreeInv, Of
<1>8. QED
  BY <1>5, <1>6, <1>7

(* After an answered sign-out page and cookie stay signed out until a call *)
(* to verify-code is answered with a session: what was asked with a token  *)
(* is given up, and nothing else brings one (useLogout, handleLogout).     *)
THEOREM SigningOutHolds == Spec => []OutMeansOut
<1>1. OutInv => OutMeansOut
  BY DEF OutInv, OutMeansOut
<1>2. QED
  BY <1>1, InvInit, TypeInvInit, OutStep, TypeInvStep, PTL DEF Spec

(* Once its calls are answered, and none overlapped or failed, the page    *)
(* shows the session the cookie names, or nobody while the cookie would be *)
(* turned away (sessionQuery, useVerifyCode, onApiError).                  *)
THEOREM PageAgrees == Spec => []AgreeWhenQuiet
<1>1. AgreeInv => AgreeWhenQuiet
  BY DEF AgreeInv, AgreeWhenQuiet, Believed, Accepts
<1>2. QED
  BY <1>1, InvInit, TypeInvInit, AloneStep, AgreeStep, TypeInvStep, PTL DEF Spec

(* Resend code is not offered while the server would refuse it, whatever   *)
(* the cooldown, but for the part of a second that the answer does not     *)
(* have (httpapi/auth.go:40-41, 53, LoginPage's resendAt).                 *)
THEOREM ResendIsAccepted == Spec => ResendAccepted
<1>1. TypeInv /\ SureInv =>
        [\A c \in net :
           c.sure /\ c.mounted /\ Listed(c.email) /\ RequestCodeRefused(c)
              => now + Second > codes[c.email].issuedAt + ResendAfter]_vars
  BY SureMeans
<1>2. QED
  BY <1>1, InvInit, TypeInvInit, AloneStep, DeadlineStep, SureStep, TypeInvStep, PTL
     DEF Spec, ResendAccepted

(* The code step is for the address entered last, whichever answer comes   *)
(* when (LoginPage's pending, onSuccess of a form that is gone).           *)
THEOREM CodeStepIsForEntered == Spec => []PendingIsEntered
<1>1. EnteredInv => PendingIsEntered
  BY DEF EnteredInv
<1>2. QED
  BY <1>1, InvInit, TypeInvInit, EnteredStep, TypeInvStep, PTL DEF Spec

(* A token with a role that its user no longer has is accepted for no      *)
(* longer after the change than its lifetime and the leeway                *)
(* (RequireAuth, TokenService.Verify).                                     *)
THEOREM OldRolesRunOut == Spec => OldRoleRunsOut
<1>1. ASSUME TypeInv, TokenInv, NEW c \in net, ServeMe(c), Accepts(c.token)
      PROVE  \/ Listed(c.token.email) /\ RoleFor(c.token.email) = c.token.role
             \/ now < changedAt + TokenTTL + Leeway
  <2>1. c.token \in Token /\ TokenOK(c.token) /\ now < c.token.exp + Leeway
    BY <1>1 DEF TokenInv, TypeInv, TypeOK, Call, Accepts
  <2>2. now \in Nat /\ changedAt \in Nat /\ c.token.exp \in Nat
    BY <1>1, <2>1 DEF TypeInv, TypeOK, Token
  <2>3. QED
    BY <2>1, <2>2, SessionAssumption DEF TokenOK
<1>2. TypeInv /\ TokenInv =>
        [\A c \in net :
           ServeMe(c) /\ Accepts(c.token)
              => \/ Listed(c.token.email) /\ RoleFor(c.token.email) = c.token.role
                 \/ now < changedAt + TokenTTL + Leeway]_vars
  BY <1>1
<1>3. QED
  BY <1>2, InvInit, TypeInvInit, TokenStep, TypeInvStep, PTL DEF Spec, OldRoleRunsOut
=============================================================================
