--------------------------- MODULE SessionProofs ---------------------------
(* What Session guarantees for any number of customers and sign-ins. *)
EXTENDS Session, TLAPS

\* A sign-in under way knows its customer and the text of its screen's fields, it
\* has no token until the login is answered, and the later replies are only
\* waited for with one.  TypeOK is not inductive without it: an idle sign-in has
\* no customer, and the handlers store what the sign-in has.
StageOK ==
    \A f \in Flows :
        /\ flow[f].pc # "idle" =>
               flow[f].who \in Users /\ flow[f].typed.who \in Users
        /\ flow[f].pc \in {"verify", "login"} => flow[f].token = Absent
        /\ flow[f].pc \in {"detail", "quote", "countries"} =>
               flow[f].token \in Users

Inv == TypeOK /\ StageOK

\* The same of one sign-in, with its type.
Stage(s) ==
    /\ s \in Flow
    /\ s.pc # "idle" => s.who \in Users /\ s.typed.who \in Users
    /\ s.pc \in {"verify", "login"} => s.token = Absent
    /\ s.pc \in {"detail", "quote", "countries"} => s.token \in Users

\* The two invariants of a sign-in as one.
LEMMA InvFlow ==
    /\ TypeOK /\ StageOK => \A f \in Flows : Stage(flow[f])
    /\ flow' \in [Flows -> Flow] /\ (\A f \in Flows : Stage(flow'[f])) => StageOK'
BY DEF TypeOK, StageOK, Stage

\* The idle sign-in, the one that starts, and the one whose screen is popped.
LEMMA NoFlowStage == Stage(NoFlow)
BY DEF Stage, NoFlow, Flow, Text

LEMMA StartedStage ==
    ASSUME NEW who \in Users, NEW pw \in {"none", "right", "wrong"},
           NEW at \in {"bottom", "top", "gone"}
    PROVE  Stage(Started(who, pw, at))
BY DEF Started, Stage, Flow, Text

LEMMA GoneStage ==
    ASSUME NEW s, Stage(s) PROVE Stage([s EXCEPT !.at = "gone"])
BY DEF Stage, Flow

\* Replacing one sign-in by one that is in order.
LEMMA ReplaceIn ==
    ASSUME NEW f \in Flows, NEW s, Stage(s),
           NEW fl \in [Flows -> Flow], \A g \in Flows : Stage(fl[g]),
           flow' = [fl EXCEPT ![f] = s]
    PROVE  flow' \in [Flows -> Flow] /\ StageOK'
<1>1. s \in Flow
  BY DEF Stage
<1>2. flow' \in [Flows -> Flow]
  BY <1>1
<1>3. \A g \in Flows : flow'[g] = s \/ flow'[g] = fl[g]
  OBVIOUS
<1>4. \A g \in Flows : Stage(flow'[g])
  BY <1>3
<1> QED
  BY <1>2, <1>4, InvFlow

LEMMA Replace ==
    ASSUME NEW f \in Flows, NEW s, Stage(s), Inv,
           flow' = [flow EXCEPT ![f] = s]
    PROVE  flow' \in [Flows -> Flow] /\ StageOK'
<1>1. flow \in [Flows -> Flow] /\ \A g \in Flows : Stage(flow[g])
  BY InvFlow DEF Inv, TypeOK
<1> QED
  BY <1>1, ReplaceIn

\* New text in the fields leaves every sign-in in order.
LEMMA TypedStage ==
    ASSUME Inv, NEW who \in Users, NEW pw \in {"none", "right", "wrong"}
    PROVE  /\ Typed(who, pw) \in [Flows -> Flow]
           /\ \A g \in Flows : Stage(Typed(who, pw)[g])
<1> DEFINE t == [who |-> who, pw |-> pw]
<1>1. t \in Text /\ t.who \in Users
  BY DEF Text
<1>2. \A g \in Flows : Stage(flow[g])
  BY InvFlow DEF Inv
<1>3. \A s : Stage(s) => Stage([s EXCEPT !.typed = t])
  <2> HIDE DEF t
  <2> QED
    BY <1>1 DEF Stage, Flow
<1>4. \A g \in Flows : Typed(who, pw)[g] \in {flow[g], [flow[g] EXCEPT !.typed = t]}
  BY DEF Typed
<1>5. \A g \in Flows : Stage(Typed(who, pw)[g])
  <2> HIDE DEF t
  <2> QED
    BY <1>2, <1>3, <1>4
<1>6. Typed(who, pw) = [g \in Flows |-> Typed(who, pw)[g]]
  BY DEF Typed
<1> QED
  BY <1>5, <1>6 DEF Stage

\* No sign-in moves.
LEMMA SameFlow ==
    ASSUME Inv, flow' = flow PROVE flow' \in [Flows -> Flow] /\ StageOK'
BY DEF Inv, TypeOK, StageOK

\* Storing one field of the preferences or of the CommonNotifier.
LEMMA StoreType ==
    /\ \A p \in Prefs, t \in Users \cup {Absent, Blank} :
           [p EXCEPT !.token = t] \in Prefs
    /\ \A p \in Prefs, u \in Users : [p EXCEPT !.quoteId = u] \in Prefs
    /\ \A p \in Prefs, u \in Users \cup {Blank}, w \in {"none", "right", "wrong"} :
           [p EXCEPT !.email = u, !.password = w] \in Prefs
    /\ \A c \in Common, u \in Users : [c EXCEPT !.quoteId = u] \in Common
    /\ \A c \in Common, u \in Users : [c EXCEPT !.userDetail = u] \in Common
    /\ \A c \in Common, t \in Users \cup {Absent, Blank} :
           [c EXCEPT !.userToken = t] \in Common
    /\ \A c \in Common, u \in Users :
           [c EXCEPT !.userDetail = u, !.userToken = u] \in Common
BY DEF Prefs, Common

----------------------------------------------------------------------------
(* Type correctness *)

\* The process starts again with no sign-in, or with that of the saved user.
LEMMA RestartType == Inv /\ Restart => Inv'
<1> SUFFICES ASSUME Inv, Restart PROVE Inv'
  OBVIOUS
<1> PICK p \in Durable, f0 \in Flows :
             /\ prefs' = p /\ routes' = InitialRoutes(p)
             /\ flow' = InitialFlows(p, f0) /\ calls' = BootCalls(p)
  BY DEF Restart
<1>1. p \in Prefs
  BY SessionAssumption DEF Durable, Prefs, Inv, TypeOK
<1>2. p.email \in Users \cup {Blank} /\ p.password \in {"none", "right", "wrong"}
  BY <1>1 DEF Prefs
<1>3. \A f \in Flows : \/ flow'[f] = NoFlow
                        \/ /\ SavedCredential(p)
                           /\ flow'[f] = Started(p.email, p.password, "bottom")
  BY DEF InitialFlows
<1>4. \A f \in Flows : Stage(flow'[f])
  BY <1>2, <1>3, NoFlowStage, StartedStage DEF SavedCredential
<1>5. flow' \in [Flows -> Flow]
  BY <1>4 DEF InitialFlows, Stage
<1>6. BootCalls(p) \in SUBSET Call
  BY DEF BootCalls, Call
<1>7. NewCommon \in Common
  BY DEF NewCommon, Common
<1>8. StageOK'
  BY <1>4, <1>5, InvFlow
<1> QED
  BY <1>1, <1>5, <1>6, <1>7, <1>8 DEF Restart, InitialRoutes, Routes, Inv, TypeOK

\* The three ways to start a sign-in.
LEMMA StartType ==
    ASSUME NEW f \in Flows, Inv,
           TapLogin(f) \/ TapOtpLogin(f) \/ ReturnFromRegister(f)
    PROVE  Inv'
<1>1. VisibleLogin \in {"bottom", "top", "gone"}
  BY DEF VisibleLogin
<1>2. flow' \in [Flows -> Flow] /\ StageOK'
  <2>1. CASE TapLogin(f)
    <3> PICK who \in Users, pw \in {"right", "wrong"} :
            flow' = [Typed(who, pw) EXCEPT ![f] = Started(who, pw, VisibleLogin)]
      BY <2>1 DEF TapLogin
    <3>1. Stage(Started(who, pw, VisibleLogin))
      BY <1>1, StartedStage
    <3> QED
      BY <3>1, TypedStage, ReplaceIn
  <2>2. CASE TapOtpLogin(f)
    <3> PICK who \in OtpUsers, otp \in {"right", "wrong"} :
            flow' = [Typed(who, "none") EXCEPT ![f] =
                       [Started(who, "none", VisibleLogin)
                        EXCEPT !.pc = "verify", !.otp = otp]]
      BY <2>2 DEF TapOtpLogin
    <3> who \in Users
      BY SessionAssumption
    <3>1. Stage([Started(who, "none", VisibleLogin)
                     EXCEPT !.pc = "verify", !.otp = otp])
      BY <1>1 DEF Started, Stage, Flow, Text
    <3> QED
      BY <3>1, TypedStage, ReplaceIn
  <2>3. CASE ReturnFromRegister(f)
    <3>1. CASE flow' = flow
      BY <3>1, SameFlow
    <3>2. CASE /\ SavedCredential(prefs)
               /\ flow' = [Typed(prefs.email, prefs.password) EXCEPT ![f] =
                             Started(prefs.email, prefs.password, VisibleLogin)]
      <4>1. prefs.email \in Users /\ prefs.password \in {"none", "right", "wrong"}
        BY <3>2 DEF SavedCredential, Inv, TypeOK, Prefs
      <4>2. Stage(Started(prefs.email, prefs.password, VisibleLogin))
        BY <1>1, <4>1, StartedStage
      <4> QED
        BY <3>2, <4>1, <4>2, TypedStage, ReplaceIn
    <3> QED
      BY <2>3, <3>1, <3>2 DEF ReturnFromRegister
  <2> QED
    BY <2>1, <2>2, <2>3
<1>3. isLoading' \in BOOLEAN /\ routes' \in Routes /\ retyped' \in BOOLEAN
  BY DEF TapLogin, TapOtpLogin, ReturnFromRegister, Inv, TypeOK, Routes
<1> QED
  BY <1>2, <1>3 DEF TapLogin, TapOtpLogin, ReturnFromRegister, Inv, TypeOK

\* Text changed by hand.
LEMMA EditType == Inv /\ Edit => Inv'
<1> SUFFICES ASSUME Inv, Edit PROVE Inv'
  OBVIOUS
<1> PICK who \in Users, pw \in {"right", "wrong"} : flow' = Typed(who, pw)
  BY DEF Edit
<1>1. flow' \in [Flows -> Flow] /\ \A g \in Flows : Stage(flow'[g])
  BY TypedStage
<1>2. StageOK'
  BY <1>1, InvFlow
<1> QED
  BY <1>1, <1>2 DEF Edit, Inv, TypeOK

\* A reply that stores something moves its sign-in to a stage it is fit for.
LEMMA VerifyType ==
    ASSUME NEW f \in Flows, Inv, VerifyReply(f) PROVE Inv'
<1>1. /\ flow[f] \in Flow /\ flow[f].who \in Users
      /\ flow[f].typed \in Text /\ flow[f].typed.who \in Users
      /\ flow[f].token = Absent
  BY DEF VerifyReply, Inv, StageOK, TypeOK, Flow
<1> DEFINE onward == [flow[f] EXCEPT !.pc = "login", !.who = flow[f].typed.who,
                                     !.pw = flow[f].typed.pw]
<1>2. Stage(onward)
  BY <1>1 DEF Stage, Flow, Text
<1>3. flow' = [flow EXCEPT ![f] = NoFlow] \/ flow' = [flow EXCEPT ![f] = onward]
  BY DEF VerifyReply, Inv, TypeOK
<1>4. flow' \in [Flows -> Flow] /\ StageOK'
  <2> HIDE DEF onward
  <2> QED
    BY <1>2, <1>3, NoFlowStage, Replace
<1>5. [prefs EXCEPT !.token = flow[f].who] \in Prefs
  BY <1>1, StoreType DEF Inv, TypeOK
<1>6. /\ prefs' \in Prefs /\ isLoading' \in BOOLEAN
      /\ tokenfromotp' \in Users \cup {Absent} /\ otpVerified' \in SUBSET Users
  BY <1>1, <1>5 DEF VerifyReply, Inv, TypeOK
<1> QED
  BY <1>4, <1>6 DEF VerifyReply, Inv, TypeOK

LEMMA LoginType ==
    ASSUME NEW f \in Flows, Inv, LoginReply(f) PROVE Inv'
<1>1. /\ flow[f] \in Flow /\ flow[f].who \in Users
      /\ flow[f].typed.who \in Users
  BY DEF LoginReply, Inv, StageOK, TypeOK
<1>2. PICK answer \in {"answered", "lost", "offline"} :
          \/ /\ flow' = [flow EXCEPT ![f] = NoFlow]
             /\ isLoading' = FALSE
          \/ /\ LoginToken(f, answer) # Absent
             /\ flow' = [flow EXCEPT ![f].pc = "detail",
                                     ![f].token = LoginToken(f, answer)]
             /\ isLoading' = TRUE
  BY DEF LoginReply
<1>3. LoginToken(f, answer) \in Users \cup {Absent}
  BY <1>1 DEF LoginToken, Inv, TypeOK
<1>4. ASSUME NEW t \in Users
      PROVE  Stage([flow[f] EXCEPT !.pc = "detail", !.token = t])
  BY <1>1 DEF Stage, Flow
<1>5. \/ flow' = [flow EXCEPT ![f] = NoFlow]
      \/ /\ LoginToken(f, answer) \in Users
         /\ flow' = [flow EXCEPT ![f] = [flow[f] EXCEPT !.pc = "detail",
                                                        !.token = LoginToken(f, answer)]]
  BY <1>2, <1>3 DEF Inv, TypeOK
<1>6. flow' \in [Flows -> Flow] /\ StageOK'
  BY <1>4, <1>5, NoFlowStage, Replace
<1> QED
  BY <1>2, <1>6 DEF LoginReply, Inv, TypeOK

LEMMA DetailType ==
    ASSUME NEW f \in Flows, Inv, DetailReply(f) PROVE Inv'
<1>1. /\ flow[f] \in Flow /\ flow[f].who \in Users /\ flow[f].token \in Users
      /\ flow[f].typed.who \in Users
  BY DEF DetailReply, Inv, StageOK, TypeOK
<1>2. Stage([flow[f] EXCEPT !.pc = "quote"])
  BY <1>1 DEF Stage, Flow
<1>3. \/ flow' = [flow EXCEPT ![f] = NoFlow]
      \/ flow' = [flow EXCEPT ![f] = [flow[f] EXCEPT !.pc = "quote"]]
  BY DEF DetailReply, Inv, TypeOK
<1>4. flow' \in [Flows -> Flow] /\ StageOK'
  BY <1>2, <1>3, NoFlowStage, Replace
<1>5. /\ [prefs EXCEPT !.token = flow[f].token] \in Prefs
      /\ [common EXCEPT !.userDetail = flow[f].token,
                        !.userToken = flow[f].token] \in Common
  BY <1>1, StoreType DEF Inv, TypeOK
<1>6. prefs' \in Prefs /\ common' \in Common /\ isLoading' \in BOOLEAN
  BY <1>5 DEF DetailReply, Mounted, Inv, TypeOK
<1> QED
  BY <1>4, <1>6 DEF DetailReply, Inv, TypeOK

\* Both copies of the quote id take a customer's.
LEMMA KeepQuoteType ==
    ASSUME Inv, NEW u \in Users, KeepQuote(u)
    PROVE  prefs' \in Prefs /\ common' \in Common
BY StoreType DEF KeepQuote, Inv, TypeOK

LEMMA QuoteType ==
    ASSUME NEW f \in Flows, Inv, QuoteReply(f) PROVE Inv'
<1>1. /\ flow[f] \in Flow /\ flow[f].who \in Users /\ flow[f].token \in Users
      /\ flow[f].typed.who \in Users
  BY DEF QuoteReply, Inv, StageOK, TypeOK
<1>2. Stage([flow[f] EXCEPT !.pc = "countries"])
  BY <1>1 DEF Stage, Flow
<1>3. \/ flow' = [flow EXCEPT ![f] = NoFlow]
      \/ flow' = [flow EXCEPT ![f] = [flow[f] EXCEPT !.pc = "countries"]]
  BY DEF QuoteReply, Inv, TypeOK
<1>4. flow' \in [Flows -> Flow] /\ StageOK'
  BY <1>2, <1>3, NoFlowStage, Replace
<1>5. KeepQuote(flow[f].token) \/ UNCHANGED <<prefs, common>>
  BY DEF QuoteReply
<1>6. prefs' \in Prefs /\ common' \in Common
  BY <1>1, <1>5, KeepQuoteType DEF Inv, TypeOK
<1> QED
  BY <1>4, <1>6 DEF QuoteReply, Inv, TypeOK

\* The main screen opens: every sign-in loses its context and is else as it was.
LEMMA OpenMainType ==
    ASSUME NEW fl \in [Flows -> Flow], \A f \in Flows : Stage(fl[f]),
           OpenMain(fl)
    PROVE  flow' \in [Flows -> Flow] /\ StageOK'
<1>1. \A f \in Flows : Stage([fl[f] EXCEPT !.at = "gone"])
  BY GoneStage
<1>2. flow' = [f \in Flows |-> [fl[f] EXCEPT !.at = "gone"]]
  BY DEF OpenMain
<1>3. \A f \in Flows : flow'[f] = [fl[f] EXCEPT !.at = "gone"]
  BY <1>2
<1>4. \A f \in Flows : Stage(flow'[f])
  BY <1>1, <1>3
<1>5. flow' \in [Flows -> Flow]
  BY <1>2, <1>1 DEF Stage
<1> QED
  BY <1>4, <1>5, InvFlow

\* Where OpenMain leads is a possible stack.
LEMMA OpenMainRoutes ==
    ASSUME Inv, NEW fl, OpenMain(fl) \/ UNCHANGED <<routes, logout>>
    PROVE  /\ routes' \in Routes
           /\ logout' \in {"idle", "clear", "orphan"}
<1>1. CASE OpenMain(fl)
  <2>1. routes' \in Routes
    BY <1>1 DEF OpenMain, Routes
  <2>2. logout' \in {"idle", "orphan"}
    BY <1>1 DEF OpenMain
  <2> QED
    BY <2>1, <2>2
<1>2. CASE UNCHANGED <<routes, logout>>
  BY <1>2 DEF Inv, TypeOK
<1> QED
  BY <1>1, <1>2

LEMMA CountriesType ==
    ASSUME NEW f \in Flows, Inv, CountriesReply(f) PROVE Inv'
<1> DEFINE done == [flow EXCEPT ![f] = NoFlow]
<1>1. flow[f].typed \in Text /\ flow[f].typed.who \in Users
  BY DEF CountriesReply, Inv, StageOK, TypeOK, Flow
<1>2. flow[f].typed.pw \in {"none", "right", "wrong"}
  BY <1>1 DEF Text
<1>3. done \in [Flows -> Flow] /\ \A g \in Flows : Stage(done[g])
  BY NoFlowStage, InvFlow DEF Inv, TypeOK, Stage
<1>4. flow' = done \/ OpenMain(done)
  BY DEF CountriesReply
<1>5. flow' \in [Flows -> Flow] /\ StageOK'
  <2>1. CASE flow' = done
    BY <2>1, NoFlowStage, Replace
  <2>2. CASE OpenMain(done)
    BY <2>2, <1>3, OpenMainType
  <2> QED
    BY <1>4, <2>1, <2>2
<1>6. [prefs EXCEPT !.email = flow[f].typed.who, !.password = flow[f].typed.pw]
          \in Prefs
  BY <1>1, <1>2, StoreType DEF Inv, TypeOK
<1>7. prefs' \in Prefs /\ isLoading' \in BOOLEAN
  BY <1>6 DEF CountriesReply, Inv, TypeOK
<1>8. OpenMain(done) \/ UNCHANGED <<routes, logout>>
  BY DEF CountriesReply
<1>9. /\ routes' \in Routes
      /\ logout' \in {"idle", "clear", "orphan"}
  BY <1>8, OpenMainRoutes
<1> QED
  BY <1>5, <1>7, <1>9 DEF CountriesReply, Inv, TypeOK

LEMMA CallType ==
    ASSUME NEW c \in calls, Inv, CallReply(c) PROVE Inv'
<1>1. c.token \in Users
  BY DEF Inv, TypeOK, Call
<1>2. flow \in [Flows -> Flow] /\ \A f \in Flows : Stage(flow[f])
  BY InvFlow DEF Inv, TypeOK
<1>3. flow' = flow \/ OpenMain(flow)
  BY DEF CallReply
<1>4. flow' \in [Flows -> Flow] /\ StageOK'
  BY <1>2, <1>3, SameFlow, OpenMainType
<1>5. [common EXCEPT !.userDetail = c.token] \in Common
  BY <1>1, StoreType DEF Inv, TypeOK
<1>6. \/ KeepQuote(c.token)
      \/ prefs' = prefs /\ common' \in {common, [common EXCEPT !.userDetail = c.token]}
  BY DEF CallReply
<1>7. prefs' \in Prefs /\ common' \in Common
  BY <1>1, <1>5, <1>6, KeepQuoteType DEF Inv, TypeOK
<1>8. OpenMain(flow) \/ UNCHANGED <<routes, logout>>
  BY DEF CallReply
<1>9. /\ routes' \in Routes
      /\ logout' \in {"idle", "clear", "orphan"}
  BY <1>8, OpenMainRoutes
<1>10. calls' \in SUBSET Call
  BY DEF CallReply, Inv, TypeOK
<1> QED
  BY <1>4, <1>7, <1>9, <1>10 DEF CallReply, Inv, TypeOK

LEMMA BackType == Inv /\ Back => Inv'
<1> SUFFICES ASSUME Inv, Back PROVE Inv'
  OBVIOUS
<1>1. \A f \in Flows : flow'[f] \in {flow[f], [flow[f] EXCEPT !.at = "gone"]}
  BY DEF Back
<1>2. \A f \in Flows : Stage(flow'[f])
  BY <1>1, InvFlow, GoneStage DEF Inv
<1>3. flow' = [f \in Flows |-> flow'[f]]
  BY DEF Back
<1>4. flow' \in [Flows -> Flow]
  BY <1>2, <1>3 DEF Stage
<1>5. StageOK'
  BY <1>2, <1>4, InvFlow
<1> QED
  BY <1>4, <1>5 DEF Back, Routes, Inv, TypeOK

\* The rest leave every sign-in alone.
LEMMA OtherType ==
    ASSUME Inv,
           \/ AdminTokenReply \/ ReadUserToken \/ ContinueShopping
           \/ Logout \/ LogoutDone \/ TapRegister \/ UNCHANGED vars
    PROVE  Inv'
<1>1. flow' = flow
  BY DEF AdminTokenReply, ReadUserToken, ContinueShopping, Logout, LogoutDone,
         TapRegister, vars
<1>2. flow' \in [Flows -> Flow] /\ StageOK'
  BY <1>1, SameFlow
<1>3. CASE AdminTokenReply
  BY <1>2, <1>3 DEF AdminTokenReply, Inv, TypeOK
<1>4. CASE ReadUserToken
  <2>1. prefs.token \in Users \cup {Absent, Blank}
    BY DEF Inv, TypeOK, Prefs
  <2>2. [common EXCEPT !.userToken = prefs.token] \in Common
    BY <2>1, StoreType DEF Inv, TypeOK
  <2> QED
    BY <1>2, <1>4, <2>2 DEF ReadUserToken, Inv, TypeOK
<1>5. CASE ContinueShopping
  <2>1. [kind |-> "continue", token |-> common.userToken] \in Call
    BY <1>5 DEF ContinueShopping, Call
  <2> QED
    BY <1>2, <1>5, <2>1 DEF ContinueShopping, Inv, TypeOK
<1>6. CASE Logout
  <2>1. [prefs EXCEPT !.token = Blank] \in Prefs
    BY StoreType DEF Inv, TypeOK
  <2> QED
    BY <1>2, <1>6, <2>1 DEF Logout, Inv, TypeOK
<1>7. CASE LogoutDone
  <2>1. [prefs EXCEPT !.email = Blank, !.password = "none", !.token = Absent]
            \in Prefs
    BY DEF Inv, TypeOK, Prefs
  <2>2. routes' \in Routes
    BY <1>7 DEF LogoutDone, Inv, TypeOK, Routes
  <2> QED
    BY <1>2, <1>7, <2>1, <2>2 DEF LogoutDone, Inv, TypeOK
<1>8. CASE TapRegister
  BY <1>2, <1>8 DEF TapRegister, Inv, TypeOK, Routes
<1>9. CASE UNCHANGED vars
  BY <1>2, <1>9 DEF vars, Inv, TypeOK
<1> QED
  BY <1>3, <1>4, <1>5, <1>6, <1>7, <1>8, <1>9

LEMMA InitInv == Init => Inv
<1> SUFFICES ASSUME Init PROVE Inv
  OBVIOUS
<1>1. \A f \in Flows : flow[f] = NoFlow
  BY DEF Init
<1>2. flow \in [Flows -> Flow]
  BY NoFlowStage DEF Init, Stage
<1>3. StageOK
  BY <1>1 DEF StageOK, NoFlow
<1>4. prefs \in Prefs /\ common \in Common /\ routes \in Routes
  BY SessionAssumption DEF Init, Prefs, Common, NewCommon, InitialRoutes, Routes
<1> QED
  BY <1>2, <1>3, <1>4 DEF Init, Inv, TypeOK

LEMMA NextInv == Inv /\ [Next]_vars => Inv'
<1> SUFFICES ASSUME Inv, [Next]_vars PROVE Inv'
  OBVIOUS
<1>1. ASSUME NEW f \in Flows, SignIn(f) PROVE Inv'
  BY <1>1, StartType, VerifyType, LoginType, DetailType, QuoteType, CountriesType
  DEF SignIn
<1>2. ASSUME NEW c \in calls, CallReply(c) PROVE Inv'
  BY <1>2, CallType
<1> QED
  BY <1>1, <1>2, RestartType, BackType, EditType, OtherType DEF Next

LEMMA InvAlways == Spec => []Inv
<1> QED
  BY InitInv, NextInv, PTL DEF Spec

\* Every variable keeps its type, whichever handlers run in whichever order: in
\* particular no reply stores a missing token, customer or quote.
THEOREM TypeCorrect == Spec => []TypeOK
<1>1. Inv => TypeOK
  BY DEF Inv
<1> QED
  BY <1>1, InvAlways, PTL

----------------------------------------------------------------------------
(* Whose token the app holds *)

Held == ShopOwners \cup otpVerified \cup {Absent, Blank}

\* A step that does not forget an OTP and stores no token keeps the identity.
LEMMA KeepIdentity ==
    ASSUME SessionIdentity, otpVerified \subseteq otpVerified',
           prefs'.token \in {prefs.token, Absent, Blank},
           common'.userToken \in {common.userToken, prefs.token, Absent, Blank}
    PROVE  SessionIdentity'
BY DEF SessionIdentity

\* The replies that store a token: an accepted OTP, and the profile of a shop
\* owner.
LEMMA StoreIdentity ==
    ASSUME Inv, SessionIdentity, NEW f \in Flows,
           VerifyReply(f) \/ DetailReply(f)
    PROVE  SessionIdentity'
<1>1. CASE VerifyReply(f)
  <2>1. prefs'.token \in {prefs.token, flow[f].who}
    BY <1>1 DEF VerifyReply, Inv, TypeOK, Prefs
  <2>2. prefs'.token = prefs.token \/ flow[f].who \in otpVerified'
    BY <1>1 DEF VerifyReply
  <2>3. otpVerified \subseteq otpVerified' /\ common' = common
    BY <1>1 DEF VerifyReply
  <2> QED
    BY <2>1, <2>2, <2>3 DEF SessionIdentity
<1>2. CASE DetailReply(f)
  <2>1. otpVerified' = otpVerified
    BY <1>2 DEF DetailReply
  <2>2. CASE UNCHANGED <<prefs, common>>
    BY <2>1, <2>2 DEF SessionIdentity
  <2>3. CASE /\ flow[f].token \in ShopOwners
             /\ prefs' = [prefs EXCEPT !.token = flow[f].token]
             /\ common' = [common EXCEPT !.userDetail = flow[f].token,
                                         !.userToken = flow[f].token]
    <3>1. prefs'.token = flow[f].token /\ common'.userToken = flow[f].token
      BY <2>3 DEF Inv, TypeOK, Prefs, Common
    <3> QED
      BY <2>1, <2>3, <3>1 DEF SessionIdentity
  <2> QED
    BY <1>2, <2>2, <2>3 DEF DetailReply, InGroup
<1> QED
  BY <1>1, <1>2

\* Storing a quote id or the profile of the saved token stores no token.
LEMMA KeepQuoteToken ==
    ASSUME Inv, NEW u, KeepQuote(u)
    PROVE  /\ prefs'.token = prefs.token
           /\ prefs'.email = prefs.email /\ prefs'.password = prefs.password
           /\ common'.userToken = common.userToken
           /\ common'.quoteId = u /\ prefs'.quoteId = u
BY DEF KeepQuote, Inv, TypeOK, Prefs, Common

\* The image on the device after a crash is the last one, but for the
\* credential a logout was clearing.
LEMMA DurableImage ==
    ASSUME Inv, NEW p \in Durable
    PROVE  /\ p.token = prefs.token
           /\ p.email \in {prefs.email, Blank}
           /\ p.password \in {prefs.password, "none"}
BY DEF Durable, Inv, TypeOK, Prefs

\* The remaining steps store no token.
LEMMA OtherIdentity ==
    ASSUME Inv, SessionIdentity, [Next]_vars,
           \A f \in Flows : ~VerifyReply(f) /\ ~DetailReply(f)
    PROVE  SessionIdentity'
<1>1. CASE Restart
  <2>1. PICK p \in Durable : prefs' = p
    BY <1>1 DEF Restart
  <2>2. common'.userToken = Blank /\ otpVerified' = otpVerified
    BY <1>1 DEF Restart, NewCommon
  <2> QED
    BY <2>1, <2>2, DurableImage, KeepIdentity
<1>2. CASE \/ AdminTokenReply \/ ContinueShopping \/ Back \/ Edit \/ TapRegister
           \/ UNCHANGED vars
  BY <1>2, KeepIdentity DEF AdminTokenReply, ContinueShopping, Back, Edit,
                            TapRegister, vars
<1>3. ASSUME NEW f \in Flows, SignIn(f) PROVE SessionIdentity'
  <2>1. CASE TapLogin(f) \/ TapOtpLogin(f) \/ ReturnFromRegister(f) \/ LoginReply(f)
    BY <2>1, KeepIdentity DEF TapLogin, TapOtpLogin, ReturnFromRegister, LoginReply
  <2>2. CASE QuoteReply(f)
    <3>1. KeepQuote(flow[f].token) \/ UNCHANGED <<prefs, common>>
      BY <2>2 DEF QuoteReply
    <3>2. otpVerified' = otpVerified
      BY <2>2 DEF QuoteReply
    <3> QED
      BY <3>1, <3>2, KeepQuoteToken, KeepIdentity
  <2>3. CASE CountriesReply(f)
    <3>1. prefs'.token = prefs.token
      BY <2>3 DEF CountriesReply, Inv, TypeOK, Prefs
    <3> QED
      BY <2>3, <3>1, KeepIdentity DEF CountriesReply
  <2> QED
    BY <1>3, <2>1, <2>2, <2>3 DEF SignIn
<1>4. CASE ReadUserToken
  <2>1. common'.userToken = prefs.token
    BY <1>4 DEF ReadUserToken, Inv, TypeOK, Common
  <2> QED
    BY <1>4, <2>1, KeepIdentity DEF ReadUserToken
<1>5. ASSUME NEW c \in calls, CallReply(c) PROVE SessionIdentity'
  <2>1. \/ KeepQuote(c.token)
        \/ prefs' = prefs /\ common' \in {common, [common EXCEPT !.userDetail = c.token]}
    BY <1>5 DEF CallReply
  <2>2. prefs'.token = prefs.token /\ common'.userToken = common.userToken
    BY <2>1, KeepQuoteToken DEF Inv, TypeOK, Common
  <2>3. otpVerified' = otpVerified
    BY <1>5 DEF CallReply
  <2> QED
    BY <2>2, <2>3, KeepIdentity
<1>6. CASE Logout \/ LogoutDone
  <2>1. prefs'.token \in {Blank, Absent}
    BY <1>6 DEF Logout, LogoutDone, Inv, TypeOK, Prefs
  <2> QED
    BY <1>6, <2>1, KeepIdentity DEF Logout, LogoutDone
<1> QED
  BY <1>1, <1>2, <1>3, <1>4, <1>5, <1>6 DEF Next

\* Whatever late replies, restarts and half-done logouts do, the token the app
\* signs its requests with is a shop owner's or that of an OTP accepted here.
THEOREM IdentityCorrect == Spec => []SessionIdentity
<1>1. Init => SessionIdentity
  BY DEF Init, SessionIdentity, NewCommon
<1>2. Inv /\ SessionIdentity /\ [Next]_vars => SessionIdentity'
  BY StoreIdentity, OtherIdentity
<1> QED
  BY <1>1, <1>2, InvAlways, PTL DEF Spec

----------------------------------------------------------------------------
(* What a sign-in is let through for *)

\* The group check comes before anything else of a sign-in: only a shop owner's
\* gets as far as asking for a cart.
GroupChecked ==
    \A f \in Flows : flow[f].pc \in SignedIn => flow[f].token \in ShopOwners

\* How far one step can take the sign-in g: it has no token, or its record keeps
\* what the login was sent with and, but for the reply to the login itself, the
\* token; it gets to the quote only past the group check.
Moved(g) ==
    \/ flow'[g].token = Absent /\ flow'[g].pc \notin SignedIn
    \/ /\ flow'[g].who = flow[g].who /\ flow'[g].pw = flow[g].pw
       /\ \/ flow'[g].token = flow[g].token
          \/ /\ flow'[g].pc \notin SignedIn
             /\ \E answer \in {"answered", "lost", "offline"} :
                    flow'[g].token = LoginToken(g, answer)
       /\ flow'[g].pc \in SignedIn =>
              flow[g].pc \in SignedIn \/ flow'[g].token \in ShopOwners

LEMMA SameMoved ==
    ASSUME NEW g \in Flows, flow'[g] = flow[g] PROVE Moved(g)
BY DEF Moved

LEMMA NoFlowMoved ==
    ASSUME NEW g \in Flows, flow'[g] = NoFlow PROVE Moved(g)
BY DEF Moved, NoFlow, SignedIn

LEMMA GoneMoved ==
    ASSUME Inv, NEW g \in Flows, flow'[g] = [flow[g] EXCEPT !.at = "gone"]
    PROVE  Moved(g)
BY DEF Moved, Inv, TypeOK, Flow

\* New text in the fields is not what the login was sent with.
LEMMA TypedMoved ==
    ASSUME Inv, NEW g \in Flows, NEW who, NEW pw, flow'[g] = Typed(who, pw)[g]
    PROVE  Moved(g)
<1>1. \/ flow'[g] = flow[g]
      \/ flow'[g] = [flow[g] EXCEPT !.typed = [who |-> who, pw |-> pw]]
  BY DEF Typed
<1> QED
  BY <1>1 DEF Moved, Inv, TypeOK, Flow

\* The handlers of a sign-in move it as far as Moved allows, and no other.
LEMMA SignInMoved ==
    ASSUME Inv, NEW f \in Flows, SignIn(f), NEW g \in Flows PROVE Moved(g)
<1> flow[f] \in Flow /\ flow[g] \in Flow
  BY DEF Inv, TypeOK
<1>1. CASE TapLogin(f) \/ TapOtpLogin(f) \/ ReturnFromRegister(f)
  <2>0. ASSUME NEW who, NEW pw, NEW at, NEW otp
        PROVE  /\ Started(who, pw, at).token = Absent
               /\ Started(who, pw, at).pc = "login"
               /\ [Started(who, pw, at) EXCEPT !.pc = "verify", !.otp = otp].token
                      = Absent
               /\ [Started(who, pw, at) EXCEPT !.pc = "verify", !.otp = otp].pc
                      = "verify"
    BY DEF Started
  <2>1. ASSUME NEW who, NEW pw, NEW s, s.token = Absent, s.pc \notin SignedIn,
               flow' = [Typed(who, pw) EXCEPT ![f] = s]
        PROVE  Moved(g)
    <3>1. flow'[g] = s \/ flow'[g] = Typed(who, pw)[g]
      BY <2>1 DEF Typed
    <3> QED
      BY <2>1, <3>1, TypedMoved DEF Moved
  <2>2. CASE TapLogin(f)
    <3> PICK who, pw :
            flow' = [Typed(who, pw) EXCEPT ![f] = Started(who, pw, VisibleLogin)]
      BY <2>2 DEF TapLogin
    <3>1. /\ Started(who, pw, VisibleLogin).token = Absent
          /\ Started(who, pw, VisibleLogin).pc \notin SignedIn
      BY <2>0 DEF SignedIn
    <3> QED
      BY <2>1, <3>1
  <2>3. CASE TapOtpLogin(f)
    <3> PICK who, otp :
            flow' = [Typed(who, "none") EXCEPT ![f] =
                       [Started(who, "none", VisibleLogin)
                        EXCEPT !.pc = "verify", !.otp = otp]]
      BY <2>3 DEF TapOtpLogin
    <3> DEFINE new == [Started(who, "none", VisibleLogin)
                       EXCEPT !.pc = "verify", !.otp = otp]
    <3>1. new.token = Absent /\ new.pc \notin SignedIn
      BY <2>0 DEF SignedIn
    <3>2. flow' = [Typed(who, "none") EXCEPT ![f] = new]
      OBVIOUS
    <3> HIDE DEF new
    <3> QED
      BY <2>1, <3>1, <3>2
  <2>4. CASE ReturnFromRegister(f)
    <3>1. /\ Started(prefs.email, prefs.password, VisibleLogin).token = Absent
          /\ Started(prefs.email, prefs.password, VisibleLogin).pc \notin SignedIn
      BY <2>0 DEF SignedIn
    <3>2. \/ flow' = flow
          \/ flow' = [Typed(prefs.email, prefs.password) EXCEPT ![f] =
                         Started(prefs.email, prefs.password, VisibleLogin)]
      BY <2>4 DEF ReturnFromRegister
    <3> QED
      BY <2>1, <3>1, <3>2, SameMoved
  <2> QED
    BY <1>1, <2>2, <2>3, <2>4
<1>2. CASE VerifyReply(f)
  <2> DEFINE onward == [flow[f] EXCEPT !.pc = "login", !.who = flow[f].typed.who,
                                       !.pw = flow[f].typed.pw]
  <2>1. flow' = [flow EXCEPT ![f] = NoFlow] \/ flow' = [flow EXCEPT ![f] = onward]
    BY <1>2 DEF VerifyReply
  <2>2. flow[f].token = Absent
    BY <1>2 DEF VerifyReply, Inv, StageOK
  <2>3. onward.token = Absent /\ onward.pc = "login"
    BY <2>2 DEF Flow
  <2>4. flow'[g] \in {NoFlow, flow[g], onward}
    <3> HIDE DEF onward
    <3> QED
      BY <2>1 DEF Inv, TypeOK
  <2> HIDE DEF onward
  <2> QED
    BY <2>3, <2>4, SameMoved, NoFlowMoved DEF Moved, SignedIn
<1>3. CASE LoginReply(f)
  <2>1. PICK answer \in {"answered", "lost", "offline"} :
            \/ flow' = [flow EXCEPT ![f] = NoFlow]
            \/ flow' = [flow EXCEPT ![f].pc = "detail",
                                    ![f].token = LoginToken(f, answer)]
    BY <1>3 DEF LoginReply
  <2>2. \/ flow'[g] = NoFlow
        \/ flow'[g] = flow[g]
        \/ /\ g = f
           /\ flow'[g] = [flow[g] EXCEPT !.pc = "detail",
                                         !.token = LoginToken(f, answer)]
    BY <2>1 DEF Inv, TypeOK
  <2>3. CASE /\ g = f
             /\ flow'[g] = [flow[g] EXCEPT !.pc = "detail",
                                           !.token = LoginToken(f, answer)]
    <3>1. /\ flow'[g].token = LoginToken(g, answer) /\ flow'[g].pc = "detail"
          /\ flow'[g].who = flow[g].who /\ flow'[g].pw = flow[g].pw
      BY <2>3 DEF Flow
    <3> QED
      BY <3>1 DEF Moved, SignedIn
  <2> QED
    BY <2>2, <2>3, SameMoved, NoFlowMoved
<1>4. CASE DetailReply(f)
  <2>1. \/ flow' = [flow EXCEPT ![f] = NoFlow]
        \/ flow[f].token \in ShopOwners /\ flow' = [flow EXCEPT ![f].pc = "quote"]
    BY <1>4 DEF DetailReply, InGroup
  <2>2. \/ flow'[g] = NoFlow
        \/ flow'[g] = flow[g]
        \/ /\ flow[g].token \in ShopOwners
           /\ flow'[g] = [flow[g] EXCEPT !.pc = "quote"]
    BY <2>1 DEF Inv, TypeOK
  <2> QED
    BY <2>2, SameMoved, NoFlowMoved DEF Moved, Flow
<1>5. CASE QuoteReply(f)
  <2>1. \/ flow' = [flow EXCEPT ![f] = NoFlow]
        \/ flow[f].pc = "quote" /\ flow' = [flow EXCEPT ![f].pc = "countries"]
    BY <1>5 DEF QuoteReply
  <2>2. \/ flow'[g] = NoFlow
        \/ flow'[g] = flow[g]
        \/ flow[g].pc = "quote" /\ flow'[g] = [flow[g] EXCEPT !.pc = "countries"]
    BY <2>1 DEF Inv, TypeOK
  <2> QED
    BY <2>2, SameMoved, NoFlowMoved DEF Moved, Flow, SignedIn
<1>6. CASE CountriesReply(f)
  <2> DEFINE done == [flow EXCEPT ![f] = NoFlow]
  <2>1. done[g] \in {flow[g], NoFlow}
    BY DEF Inv, TypeOK
  <2>2. flow' = done \/ flow' = [h \in Flows |-> [done[h] EXCEPT !.at = "gone"]]
    BY <1>6 DEF CountriesReply, OpenMain
  <2>3. flow'[g] \in {done[g], [done[g] EXCEPT !.at = "gone"]}
    <3> HIDE DEF done
    <3> QED
      BY <2>2
  <2>4. [NoFlow EXCEPT !.at = "gone"] = NoFlow
    BY DEF NoFlow
  <2>5. flow'[g] \in {flow[g], [flow[g] EXCEPT !.at = "gone"], NoFlow}
    BY <2>1, <2>3, <2>4
  <2> QED
    BY <2>5, SameMoved, GoneMoved, NoFlowMoved
<1> QED
  BY <1>1, <1>2, <1>3, <1>4, <1>5, <1>6 DEF SignIn

\* So does every other step.
LEMMA AllMoved ==
    ASSUME Inv, [Next]_vars, NEW g \in Flows PROVE Moved(g)
<1>1. CASE Restart
  <2>1. PICK p \in Durable, f0 \in Flows : flow' = InitialFlows(p, f0)
    BY <1>1 DEF Restart
  <2>2. flow'[g] \in {NoFlow, Started(p.email, p.password, "bottom")}
    BY <2>1 DEF InitialFlows
  <2> QED
    BY <2>2 DEF Moved, NoFlow, Started, SignedIn
<1>2. CASE \/ AdminTokenReply \/ ReadUserToken \/ ContinueShopping \/ Logout
           \/ LogoutDone \/ TapRegister \/ UNCHANGED vars
  BY <1>2, SameMoved DEF AdminTokenReply, ReadUserToken, ContinueShopping,
                         Logout, LogoutDone, TapRegister, vars
<1>3. ASSUME NEW c \in calls, CallReply(c) PROVE Moved(g)
  <2>1. flow'[g] \in {flow[g], [flow[g] EXCEPT !.at = "gone"]}
    BY <1>3 DEF CallReply, OpenMain
  <2> QED
    BY <2>1, SameMoved, GoneMoved
<1>4. CASE Back
  <2>1. flow'[g] \in {flow[g], [flow[g] EXCEPT !.at = "gone"]}
    BY <1>4 DEF Back
  <2> QED
    BY <2>1, SameMoved, GoneMoved
<1>5. CASE Edit
  <2>1. PICK who, pw : flow' = Typed(who, pw)
    BY <1>5 DEF Edit
  <2> QED
    BY <2>1, TypedMoved
<1> QED
  BY <1>1, <1>2, <1>3, <1>4, <1>5, SignInMoved DEF Next

\* Until an OTP is accepted, only the right password of the customer who was
\* typed gets that customer's token.
THEOREM PasswordCorrect == Spec => []PasswordDecides
<1>1. Init => PasswordDecides
  BY DEF Init, PasswordDecides, NoFlow
<1>2. Inv /\ PasswordDecides /\ [Next]_vars => PasswordDecides'
  <2> SUFFICES ASSUME Inv, PasswordDecides, [Next]_vars, tokenfromotp' = Absent,
                      NEW g \in Flows, flow'[g].token # Absent
               PROVE  flow'[g].token = flow'[g].who /\ flow'[g].pw = "right"
    BY DEF PasswordDecides
  <2>1. Moved(g)
    BY AllMoved
  <2>2. CASE tokenfromotp = Absent
    BY <2>1, <2>2 DEF Moved, LoginToken, PasswordDecides
  <2>3. CASE tokenfromotp # Absent
    \* Only a restart forgets an OTP's token, and it leaves no token at all.
    <3>1. CASE Restart
      <4>1. PICK p \in Durable, f0 \in Flows : flow' = InitialFlows(p, f0)
        BY <3>1 DEF Restart
      <4>2. flow'[g] \in {NoFlow, Started(p.email, p.password, "bottom")}
        BY <4>1 DEF InitialFlows
      <4> QED
        BY <4>2 DEF NoFlow, Started
    <3>2. CASE ~Restart
      <4>1. ASSUME NEW f \in Flows, SignIn(f)
            PROVE  tokenfromotp' \in {tokenfromotp} \cup Users
        <5>1. CASE VerifyReply(f)
          <6>1. flow[f].who \in Users
            BY <5>1 DEF VerifyReply, Inv, StageOK
          <6> QED
            BY <5>1, <6>1 DEF VerifyReply
        <5> QED
          BY <4>1, <5>1 DEF SignIn, TapLogin, TapOtpLogin, ReturnFromRegister,
                            LoginReply, DetailReply, QuoteReply, CountriesReply
      <4>2. tokenfromotp' \in {tokenfromotp} \cup Users
        BY <3>2, <4>1 DEF Next, AdminTokenReply, ReadUserToken, ContinueShopping,
                          CallReply, Logout, LogoutDone, Back, Edit, TapRegister,
                          vars
      <4> QED
        BY <2>3, <4>2, SessionAssumption
    <3> QED
      BY <3>1, <3>2
  <2> QED
    BY <2>2, <2>3
<1> QED
  BY <1>1, <1>2, InvAlways, PTL DEF Spec

\* No sign-in asks for a cart before its customer's group was checked.
LEMMA GroupAlways == Spec => []GroupChecked
<1>1. Init => GroupChecked
  BY DEF Init, GroupChecked, NoFlow, SignedIn
<1>2. Inv /\ GroupChecked /\ [Next]_vars => GroupChecked'
  BY AllMoved DEF Moved, GroupChecked
<1> QED
  BY <1>1, <1>2, InvAlways, PTL DEF Spec

----------------------------------------------------------------------------
(* The quote and the logout *)

\* The repositories that read the quote from the file and those that read it
\* from memory address the same cart, after any steps and any crash.
THEOREM QuoteCorrect == Spec => []QuoteCopiesAgree
<1>1. Init => QuoteCopiesAgree
  BY DEF Init, QuoteCopiesAgree, NewCommon
<1>2. Inv /\ QuoteCopiesAgree /\ [Next]_vars => QuoteCopiesAgree'
  <2> SUFFICES ASSUME Inv, QuoteCopiesAgree, [Next]_vars PROVE QuoteCopiesAgree'
    OBVIOUS
  <2>1. CASE common'.quoteId = common.quoteId /\ prefs'.quoteId = prefs.quoteId
    BY <2>1 DEF QuoteCopiesAgree
  <2>2. CASE \E u : KeepQuote(u)
    BY <2>2, KeepQuoteToken DEF QuoteCopiesAgree
  <2>3. CASE Restart
    BY <2>3 DEF Restart, NewCommon, QuoteCopiesAgree
  <2>4. ASSUME NEW f \in Flows, SignIn(f) PROVE QuoteCopiesAgree'
    <3>1. CASE TapLogin(f) \/ TapOtpLogin(f) \/ ReturnFromRegister(f) \/ LoginReply(f)
      BY <2>1, <3>1 DEF TapLogin, TapOtpLogin, ReturnFromRegister, LoginReply
    <3>2. CASE VerifyReply(f)
      BY <2>1, <3>2 DEF VerifyReply, Inv, TypeOK, Prefs
    <3>3. CASE DetailReply(f)
      <4>1. \/ prefs' = prefs
            \/ prefs' = [prefs EXCEPT !.token = flow[f].token]
        BY <3>3 DEF DetailReply
      <4>2. \/ common' = common
            \/ common' = [common EXCEPT !.userDetail = flow[f].token,
                                        !.userToken = flow[f].token]
        BY <3>3 DEF DetailReply
      <4> QED
        BY <2>1, <4>1, <4>2 DEF Inv, TypeOK, Prefs, Common
    <3>4. CASE QuoteReply(f)
      BY <2>1, <2>2, <3>4 DEF QuoteReply
    <3>5. CASE CountriesReply(f)
      BY <2>1, <3>5 DEF CountriesReply, Inv, TypeOK, Prefs
    <3> QED
      BY <2>4, <3>1, <3>2, <3>3, <3>4, <3>5 DEF SignIn
  <2>5. ASSUME NEW c \in calls, CallReply(c) PROVE QuoteCopiesAgree'
    <3>1. \/ KeepQuote(c.token)
          \/ prefs' = prefs /\ common' \in {common, [common EXCEPT !.userDetail = c.token]}
      BY <2>5 DEF CallReply
    <3> QED
      BY <2>1, <2>2, <3>1 DEF Inv, TypeOK, Common
  <2>6. CASE ReadUserToken \/ Logout \/ LogoutDone
    BY <2>1, <2>6 DEF ReadUserToken, Logout, LogoutDone, Inv, TypeOK, Prefs, Common
  <2>7. CASE \/ AdminTokenReply \/ ContinueShopping \/ Back \/ Edit \/ TapRegister
             \/ UNCHANGED vars
    BY <2>1, <2>7 DEF AdminTokenReply, ContinueShopping, Back, Edit, TapRegister,
                      vars
  <2> QED
    BY <2>3, <2>4, <2>5, <2>6, <2>7 DEF Next
<1> QED
  BY <1>1, <1>2, InvAlways, PTL DEF Spec

\* What a logout has removed stays removed, through crashes and late replies,
\* while no sign-in is under way.
THEOREM LogoutCorrect == Spec => LogoutSticks
<1> DEFINE Sticks ==
        LoggedOut(prefs) /\ (\A f \in Flows : flow[f] = NoFlow)
            => LoggedOut(prefs')
<1>1. Inv /\ [Next]_vars => Sticks
  <2> SUFFICES ASSUME Inv, [Next]_vars, LoggedOut(prefs),
                      \A f \in Flows : flow[f] = NoFlow
               PROVE  LoggedOut(prefs')
    OBVIOUS
  <2>1. CASE /\ prefs'.token = prefs.token
             /\ prefs'.email = prefs.email /\ prefs'.password = prefs.password
    BY <2>1 DEF LoggedOut, SavedCredential
  <2>2. CASE Restart
    <3>1. PICK p \in Durable : prefs' = p
      BY <2>2 DEF Restart
    <3> QED
      BY <3>1, DurableImage DEF LoggedOut, SavedCredential
  <2>3. ASSUME NEW f \in Flows, SignIn(f) PROVE LoggedOut(prefs')
    <3>1. flow[f].pc = "idle"
      BY DEF NoFlow
    <3> QED
      BY <2>1, <2>3, <3>1
      DEF SignIn, TapLogin, TapOtpLogin, ReturnFromRegister, VerifyReply,
          LoginReply, DetailReply, QuoteReply, CountriesReply
  <2>4. ASSUME NEW c \in calls, CallReply(c) PROVE LoggedOut(prefs')
    <3>1. KeepQuote(c.token) \/ prefs' = prefs
      BY <2>4 DEF CallReply
    <3> QED
      BY <2>1, <3>1, KeepQuoteToken
  <2>5. CASE Logout \/ LogoutDone
    <3>1. prefs.token # prefs'.token => prefs'.token \in {Absent, Blank}
      BY <2>5 DEF Logout, LogoutDone, Inv, TypeOK, Prefs
    <3>2. /\ prefs'.email \in {prefs.email, Blank}
          /\ prefs'.password \in {prefs.password, "none"}
      BY <2>5 DEF Logout, LogoutDone, Inv, TypeOK, Prefs
    <3> QED
      BY <3>1, <3>2, SessionAssumption DEF LoggedOut, SavedCredential
  <2>6. CASE \/ AdminTokenReply \/ ReadUserToken \/ ContinueShopping \/ Back
             \/ Edit \/ TapRegister \/ UNCHANGED vars
    BY <2>1, <2>6 DEF AdminTokenReply, ReadUserToken, ContinueShopping, Back,
                      Edit, TapRegister, vars
  <2> QED
    BY <2>2, <2>3, <2>4, <2>5, <2>6 DEF Next
<1>2. Inv /\ [Next]_vars => [Sticks]_vars
  BY <1>1
<1> QED
  BY <1>2, InvAlways, PTL DEF Spec, LogoutSticks

----------------------------------------------------------------------------
(* The credential that is kept *)

\* The token an OTP left in the global is that of an OTP accepted here.
OtpKnown == tokenfromotp \in otpVerified \cup {Absent}

LEMMA OtpKnownNext == OtpKnown /\ [Next]_vars => OtpKnown'
<1> SUFFICES ASSUME OtpKnown, [Next]_vars PROVE OtpKnown'
  OBVIOUS
<1>1. CASE tokenfromotp' = Absent
  BY <1>1 DEF OtpKnown
<1>2. CASE UNCHANGED <<tokenfromotp, otpVerified>>
  BY <1>2 DEF OtpKnown
<1>3. ASSUME NEW f \in Flows, SignIn(f) PROVE OtpKnown'
  <2>1. CASE VerifyReply(f)
    BY <2>1 DEF VerifyReply, OtpKnown
  <2> QED
    BY <1>2, <1>3, <2>1 DEF SignIn, TapLogin, TapOtpLogin, ReturnFromRegister,
                            LoginReply, DetailReply, QuoteReply, CountriesReply
<1>4. CASE Restart
  BY <1>1, <1>4 DEF Restart
<1> QED
  BY <1>2, <1>3, <1>4 DEF Next, AdminTokenReply, ReadUserToken, ContinueShopping,
                          CallReply, Logout, LogoutDone, Back, Edit, TapRegister,
                          vars

\* Accepted OTPs and changes by hand are remembered.
LEMMA HistoryStays ==
    ASSUME Inv, [Next]_vars
    PROVE  otpVerified \subseteq otpVerified' /\ (retyped => retyped')
<1> DEFINE Stays == otpVerified \subseteq otpVerified' /\ (retyped => retyped')
<1>1. ASSUME NEW f \in Flows, SignIn(f) PROVE Stays
  <2>1. CASE UNCHANGED retyped
    BY <1>1, <2>1 DEF SignIn, TapLogin, TapOtpLogin, ReturnFromRegister,
                      VerifyReply, LoginReply, DetailReply, QuoteReply,
                      CountriesReply
  <2>2. CASE TapLogin(f) \/ TapOtpLogin(f)
    <3>1. otpVerified' = otpVerified
      BY <2>2 DEF TapLogin, TapOtpLogin
    <3>2. \E who, pw : retyped' = (retyped \/ Typed(who, pw) # flow)
      BY <2>2 DEF TapLogin, TapOtpLogin
    <3>3. retyped => retyped'
      BY <3>2, Zenon
    <3> QED
      BY <3>1, <3>3
  <2> QED
    BY <1>1, <2>1, <2>2 DEF SignIn, ReturnFromRegister, VerifyReply, LoginReply,
                            DetailReply, QuoteReply, CountriesReply
<1> QED
  BY <1>1 DEF Next, Restart, AdminTokenReply, ReadUserToken, ContinueShopping,
              CallReply, Logout, LogoutDone, Back, Edit, TapRegister, vars

\* Every step but the last reply of a sign-in keeps the credential or takes a
\* part of it away.
LEMMA CredentialSteps ==
    ASSUME Inv, [Next]_vars, \A f \in Flows : ~CountriesReply(f)
    PROVE  /\ prefs'.email \in {prefs.email, Blank}
           /\ prefs'.password \in {prefs.password, "none"}
<1> DEFINE Less == /\ prefs'.email \in {prefs.email, Blank}
                   /\ prefs'.password \in {prefs.password, "none"}
<1>1. CASE Restart
  BY <1>1, DurableImage DEF Restart
<1>2. ASSUME NEW f \in Flows, SignIn(f) PROVE Less
  <2>1. CASE VerifyReply(f)
    <3>1. prefs' = prefs \/ prefs' = [prefs EXCEPT !.token = flow[f].who]
      BY <2>1 DEF VerifyReply
    <3> QED
      BY <3>1 DEF Inv, TypeOK, Prefs
  <2>2. CASE DetailReply(f)
    <3>1. prefs' = prefs \/ prefs' = [prefs EXCEPT !.token = flow[f].token]
      BY <2>2 DEF DetailReply
    <3> QED
      BY <3>1 DEF Inv, TypeOK, Prefs
  <2>3. CASE QuoteReply(f)
    BY <2>3, KeepQuoteToken DEF QuoteReply
  <2> QED
    BY <1>2, <2>1, <2>2, <2>3 DEF SignIn, TapLogin, TapOtpLogin,
                                  ReturnFromRegister, LoginReply
<1>3. ASSUME NEW c \in calls, CallReply(c) PROVE Less
  <2>1. KeepQuote(c.token) \/ prefs' = prefs
    BY <1>3 DEF CallReply
  <2> QED
    BY <2>1, KeepQuoteToken
<1>4. CASE Logout \/ LogoutDone
  BY <1>4 DEF Logout, LogoutDone, Inv, TypeOK, Prefs
<1> QED
  BY <1>1, <1>2, <1>3, <1>4 DEF Next, AdminTokenReply, ReadUserToken,
                                ContinueShopping, Back, Edit, TapRegister, vars

\* A text that is a shop owner's credential.
GoodText(t) == t.who \in ShopOwners /\ t.pw = "right"

\* The fields of a sign-in's screen hold what its login was sent with, or a shop
\* owner's credential that the return from the register screen put there.
Settled(s) ==
    s.pc # "idle" => s.typed = [who |-> s.who, pw |-> s.pw] \/ GoodText(s.typed)

TextKnown ==
    otpVerified = {} /\ ~retyped => \A f \in Flows : Settled(flow[f])

\* A reply keeps the text settled.
LEMMA ReplySettled ==
    ASSUME Inv, NEW g \in Flows, Settled(flow[g]), NEW f \in Flows,
           \/ LoginReply(f) \/ DetailReply(f) \/ QuoteReply(f)
           \/ CountriesReply(f) \/ VerifyReply(f)
    PROVE  Settled(flow'[g])
<1> flow[f] \in Flow /\ flow[g] \in Flow
  BY DEF Inv, TypeOK
<1>1. Settled(NoFlow)
  BY DEF Settled, NoFlow
<1>2. CASE VerifyReply(f)
  <2> DEFINE onward == [flow[f] EXCEPT !.pc = "login", !.who = flow[f].typed.who,
                                       !.pw = flow[f].typed.pw]
  <2>1. flow' = [flow EXCEPT ![f] = NoFlow] \/ flow' = [flow EXCEPT ![f] = onward]
    BY <1>2 DEF VerifyReply
  <2>2. /\ onward.typed = flow[f].typed
        /\ onward.who = flow[f].typed.who /\ onward.pw = flow[f].typed.pw
    BY DEF Flow
  <2>3. flow[f].typed \in Text
    BY DEF Flow
  <2>4. \A t \in Text : t = [who |-> t.who, pw |-> t.pw]
    BY DEF Text
  <2>5. Settled(onward)
    <3> HIDE DEF onward
    <3> QED
      BY <2>2, <2>3, <2>4 DEF Settled
  <2>6. flow'[g] \in {NoFlow, flow[g], onward}
    <3> HIDE DEF onward
    <3> QED
      BY <2>1 DEF Inv, TypeOK
  <2> HIDE DEF onward
  <2> QED
    BY <1>1, <2>5, <2>6
<1>3. CASE LoginReply(f) \/ DetailReply(f) \/ QuoteReply(f)
  <2>1. \/ flow' = [flow EXCEPT ![f] = NoFlow]
        \/ /\ flow[f].pc # "idle"
           /\ \E pc, t : flow' = [flow EXCEPT ![f].pc = pc, ![f].token = t]
        \/ /\ flow[f].pc # "idle"
           /\ \E pc : flow' = [flow EXCEPT ![f].pc = pc]
    BY <1>3 DEF LoginReply, DetailReply, QuoteReply
  <2>2. \/ flow'[g] \in {NoFlow, flow[g]}
        \/ /\ flow[g].pc # "idle"
           /\ flow'[g].typed = flow[g].typed
           /\ flow'[g].who = flow[g].who /\ flow'[g].pw = flow[g].pw
    <3>1. CASE flow' = [flow EXCEPT ![f] = NoFlow]
      BY <3>1 DEF Inv, TypeOK
    <3>2. ASSUME NEW pc, NEW t, flow[f].pc # "idle",
                 \/ flow' = [flow EXCEPT ![f].pc = pc, ![f].token = t]
                 \/ flow' = [flow EXCEPT ![f].pc = pc]
          PROVE  \/ flow'[g] = flow[g]
                 \/ /\ flow[g].pc # "idle"
                    /\ flow'[g].typed = flow[g].typed
                    /\ flow'[g].who = flow[g].who /\ flow'[g].pw = flow[g].pw
      <4>1. \/ flow'[g] = flow[g]
            \/ /\ flow[g].pc # "idle"
               /\ \/ flow'[g] = [flow[g] EXCEPT !.pc = pc, !.token = t]
                  \/ flow'[g] = [flow[g] EXCEPT !.pc = pc]
        BY <3>2 DEF Inv, TypeOK
      <4> QED
        BY <4>1 DEF Flow
    <3> QED
      BY <2>1, <3>1, <3>2
  <2> QED
    BY <1>1, <2>2 DEF Settled
<1>4. CASE CountriesReply(f)
  <2> DEFINE done == [flow EXCEPT ![f] = NoFlow]
  <2>1. done[g] \in {flow[g], NoFlow}
    BY DEF Inv, TypeOK
  <2>2. flow' = done \/ flow' = [h \in Flows |-> [done[h] EXCEPT !.at = "gone"]]
    BY <1>4 DEF CountriesReply, OpenMain
  <2>3. flow'[g] \in {done[g], [done[g] EXCEPT !.at = "gone"]}
    <3> HIDE DEF done
    <3> QED
      BY <2>2
  <2>4. [NoFlow EXCEPT !.at = "gone"] = NoFlow
    BY DEF NoFlow
  <2>5. flow'[g] \in {flow[g], [flow[g] EXCEPT !.at = "gone"], NoFlow}
    BY <2>1, <2>3, <2>4
  <2> QED
    BY <1>1, <2>5 DEF Settled, Flow
<1> QED
  BY <1>2, <1>3, <1>4

\* So does a sign-in that starts, unless it comes with text typed by hand.
LEMMA StartSettled ==
    ASSUME Inv, KeptCredential, NEW g \in Flows, Settled(flow[g]),
           otpVerified = {}, ~retyped, ~retyped', NEW f \in Flows,
           TapLogin(f) \/ TapOtpLogin(f) \/ ReturnFromRegister(f)
    PROVE  Settled(flow'[g])
<1>1. ASSUME NEW who, NEW pw, NEW at PROVE Settled(Started(who, pw, at))
  BY DEF Settled, Started
<1>2. ASSUME NEW who, NEW at, NEW otp
      PROVE  Settled([Started(who, "none", at) EXCEPT !.pc = "verify", !.otp = otp])
  BY DEF Settled, Started
<1>3. CASE TapLogin(f)
  <2> PICK who, pw :
          /\ flow' = [Typed(who, pw) EXCEPT ![f] = Started(who, pw, VisibleLogin)]
          /\ retyped' = (retyped \/ Typed(who, pw) # flow)
    BY <1>3 DEF TapLogin
  <2>1. flow' = [flow EXCEPT ![f] = Started(who, pw, VisibleLogin)]
    OBVIOUS
  <2>2. flow'[g] \in {flow[g], Started(who, pw, VisibleLogin)}
    BY <2>1 DEF Inv, TypeOK
  <2> QED
    BY <1>1, <2>2
<1>4. CASE TapOtpLogin(f)
  <2> PICK who, otp :
          /\ flow' = [Typed(who, "none") EXCEPT ![f] =
                         [Started(who, "none", VisibleLogin)
                          EXCEPT !.pc = "verify", !.otp = otp]]
          /\ retyped' = (retyped \/ Typed(who, "none") # flow)
    BY <1>4 DEF TapOtpLogin
  <2> DEFINE new == [Started(who, "none", VisibleLogin)
                     EXCEPT !.pc = "verify", !.otp = otp]
  <2>1. flow' = [flow EXCEPT ![f] = new]
    OBVIOUS
  <2>2. Settled(new)
    BY <1>2
  <2>3. flow'[g] \in {flow[g], new}
    <3> HIDE DEF new
    <3> QED
      BY <2>1 DEF Inv, TypeOK
  <2> QED
    BY <2>2, <2>3
<1>5. CASE ReturnFromRegister(f)
  <2>1. CASE flow' = flow
    BY <2>1
  <2>2. CASE /\ SavedCredential(prefs)
             /\ flow' = [Typed(prefs.email, prefs.password) EXCEPT ![f] =
                           Started(prefs.email, prefs.password, VisibleLogin)]
    <3> DEFINE saved == [who |-> prefs.email, pw |-> prefs.password]
    <3>1. GoodText(saved)
      BY <2>2 DEF KeptCredential, GoodText
    <3>2. flow'[g] \in {Typed(prefs.email, prefs.password)[g],
                        Started(prefs.email, prefs.password, VisibleLogin)}
      BY <2>2 DEF Typed
    <3>3. Typed(prefs.email, prefs.password)[g]
              \in {flow[g], [flow[g] EXCEPT !.typed = saved]}
      BY DEF Typed
    <3>4. Settled([flow[g] EXCEPT !.typed = saved])
      <4>1. [flow[g] EXCEPT !.typed = saved].typed = saved
        BY DEF Inv, TypeOK, Flow
      <4> HIDE DEF saved
      <4> QED
        BY <3>1, <4>1 DEF Settled
    <3>5. Settled(Started(prefs.email, prefs.password, VisibleLogin))
      BY <1>1
    <3> HIDE DEF saved
    <3> QED
      BY <3>2, <3>3, <3>4, <3>5
  <2> QED
    BY <1>5, <2>1, <2>2 DEF ReturnFromRegister
<1> QED
  BY <1>3, <1>4, <1>5

LEMMA TextKnownNext ==
    ASSUME Inv, KeptCredential, TextKnown, [Next]_vars PROVE TextKnown'
<1> SUFFICES ASSUME otpVerified' = {}, ~retyped', NEW g \in Flows
             PROVE  Settled(flow'[g])
  BY DEF TextKnown
<1>1. otpVerified = {} /\ ~retyped
  BY HistoryStays
<1>2. Settled(flow[g])
  BY <1>1 DEF TextKnown
<1>3. CASE Restart
  <2>1. PICK p \in Durable, f0 \in Flows : flow' = InitialFlows(p, f0)
    BY <1>3 DEF Restart
  <2>2. flow'[g] \in {NoFlow, Started(p.email, p.password, "bottom")}
    BY <2>1 DEF InitialFlows
  <2> QED
    BY <2>2 DEF Settled, NoFlow, Started
<1>4. ASSUME NEW f \in Flows, SignIn(f) PROVE Settled(flow'[g])
  BY <1>1, <1>2, <1>4, ReplySettled, StartSettled DEF SignIn
<1>5. CASE flow'[g] \in {flow[g], [flow[g] EXCEPT !.at = "gone"]}
  BY <1>2, <1>5 DEF Settled, Inv, TypeOK, Flow
<1>6. ASSUME NEW c \in calls, CallReply(c) PROVE Settled(flow'[g])
  BY <1>5, <1>6 DEF CallReply, OpenMain
<1>7. CASE Back
  BY <1>5, <1>7 DEF Back
<1>8. CASE Edit
  BY <1>8 DEF Edit
<1> QED
  BY <1>3, <1>4, <1>5, <1>6, <1>7, <1>8
  DEF Next, AdminTokenReply, ReadUserToken, ContinueShopping, Logout, LogoutDone,
      TapRegister, vars

\* What the app keeps to sign in with at its next start was accepted by the
\* server for a shop owner, as long as no OTP was ever accepted on the device and
\* nobody changed the text under a sign-in: what the fields hold when
\* CountriesReply saves them is what LoginReply was let through for, or the
\* credential that was kept before.
THEOREM CredentialCorrect == Spec => []KeptCredential
<1>1. Init => OtpKnown /\ KeptCredential /\ TextKnown
  BY DEF Init, OtpKnown, KeptCredential, SavedCredential, TextKnown, Settled, NoFlow
<1>2. /\ Inv /\ PasswordDecides /\ GroupChecked /\ OtpKnown /\ KeptCredential
      /\ TextKnown /\ [Next]_vars
      => KeptCredential'
  <2> SUFFICES ASSUME Inv, PasswordDecides, GroupChecked, OtpKnown,
                      KeptCredential, TextKnown, [Next]_vars,
                      SavedCredential(prefs'), otpVerified' = {}, ~retyped'
               PROVE  prefs'.email \in ShopOwners /\ prefs'.password = "right"
    BY DEF KeptCredential, SavedCredential
  <2>1. otpVerified = {} /\ tokenfromotp = Absent /\ ~retyped
    BY HistoryStays DEF OtpKnown
  <2>2. CASE /\ prefs'.email \in {prefs.email, Blank}
             /\ prefs'.password \in {prefs.password, "none"}
    BY <2>1, <2>2 DEF KeptCredential, SavedCredential
  <2>3. ASSUME NEW f \in Flows, CountriesReply(f)
        PROVE  prefs'.email \in ShopOwners /\ prefs'.password = "right"
    <3>1. \/ prefs' = prefs
          \/ prefs' = [prefs EXCEPT !.email = flow[f].typed.who,
                                    !.password = flow[f].typed.pw]
      BY <2>3 DEF CountriesReply
    <3>2. flow[f].token \in ShopOwners /\ flow[f].pc # "idle"
      BY <2>3 DEF CountriesReply, GroupChecked, SignedIn
    <3>3. flow[f].token # Absent
      BY <3>2, SessionAssumption
    <3>4. flow[f].who = flow[f].token /\ flow[f].pw = "right"
      BY <2>1, <3>3 DEF PasswordDecides
    <3>5. Settled(flow[f])
      BY <2>1 DEF TextKnown
    <3>6. GoodText(flow[f].typed)
      BY <3>2, <3>4, <3>5 DEF Settled, GoodText
    <3> QED
      BY <2>2, <3>1, <3>6 DEF GoodText, Inv, TypeOK, Prefs
  <2> QED
    BY <2>2, <2>3, CredentialSteps
<1> QED
  BY <1>1, <1>2, OtpKnownNext, TextKnownNext, InvAlways, PasswordCorrect,
     GroupAlways, PTL DEF Spec

=============================================================================
