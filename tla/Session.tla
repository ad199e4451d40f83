------------------------------ MODULE Session ------------------------------
(***************************************************************************)
(* Who is signed in.  The shop app keeps its identity in four places: the  *)
(* SharedPreferences file (the only one a restart keeps), the fields of    *)
(* the CommonNotifier singleton, the global `tokenfromotp`, and the local  *)
(* variables of every sign-in that is waiting for a reply of the server.   *)
(*                                                                         *)
(* The Dart event loop runs a handler without interruption up to its next  *)
(* `await`; an action is one such stretch.  A token is modelled by the     *)
(* customer the server issued it to, and a quote id by the quote's owner.   *)
(* The profile fields that are saved for display (customer id, name,       *)
(* e-mail, mobile number) are left out.                                    *)
(***************************************************************************)
EXTENDS Integers, FiniteSets

CONSTANTS
    Users,       \* customers the server knows
    ShopOwners,  \* those of group GROUP_ID_SHOP_OWNER
    OtpUsers,    \* those with a mobile number, who may sign in with an OTP
    Flows,       \* sign-ins that may be under way at once (a bound)
    MaxCalls,    \* requests of the main screen under way at once (a bound)
    Absent,      \* Dart's null
    Blank        \* the empty string

ASSUME SessionAssumption ==
    /\ ShopOwners \subseteq Users
    /\ OtpUsers \subseteq Users
    /\ Absent \notin Users
    /\ Blank \notin Users
    /\ Absent # Blank

VARIABLES
    prefs,         \* SharedPreferences
    common,        \* the CommonNotifier singleton
    tokenfromotp,  \* global of otpverification.dart
    routes,        \* which routes the Navigator holds
    flow,          \* the sign-ins under way
    logout,        \* what is left of a Logout: see Logout and LogoutDone
    isLoading,     \* LoginNotifier.isLoading: the login screen's spinner
    adminToken,    \* whether the admin-token request is still unanswered
    calls,         \* requests of main-screen code still unanswered
    otpVerified,   \* history: customers whose OTP was accepted here
    retyped        \* history: text changed by hand under a sign-in

vars == <<prefs, common, tokenfromotp, routes, flow, logout, isLoading,
          adminToken, calls, otpVerified, retyped>>

Prefs == [token: Users \cup {Absent, Blank}, email: Users \cup {Blank},
          password: {"none", "right", "wrong"}, quoteId: Users \cup {Absent}]
Common == [userToken: Users \cup {Absent, Blank}, quoteId: Users \cup {Blank},
           userDetail: Users \cup {Absent}]
Call == [kind: {"detail", "quote", "continue"}, token: Users]
Routes == [bottom: BOOLEAN, main: BOOLEAN, top: BOOLEAN, register: BOOLEAN]

\* What the two text fields of a login screen hold; `pw` says whether the server
\* would accept it for `who`.
Text == [who: Users \cup {Absent}, pw: {"none", "right", "wrong"}]

\* One run of _onClickButtonLogIn.  `at` is the login route whose context it
\* holds: the one at the bottom of the stack, the one on top, or one popped.
\* `who` and `pw` are what its login request is sent with, `otp` says whether the
\* server would accept the OTP, and `typed` is what its screen's fields hold now.
Flow == [pc: {"idle", "verify", "login", "detail", "quote", "countries"},
         who: Users \cup {Absent}, pw: {"none", "right", "wrong"},
         otp: {"none", "right", "wrong"}, token: Users \cup {Absent},
         at: {"bottom", "top", "gone"}, typed: Text]

NoFlow == [pc |-> "idle", who |-> Absent, pw |-> "none", otp |-> "none",
           token |-> Absent, at |-> "gone",
           typed |-> [who |-> Absent, pw |-> "none"]]

TypeOK ==
    /\ prefs \in Prefs
    /\ common \in Common
    /\ tokenfromotp \in Users \cup {Absent}
    /\ routes \in Routes
    /\ flow \in [Flows -> Flow]
    /\ logout \in {"idle", "clear", "orphan"}
    /\ isLoading \in BOOLEAN
    /\ adminToken \in {"pending", "saved", "failed"}
    /\ calls \in SUBSET Call
    /\ otpVerified \in SUBSET Users
    /\ retyped \in BOOLEAN

LoginVisible == (routes.top \/ ~routes.main) /\ ~routes.register
MainVisible == routes.main /\ ~routes.top
VisibleLogin == IF routes.top THEN "top" ELSE "bottom"
Mounted(f) == flow[f].at # "gone"

\* Mutant: one of the two is enough.
SavedEither(p) == p.email # Blank \/ p.password # "none"

\* A saved e-mail and password that checkAlreadyUserLoggedIn would use.
SavedCredential(p) == p.email # Blank /\ p.password # "none"

Started(who, pw, at) ==
    [pc |-> "login", who |-> who, pw |-> pw, otp |-> "none", token |-> Absent,
     at |-> at, typed |-> [who |-> who, pw |-> pw]]

\* New text in the fields of the login screen in front: its sign-ins read the
\* controllers again, those of screens popped never see another text.
Typed(who, pw) ==
    [f \in Flows |-> IF flow[f].at = VisibleLogin
                     THEN [flow[f] EXCEPT !.typed = [who |-> who, pw |-> pw]]
                     ELSE flow[f]]

----------------------------------------------------------------------------
(* Start of the process, and its death at any moment *)

NewCommon == [userToken |-> Blank, quoteId |-> Blank, userDetail |-> Absent]

\* The constructor of CommonNotifier asks for the profile and the quote of the
\* saved token.
BootCalls(p) ==
    IF p.token \in Users
    THEN {[kind |-> k, token |-> p.token] : k \in {"detail", "quote"}}
    ELSE {}

\* initialRoute "/main_screen" makes the Navigator build "/" (the login screen)
\* and "/main_screen" on it.
InitialRoutes(p) == [bottom |-> TRUE, main |-> p.token # Absent, top |-> FALSE,
                     register |-> FALSE]

\* The login screen built at the start signs in at once when a credential is
\* saved, whichever screen is on top of it.
InitialFlows(p, f0) ==
    [f \in Flows |-> IF f = f0 /\ SavedCredential(p)
                     THEN Started(p.email, p.password, "bottom")
                     ELSE NoFlow]

Init ==
    /\ prefs = [token |-> Absent, email |-> Blank, password |-> "none",
                quoteId |-> Absent]
    /\ common = NewCommon
    /\ tokenfromotp = Absent
    /\ routes = InitialRoutes(prefs)
    /\ flow = [f \in Flows |-> NoFlow]
    /\ logout = "idle"
    /\ isLoading = TRUE
    /\ adminToken = "pending"
    /\ calls = {}
    /\ otpVerified = {}
    /\ retyped = FALSE

\* The writes of the second half of a logout reach the file one by one, in
\* order: what may be on it when the process dies.
Durable ==
    LET noEmail == [prefs EXCEPT !.email = Blank]
        noCredential == [noEmail EXCEPT !.password = "none"]
    IN  IF logout = "idle" THEN {prefs} ELSE {prefs, noEmail, noCredential}

Restart ==
    /\ \E p \in Durable, f0 \in Flows :
           /\ prefs' = p
           /\ routes' = InitialRoutes(p)
           /\ flow' = InitialFlows(p, f0)
           /\ calls' = BootCalls(p)
    /\ common' = NewCommon
    /\ tokenfromotp' = Absent
    /\ logout' = "idle"
    /\ isLoading' = TRUE
    /\ adminToken' = "pending"
    /\ UNCHANGED <<otpVerified, retyped>>

\* callApiGetAdminToken, sent by LoginNotifier's constructor: saveAdminToken
\* takes down the spinner the notifier was born with, even if a sign-in has
\* put it up again; a failed call leaves the spinner as it is.
AdminTokenReply ==
    /\ adminToken = "pending"
    /\ \/ adminToken' = "saved" /\ isLoading' = FALSE
       \/ adminToken' = "failed" /\ UNCHANGED isLoading
    /\ UNCHANGED <<prefs, common, tokenfromotp, routes, flow, logout, calls,
                   otpVerified, retyped>>

----------------------------------------------------------------------------
(* Signing in: _onClickButtonLogIn and what starts it *)

\* The text fields are shown until an OTP was sent.
FieldsShown ==
    /\ LoginVisible /\ ~isLoading
    /\ \A f \in Flows : flow[f].at = VisibleLogin => flow[f].otp = "none"

\* The text is changed by hand while a sign-in that will read it is under way.
\* (An emptied field, with which no start signs in, is left out.)
Edit ==
    /\ FieldsShown
    /\ \E who \in Users, pw \in {"right", "wrong"} : flow' = Typed(who, pw)
    /\ flow' # flow
    /\ retyped' = TRUE
    /\ UNCHANGED <<prefs, common, tokenfromotp, routes, logout, isLoading,
                   adminToken, calls, otpVerified>>

\* The "Login" button with an e-mail and a password.
TapLogin(f) ==
    /\ FieldsShown
    /\ flow[f] = NoFlow
    /\ \E who \in Users, pw \in {"right", "wrong"} :
           /\ flow' = [Typed(who, pw) EXCEPT ![f] = Started(who, pw, VisibleLogin)]
           /\ retyped' = (retyped \/ Typed(who, pw) # flow)
    /\ isLoading' = TRUE
    /\ UNCHANGED <<prefs, common, tokenfromotp, routes, logout, adminToken,
                   calls, otpVerified>>

\* The "Login" button after an OTP was sent: IsOtpVerified puts up no spinner,
\* so a second tap is possible.
TapOtpLogin(f) ==
    /\ LoginVisible /\ ~isLoading
    /\ flow[f] = NoFlow
    /\ \E who \in OtpUsers, otp \in {"right", "wrong"} :
           /\ flow' = [Typed(who, "none") EXCEPT ![f] =
                          [Started(who, "none", VisibleLogin)
                           EXCEPT !.pc = "verify", !.otp = otp]]
           /\ retyped' = (retyped \/ Typed(who, "none") # flow)
    /\ UNCHANGED <<prefs, common, tokenfromotp, routes, logout, isLoading,
                   adminToken, calls, otpVerified>>

\* The "Register" link.
TapRegister ==
    /\ LoginVisible /\ ~isLoading
    /\ routes' = [routes EXCEPT !.register = TRUE]
    /\ UNCHANGED <<prefs, common, tokenfromotp, flow, logout, isLoading,
                   adminToken, calls, otpVerified, retyped>>

\* The register screen closes: checkAlreadyUserLoggedIn puts a saved credential
\* into the text fields and signs in with it, whatever else is under way.
ReturnFromRegister(f) ==
    /\ routes.register
    /\ routes' = [routes EXCEPT !.register = FALSE]
    /\ \/ /\ SavedCredential(prefs)
          /\ flow[f] = NoFlow
          /\ flow' = [Typed(prefs.email, prefs.password) EXCEPT ![f] =
                         Started(prefs.email, prefs.password, VisibleLogin)]
          /\ isLoading' = TRUE
       \/ ~SavedCredential(prefs) /\ UNCHANGED <<flow, isLoading>>
    /\ UNCHANGED <<prefs, common, tokenfromotp, logout, adminToken, calls,
                   otpVerified, retyped>>

\* The reply to IsOtpVerified.  An accepted OTP stores its token, in the global
\* and in the preferences; a refused one does not stop the sign-in, which goes on
\* with the text of the fields as it is now.
VerifyReply(f) ==
    /\ flow[f].pc = "verify"
    /\ LET goOn == [flow EXCEPT ![f].pc = "login", ![f].who = flow[f].typed.who,
                               ![f].pw = flow[f].typed.pw]
       IN  \/ /\ flow[f].otp = "right"
              /\ tokenfromotp' = flow[f].who
              /\ prefs' = [prefs EXCEPT !.token = flow[f].who]
              /\ otpVerified' = otpVerified \cup {flow[f].who}
              /\ IF Mounted(f)
                 THEN flow' = goOn /\ isLoading' = TRUE
                 ELSE flow' = [flow EXCEPT ![f] = NoFlow] /\ UNCHANGED isLoading
           \/ /\ flow[f].otp = "wrong"
              /\ flow' = goOn /\ isLoading' = TRUE
              /\ UNCHANGED <<prefs, tokenfromotp, otpVerified>>
           \/ /\ flow' = [flow EXCEPT ![f] = NoFlow]  \* http.post threw
              /\ UNCHANGED <<prefs, tokenfromotp, isLoading, otpVerified>>
    /\ UNCHANGED <<common, routes, logout, adminToken, calls, retyped>>

\* Mutant: a saved token is as good as one an OTP brought.
LoginTokenSaved(f, answer) ==
    IF answer = "offline" THEN Absent
    ELSE IF prefs.token \in Users THEN prefs.token
    ELSE IF answer = "answered" /\ flow[f].pw = "right" THEN flow[f].who
    ELSE Absent

\* The token apiUserLogin returns: the global one, if set, whatever was typed
\* and whatever the server answered; Absent for every failure.
LoginToken(f, answer) ==
    IF answer = "offline" THEN Absent
    ELSE IF tokenfromotp # Absent THEN tokenfromotp
    ELSE IF answer = "answered" /\ flow[f].pw = "right" THEN flow[f].who
    ELSE Absent

\* Mutant: a failed login falls back on the OTP instead of ending.
LoginReplyRetry(f) ==
    /\ flow[f].pc = "login"
    /\ \E answer \in {"answered", "lost", "offline"} :
           LET token == LoginToken(f, answer)
           IN  IF token = Absent
               THEN flow' = [flow EXCEPT ![f].pc = "verify", ![f].otp = "wrong"]
               ELSE flow' = [flow EXCEPT ![f].pc = "detail", ![f].token = token]
    /\ isLoading' = TRUE
    /\ UNCHANGED <<prefs, common, tokenfromotp, routes, logout, adminToken,
                   calls, otpVerified, retyped>>

\* "offline": no network when asked; "lost": time-out, error or odd status.
LoginReply(f) ==
    /\ flow[f].pc = "login"
    /\ \E answer \in {"answered", "lost", "offline"} :
           LET token == LoginToken(f, answer)
           IN  IF token = Absent
               THEN /\ flow' = [flow EXCEPT ![f] = NoFlow]
                    /\ isLoading' = FALSE
               ELSE /\ flow' = [flow EXCEPT ![f].pc = "detail",
                                            ![f].token = token]
                    /\ isLoading' = TRUE
    /\ UNCHANGED <<prefs, common, tokenfromotp, routes, logout, adminToken,
                   calls, otpVerified, retyped>>

\* Mutant: every customer's group will do.
AnyGroup(token) == token \in Users

\* The group the profile of a token's owner must have.
InGroup(token) == token \in ShopOwners

\* The reply to callApiGetUserDetailByToken.  A shop owner is signed in, then
\* the quote is requested through the login screen's context, which throws when
\* that screen is gone.  A null reply throws with the spinner still up.
DetailReply(f) ==
    /\ flow[f].pc = "detail"
    /\ LET token == flow[f].token
           Stop == flow' = [flow EXCEPT ![f] = NoFlow]
       IN  \/ /\ InGroup(token)
              /\ prefs' = [prefs EXCEPT !.token = token]
              /\ common' = [common EXCEPT !.userDetail = token,
                                          !.userToken = token]
              /\ isLoading' = Mounted(f)
              /\ IF Mounted(f) THEN flow' = [flow EXCEPT ![f].pc = "quote"]
                               ELSE Stop
           \/ /\ Stop /\ isLoading' = FALSE   \* other group, or unauthorized
              /\ UNCHANGED <<prefs, common>>
           \/ Stop /\ UNCHANGED <<prefs, common, isLoading>>    \* no reply
    /\ UNCHANGED <<tokenfromotp, routes, logout, adminToken, calls, otpVerified,
                   retyped>>

\* Mutant: only the copy in memory is set.
KeepQuoteInMemory(owner) ==
    common' = [common EXCEPT !.quoteId = owner] /\ UNCHANGED prefs

\* Mutant: the token the quote was asked with is saved along.
KeepQuoteAndToken(owner) ==
    /\ prefs' = [prefs EXCEPT !.quoteId = owner, !.token = owner]
    /\ common' = [common EXCEPT !.quoteId = owner]

\* callApiGetCartQuoteIdResponse keeps the quote id in both places.
KeepQuote(owner) ==
    /\ prefs' = [prefs EXCEPT !.quoteId = owner]
    /\ common' = [common EXCEPT !.quoteId = owner]

QuoteReply(f) ==
    /\ flow[f].pc = "quote"
    /\ \/ KeepQuote(flow[f].token) /\ flow' = [flow EXCEPT ![f].pc = "countries"]
       \/ /\ flow' = [flow EXCEPT ![f].pc = "countries"]  \* refused: only logged
          /\ UNCHANGED <<prefs, common>>
       \/ /\ flow' = [flow EXCEPT ![f] = NoFlow]          \* no reply: throws
          /\ UNCHANGED <<prefs, common>>
    /\ UNCHANGED <<tokenfromotp, routes, logout, isLoading, adminToken, calls,
                   otpVerified, retyped>>

\* pushNamedAndRemoveUntil(main, (e) => false): every other route is popped.
\* Sign-ins and a logout under way lose the context they would navigate with.
OpenMain(fl) ==
    /\ routes' = [bottom |-> FALSE, main |-> TRUE, top |-> FALSE,
                  register |-> FALSE]
    /\ flow' = [f \in Flows |-> [fl[f] EXCEPT !.at = "gone"]]
    /\ logout' = IF logout = "idle" THEN "idle" ELSE "orphan"

\* The reply to callApiGetCountriesList ends the sign-in: what the text fields
\* hold by now is saved and, if the login screen still exists, the main screen
\* replaces all.
CountriesReply(f) ==
    /\ flow[f].pc = "countries"
    /\ LET done == [flow EXCEPT ![f] = NoFlow]
       IN  \/ /\ isLoading' = FALSE
              /\ prefs' = [prefs EXCEPT !.email = flow[f].typed.who,
                                        !.password = flow[f].typed.pw]
              /\ IF Mounted(f)
                 THEN OpenMain(done)
                 ELSE flow' = done /\ UNCHANGED <<routes, logout>>
           \/ /\ flow' = done                             \* no reply: throws
              /\ UNCHANGED <<prefs, routes, logout, isLoading>>
    /\ UNCHANGED <<common, tokenfromotp, adminToken, calls, otpVerified, retyped>>

----------------------------------------------------------------------------
(* On the main screen *)

\* The userToken getter falls back on the preferences.
ReadUserToken ==
    /\ MainVisible
    /\ common.userToken = Blank
    /\ common' = [common EXCEPT !.userToken = prefs.token]
    /\ UNCHANGED <<prefs, tokenfromotp, routes, flow, logout, isLoading,
                   adminToken, calls, otpVerified, retyped>>

\* "Continue shopping" after an order asks for a new quote.
ContinueShopping ==
    /\ MainVisible
    /\ common.userToken \in Users
    /\ Cardinality(calls) < MaxCalls
    /\ calls' = calls \cup {[kind |-> "continue", token |-> common.userToken]}
    /\ UNCHANGED <<prefs, common, tokenfromotp, routes, flow, logout, isLoading,
                   adminToken, otpVerified, retyped>>

\* The replies to getUserDetails and callApiGetCartQuoteIdResponse, as called by
\* the constructor, and to callApiCartQuoteId.
CallReply(c) ==
    /\ c \in calls
    /\ calls' = calls \ {c}
    /\ \/ /\ c.kind = "detail"
          /\ common' = [common EXCEPT !.userDetail = c.token]
          /\ UNCHANGED <<prefs, routes, flow, logout>>
       \/ /\ c.kind = "quote"
          /\ KeepQuote(c.token)
          /\ UNCHANGED <<routes, flow, logout>>
       \/ /\ c.kind = "continue"
          /\ MainVisible
          /\ KeepQuote(c.token)
          /\ OpenMain(flow)
       \/ UNCHANGED <<prefs, common, routes, flow, logout>>  \* failed
    /\ UNCHANGED <<tokenfromotp, isLoading, adminToken, otpVerified, retyped>>

\* The drawer's Logout: _clearUserCredential waits for the first write only...
Logout ==
    /\ MainVisible
    /\ logout = "idle"
    /\ logout' = "clear"
    /\ prefs' = [prefs EXCEPT !.token = Blank]
    /\ UNCHANGED <<common, tokenfromotp, routes, flow, isLoading, adminToken,
                   calls, otpVerified, retyped>>

\* ... then clears the credential, removes the token and puts the login screen
\* on top of the main screen, which stays in the stack.
LogoutDone ==
    /\ logout # "idle"
    /\ logout' = "idle"
    /\ prefs' = [prefs EXCEPT !.email = Blank, !.password = "none",
                              !.token = Absent]
    /\ routes' = IF logout = "clear" THEN [routes EXCEPT !.top = TRUE] ELSE routes
    /\ UNCHANGED <<common, tokenfromotp, flow, isLoading, adminToken, calls,
                   otpVerified, retyped>>

\* The back button on a login screen that has the main screen under it.
Back ==
    /\ routes.top /\ ~routes.register
    /\ routes' = [routes EXCEPT !.top = FALSE]
    /\ flow' = [f \in Flows |-> IF flow[f].at = "top"
                                THEN [flow[f] EXCEPT !.at = "gone"] ELSE flow[f]]
    /\ UNCHANGED <<prefs, common, tokenfromotp, logout, isLoading, adminToken,
                   calls, otpVerified, retyped>>

----------------------------------------------------------------------------
SignIn(f) ==
    \/ TapLogin(f) \/ TapOtpLogin(f) \/ ReturnFromRegister(f)
    \/ VerifyReply(f) \/ LoginReply(f) \/ DetailReply(f)
    \/ QuoteReply(f) \/ CountriesReply(f)

Next ==
    \/ Restart \/ AdminTokenReply
    \/ \E f \in Flows : SignIn(f)
    \/ Edit \/ TapRegister
    \/ ReadUserToken \/ ContinueShopping \/ \E c \in calls : CallReply(c)
    \/ Logout \/ LogoutDone \/ Back

Spec == Init /\ [][Next]_vars

\* NetworkProvider gives up on a request after two minutes, so the replies to the
\* four requests of _onClickButtonLogIn come.  The verification of an OTP is an
\* http.post without a time limit: its reply may never come.
FairSpec ==
    /\ Spec
    /\ \A f \in Flows : WF_vars(LoginReply(f) \/ DetailReply(f)
                               \/ QuoteReply(f) \/ CountriesReply(f))

----------------------------------------------------------------------------
(* Properties *)

SignedIn == {"quote", "countries"}

\* Whatever the app signs its requests with, now or after a restart, was issued
\* to a shop owner or to a customer whose OTP was accepted on this device: no
\* mix of late replies, restarts and half-done logouts lets in anyone else.
SessionIdentity ==
    {prefs.token, common.userToken}
        \subseteq ShopOwners \cup otpVerified \cup {Absent, Blank}

\* As long as no OTP was accepted in this run of the app, a sign-in obtains the
\* token of the customer who was typed, and only with the right password.
PasswordDecides ==
    tokenfromotp = Absent =>
        \A f \in Flows : flow[f].token # Absent =>
            flow[f].token = flow[f].who /\ flow[f].pw = "right"

\* CartRepository reads the quote id from the preferences, CommonRepository
\* from memory: they never address two different carts.
QuoteCopiesAgree == common.quoteId \in {Blank, prefs.quoteId}

\* What the next start signs in with is what the server accepted: until an OTP is
\* accepted on this device, whose token every later login of the process is
\* given, and unless the text was changed by hand under a sign-in, the credential
\* kept is a shop owner's, with the right password.  (CountriesReply saves the
\* text fields three replies after they were checked, and the return from the
\* register screen may have overwritten them meanwhile.)
KeptCredential ==
    SavedCredential(prefs) /\ otpVerified = {} /\ ~retyped =>
        prefs.email \in ShopOwners /\ prefs.password = "right"

LoggedOut(p) == p.token \notin Users /\ ~SavedCredential(p)

\* With no sign-in under way, no late reply brings back a token or a credential
\* that a logout has removed.
LogoutSticks ==
    [][LoggedOut(prefs) /\ (\A f \in Flows : flow[f] = NoFlow)
           => LoggedOut(prefs')]_vars

\* A sign-in whose login was sent ends, whichever of its requests fail and
\* whatever the user does meanwhile.
SignInEnds ==
    <>[][~Restart]_vars =>
        \A f \in Flows :
            flow[f].pc \in {"login", "detail", "quote", "countries"}
                ~> flow[f] = NoFlow

\* What the messages of the login screen say, and the code does not do.

\* "OTP missmatch please check your otp and retry": a refused OTP signs nobody in.
RefusedOtpStaysOut ==
    \A f \in Flows : flow[f].otp = "wrong" => flow[f].pc \notin SignedIn

\* "Invalid user login! this user not belongs to this group ID": the main screen
\* is for shop owners.
MainForShopOwners == MainVisible => common.userToken \notin Users \ ShopOwners
=============================================================================
