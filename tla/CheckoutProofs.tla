--------------------------- MODULE CheckoutProofs ---------------------------
(***************************************************************************)
(* Proofs about Checkout, for any number of payment screens, requests in    *)
(* flight, methods and addresses: what the runs check on two of each holds  *)
(* of all.                                                                  *)
(***************************************************************************)
EXTENDS Checkout, TLAPS

----------------------------------------------------------------------------
(* Types *)

\* A request that was just sent is one.
LEMMA Asked ==
    ASSUME NEW k \in Kinds \cup {"free"}, NEW n \in Nat, NEW q \in Nat,
           NEW m \in AnyMethod, NEW a \in AnyAddress
    PROVE  /\ Ask(k, n, q, m, a) \in Request
           /\ Ask(k, n, q, m, a).kind = k
           /\ Ask(k, n, q, m, a).screen = n
           /\ Ask(k, n, q, m, a).method = m
           /\ Ask(k, n, q, m, a).address = a
           /\ Ask(k, n, q, m, a).res = "sent"
BY DEF Ask, Request, AllFaults

LEMMA Nothing == NoRequest \in Request /\ NoRequest.kind = "free"
<1>1. 0 \in Nat /\ NoMethod \in AnyMethod /\ NoAddress \in AnyAddress
  BY DEF AnyMethod, AnyAddress
<1> QED
  BY <1>1, Asked DEF NoRequest

\* The state of a new payment screen.
LEMMA NewScreen ==
    ASSUME NEW m \in AnyMethod
    PROVE  /\ PaymentNotifier(m) \in Screen
           /\ PaymentNotifier(m).method = m
           /\ PaymentNotifier(m).address = NoAddress
           /\ PaymentNotifier(m).listed = 0
           /\ PaymentNotifier(m).isLoading
BY DEF PaymentNotifier, Screen, AnyAddress

LEMMA TypeInit == Init => TypeOK
<1> SUFFICES ASSUME Init PROVE TypeOK
  OBVIOUS
<1>1. NoMethod \in AnyMethod /\ NoAddress \in AnyAddress
  BY DEF AnyMethod, AnyAddress
<1>2. [PaymentNotifier(NoMethod) EXCEPT !.isLoading = FALSE] \in Screen
  BY <1>1 DEF PaymentNotifier, Screen
<1>3. opened \in 0..MaxScreens
  BY CheckoutAssumption DEF Init, CheckoutAssumption
<1> QED
  BY <1>1, <1>2, <1>3, Nothing
     DEF Init, TypeOK, Route, CartOnly, Server, Done

LEMMA TypeCustomer ==
    ASSUME TypeOK,
           \/ LeavePayment
           \/ OpenAddresses
           \/ \E a \in AnyAddress : ChangeDefault(a)
           \/ LeaveWebView
           \/ CallbackLoaded
    PROVE  TypeOK'
<1>1. CASE LeavePayment
  BY <1>1 DEF LeavePayment, Tap, TypeOK, CartOnly, Route
<1>2. CASE OpenAddresses
  <2>1. route' \in Route
    BY <1>2 DEF OpenAddresses, TypeOK, Route
  <2> QED
    BY <1>2, <2>1 DEF OpenAddresses, Tap, TypeOK
<1>3. ASSUME NEW a \in AnyAddress, ChangeDefault(a) PROVE TypeOK'
  BY <1>3 DEF ChangeDefault, Tap, TypeOK
<1>4. CASE LeaveWebView
  <2>1. route' \in Route
    BY <1>4 DEF LeaveWebView, Top, TypeOK, Route
  <2> QED
    BY <1>4, <2>1 DEF LeaveWebView, Tap, TypeOK
<1>5. CASE CallbackLoaded
  <2>1. route' \in Route
    BY <1>5 DEF CallbackLoaded, TypeOK, Route
  <2> QED
    BY <1>5, <2>1 DEF CallbackLoaded, Tap, TypeOK
<1> QED
  BY <1>1, <1>2, <1>3, <1>4, <1>5

LEMMA TypeProceed ==
    ASSUME TypeOK, NEW m \in AnyMethod, ProceedToCheckout(m)
    PROVE  TypeOK'
<1>1. NoMethod \in AnyMethod /\ NoAddress \in AnyAddress
  BY DEF AnyMethod, AnyAddress
<1>2. opened + 1 \in Screens /\ opened + 1 \in Nat /\ opened' \in 0..MaxScreens
  BY CheckoutAssumption
     DEF ProceedToCheckout, TypeOK, Screens, CheckoutAssumption
<1>3. Ask("profile", opened + 1, 0, NoMethod, NoAddress) \in Request
  BY <1>1, <1>2, Asked DEF Kinds, Awaited
<1>4. req' \in [Slots -> Request]
  BY <1>3 DEF ProceedToCheckout, TypeOK, Free
<1>5. scr' \in [Screens -> Screen]
  BY <1>2, NewScreen DEF ProceedToCheckout, TypeOK
<1>6. route' \in Route
  BY DEF ProceedToCheckout, TypeOK, Route
<1> QED
  BY <1>2, <1>4, <1>5, <1>6 DEF ProceedToCheckout, TypeOK

LEMMA TypeEstimate ==
    ASSUME TypeOK, NEW c \in BOOLEAN, EstimateAnswered(c)
    PROVE  TypeOK'
<1>1. ASSUME NEW n \in Screens
      PROVE  /\ [scr[n] EXCEPT !.method = NoMethod] \in Screen
             /\ [scr[n] EXCEPT !.shared = FALSE] \in Screen
  BY <1>1 DEF TypeOK, Screen, AnyMethod
<1>2. scr' \in [Screens -> Screen]
  BY <1>1 DEF EstimateAnswered, TypeOK
<1> QED
  BY <1>2 DEF EstimateAnswered, Tap, TypeOK

LEMMA TypeChoose ==
    ASSUME TypeOK, NEW i \in 0..1, _onClickRadioPaymentMethod(i)
    PROVE  TypeOK'
<1>1. [scr[opened] EXCEPT !.chosen = i] \in Screen \/ opened \notin Screens
  BY DEF TypeOK, Screen
<1>2. scr' = [scr EXCEPT ![opened] = [scr[opened] EXCEPT !.chosen = i]]
  BY DEF _onClickRadioPaymentMethod
<1>3. scr' \in [Screens -> Screen]
  BY <1>1, <1>2 DEF TypeOK
<1> QED
  BY <1>3 DEF _onClickRadioPaymentMethod, Tap, TypeOK

\* A screen under its spinner.
LEMMA Spinning ==
    ASSUME TypeOK, NEW n \in Screens
    PROVE  [scr EXCEPT ![n].isLoading = TRUE] \in [Screens -> Screen]
<1>1. scr \in [Screens -> Screen] /\ scr[n] \in Screen
  BY DEF TypeOK
<1>2. [scr[n] EXCEPT !.isLoading = TRUE] \in Screen
  BY <1>1 DEF Screen
<1> QED
  BY <1>1, <1>2

\* A payment screen that is open is one of the screens.
LEMMA TypeAsk ==
    ASSUME TypeOK, route.payment => opened >= 1,
           LeaveAddresses \/ _onClickButtonPayNow \/ ContinueShopping,
           route.address => route.payment
    PROVE  TypeOK'
<1>1. NoMethod \in AnyMethod /\ NoAddress \in AnyAddress /\ opened \in Nat
  BY DEF AnyMethod, AnyAddress, TypeOK
<1>2. CASE LeaveAddresses
  <2>1. opened \in Screens
    BY <1>2, CheckoutAssumption
       DEF LeaveAddresses, Top, TypeOK, Screens, CheckoutAssumption
  <2>2. Ask("profile", opened, 0, NoMethod, NoAddress) \in Request
    BY <1>1, Asked DEF Kinds, Awaited
  <2>3. req' \in [Slots -> Request]
    BY <1>2, <2>2 DEF LeaveAddresses, TypeOK, Free
  <2>4. scr' \in [Screens -> Screen]
    BY <1>2, <2>1, Spinning DEF LeaveAddresses
  <2>5. route' \in Route
    BY <1>2 DEF LeaveAddresses, TypeOK, Route
  <2> QED
    BY <1>2, <2>3, <2>4, <2>5 DEF LeaveAddresses, Tap, TypeOK
<1>3. CASE _onClickButtonPayNow
  <2>1. opened \in Screens
    BY <1>3, CheckoutAssumption
       DEF _onClickButtonPayNow, Tappable, Top, TypeOK, Screens,
           CheckoutAssumption
  <2>2. scr[opened].method \in AnyMethod /\ scr[opened].address \in AnyAddress
    BY <2>1 DEF TypeOK, Screen
  <2>3. Ask(IF scr[opened].chosen = 0 THEN "gateway" ELSE "pay", opened,
            quoteId, scr[opened].method, scr[opened].address) \in Request
    BY <1>1, <2>2, Asked DEF Kinds, Awaited, TypeOK
  <2>4. req' \in [Slots -> Request]
    BY <1>3, <2>3 DEF _onClickButtonPayNow, TypeOK, Free
  <2>5. scr' \in [Screens -> Screen]
    BY <1>3, <2>1, Spinning DEF _onClickButtonPayNow
  <2> QED
    BY <1>3, <2>4, <2>5 DEF _onClickButtonPayNow, Tap, TypeOK
<1>4. CASE ContinueShopping
  <2>1. Ask("quote", opened, 0, NoMethod, NoAddress) \in Request
    BY <1>1, Asked DEF Kinds
  <2>2. req' \in [Slots -> Request]
    BY <1>4, <2>1 DEF ContinueShopping, TypeOK, Free
  <2> QED
    BY <1>4, <2>2 DEF ContinueShopping, Tap, TypeOK
<1> QED
  BY <1>2, <1>3, <1>4

\* What the server and the network do: to a request, to the cart and to the
\* histories.
LEMMA TypeServe ==
    ASSUME TypeOK, NEW s \in Slots, Serve(s),
           req[s].kind \in Awaited => req[s].screen \in Screens
    PROVE  TypeOK'
<1> DEFINE r == req[s]
<1>1. r \in Request /\ srv \in Server /\ default \in AnyAddress
  BY DEF TypeOK
<1>2. NoMethod \in AnyMethod /\ NoAddress \in AnyAddress
  BY DEF AnyMethod, AnyAddress
<1>3. SUFFICES /\ req' \in [Slots -> Request] /\ srv' \in Server
               /\ orders' \subseteq Order /\ done' \in [Screens -> Done]
  BY DEF Serve, TypeOK
<1>4. orders \subseteq Order /\ done \in [Screens -> Done]
        /\ req \in [Slots -> Request]
  BY DEF TypeOK
<1>5. CASE ServeProfile(s)
  <2>1. [r EXCEPT !.res = "ok", !.address = default] \in Request
    BY <1>1 DEF Request
  <2> QED
    BY <1>1, <1>4, <1>5, <2>1 DEF ServeProfile, Answer
<1>6. CASE ServeShipping(s)
  <2>1. r.screen \in Screens
    BY <1>6 DEF ServeShipping, Awaited
  <2>2. CASE r.quote = srv.quote /\ srv.active /\ r.method # NoMethod
    <3>1. PICK k \in 0..2 : Answer(s, [r EXCEPT !.res = "ok", !.count = k])
      BY <1>6, <2>2 DEF ServeShipping
    <3>0. k \in Nat
      BY <3>1
    <3>2. [r EXCEPT !.res = "ok", !.count = k] \in Request
      BY <1>1, <3>0 DEF Request
    <3>3. req' \in [Slots -> Request]
      BY <1>4, <3>1, <3>2 DEF Answer
    <3>4. srv' \in Server
      BY <1>1, <1>6, <2>2 DEF ServeShipping, Server, Request
    <3>5. \A m \in Screens : Took(r.screen)[m] \in Done
      BY <1>4 DEF Took, Done
    <3>6. Took(r.screen) \in [Screens -> Done]
      BY <3>5 DEF Took
    <3> QED
      BY <1>4, <1>6, <2>2, <3>3, <3>4, <3>6 DEF ServeShipping
  <2>3. CASE ~(r.quote = srv.quote /\ srv.active /\ r.method # NoMethod)
    <3>1. [r EXCEPT !.res = "null"] \in Request
      BY <1>1 DEF Request, AllFaults
    <3>2. Refused(r) \in [Screens -> Done]
      BY <1>4, <2>1 DEF Refused, Done
    <3> QED
      BY <1>1, <1>4, <1>6, <2>3, <3>1, <3>2 DEF ServeShipping, Answer
  <2> QED
    BY <2>2, <2>3
<1>7. CASE ServePayment(s)
  <2>1. r.screen \in Screens
    BY <1>7 DEF ServePayment, Awaited
  <2>2. CASE r.quote = srv.quote /\ srv.active /\ srv.method # NoMethod
    <3>1. [r EXCEPT !.res = "ok"] \in Request
      BY <1>1 DEF Request
    <3>2. srv' \in Server
      BY <1>1, <1>7, <2>2 DEF ServePayment, Server
    <3>3. [method |-> r.method, address |-> r.address,
           toMethod |-> srv.method, toAddress |-> srv.address,
           of |-> done[r.screen]] \in Order
      BY <1>1, <1>4, <2>1 DEF Order, Request, Server
    <3> QED
      BY <1>4, <1>7, <2>2, <3>1, <3>2, <3>3 DEF ServePayment, Answer
  <2>3. CASE ~(r.quote = srv.quote /\ srv.active /\ srv.method # NoMethod)
    <3>1. [r EXCEPT !.res = "message"] \in Request
      BY <1>1 DEF Request, AllFaults
    <3> QED
      BY <1>1, <1>4, <1>7, <2>3, <3>1 DEF ServePayment, Answer
  <2> QED
    BY <2>2, <2>3
<1>8. CASE ServeQuote(s)
  <2>1. srv' \in Server
    BY <1>1, <1>2, <1>8 DEF ServeQuote, Server
  <2>2. srv'.quote \in Nat
    BY <2>1 DEF Server
  <2>3. [r EXCEPT !.res = "ok", !.quote = srv'.quote] \in Request
    BY <1>1, <2>2 DEF Request
  <2> QED
    BY <1>4, <1>8, <2>1, <2>3 DEF ServeQuote, Answer
<1>9. CASE ServeRegistration(s)
  <2>1. [r EXCEPT !.res = "ok"] \in Request
    BY <1>1 DEF Request
  <2> QED
    BY <1>1, <1>4, <1>9, <2>1 DEF ServeRegistration, Answer
<1> QED
  BY <1>5, <1>6, <1>7, <1>8, <1>9 DEF Serve

LEMMA TypeFault ==
    ASSUME TypeOK, NEW s \in Slots, Fault(s),
           req[s].kind \in Awaited => req[s].screen \in Screens
    PROVE  TypeOK'
<1>1. PICK f \in Faults : req' = [req EXCEPT ![s] = [req[s] EXCEPT !.res = f]]
  BY DEF Fault, Answer
<1>2. [req[s] EXCEPT !.res = f] \in Request
  BY CheckoutAssumption DEF TypeOK, Request, CheckoutAssumption
<1>3. req' \in [Slots -> Request]
  BY <1>1, <1>2 DEF TypeOK
<1>4. done' \in [Screens -> Done]
  BY DEF Fault, Refused, TypeOK, Done, Awaited
<1> QED
  BY <1>3, <1>4 DEF Fault, TypeOK

\* What the answers do to their screen.
LEMMA TypeReply ==
    ASSUME TypeOK, NEW s \in Slots, Reply(s),
           req[s].kind \in Awaited => req[s].screen \in Screens
    PROVE  TypeOK'
<1> DEFINE r == req[s]
           n == r.screen
<1>1. r \in Request /\ n \in Nat /\ quoteId \in Nat /\ route \in Route
        /\ scr \in [Screens -> Screen] /\ req \in [Slots -> Request]
  BY DEF TypeOK, Request
<1>2. NoMethod \in AnyMethod /\ NoAddress \in AnyAddress
        /\ NoRequest \in Request
  BY Nothing DEF AnyMethod, AnyAddress
<1>3. SUFFICES /\ req' \in [Slots -> Request] /\ scr' \in [Screens -> Screen]
               /\ route' \in Route /\ quoteId' \in Nat
  BY DEF Reply, TypeOK
<1>4. CASE ProfileReply(s)
  <2> DEFINE a == IF r.res = "ok" THEN r.address ELSE NoAddress
             x == scr[n]
  <2>1. n \in Screens /\ a \in AnyAddress
    BY <1>1, <1>2, <1>4 DEF ProfileReply, Awaited, Request
  <2>2. x \in Screen /\ x.method \in AnyMethod
    BY <1>1, <2>1 DEF Screen
  <2>3. SetsShipping(n, a) \in BOOLEAN
    BY DEF SetsShipping
  <2>4. Ask("setship", n, quoteId, x.method, a) \in Request
    BY <1>1, <2>1, <2>2, Asked DEF Kinds, Awaited
  <2>5. req' \in [Slots -> Request]
    BY <1>1, <1>2, <1>4, <2>4 DEF ProfileReply, Answer
  <2>6. scr' \in [Screens -> Screen]
    <3>1. [x EXCEPT !.address = a, !.isLoading = SetsShipping(n, a)] \in Screen
      BY <2>1, <2>2, <2>3 DEF Screen
    <3>2. scr' = [scr EXCEPT ![n] = [x EXCEPT !.address = a,
                                              !.isLoading = SetsShipping(n, a)]]
      BY <1>1, <1>4, <2>1 DEF ProfileReply
    <3> QED
      BY <1>1, <3>1, <3>2
  <2> QED
    BY <1>1, <1>4, <2>5, <2>6 DEF ProfileReply
<1>5. CASE SetShippingReply(s)
  <2> DEFINE x == scr[n]
             l == ListedAfter(r, x.listed)
             thrown == (x.threw \/ r.res \in {"message", "failed"})
             y == [x EXCEPT !.isLoading = LoadingAfterSet(r), !.threw = thrown,
                            !.listed = l]
  <2>1. n \in Screens /\ x \in Screen
    BY <1>1, <1>5 DEF SetShippingReply, Awaited
  <2>2. l \in Nat /\ LoadingAfterSet(r) \in BOOLEAN
    BY <1>1, <2>1 DEF ListedAfter, LoadingAfterSet, Request, Screen
  <2>3. thrown \in BOOLEAN
    OBVIOUS
  <2> HIDE DEF l, thrown
  <2>4. y \in Screen
    BY <2>1, <2>2, <2>3 DEF Screen
  <2>5. scr' = [scr EXCEPT ![n] = y]
    BY <1>1, <1>5, <2>1 DEF SetShippingReply, l, thrown
  <2>6. scr' \in [Screens -> Screen]
    BY <1>1, <2>4, <2>5
  <2>7. req' \in [Slots -> Request]
    BY <1>1, <1>2, <1>5 DEF SetShippingReply, Answer
  <2> QED
    BY <1>1, <1>5, <2>6, <2>7 DEF SetShippingReply
<1>6. CASE PaymentReply(s)
  <2> DEFINE x == scr[n]
             thrown == (x.threw \/ r.res = "failed")
             y == [x EXCEPT !.isLoading = (r.res = "failed"), !.threw = thrown]
  <2>1. n \in Screens /\ x \in Screen
    BY <1>1, <1>6 DEF PaymentReply, Awaited
  <2>2. y \in Screen
    BY <2>1 DEF Screen
  <2>3. scr' = [scr EXCEPT ![n] = y]
    BY <1>1, <1>6, <2>1 DEF PaymentReply
  <2>4. scr' \in [Screens -> Screen]
    BY <1>1, <2>2, <2>3
  <2>5. route' \in Route
    BY <1>1, <1>6 DEF PaymentReply, Route
  <2>6. Ask("register", n, 0, NoMethod, NoAddress) \in Request
    BY <1>1, <1>2, Asked DEF Kinds
  <2>7. req' \in [Slots -> Request]
    BY <1>1, <1>2, <1>6, <2>6 DEF PaymentReply, Answer
  <2> QED
    BY <1>1, <1>6, <2>4, <2>5, <2>7 DEF PaymentReply
<1>7. CASE RegistrationReply(s)
  <2>1. route' \in Route
    BY <1>1, <1>7 DEF RegistrationReply, Route
  <2> QED
    BY <1>1, <1>2, <1>7, <2>1 DEF RegistrationReply, Answer
<1>8. CASE QuoteReply(s)
  <2>1. ASSUME NEW m \in Screens
        PROVE  [scr[m] EXCEPT !.shared = FALSE] \in Screen
    BY <1>1 DEF Screen
  <2>2. scr' \in [Screens -> Screen]
    BY <1>1, <1>8, <2>1 DEF QuoteReply
  <2>3. route' \in Route
    <3>1. CartOnly \in Route
      BY DEF CartOnly, Route
    <3>2. route' = CartOnly \/ route' = route
      BY <1>8 DEF QuoteReply
    <3> QED
      BY <1>1, <3>1, <3>2
  <2>4. quoteId' \in Nat
    BY <1>1, <1>8 DEF QuoteReply, Request
  <2> QED
    BY <1>1, <1>2, <1>8, <2>2, <2>3, <2>4 DEF QuoteReply, Answer
<1> QED
  BY <1>4, <1>5, <1>6, <1>7, <1>8 DEF Reply

----------------------------------------------------------------------------
(* One request at a time *)

\* Request s is one that screen n awaits.
Pending(s, n) == req[s].kind \in Awaited /\ req[s].screen = n

\* The address screen lies on a payment screen that is not loading.
Routes ==
    /\ route.payment => opened >= 1
    /\ route.address => route.payment /\ ~scr[opened].isLoading

\* Only screens that were opened await anything.
FromOpened == \A s \in Slots : req[s].kind \in Awaited => req[s].screen \in 1..opened

Serial == TypeOK /\ Routes /\ FromOpened /\ OneAtATime /\ SpinnerHasOwner

LEMMA OpenedScreens ==
    ASSUME TypeOK
    PROVE  1..opened \subseteq Screens /\ opened \in Nat
BY CheckoutAssumption DEF TypeOK, Screens, CheckoutAssumption

\* A step that leaves alone what is awaited and the spinners.
LEMMA Quiet ==
    ASSUME Serial,
           \A s \in Slots, n \in Nat : Pending(s, n)' <=> Pending(s, n),
           \A s \in Slots : req'[s].screen \in Nat,
           \A n \in Screens : /\ scr'[n].isLoading = scr[n].isLoading
                              /\ scr'[n].threw = scr[n].threw,
           opened' = opened
    PROVE  FromOpened' /\ OneAtATime' /\ SpinnerHasOwner'
<1>1. FromOpened'
  BY OpenedScreens DEF Serial, FromOpened, Pending, TypeOK, Request
<1>2. OneAtATime'
  BY <1>1, OpenedScreens DEF Serial, OneAtATime, FromOpened, Pending
<1>3. SpinnerHasOwner'
  BY OpenedScreens DEF Serial, SpinnerHasOwner, Pending, Screens
<1> QED
  BY <1>1, <1>2, <1>3

\* A step in the life of request s of screen n, which has no other: it is sent,
\* replaced by the next, or ended.
LEMMA Turn ==
    ASSUME Serial,
           NEW s \in Slots, NEW n \in Screens,
           \A t \in Slots : t # s => req'[t] = req[t] /\ ~Pending(t, n),
           Pending(s, n) \/ req[s].kind \notin Awaited,
           Pending(s, n)' \/ req'[s].kind \notin Awaited,
           \A m \in Screens : m # n => scr'[m] = scr[m],
           Pending(s, n)' => scr'[n].isLoading,
           scr'[n].isLoading /\ ~scr'[n].threw => Pending(s, n)',
           opened' \in Nat, opened' >= opened, n <= opened'
    PROVE  FromOpened' /\ OneAtATime' /\ SpinnerHasOwner'
<1>1. FromOpened'
  BY OpenedScreens DEF Serial, FromOpened, Pending, Screens
<1>2. OneAtATime'
  <2> SUFFICES ASSUME NEW u \in Slots, NEW v \in Slots,
                      req'[u].kind \in Awaited
               PROVE  /\ scr'[req'[u].screen].isLoading
                      /\ (req'[v].kind \in Awaited
                             /\ req'[v].screen = req'[u].screen => u = v)
    BY DEF OneAtATime
  <2>1. CASE u = s
    BY <2>1 DEF Pending
  <2>2. CASE u # s
    <3>1. req[u].kind \in Awaited /\ req[u].screen \in Screens
      BY <2>2, OpenedScreens DEF Serial, FromOpened
    <3>2. req[u].screen # n
      BY <2>2, <3>1 DEF Pending
    <3> QED
      BY <2>2, <3>1, <3>2 DEF Serial, OneAtATime, Pending
  <2> QED
    BY <2>1, <2>2
<1>3. SpinnerHasOwner'
  <2> SUFFICES ASSUME NEW m \in Screens, scr'[m].isLoading, ~scr'[m].threw
               PROVE  \E u \in Slots : req'[u].kind \in Awaited
                                         /\ req'[u].screen = m
    BY DEF SpinnerHasOwner, Screens
  <2>1. CASE m = n
    BY <2>1 DEF Pending
  <2>2. CASE m # n
    <3>1. PICK u \in Slots : req[u].kind \in Awaited /\ req[u].screen = m
      BY <2>2 DEF Serial, SpinnerHasOwner
    <3>2. u # s
      BY <2>2, <3>1 DEF Pending
    <3> QED
      BY <3>1, <3>2
  <2> QED
    BY <2>1, <2>2
<1> QED
  BY <1>1, <1>2, <1>3

LEMMA SerialInit == Init => Serial
<1> SUFFICES ASSUME Init PROVE Serial
  OBVIOUS
<1>1. TypeOK
  BY TypeInit
<1>2. \A s \in Slots : req[s].kind \notin Awaited
  BY DEF Init, NoRequest, Ask, Awaited
<1>3. \A n \in Screens : ~scr[n].isLoading
  BY DEF Init, PaymentNotifier
<1>4. Routes
  BY DEF Init, Routes, CartOnly
<1> QED
  BY <1>1, <1>2, <1>3, <1>4
     DEF Serial, FromOpened, OneAtATime, SpinnerHasOwner

\* The customer's steps that send nothing.
LEMMA SerialCustomer ==
    ASSUME Serial,
           \/ LeavePayment
           \/ \E c \in BOOLEAN : EstimateAnswered(c)
           \/ OpenAddresses
           \/ \E a \in AnyAddress : ChangeDefault(a)
           \/ \E i \in 0..1 : _onClickRadioPaymentMethod(i)
           \/ LeaveWebView \/ CallbackLoaded
    PROVE  Serial'
<1>1. TypeOK'
  BY TypeCustomer, TypeEstimate, TypeChoose DEF Serial
<1>2. req' = req /\ opened' = opened
  BY DEF LeavePayment, EstimateAnswered, OpenAddresses, ChangeDefault,
         _onClickRadioPaymentMethod, LeaveWebView, CallbackLoaded
<1>3. \A n \in Screens : /\ scr'[n].isLoading = scr[n].isLoading
                         /\ scr'[n].threw = scr[n].threw
  <2> SUFFICES ASSUME NEW n \in Screens
               PROVE  /\ scr'[n].isLoading = scr[n].isLoading
                      /\ scr'[n].threw = scr[n].threw
    OBVIOUS
  <2>1. scr \in [Screens -> Screen] /\ scr[n] \in Screen
    BY DEF Serial, TypeOK
  <2>2. ASSUME NEW c \in BOOLEAN, EstimateAnswered(c)
        PROVE  scr'[n].isLoading = scr[n].isLoading /\ scr'[n].threw = scr[n].threw
    BY <2>1, <2>2 DEF EstimateAnswered, Screen
  <2>3. ASSUME NEW i \in 0..1, _onClickRadioPaymentMethod(i)
        PROVE  scr'[n].isLoading = scr[n].isLoading /\ scr'[n].threw = scr[n].threw
    BY <2>1, <2>3 DEF _onClickRadioPaymentMethod, Screen
  <2> QED
    BY <2>2, <2>3 DEF LeavePayment, OpenAddresses, ChangeDefault, LeaveWebView,
                      CallbackLoaded
<1>4. Routes'
  <2>1. route \in Route /\ opened \in Nat /\ Routes
    BY OpenedScreens DEF Serial, TypeOK
  <2>2. (route'.payment => route.payment) /\ (route'.address => route'.payment)
    BY <2>1 DEF LeavePayment, EstimateAnswered, OpenAddresses, ChangeDefault, Top,
         _onClickRadioPaymentMethod, LeaveWebView, CallbackLoaded, CartOnly,
         Route, Routes, Tappable
  <2>3. route'.address => ~scr[opened].isLoading
    BY <2>1 DEF LeavePayment, EstimateAnswered, OpenAddresses, ChangeDefault, Top,
         _onClickRadioPaymentMethod, LeaveWebView, CallbackLoaded, CartOnly,
         Route, Routes, Tappable
  <2>4. route'.address => opened \in Screens
    BY <2>1, <2>2, CheckoutAssumption
       DEF Routes, Screens, Serial, TypeOK, CheckoutAssumption
  <2> QED
    BY <1>2, <1>3, <2>1, <2>2, <2>3, <2>4 DEF Routes
<1>5. \A s \in Slots : req'[s].screen \in Nat
  BY <1>2 DEF Serial, TypeOK, Request
<1> QED
  BY <1>1, <1>2, <1>3, <1>4, <1>5, Quiet DEF Serial, Pending

LEMMA SerialProceed ==
    ASSUME Serial, NEW m \in AnyMethod, ProceedToCheckout(m)
    PROVE  Serial'
<1>1. TypeOK'
  BY TypeProceed DEF Serial
<1>2. opened + 1 \in Screens /\ opened \in Nat /\ opened' = opened + 1
        /\ route \in Route
        /\ scr \in [Screens -> Screen] /\ req \in [Slots -> Request]
  BY CheckoutAssumption, OpenedScreens
     DEF ProceedToCheckout, Serial, TypeOK, Screens, CheckoutAssumption
<1>3. PICK n \in Screens : n = opened + 1
  BY <1>2
<1>4. PICK s \in Free :
          req' = [req EXCEPT ![s] = Ask("profile", n, 0, NoMethod, NoAddress)]
  BY <1>3 DEF ProceedToCheckout
<1>5. s \in Slots /\ req[s].kind \notin Awaited
  BY DEF Free, Awaited
<1>6. Pending(s, n)'
  BY <1>2, <1>4, <1>5 DEF Pending, Ask, Awaited
<1>7. \A t \in Slots : t # s => req'[t] = req[t] /\ ~Pending(t, n)
  BY <1>2, <1>3, <1>4 DEF Serial, FromOpened, Pending
<1>8. scr'[n].isLoading /\ (\A k \in Screens : k # n => scr'[k] = scr[k])
  BY <1>2, <1>3, NewScreen DEF ProceedToCheckout
<1>9. Routes'
  BY <1>2 DEF ProceedToCheckout, Routes, Route, Top
<1>10. opened' \in Nat /\ opened' >= opened /\ n <= opened'
  BY <1>2, <1>3
<1> QED
  BY <1>1, <1>5, <1>6, <1>7, <1>8, <1>9, <1>10, Turn DEF Serial

\* Back from the addresses, and Pay now.
LEMMA SerialAsk ==
    ASSUME Serial, LeaveAddresses \/ _onClickButtonPayNow
    PROVE  Serial'
<1>1. TypeOK'
  BY TypeAsk DEF Serial, Routes
<1>2. opened \in Screens /\ opened \in Nat /\ ~scr[opened].isLoading
        /\ opened' = opened
  BY CheckoutAssumption, OpenedScreens
     DEF LeaveAddresses, _onClickButtonPayNow, Tappable, Top, Serial, Routes,
         TypeOK, Screens, CheckoutAssumption
<1>3. scr \in [Screens -> Screen] /\ req \in [Slots -> Request] /\ route \in Route
        /\ scr[opened] \in Screen
  BY <1>2 DEF Serial, TypeOK
<1>4. PICK n \in Screens : n = opened
  BY <1>2
<1>5. \E s \in Free : /\ req'[s].kind \in Awaited /\ req'[s].screen = n
                      /\ \A t \in Slots : t # s => req'[t] = req[t]
  <2>1. CASE LeaveAddresses
    BY <1>3, <1>4, <2>1 DEF LeaveAddresses, Awaited, Ask, Free
  <2>2. CASE _onClickButtonPayNow
    <3>1. PICK s \in Free : req' = [req EXCEPT ![s] =
              Ask(IF scr[opened].chosen = 0 THEN "gateway" ELSE "pay", opened,
                  quoteId, scr[opened].method, scr[opened].address)]
      BY <2>2 DEF _onClickButtonPayNow
    <3> QED
      BY <1>3, <1>4, <3>1 DEF Awaited, Ask, Free
  <2> QED
    BY <2>1, <2>2
<1>6. PICK s \in Free : /\ req'[s].kind \in Awaited /\ req'[s].screen = n
                       /\ \A t \in Slots : t # s => req'[t] = req[t]
  BY <1>5
<1>7. s \in Slots /\ req[s].kind \notin Awaited /\ Pending(s, n)'
  BY <1>6 DEF Free, Awaited, Pending
<1>8. \A t \in Slots : ~Pending(t, n)
  BY <1>2, <1>4 DEF Serial, OneAtATime, Pending
<1>9. scr'[n].isLoading /\ (\A k \in Screens : k # n => scr'[k] = scr[k])
  BY <1>2, <1>3, <1>4 DEF LeaveAddresses, _onClickButtonPayNow, Screen
<1>10. Routes'
  BY <1>2, <1>3 DEF LeaveAddresses, _onClickButtonPayNow, Routes, Route, Top,
                   Tappable, Serial
<1>11. opened' \in Nat /\ opened' >= opened /\ n <= opened'
  BY <1>2, <1>4
<1> QED
  BY <1>1, <1>6, <1>7, <1>8, <1>9, <1>10, <1>11, Turn DEF Serial

LEMMA SerialContinue ==
    ASSUME Serial, ContinueShopping
    PROVE  Serial'
<1>1. TypeOK'
  BY TypeAsk DEF Serial, Routes
<1>2. PICK s \in Free :
          req' = [req EXCEPT ![s] = Ask("quote", opened, 0, NoMethod, NoAddress)]
  BY DEF ContinueShopping
<1>3. req \in [Slots -> Request] /\ scr' = scr /\ opened' = opened /\ route' = route
  BY DEF ContinueShopping, Serial, TypeOK
<1>4. \A t \in Slots, n \in Nat : Pending(t, n)' <=> Pending(t, n)
  BY <1>2, <1>3 DEF Pending, Free, Awaited, Ask
<1>5. \A t \in Slots : req'[t].screen \in Nat
  BY <1>1 DEF TypeOK, Request
<1> QED
  BY <1>1, <1>3, <1>4, <1>5, Quiet DEF Serial, Routes

\* Serving a request, or failing to, changes neither its kind nor its screen.
LEMMA SameRequest ==
    ASSUME TypeOK, NEW s \in Slots, Serve(s) \/ Fault(s)
    PROVE  /\ \A t \in Slots : t # s => req'[t] = req[t]
           /\ req'[s].kind = req[s].kind /\ req'[s].screen = req[s].screen
           /\ req'[s].method = req[s].method
           /\ req[s].kind # "profile" => req'[s].address = req[s].address
<1>1. req \in [Slots -> Request] /\ req[s] \in Request
  BY DEF TypeOK
<1>2. CASE Fault(s)
  BY <1>1, <1>2 DEF Fault, Answer, Request
<1>3. CASE ServeProfile(s)
  BY <1>1, <1>3 DEF ServeProfile, Answer, Request
<1>4. CASE ServeShipping(s)
  <2>1. \/ req' = [req EXCEPT ![s] = [req[s] EXCEPT !.res = "null"]]
        \/ \E k \in 0..2 : req' = [req EXCEPT ![s] =
                                [req[s] EXCEPT !.res = "ok", !.count = k]]
    BY <1>4 DEF ServeShipping, Answer
  <2>2. ASSUME NEW k \in 0..2, req' = [req EXCEPT ![s] =
                                [req[s] EXCEPT !.res = "ok", !.count = k]]
        PROVE  /\ \A t \in Slots : t # s => req'[t] = req[t]
               /\ req'[s].kind = req[s].kind /\ req'[s].screen = req[s].screen
               /\ req'[s].method = req[s].method
               /\ req'[s].address = req[s].address
    BY <1>1, <2>2 DEF Request
  <2>3. CASE req' = [req EXCEPT ![s] = [req[s] EXCEPT !.res = "null"]]
    BY <1>1, <2>3 DEF Request
  <2> QED
    BY <2>1, <2>2, <2>3
<1>5. CASE ServePayment(s)
  BY <1>1, <1>5 DEF ServePayment, Answer, Request
<1>6. CASE ServeQuote(s)
  BY <1>1, <1>6 DEF ServeQuote, Answer, Request
<1>7. CASE ServeRegistration(s)
  BY <1>1, <1>7 DEF ServeRegistration, Answer, Request
<1> QED
  BY <1>2, <1>3, <1>4, <1>5, <1>6, <1>7 DEF Serve

LEMMA SerialServe ==
    ASSUME Serial, NEW s \in Slots, Serve(s) \/ Fault(s)
    PROVE  Serial'
<1>1. \A t \in Slots : req[t].kind \in Awaited => req[t].screen \in Screens
  BY OpenedScreens DEF Serial, FromOpened
<1>2. TypeOK'
  BY <1>1, TypeServe, TypeFault DEF Serial
<1>3. \A t \in Slots, n \in Nat : Pending(t, n)' <=> Pending(t, n)
  BY SameRequest DEF Pending, Serial
<1>4. \A t \in Slots : req'[t].screen \in Nat
  BY <1>2 DEF TypeOK, Request
<1>5. scr' = scr /\ opened' = opened /\ route' = route
  BY DEF Serve, Fault
<1> QED
  BY <1>2, <1>3, <1>4, <1>5, Quiet DEF Serial, Routes

\* The handlers of the answers, which take the spinner down, or send the next
\* request under it, or throw.
LEMMA SerialReply ==
    ASSUME Serial, NEW s \in Slots, Reply(s)
    PROVE  Serial'
<1>1. \A t \in Slots : req[t].kind \in Awaited => req[t].screen \in Screens
  BY OpenedScreens DEF Serial, FromOpened
<1>2. TypeOK'
  BY <1>1, TypeReply DEF Serial
<1>3. req \in [Slots -> Request] /\ scr \in [Screens -> Screen] /\ route \in Route
        /\ opened \in Nat /\ opened' = opened
  BY OpenedScreens DEF Reply, Serial, TypeOK
<1>4. \A t \in Slots : t # s => req'[t] = req[t]
  BY <1>3 DEF Reply, Answer, ProfileReply, SetShippingReply, PaymentReply,
             RegistrationReply, QuoteReply
<1>5. ASSUME req[s].kind \in Awaited PROVE Serial'
  <2>1. PICK n \in Screens : n = req[s].screen
    BY <1>1, <1>5
  <2>2. Pending(s, n) /\ scr[n].isLoading /\ n <= opened
    BY <1>5, <2>1 DEF Pending, Serial, OneAtATime, FromOpened
  <2>3. \A t \in Slots : t # s => ~Pending(t, n)
    BY <1>5, <2>1 DEF Pending, Serial, OneAtATime
  <2>4. scr[n] \in Screen
    BY <1>3
  <2>5. /\ \A m \in Screens : m # n => scr'[m] = scr[m]
        /\ Pending(s, n)' \/ req'[s].kind \notin Awaited
        /\ Pending(s, n)' => scr'[n].isLoading
        /\ scr'[n].isLoading /\ ~scr'[n].threw => Pending(s, n)'
    <3>1. CASE ProfileReply(s)
      BY <1>3, <2>1, <2>4, <3>1, Nothing
         DEF ProfileReply, Answer, Ask, Awaited, Pending, Screen
    <3>2. CASE SetShippingReply(s)
      BY <1>3, <2>1, <2>4, <3>2, Nothing
         DEF SetShippingReply, Answer, Awaited, Pending, Screen, LoadingAfterSet
    <3>3. CASE PaymentReply(s)
      BY <1>3, <2>1, <2>4, <3>3, Nothing
         DEF PaymentReply, Answer, Ask, Awaited, Pending, Screen
    <3> QED
      BY <1>5, <3>1, <3>2, <3>3
         DEF Reply, RegistrationReply, QuoteReply, Awaited
  <2>6. FromOpened' /\ OneAtATime' /\ SpinnerHasOwner'
    BY <1>3, <1>4, <2>2, <2>3, <2>5, Turn
  <2>7. Routes'
    <3>1. CASE req[s].screen = opened /\ route.address
      BY <2>1, <2>2, <3>1 DEF Serial, Routes
    <3>2. CASE ~(req[s].screen = opened /\ route.address)
      <4>1. route'.payment = route.payment /\ route'.address = route.address
        BY <1>3, <1>5 DEF Reply, ProfileReply, SetShippingReply, PaymentReply,
                          RegistrationReply, QuoteReply, Route, Awaited
      <4>2. route.address => opened \in Screens
        BY OpenedScreens, <1>3 DEF Serial, Routes, Screens
      <4> QED
        BY <1>3, <2>1, <2>5, <3>2, <4>1, <4>2 DEF Serial, Routes
    <3> QED
      BY <3>1, <3>2
  <2> QED
    BY <1>2, <2>6, <2>7 DEF Serial
<1>6. ASSUME req[s].kind \notin Awaited PROVE Serial'
  <2>1. RegistrationReply(s) \/ QuoteReply(s)
    BY <1>6 DEF Reply, ProfileReply, SetShippingReply, PaymentReply, Awaited
  <2>2. req'[s] = NoRequest
    BY <1>3, <2>1 DEF RegistrationReply, QuoteReply, Answer
  <2>3. \A t \in Slots, n \in Nat : Pending(t, n)' <=> Pending(t, n)
    BY <1>4, <1>6, <2>2, Nothing DEF Pending, Awaited
  <2>4. \A t \in Slots : req'[t].screen \in Nat
    BY <1>2 DEF TypeOK, Request
  <2>5. ASSUME NEW n \in Screens
        PROVE  scr'[n].isLoading = scr[n].isLoading /\ scr'[n].threw = scr[n].threw
    <3>1. scr[n] \in Screen
      BY <1>3
    <3> QED
      BY <1>3, <2>1, <3>1 DEF RegistrationReply, QuoteReply, Screen
  <2>6. (route'.payment => route.payment)
          /\ (route'.address => route.address /\ route'.payment = route.payment)
    BY <1>3, <2>1 DEF RegistrationReply, QuoteReply, CartOnly, Route
  <2>7. route.address => opened \in Screens
    BY OpenedScreens, <1>3 DEF Serial, Routes, Screens
  <2>8. Routes'
    BY <1>3, <2>5, <2>6, <2>7 DEF Serial, Routes
  <2> QED
    BY <1>2, <1>3, <2>3, <2>4, <2>5, <2>8, Quiet DEF Serial
<1> QED
  BY <1>5, <1>6

LEMMA SerialNext == Serial /\ [Next]_vars => Serial'
<1> SUFFICES ASSUME Serial, [Next]_vars PROVE Serial'
  OBVIOUS
<1>1. CASE UNCHANGED vars
  BY <1>1 DEF vars, Serial, TypeOK, Routes, FromOpened, OneAtATime,
              SpinnerHasOwner, Free
<1>2. CASE Next
  <2>1. CASE \E m \in AnyMethod : ProceedToCheckout(m)
    BY <2>1, SerialProceed
  <2>2. CASE LeaveAddresses \/ _onClickButtonPayNow
    BY <2>2, SerialAsk
  <2>3. CASE ContinueShopping
    BY <2>3, SerialContinue
  <2>4. CASE \E s \in Slots : Serve(s) \/ Fault(s)
    BY <2>4, SerialServe
  <2>5. CASE \E s \in Slots : Reply(s)
    BY <2>5, SerialReply
  <2>6. CASE \/ LeavePayment
             \/ \E c \in BOOLEAN : EstimateAnswered(c)
             \/ OpenAddresses
             \/ \E a \in AnyAddress : ChangeDefault(a)
             \/ \E i \in 0..1 : _onClickRadioPaymentMethod(i)
             \/ LeaveWebView \/ CallbackLoaded
    BY <2>6, SerialCustomer
  <2> QED
    BY <1>2, <2>1, <2>2, <2>3, <2>4, <2>5, <2>6 DEF Next
<1> QED
  BY <1>1, <1>2

LEMMA AlwaysSerial == Spec => []Serial
BY SerialInit, SerialNext, PTL DEF Spec

\* Every state is one of the types of the model.
THEOREM TypeCorrect == Spec => []TypeOK
<1>1. Serial => TypeOK
  BY DEF Serial
<1> QED
  BY <1>1, AlwaysSerial, PTL

\* The requests of a payment screen are one at a time, however many screens are
\* left with theirs under way.
THEOREM ScreensSerialised == Spec => []OneAtATime
<1>1. Serial => OneAtATime
  BY DEF Serial
<1> QED
  BY <1>1, AlwaysSerial, PTL

\* No payment screen waits for nothing.
THEOREM SpinnersOwned == Spec => []SpinnerHasOwner
<1>1. Serial => SpinnerHasOwner
  BY DEF Serial
<1> QED
  BY <1>1, AlwaysSerial, PTL

----------------------------------------------------------------------------
(* Deliveries *)

\* Where a payment method is listed the server has taken a delivery of that
\* screen; so it has where a list of them is on its way, or a request to pay.
Taken ==
    /\ \A n \in Screens : scr[n].listed # 0 => done[n].taken
    /\ \A s \in Slots :
          \/ req[s].kind \in {"pay", "gateway"}
          \/ req[s].kind = "setship" /\ req[s].res = "ok"
          => done[req[s].screen].taken

\* The server has delivery <<m, a>>, or none.
Holds(m, a) ==
    srv.method = NoMethod \/ (srv.method = m /\ srv.address = a)

\* The delivery sent by a screen is on its way.
Sending(n) == \E s \in Slots :
    req[s].kind = "setship" /\ req[s].screen = n /\ req[s].res = "sent"

\* A screen whose last delivery was taken, and outdated by none, shows the one
\* the server has, unless it shows none any more or is sending another.
ShownHeld ==
    \A n \in Screens :
        /\ done[n].last = "set" /\ ~Sending(n)
        /\ scr[n].method # NoMethod /\ scr[n].address # NoAddress
        => Holds(scr[n].method, scr[n].address)

\* A delivery on its way is the one shown, unless none is any more.
SentAsShown ==
    \A s \in Slots :
        req[s].kind = "setship" /\ req[s].res = "sent" =>
            /\ req[s].address = scr[req[s].screen].address
            /\ scr[req[s].screen].method \in {req[s].method, NoMethod}

\* The server has the delivery that was shown when Pay now was tapped.
PaidHeld ==
    \A s \in Slots :
        /\ req[s].kind \in {"pay", "gateway"} /\ req[s].res = "sent"
        /\ done[req[s].screen].last = "set"
        => Holds(req[s].method, req[s].address)

\* A screen that was not opened has sent nothing.  One that may be paid on has
\* sent something.
Unopened ==
    \A n \in Screens : n > opened => done[n] = [taken |-> FALSE, last |-> "none"]
Something ==
    \A n \in Screens : done[n].taken => done[n].last # "none"

Delivery ==
    /\ Taken /\ ShownHeld /\ SentAsShown /\ PaidHeld /\ Unopened /\ Something
    /\ DeliverySetFirst /\ MisdeliveryExplained

\* The requests the invariant is about.
Ordering == {"setship", "pay", "gateway"}

LEMMA DeliveryInit == Init => Delivery
BY DEF Init, Delivery, Taken, ShownHeld, SentAsShown, PaidHeld, Unopened,
       Something, DeliverySetFirst, MisdeliveryExplained, PaymentNotifier,
       NoRequest, Ask, Screens

\* A step that touches no delivery, except that a screen may lose the method it
\* shows.
LEMMA Calm ==
    ASSUME Serial, Delivery,
           \A n \in Screens : /\ scr'[n].listed = scr[n].listed
                              /\ scr'[n].address = scr[n].address
                              /\ scr'[n].method \in {scr[n].method, NoMethod},
           \A s \in Slots : \/ req'[s] = req[s]
                            \/ /\ req[s].kind \notin Ordering
                               /\ req'[s].kind \notin Ordering,
           srv' = srv, done' = done, orders' = orders, opened' = opened
    PROVE  Delivery'
<1>1. \A s \in Slots : req[s].kind \in Ordering => req[s].screen \in Screens
  BY OpenedScreens DEF Serial, FromOpened, Ordering, Awaited
<1>2. Taken'
  BY DEF Delivery, Taken, Ordering
<1>3. \A n \in Screens : Sending(n)' <=> Sending(n)
  BY DEF Sending, Ordering
<1>4. ShownHeld'
  BY <1>3 DEF Delivery, ShownHeld, Holds
<1>5. SentAsShown'
  BY <1>1 DEF Delivery, SentAsShown, Ordering
<1>6. PaidHeld'
  BY DEF Delivery, PaidHeld, Holds, Ordering
<1> QED
  BY <1>2, <1>4, <1>5, <1>6
     DEF Delivery, Unopened, Something, DeliverySetFirst, MisdeliveryExplained

LEMMA DeliveryCalm ==
    ASSUME Serial, Delivery,
           \/ LeavePayment
           \/ \E c \in BOOLEAN : EstimateAnswered(c)
           \/ OpenAddresses \/ LeaveAddresses
           \/ \E a \in AnyAddress : ChangeDefault(a)
           \/ \E i \in 0..1 : _onClickRadioPaymentMethod(i)
           \/ LeaveWebView \/ CallbackLoaded \/ ContinueShopping
           \/ \E s \in Slots : RegistrationReply(s) \/ QuoteReply(s),
           UNCHANGED <<opened, srv, done, orders>>
    PROVE  Delivery'
<1>1. \A n \in Screens : scr[n] \in Screen
  BY DEF Serial, TypeOK
<1>2. scr \in [Screens -> Screen] /\ req \in [Slots -> Request]
  BY DEF Serial, TypeOK
<1>3. ASSUME NEW n \in Screens
      PROVE  /\ scr'[n].listed = scr[n].listed
             /\ scr'[n].address = scr[n].address
             /\ scr'[n].method \in {scr[n].method, NoMethod}
  <2>1. ASSUME NEW c \in BOOLEAN, EstimateAnswered(c)
        PROVE  /\ scr'[n].listed = scr[n].listed
               /\ scr'[n].address = scr[n].address
               /\ scr'[n].method \in {scr[n].method, NoMethod}
    BY <1>1, <2>1 DEF EstimateAnswered, Screen
  <2>2. ASSUME NEW i \in 0..1, _onClickRadioPaymentMethod(i)
        PROVE  /\ scr'[n].listed = scr[n].listed
               /\ scr'[n].address = scr[n].address
               /\ scr'[n].method \in {scr[n].method, NoMethod}
    BY <1>1, <1>2, <2>2 DEF _onClickRadioPaymentMethod, Screen
  <2>3. CASE LeaveAddresses
    BY <1>1, <1>2, <2>3 DEF LeaveAddresses, Screen
  <2>4. ASSUME NEW s \in Slots, RegistrationReply(s) \/ QuoteReply(s)
        PROVE  /\ scr'[n].listed = scr[n].listed
               /\ scr'[n].address = scr[n].address
               /\ scr'[n].method \in {scr[n].method, NoMethod}
    BY <1>1, <2>4 DEF RegistrationReply, QuoteReply, Screen
  <2> QED
    BY <2>1, <2>2, <2>3, <2>4
       DEF LeavePayment, OpenAddresses, ChangeDefault, LeaveWebView,
           CallbackLoaded, ContinueShopping
<1>4. ASSUME NEW s \in Slots
      PROVE  \/ req'[s] = req[s]
             \/ /\ req[s].kind \notin Ordering
                /\ req'[s].kind \notin Ordering
  <2>1. CASE LeaveAddresses
    BY <1>2, <2>1 DEF LeaveAddresses, Free, Ask, Ordering
  <2>2. CASE ContinueShopping
    BY <1>2, <2>2 DEF ContinueShopping, Free, Ask, Ordering
  <2>3. ASSUME NEW t \in Slots, RegistrationReply(t) \/ QuoteReply(t)
        PROVE  \/ req'[s] = req[s]
               \/ /\ req[s].kind \notin Ordering
                  /\ req'[s].kind \notin Ordering
    BY <1>2, <2>3, Nothing DEF RegistrationReply, QuoteReply, Answer, Ordering
  <2> QED
    BY <2>1, <2>2, <2>3
       DEF LeavePayment, EstimateAnswered, OpenAddresses, ChangeDefault,
           _onClickRadioPaymentMethod, LeaveWebView, CallbackLoaded
<1> QED
  BY <1>3, <1>4, Calm

LEMMA DeliveryProceed ==
    ASSUME Serial, Delivery, NEW m \in AnyMethod, ProceedToCheckout(m)
    PROVE  Delivery'
<1>1. opened + 1 \in Screens /\ opened \in Nat /\ opened' = opened + 1
        /\ scr \in [Screens -> Screen] /\ req \in [Slots -> Request]
        /\ UNCHANGED <<srv, done, orders>>
  BY CheckoutAssumption, OpenedScreens
     DEF ProceedToCheckout, Serial, TypeOK, Screens, CheckoutAssumption
<1>2. PICK s \in Free : req' = [req EXCEPT ![s] =
          Ask("profile", opened + 1, 0, NoMethod, NoAddress)]
  BY DEF ProceedToCheckout
<1>3. scr' = [scr EXCEPT ![opened + 1] = PaymentNotifier(m)]
  BY DEF ProceedToCheckout
<1>4. \A t \in Slots : \/ req'[t] = req[t]
                       \/ /\ req[t].kind \notin Ordering
                          /\ req'[t].kind \notin Ordering
  BY <1>1, <1>2 DEF Free, Ask, Ordering
<1>5. \A t \in Slots : req[t].kind \in Ordering
          => req[t].screen \in Screens /\ req[t].screen # opened + 1
  BY <1>1, OpenedScreens DEF Serial, FromOpened, Ordering, Awaited
<1>6. Taken'
  BY <1>1, <1>3, <1>4, NewScreen DEF Delivery, Taken, Ordering
<1>7. \A n \in Screens : Sending(n)' <=> Sending(n)
  BY <1>4 DEF Sending, Ordering
<1>8. ShownHeld'
  BY <1>1, <1>3, <1>7, NewScreen DEF Delivery, ShownHeld, Holds
<1>9. SentAsShown'
  BY <1>1, <1>3, <1>4, <1>5 DEF Delivery, SentAsShown, Ordering
<1>10. PaidHeld'
  BY <1>1, <1>4 DEF Delivery, PaidHeld, Holds, Ordering
<1>11. Unopened'
  BY <1>1 DEF Delivery, Unopened, Screens
<1> QED
  BY <1>1, <1>6, <1>8, <1>9, <1>10, <1>11
     DEF Delivery, Something, DeliverySetFirst, MisdeliveryExplained

\* Pay now: something is listed, nothing is on its way, what is shown is sent.
LEMMA DeliveryPay ==
    ASSUME Serial, Delivery, _onClickButtonPayNow
    PROVE  Delivery'
<1>1. opened \in Screens /\ ~scr[opened].isLoading
        /\ scr \in [Screens -> Screen] /\ scr[opened] \in Screen
        /\ req \in [Slots -> Request]
        /\ UNCHANGED <<opened, srv, done, orders>>
  BY CheckoutAssumption, OpenedScreens
     DEF _onClickButtonPayNow, Tappable, Top, Serial, Routes, TypeOK, Screens,
         CheckoutAssumption
<1>2. /\ scr[opened].address # NoAddress /\ scr[opened].method # NoMethod
      /\ scr[opened].listed # 0
  BY <1>1 DEF _onClickButtonPayNow, MayPay, Screen
<1> DEFINE k == IF scr[opened].chosen = 0 THEN "gateway" ELSE "pay"
           r == Ask(k, opened, quoteId, scr[opened].method, scr[opened].address)
<1>3. PICK s \in Free : req' = [req EXCEPT ![s] = r]
  BY DEF _onClickButtonPayNow
<1>4. /\ r.kind \in {"pay", "gateway"} /\ r.screen = opened
      /\ r.method = scr[opened].method /\ r.address = scr[opened].address
  BY DEF Ask
<1> HIDE DEF k, r
<1>5. s \in Slots /\ req[s].kind = "free" /\ req'[s] = r
        /\ \A t \in Slots : t # s => req'[t] = req[t]
  BY <1>1, <1>3 DEF Free
<1>6. ~Sending(opened)
  BY <1>1 DEF Sending, Serial, OneAtATime, Awaited
<1>7. \A n \in Screens : Sending(n)' <=> Sending(n)
  BY <1>4, <1>5 DEF Sending
<1>8. \A n \in Screens : /\ scr'[n].listed = scr[n].listed
                         /\ scr'[n].address = scr[n].address
                         /\ scr'[n].method = scr[n].method
  BY <1>1 DEF _onClickButtonPayNow, Screen
<1>9. Taken'
  BY <1>1, <1>2, <1>4, <1>5, <1>8 DEF Delivery, Taken
<1>10. ShownHeld'
  BY <1>1, <1>7, <1>8 DEF Delivery, ShownHeld, Holds
<1>11. \A t \in Slots : req[t].kind = "setship" => req[t].screen \in Screens
  BY OpenedScreens DEF Serial, FromOpened, Awaited
<1>12. SentAsShown'
  BY <1>4, <1>5, <1>8, <1>11 DEF Delivery, SentAsShown
<1>13. PaidHeld'
  BY <1>1, <1>2, <1>4, <1>5, <1>6 DEF Delivery, PaidHeld, ShownHeld, Holds
<1> QED
  BY <1>1, <1>9, <1>10, <1>12, <1>13
     DEF Delivery, Unopened, Something, DeliverySetFirst, MisdeliveryExplained

\* Serving anything but a delivery or a payment: the cart may be a new one,
\* without a delivery.
LEMMA DeliveryServe ==
    ASSUME Serial, Delivery, NEW s \in Slots, Serve(s),
           ServeProfile(s) \/ ServeQuote(s) \/ ServeRegistration(s)
    PROVE  Delivery'
<1>1. UNCHANGED <<opened, scr, orders, done>>
  BY DEF Serve, ServeProfile, ServeQuote, ServeRegistration
<1>2. srv' = srv \/ srv'.method = NoMethod
  BY DEF ServeProfile, ServeQuote, ServeRegistration
<1>3. \A t \in Slots : \/ req'[t] = req[t]
                       \/ /\ req[t].kind \notin Ordering
                          /\ req'[t].kind \notin Ordering
  BY SameRequest DEF Serial, Ordering, ServeProfile, ServeQuote,
                     ServeRegistration
<1>4. Taken'
  BY <1>1, <1>3 DEF Delivery, Taken, Ordering
<1>5. \A n \in Screens : Sending(n)' <=> Sending(n)
  BY <1>3 DEF Sending, Ordering
<1>6. ShownHeld'
  BY <1>1, <1>2, <1>5 DEF Delivery, ShownHeld, Holds
<1>7. SentAsShown'
  BY <1>1, <1>3 DEF Delivery, SentAsShown, Ordering
<1>8. PaidHeld'
  BY <1>1, <1>2, <1>3 DEF Delivery, PaidHeld, Holds, Ordering
<1> QED
  BY <1>1, <1>4, <1>6, <1>7, <1>8
     DEF Delivery, Unopened, Something, DeliverySetFirst, MisdeliveryExplained

\* A delivery that was not taken: the server's part of refusing or losing it.
LEMMA DeliveryRefused ==
    ASSUME Serial, Delivery, NEW s \in Slots, Serve(s) \/ Fault(s),
           UNCHANGED <<opened, scr, srv, orders>>,
           req[s].kind = "setship" /\ req[s].res = "sent"
             => req'[s].res \notin {"ok", "sent"} /\ done' = Refused(req[s]),
           ~(req[s].kind = "setship" /\ req[s].res = "sent") => done' = done,
           req'[s].res # "sent",
           req[s].res # "ok" => req'[s].res # "ok" \/ req[s].kind # "setship"
    PROVE  Delivery'
<1>1. /\ \A t \in Slots : t # s => req'[t] = req[t]
      /\ req'[s].kind = req[s].kind /\ req'[s].screen = req[s].screen
      /\ req'[s].method = req[s].method
      /\ req[s].kind # "profile" => req'[s].address = req[s].address
  BY SameRequest DEF Serial
<1>2. /\ \A t \in Slots : req[t].kind \in Ordering => req[t].screen \in 1..opened
      /\ 1..opened \subseteq Screens /\ opened \in Nat
      /\ done \in [Screens -> Done]
  BY OpenedScreens DEF Serial, FromOpened, Ordering, Awaited, TypeOK
<1>3. CASE req[s].kind = "setship" /\ req[s].res = "sent"
  <2>1. PICK n \in Screens : n = req[s].screen /\ n <= opened
    BY <1>2, <1>3 DEF Ordering
  <2>2. done' = [done EXCEPT ![n].last = "refused"]
    BY <1>3, <2>1 DEF Refused
  <2>3. \A m \in Screens : /\ done'[m].taken = done[m].taken
                           /\ done'[m].last = IF m = n THEN "refused"
                                              ELSE done[m].last
                           /\ m # n => done'[m] = done[m]
    BY <1>2, <2>2 DEF Done
  <2>4. \A m \in Screens : m # n => (Sending(m)' <=> Sending(m))
    BY <1>1, <2>1 DEF Sending
  <2>5. Taken'
    BY <1>1, <1>2, <1>3, <2>3 DEF Delivery, Taken, Ordering
  <2>6. ShownHeld'
    BY <2>3, <2>4 DEF Delivery, ShownHeld, Holds
  <2>7. SentAsShown'
    BY <1>1 DEF Delivery, SentAsShown
  <2>8. PaidHeld'
    BY <1>1, <1>2, <2>3 DEF Delivery, PaidHeld, Holds, Ordering
  <2>9. Unopened'
    <3>1. ASSUME NEW m \in Screens, m > opened PROVE done'[m] = done[m]
      <4>1. m # n
        BY <1>2, <2>1, <3>1 DEF Screens
      <4> QED
        BY <2>3, <4>1
    <3> QED
      BY <3>1 DEF Delivery, Unopened
  <2>10. Something'
    BY <2>3 DEF Delivery, Something
  <2> QED
    BY <2>5, <2>6, <2>7, <2>8, <2>9, <2>10
       DEF Delivery, DeliverySetFirst, MisdeliveryExplained
<1>4. CASE ~(req[s].kind = "setship" /\ req[s].res = "sent")
  <2>1. \A m \in Screens : Sending(m)' <=> Sending(m)
    BY <1>1, <1>4 DEF Sending
  <2>2. Taken'
    BY <1>1, <1>4 DEF Delivery, Taken
  <2>3. ShownHeld'
    BY <1>4, <2>1 DEF Delivery, ShownHeld, Holds
  <2>4. SentAsShown'
    BY <1>1 DEF Delivery, SentAsShown
  <2>5. PaidHeld'
    BY <1>1, <1>4 DEF Delivery, PaidHeld, Holds
  <2> QED
    BY <1>4, <2>2, <2>3, <2>4, <2>5
       DEF Delivery, Unopened, Something, DeliverySetFirst,
           MisdeliveryExplained
<1> QED
  BY <1>3, <1>4

LEMMA DeliveryFault ==
    ASSUME Serial, Delivery, NEW s \in Slots, Fault(s)
    PROVE  Delivery'
<1>1. PICK f \in Faults : req' = [req EXCEPT ![s] = [req[s] EXCEPT !.res = f]]
  BY DEF Fault, Answer
<1>2. f \notin {"ok", "sent"}
  BY CheckoutAssumption DEF CheckoutAssumption, AllFaults
<1>3. req[s] \in Request /\ req \in [Slots -> Request]
  BY DEF Serial, TypeOK
<1>4. req'[s].res = f
  BY <1>1, <1>3 DEF Request
<1>5. UNCHANGED <<opened, scr, srv, orders>>
  BY DEF Fault
<1>6. done' = IF req[s].kind = "setship" /\ req[s].res = "sent"
              THEN Refused(req[s]) ELSE done
  BY DEF Fault, Refused
<1> QED
  BY <1>2, <1>4, <1>5, <1>6, DeliveryRefused

\* A delivery is taken: the screen that sent it shows it, those of the others
\* are outdated.
LEMMA DeliveryServeShipping ==
    ASSUME Serial, Delivery, NEW s \in Slots, Serve(s), ServeShipping(s)
    PROVE  Delivery'
<1>1. UNCHANGED <<opened, scr, orders>> /\ req[s].res = "sent"
        /\ req[s].kind = "setship"
  BY DEF Serve, ServeShipping
<1>2. /\ \A t \in Slots : t # s => req'[t] = req[t]
      /\ req'[s].kind = req[s].kind /\ req'[s].screen = req[s].screen
      /\ req'[s].method = req[s].method /\ req'[s].address = req[s].address
  BY <1>1, SameRequest DEF Serial
<1>3. /\ \A t \in Slots : req[t].kind \in Ordering => req[t].screen \in 1..opened
      /\ 1..opened \subseteq Screens /\ opened \in Nat
      /\ done \in [Screens -> Done] /\ req \in [Slots -> Request]
      /\ srv \in Server
  BY OpenedScreens DEF Serial, FromOpened, Ordering, Awaited, TypeOK
<1>4. PICK n \in Screens : n = req[s].screen /\ n <= opened
  BY <1>1, <1>3 DEF Ordering
<1>5. CASE req[s].quote = srv.quote /\ srv.active /\ req[s].method # NoMethod
  <2>1. /\ srv'.method = req[s].method /\ srv'.address = req[s].address
        /\ done' = Took(n)
    BY <1>3, <1>4, <1>5 DEF ServeShipping, Server
  <2>2. req'[s].res = "ok"
    <3>1. PICK k \in 0..2 : req' = [req EXCEPT ![s] =
              [req[s] EXCEPT !.res = "ok", !.count = k]]
      BY <1>5 DEF ServeShipping, Answer
    <3> QED
      BY <1>3, <3>1 DEF Request
  <2>3. /\ done'[n].taken /\ done'[n].last = "set"
        /\ \A m \in Screens : m # n =>
              /\ done'[m].taken = done[m].taken
              /\ done'[m].last # "set"
              /\ done[m].last # "none" => done'[m].last # "none"
              /\ done[m].last = "none" => done'[m] = done[m]
    BY <1>3, <2>1 DEF Took, Done
  <2>4. \A t \in Slots : t # s /\ req[t].kind \in Awaited => req[t].screen # n
    BY <1>1, <1>4 DEF Serial, OneAtATime, Awaited
  <2>5. Taken'
    BY <1>1, <1>2, <1>3, <1>4, <2>3 DEF Delivery, Taken, Ordering
  <2>6. ShownHeld'
    BY <1>1, <1>4, <2>1, <2>3 DEF Delivery, ShownHeld, SentAsShown, Holds
  <2>7. SentAsShown'
    BY <1>1, <1>2, <2>2 DEF Delivery, SentAsShown
  <2>8. PaidHeld'
    BY <1>1, <1>2, <1>3, <2>3, <2>4 DEF Delivery, PaidHeld, Ordering, Awaited
  <2>9. Unopened'
    <3>1. ASSUME NEW m \in Screens, m > opened PROVE done'[m] = done[m]
      <4>1. m # n /\ done[m].last = "none"
        BY <1>3, <1>4, <3>1 DEF Delivery, Unopened, Screens
      <4> QED
        BY <2>3, <4>1
    <3> QED
      BY <1>1, <3>1 DEF Delivery, Unopened
  <2>10. Something'
    BY <2>3 DEF Delivery, Something
  <2> QED
    BY <1>1, <2>5, <2>6, <2>7, <2>8, <2>9, <2>10
       DEF Delivery, DeliverySetFirst, MisdeliveryExplained
<1>6. CASE ~(req[s].quote = srv.quote /\ srv.active /\ req[s].method # NoMethod)
  <2>1. srv' = srv /\ done' = Refused(req[s])
          /\ req' = [req EXCEPT ![s] = [req[s] EXCEPT !.res = "null"]]
    BY <1>6 DEF ServeShipping, Answer
  <2>2. req'[s].res = "null"
    BY <1>3, <2>1 DEF Request
  <2> QED
    BY <1>1, <2>1, <2>2, DeliveryRefused
<1> QED
  BY <1>5, <1>6

\* An order takes the delivery the server has.
LEMMA DeliveryServePayment ==
    ASSUME Serial, Delivery, NEW s \in Slots, Serve(s), ServePayment(s)
    PROVE  Delivery'
<1>1. UNCHANGED <<opened, scr, done>> /\ req[s].res = "sent"
        /\ req[s].kind \in {"pay", "gateway"}
  BY DEF Serve, ServePayment
<1>2. /\ \A t \in Slots : t # s => req'[t] = req[t]
      /\ req'[s].kind = req[s].kind /\ req'[s].screen = req[s].screen
      /\ req'[s].method = req[s].method /\ req'[s].address = req[s].address
  BY <1>1, SameRequest DEF Serial
<1>3. /\ req[s].screen \in Screens /\ done \in [Screens -> Done]
      /\ req \in [Slots -> Request] /\ srv \in Server
  BY <1>1, OpenedScreens DEF Serial, FromOpened, Awaited, TypeOK
<1>4. srv'.method = srv.method /\ srv'.address = srv.address
  BY <1>3 DEF ServePayment, Server
<1>5. req'[s].res # "sent"
  BY <1>3 DEF ServePayment, Answer, Request
<1>6. \A m \in Screens : Sending(m)' <=> Sending(m)
  BY <1>1, <1>2 DEF Sending
<1>7. Taken'
  BY <1>1, <1>2 DEF Delivery, Taken
<1>8. ShownHeld'
  BY <1>1, <1>4, <1>6 DEF Delivery, ShownHeld, Holds
<1>9. SentAsShown'
  BY <1>1, <1>2 DEF Delivery, SentAsShown
<1>10. PaidHeld'
  BY <1>1, <1>2, <1>4, <1>5 DEF Delivery, PaidHeld, Holds
<1>11. DeliverySetFirst' /\ MisdeliveryExplained'
  <2> DEFINE o == [method |-> req[s].method, address |-> req[s].address,
                   toMethod |-> srv.method, toAddress |-> srv.address,
                   of |-> done[req[s].screen]]
  <2>1. orders' = orders
          \/ (srv.method # NoMethod /\ orders' = orders \cup {o})
    BY DEF ServePayment
  <2>2. o.of.taken /\ o.of.last # "none" /\ o.of \in Done
    <3>1. done[req[s].screen].taken
      BY <1>1 DEF Delivery, Taken
    <3>2. done[req[s].screen] \in Done
      BY <1>3
    <3>3. done[req[s].screen].last # "none"
      BY <1>3, <3>1 DEF Delivery, Something
    <3>4. o.of = done[req[s].screen]
      OBVIOUS
    <3> QED
      BY <3>1, <3>2, <3>3, <3>4
  <2>3. srv.method # NoMethod /\ o.of.last = "set" => AsShown(o)
    BY <1>1 DEF Delivery, PaidHeld, Holds, AsShown
  <2>4. srv.method # NoMethod /\ ~AsShown(o)
          => o.of.last \in {"refused", "overtaken"}
    BY <2>2, <2>3 DEF Done
  <2> HIDE DEF o
  <2> QED
    BY <2>1, <2>2, <2>4 DEF Delivery, DeliverySetFirst, MisdeliveryExplained
<1> QED
  BY <1>1, <1>7, <1>8, <1>9, <1>10, <1>11 DEF Delivery, Unopened, Something

\* The address a screen shows changes: what it shows is on its way, or it shows
\* none.
LEMMA DeliveryProfileReply ==
    ASSUME Serial, Delivery, NEW s \in Slots, ProfileReply(s),
           UNCHANGED <<opened, srv, done, orders>>
    PROVE  Delivery'
<1>1. /\ scr \in [Screens -> Screen] /\ req \in [Slots -> Request]
      /\ \A t \in Slots : req[t].kind \in Awaited => req[t].screen \in Screens
  BY OpenedScreens DEF Serial, FromOpened, TypeOK
<1>2. req[s].kind = "profile"
  BY DEF ProfileReply
<1>3. PICK n \in Screens : n = req[s].screen
  BY <1>1, <1>2 DEF Awaited
<1>4. \A t \in Slots : t # s /\ req[t].kind \in Awaited => req[t].screen # n
  BY <1>2, <1>3 DEF Serial, OneAtATime, Awaited
<1>5. scr[n] \in Screen /\ NoMethod \in AnyMethod /\ NoAddress \in AnyAddress
  BY <1>1 DEF AnyMethod, AnyAddress
<1> DEFINE a == IF req[s].res = "ok" THEN req[s].address ELSE NoAddress
           q == IF a # NoAddress
                THEN Ask("setship", n, quoteId, scr[n].method, a) ELSE NoRequest
<1>6. /\ scr' = [scr EXCEPT ![n].address = a, ![n].isLoading = (a # NoAddress)]
      /\ req' = [req EXCEPT ![s] = q]
  BY <1>3 DEF ProfileReply, SetsShipping, Answer
<1>7. /\ a # NoAddress
           => /\ q.kind = "setship" /\ q.screen = n /\ q.res = "sent"
              /\ q.method = scr[n].method /\ q.address = a
      /\ a = NoAddress => q.kind = "free"
  BY DEF Ask, NoRequest
<1> HIDE DEF a, q
<1>8. /\ \A m \in Screens : m # n => scr'[m] = scr[m]
      /\ scr'[n].listed = scr[n].listed /\ scr'[n].method = scr[n].method
      /\ scr'[n].address = a
  BY <1>1, <1>5, <1>6 DEF Screen
<1>9. req'[s] = q /\ \A t \in Slots : t # s => req'[t] = req[t]
  BY <1>1, <1>6
<1>10. Taken'
  BY <1>7, <1>8, <1>9 DEF Delivery, Taken
<1>11. \A m \in Screens : m # n => (Sending(m)' <=> Sending(m))
  BY <1>2, <1>7, <1>9 DEF Sending
<1>12. a # NoAddress => Sending(n)'
  BY <1>7, <1>9 DEF Sending
<1>13. ShownHeld'
  BY <1>8, <1>11, <1>12 DEF Delivery, ShownHeld, Holds
<1>14. SentAsShown'
  <2>1. ASSUME NEW t \in Slots, req'[t].kind = "setship", req'[t].res = "sent"
        PROVE  /\ req'[t].address = scr'[req'[t].screen].address
               /\ scr'[req'[t].screen].method \in {req'[t].method, NoMethod}
    <3>1. CASE t = s
      BY <1>7, <1>8, <1>9, <2>1, <3>1
    <3>2. CASE t # s
      <4>1. req'[t] = req[t] /\ req[t].screen \in Screens /\ req[t].screen # n
        BY <1>1, <1>4, <1>9, <2>1, <3>2 DEF Awaited
      <4> QED
        BY <1>8, <2>1, <4>1 DEF Delivery, SentAsShown
    <3> QED
      BY <3>1, <3>2
  <2> QED
    BY <2>1 DEF SentAsShown
<1>15. PaidHeld'
  BY <1>7, <1>9 DEF Delivery, PaidHeld, Holds
<1> QED
  BY <1>10, <1>13, <1>14, <1>15
     DEF Delivery, Unopened, Something, DeliverySetFirst, MisdeliveryExplained

\* An answer to a delivery or a payment: payment methods are listed only if the
\* delivery was taken.
LEMMA DeliveryAnswered ==
    ASSUME Serial, Delivery, NEW s \in Slots, req[s].res # "sent",
           SetShippingReply(s) \/ PaymentReply(s),
           UNCHANGED <<opened, srv, done, orders>>
    PROVE  Delivery'
<1>1. /\ scr \in [Screens -> Screen] /\ req \in [Slots -> Request]
      /\ \A t \in Slots : req[t].kind \in Awaited => req[t].screen \in Screens
  BY OpenedScreens DEF Serial, FromOpened, TypeOK
<1>2. PICK n \in Screens : n = req[s].screen
  BY <1>1 DEF SetShippingReply, PaymentReply, Awaited
<1>3. scr[n] \in Screen
  BY <1>1
<1>4. \A t \in Slots : t # s => req'[t] = req[t]
  BY <1>1 DEF SetShippingReply, PaymentReply, Answer
<1>5. req'[s].kind \notin Ordering
  BY <1>1, Nothing DEF SetShippingReply, PaymentReply, Answer, Ask, Ordering
<1>6. /\ \A m \in Screens : /\ m # n => scr'[m] = scr[m]
                            /\ scr'[m].method = scr[m].method
                            /\ scr'[m].address = scr[m].address
      /\ scr'[n].listed # 0
           => \/ scr[n].listed # 0
              \/ req[s].kind = "setship" /\ req[s].res = "ok"
  <2>1. CASE SetShippingReply(s)
    BY <1>1, <1>2, <1>3, <2>1 DEF SetShippingReply, ListedAfter, Screen
  <2>2. CASE PaymentReply(s)
    BY <1>1, <1>2, <1>3, <2>2 DEF PaymentReply, Screen
  <2> QED
    BY <2>1, <2>2
<1>7. Taken'
  BY <1>2, <1>4, <1>5, <1>6 DEF Delivery, Taken, Ordering
<1>8. \A m \in Screens : Sending(m)' <=> Sending(m)
  BY <1>4, <1>5 DEF Sending, Ordering
<1>9. ShownHeld'
  BY <1>6, <1>8 DEF Delivery, ShownHeld, Holds
<1>10. SentAsShown'
  BY <1>1, <1>4, <1>5, <1>6 DEF Delivery, SentAsShown, Ordering, Awaited
<1>11. PaidHeld'
  BY <1>4, <1>5 DEF Delivery, PaidHeld, Holds, Ordering
<1> QED
  BY <1>7, <1>9, <1>10, <1>11
     DEF Delivery, Unopened, Something, DeliverySetFirst, MisdeliveryExplained

LEMMA DeliveryNext == Serial /\ Delivery /\ [Next]_vars => Delivery'
<1> SUFFICES ASSUME Serial, Delivery, [Next]_vars PROVE Delivery'
  OBVIOUS
<1>1. CASE UNCHANGED vars
  BY <1>1 DEF vars, Delivery, Taken, ShownHeld, SentAsShown, PaidHeld, Holds,
              Sending, Unopened, Something, DeliverySetFirst,
              MisdeliveryExplained
<1>2. CASE Next
  <2>1. CASE \E m \in AnyMethod : ProceedToCheckout(m)
    BY <2>1, DeliveryProceed
  <2>2. CASE _onClickButtonPayNow
    BY <2>2, DeliveryPay
  <2>3. CASE \E s \in Slots : Serve(s)
    <3>1. PICK s \in Slots : Serve(s)
      BY <2>3
    <3>2. \/ ServeProfile(s) \/ ServeQuote(s) \/ ServeRegistration(s)
          \/ ServeShipping(s) \/ ServePayment(s)
      BY <3>1 DEF Serve
    <3> QED
      BY <3>1, <3>2, DeliveryServe, DeliveryServeShipping, DeliveryServePayment
  <2>4. CASE \E s \in Slots : Fault(s)
    BY <2>4, DeliveryFault
  <2>5. CASE \E s \in Slots : Reply(s)
    <3>1. PICK s \in Slots : Reply(s)
      BY <2>5
    <3>2. UNCHANGED <<opened, srv, done, orders>> /\ req[s].res # "sent"
      BY <3>1 DEF Reply
    <3>3. CASE ProfileReply(s)
      BY <3>2, <3>3, DeliveryProfileReply
    <3>4. CASE SetShippingReply(s) \/ PaymentReply(s)
      BY <3>2, <3>4, DeliveryAnswered
    <3>5. CASE RegistrationReply(s) \/ QuoteReply(s)
      BY <3>2, <3>5, DeliveryCalm
    <3> QED
      BY <3>1, <3>3, <3>4, <3>5 DEF Reply
  <2>6. CASE \/ LeavePayment
             \/ \E c \in BOOLEAN : EstimateAnswered(c)
             \/ OpenAddresses \/ LeaveAddresses
             \/ \E a \in AnyAddress : ChangeDefault(a)
             \/ \E i \in 0..1 : _onClickRadioPaymentMethod(i)
             \/ LeaveWebView \/ CallbackLoaded \/ ContinueShopping
    <3>1. UNCHANGED <<opened, srv, done, orders>>
      BY <2>6 DEF LeavePayment, EstimateAnswered, OpenAddresses,
                  LeaveAddresses, ChangeDefault, _onClickRadioPaymentMethod,
                  LeaveWebView, CallbackLoaded, ContinueShopping
    <3> QED
      BY <2>6, <3>1, DeliveryCalm
  <2> QED
    BY <1>2, <2>1, <2>2, <2>3, <2>4, <2>5, <2>6 DEF Next
<1> QED
  BY <1>1, <1>2

LEMMA AlwaysDelivery == Spec => []Delivery
BY AlwaysSerial, DeliveryInit, DeliveryNext, PTL DEF Spec

\* The server has taken a delivery of every screen an order was placed from,
\* before it placed the order, although the request to pay names none.
THEOREM DeliveriesSetFirst == Spec => []DeliverySetFirst
<1>1. Delivery => DeliverySetFirst
  BY DEF Delivery
<1> QED
  BY <1>1, AlwaysDelivery, PTL

\* An order goes elsewhere than its screen said only after the server refused
\* or never took the last delivery of that screen, or took one of another after
\* it.
THEOREM MisdeliveriesExplained == Spec => []MisdeliveryExplained
<1>1. Delivery => MisdeliveryExplained
  BY DEF Delivery
<1> QED
  BY <1>1, AlwaysDelivery, PTL
=============================================================================
