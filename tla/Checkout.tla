------------------------------ MODULE Checkout ------------------------------
(***************************************************************************)
(* From the cart to the confirmation of an order.  A payment screen asks    *)
(* for the customer's profile, sends the default addresses and the shipping *)
(* method it was handed to the server, gets the methods of payment for them *)
(* and then lets the customer pay.  The order takes the delivery the server *)
(* has by then: the request that places it names none.  An order paid for   *)
(* through the gateway goes on to a web view.                               *)
(*                                                                          *)
(* The back button works under the spinner, so that a screen may be left    *)
(* with its request under way and the next one opened; requests are served  *)
(* and answered in any order, and the handlers of a screen that was left    *)
(* still run.                                                               *)
(*                                                                          *)
(* An address stands for the default addresses, of shipping and billing     *)
(* both; without one of the two the screen does what it does without any.   *)
(***************************************************************************)
EXTENDS Integers

CONSTANTS
    Methods,    \* shipping methods
    NoMethod,   \* an empty list of them, or a selection outside the list
    Addresses,  \* what may be the default address
    NoAddress,  \* no default address, or not both
    Slots,      \* requests in flight at once (a bound)
    Faults,     \* what may go wrong with a request: a subset of AllFaults
    MaxScreens, \* how often the payment screen is opened (a bound)
    MaxTaps     \* how often the customer does anything else (a bound)

\* "message": an answer that carries an error; "null": another status, or no
\* network; "failed": an exception, or a timeout, after the server did its part
\* or before.
AllFaults == {"message", "null", "failed"}

ASSUME CheckoutAssumption ==
    /\ NoMethod \notin Methods
    /\ NoAddress \notin Addresses
    /\ Faults \subseteq AllFaults
    /\ MaxScreens \in Nat \ {0}
    /\ MaxTaps \in Nat

VARIABLES
    route,    \* what is open above the cart screen
    opened,   \* payment screens opened so far: the last one may be on screen
    scr,      \* the PaymentNotifier of each of them
    quoteId,  \* CommonNotifier().quoteId
    srv,      \* the server's cart: its number, and the delivery set on it
    default,  \* the customer's default address, as the server has it
    req,      \* the requests in flight
    taps,     \* taps so far
    orders,   \* history: the orders placed
    done      \* history: what the server did with the delivery of each screen

vars == <<route, opened, scr, quoteId, srv, default, req, taps, orders, done>>

Screens == 1..MaxScreens
AnyMethod == Methods \cup {NoMethod}
AnyAddress == Addresses \cup {NoAddress}

\* The payment screen, the address screen on it, web views on that, and a
\* confirmation, which is left by Continue shopping only.
Route == [payment: BOOLEAN, address: BOOLEAN, web: Nat, confirmed: BOOLEAN]
CartOnly ==
    [payment |-> FALSE, address |-> FALSE, web |-> 0, confirmed |-> FALSE]

Top ==
    IF route.confirmed THEN "confirmed"
    ELSE IF route.web > 0 THEN "web"
    ELSE IF route.address THEN "address"
    ELSE IF route.payment THEN "payment" ELSE "cart"

\* method: lstShippingMethod at selectedRadioShippingMethod, and whether the
\* cart screen still has that list; listed: how many lstPaymentMethods has;
\* chosen: selectedRadioPaymentMethod; threw: history, a handler ended by an
\* exception under the spinner.
Screen == [method: AnyMethod, shared: BOOLEAN, address: AnyAddress, listed: Nat,
           chosen: Nat \cup {-1}, isLoading: BOOLEAN, threw: BOOLEAN]

\* Mutant: the payment methods of the screen before, of which there are two.
PaymentNotifierWithMethods(m) ==
    [method |-> m, shared |-> TRUE, address |-> NoAddress, listed |-> 2,
     chosen |-> -1, isLoading |-> TRUE, threw |-> FALSE]

\* The constructor, whose updateInitialValue takes over the shipping methods
\* and not the payment methods.
PaymentNotifier(m) ==
    [method |-> m, shared |-> TRUE, address |-> NoAddress, listed |-> 0,
     chosen |-> -1, isLoading |-> TRUE, threw |-> FALSE]

Server == [quote: Nat, active: BOOLEAN, method: AnyMethod, address: AnyAddress]

\* "pay" is an order without the gateway, "gateway" one with; "register" the
\* call of the gateway's own code.  A request to pay carries what the screen
\* showed, which is not sent.
Awaited == {"profile", "setship", "pay", "gateway"}
Kinds == Awaited \cup {"register", "quote"}
Request == [kind: Kinds \cup {"free"}, screen: Nat, quote: Nat,
            method: AnyMethod, address: AnyAddress, count: Nat,
            res: {"sent", "ok"} \cup AllFaults]

Ask(kind, n, q, m, a) ==
    [kind |-> kind, screen |-> n, quote |-> q, method |-> m, address |-> a,
     count |-> 0, res |-> "sent"]
NoRequest == Ask("free", 0, 0, NoMethod, NoAddress)

\* Whether the server ever took a delivery of a screen, and what became of the
\* last one sent.
Done == [taken: BOOLEAN, last: {"none", "set", "refused", "overtaken"}]

\* The method and address the customer saw, the ones the order got, and what
\* had become of the deliveries of its screen.
Order == [method: AnyMethod, address: AnyAddress,
          toMethod: AnyMethod, toAddress: AnyAddress, of: Done]

TypeOK ==
    /\ route \in Route
    /\ opened \in 0..MaxScreens
    /\ scr \in [Screens -> Screen]
    /\ quoteId \in Nat
    /\ srv \in Server
    /\ default \in AnyAddress
    /\ req \in [Slots -> Request]
    /\ taps \in Nat
    /\ orders \subseteq Order
    /\ done \in [Screens -> Done]

Free == {s \in Slots : req[s].kind = "free"}

Init ==
    /\ route = CartOnly
    /\ opened = 0
    /\ scr = [n \in Screens |-> [PaymentNotifier(NoMethod)
                                     EXCEPT !.isLoading = FALSE]]
    /\ quoteId = 1
    /\ srv = [quote |-> 1, active |-> TRUE, method |-> NoMethod,
              address |-> NoAddress]
    /\ default \in AnyAddress
    /\ req = [s \in Slots |-> NoRequest]
    /\ taps = 0
    /\ orders = {}
    /\ done = [n \in Screens |-> [taken |-> FALSE, last |-> "none"]]

----------------------------------------------------------------------------
(* The customer *)

Tap == taps < MaxTaps /\ taps' = taps + 1

\* A new payment screen, with the method selected on the cart screen, if any;
\* its constructor asks for the profile.
ProceedToCheckout(m) ==
    /\ Top = "cart" /\ opened < MaxScreens
    /\ opened' = opened + 1
    /\ route' = [route EXCEPT !.payment = TRUE]
    /\ scr' = [scr EXCEPT ![opened + 1] = PaymentNotifier(m)]
    /\ \E s \in Free : req' = [req EXCEPT ![s] =
           Ask("profile", opened + 1, 0, NoMethod, NoAddress)]
    /\ UNCHANGED <<quoteId, srv, default, taps, orders, done>>

\* The arrow of the app bar, which the spinner does not cover.
LeavePayment ==
    /\ Tap /\ Top = "payment"
    /\ route' = CartOnly
    /\ UNCHANGED <<opened, scr, quoteId, srv, default, req, orders, done>>

\* An estimate of the cart screen that is answered now: a list of its own, or
\* none, which empties the list the payment screens were handed.
EstimateAnswered(cleared) ==
    /\ Tap
    /\ \E n \in Screens : scr[n].shared
    /\ scr' = [n \in Screens |->
           IF ~scr[n].shared THEN scr[n]
           ELSE IF cleared THEN [scr[n] EXCEPT !.method = NoMethod]
           ELSE [scr[n] EXCEPT !.shared = FALSE]]
    /\ UNCHANGED <<route, opened, quoteId, srv, default, req, orders, done>>

\* Mutant: a button beside the spinner's reach.
UnderNoSpinner == Top = "payment"

\* ModalProgressHUD takes every tap on the body of the payment screen.
Tappable == Top = "payment" /\ ~scr[opened].isLoading

OpenAddresses ==
    /\ Tap /\ Tappable
    /\ route' = [route EXCEPT !.address = TRUE]
    /\ UNCHANGED <<opened, scr, quoteId, srv, default, req, orders, done>>

\* Another default address: from the address screen, whose request may still be
\* under way when it is left, or from elsewhere.
ChangeDefault(a) ==
    /\ Tap /\ a # default
    /\ default' = a
    /\ UNCHANGED <<route, opened, scr, quoteId, srv, req, orders, done>>

\* Back from the addresses: callApiGetUserProfileDetail.
LeaveAddresses ==
    /\ Tap /\ Top = "address"
    /\ route' = [route EXCEPT !.address = FALSE]
    /\ scr' = [scr EXCEPT ![opened].isLoading = TRUE]
    /\ \E s \in Free : req' = [req EXCEPT ![s] =
           Ask("profile", opened, 0, NoMethod, NoAddress)]
    /\ UNCHANGED <<opened, quoteId, srv, default, orders, done>>

_onClickRadioPaymentMethod(i) ==
    /\ Tap /\ Tappable
    /\ i \in 0 .. scr[opened].listed - 1 /\ i # scr[opened].chosen
    /\ scr' = [scr EXCEPT ![opened].chosen = i]
    /\ UNCHANGED <<route, opened, quoteId, srv, default, req, orders, done>>

\* Pay now asks for an address and a choice, and then reads both lists at their
\* selections, which throws outside them.  The first method is the gateway.
MayPay(s) ==
    /\ s.address # NoAddress
    /\ s.chosen # -1 /\ s.chosen < s.listed
    /\ s.method # NoMethod

_onClickButtonPayNow ==
    LET n == scr[opened]
    IN  /\ Tap /\ Tappable /\ MayPay(n)
        /\ scr' = [scr EXCEPT ![opened].isLoading = TRUE]
        /\ \E s \in Free : req' = [req EXCEPT ![s] =
               Ask(IF n.chosen = 0 THEN "gateway" ELSE "pay", opened, quoteId,
                   n.method, n.address)]
        /\ UNCHANGED <<route, opened, quoteId, srv, default, orders, done>>

\* Back from the web view: what onPaymentBackPressed sends then names no line
\* of a cart that is used up; it is refused, and nothing reads the answers.
LeaveWebView ==
    /\ Tap /\ Top = "web"
    /\ route' = [route EXCEPT !.web = @ - 1]
    /\ UNCHANGED <<opened, scr, quoteId, srv, default, req, orders, done>>

\* The gateway has the web view load its return address: whatever became of
\* the payment, that is the confirmation, once for each load.
CallbackLoaded ==
    /\ Tap /\ Top = "web"
    /\ route' = [route EXCEPT !.confirmed = TRUE]
    /\ UNCHANGED <<opened, scr, quoteId, srv, default, req, orders, done>>

\* Continue shopping, or the arrow of the app bar: callApiCartQuoteId.
ContinueShopping ==
    /\ Tap /\ Top = "confirmed"
    /\ \E s \in Free : req' = [req EXCEPT ![s] =
           Ask("quote", opened, 0, NoMethod, NoAddress)]
    /\ UNCHANGED <<route, opened, scr, quoteId, srv, default, orders, done>>

----------------------------------------------------------------------------
(* The server, the gateway and the network *)

Answer(s, r) == req' = [req EXCEPT ![s] = r]

ServeProfile(s) ==
    /\ req[s].kind = "profile"
    /\ Answer(s, [req[s] EXCEPT !.res = "ok", !.address = default])
    /\ UNCHANGED <<srv, orders, done>>

\* history: a delivery the server took outdates those of the other screens.
Took(n) == [m \in Screens |->
    IF m = n THEN [taken |-> TRUE, last |-> "set"]
    ELSE IF done[m].last = "set" THEN [done[m] EXCEPT !.last = "overtaken"]
    ELSE done[m]]
Refused(r) == IF r.kind = "setship" THEN [done EXCEPT ![r.screen].last = "refused"]
              ELSE done

\* A delivery is taken for the cart in use, with a method, and answered with the
\* methods of payment.
ServeShipping(s) ==
    LET r == req[s]
    IN  /\ r.kind = "setship"
        /\ IF r.quote = srv.quote /\ srv.active /\ r.method # NoMethod
           THEN /\ srv' = [srv EXCEPT !.method = r.method, !.address = r.address]
                /\ \E k \in 0..2 :
                       Answer(s, [r EXCEPT !.res = "ok", !.count = k])
                /\ done' = Took(r.screen)
           ELSE /\ Answer(s, [r EXCEPT !.res = "null"])
                /\ done' = Refused(r)
                /\ UNCHANGED srv
        /\ UNCHANGED orders

\* An order uses the cart up.
ServePayment(s) ==
    LET r == req[s]
    IN  /\ r.kind \in {"pay", "gateway"}
        /\ IF r.quote = srv.quote /\ srv.active /\ srv.method # NoMethod
           THEN /\ srv' = [srv EXCEPT !.active = FALSE]
                /\ Answer(s, [r EXCEPT !.res = "ok"])
                /\ orders' = orders \cup
                     {[method |-> r.method, address |-> r.address,
                       toMethod |-> srv.method, toAddress |-> srv.address,
                       of |-> done[r.screen]]}
           ELSE /\ Answer(s, [r EXCEPT !.res = "message"])
                /\ UNCHANGED <<srv, orders>>
        /\ UNCHANGED done

\* The cart in use, a new one if there is none.
ServeQuote(s) ==
    /\ req[s].kind = "quote"
    /\ srv' = IF srv.active THEN srv
              ELSE [quote |-> srv.quote + 1, active |-> TRUE,
                    method |-> NoMethod, address |-> NoAddress]
    /\ Answer(s, [req[s] EXCEPT !.res = "ok", !.quote = srv'.quote])
    /\ UNCHANGED <<orders, done>>

\* The gateway's code registers the payment.
ServeRegistration(s) ==
    /\ req[s].kind = "register"
    /\ Answer(s, [req[s] EXCEPT !.res = "ok"])
    /\ UNCHANGED <<srv, orders, done>>

Serve(s) ==
    /\ req[s].res = "sent"
    /\ \/ ServeProfile(s) \/ ServeShipping(s) \/ ServePayment(s)
       \/ ServeQuote(s) \/ ServeRegistration(s)
    /\ UNCHANGED <<route, opened, scr, quoteId, default, taps>>

\* Refused or lost on the way, or the answer lost.
Fault(s) ==
    /\ req[s].kind # "free"
    /\ \E f \in Faults :
           /\ \/ req[s].res = "sent"
              \/ req[s].res = "ok" /\ f = "failed"
           /\ Answer(s, [req[s] EXCEPT !.res = f])
    /\ done' = IF req[s].res = "sent" THEN Refused(req[s]) ELSE done
    /\ UNCHANGED <<route, opened, scr, quoteId, srv, default, taps, orders>>

----------------------------------------------------------------------------
(* The handlers of the answers *)

OnScreen(n) == route.payment /\ n = opened

\* Mutant: the delivery is sent by the first profile of a screen only.
SetShippingOnce(n, a) == a # NoAddress /\ scr[n].listed = 0

\* onNewGetUserProfileDetails: both default addresses go to the server, under
\* the spinner again.
SetsShipping(n, a) == a # NoAddress

\* callApiGetUserProfileDetail, in which nothing throws.
ProfileReply(s) ==
    LET r == req[s]
        n == r.screen
        a == IF r.res = "ok" THEN r.address ELSE NoAddress
        next == SetsShipping(n, a)
    IN  /\ r.kind = "profile"
        /\ scr' = [scr EXCEPT ![n].address = a, ![n].isLoading = next]
        /\ Answer(s, IF next THEN Ask("setship", n, quoteId, scr[n].method, a)
                     ELSE NoRequest)
        /\ UNCHANGED <<route, quoteId>>

\* Mutant: without an answer the handler returns early, under its spinner.
LoadingUnlessSet(r) == r.res # "ok"

\* An answer with an error has no payment methods, which throws before the
\* spinner is taken down.
LoadingAfterSet(r) == r.res \in {"message", "failed"}

\* Mutant: no answer, no list.
NullList(r, listed) == IF r.res = "ok" THEN r.count ELSE NoMethod

ListedAfter(r, listed) == IF r.res = "ok" THEN r.count ELSE listed

\* onSetShippingMethod: the payment methods are replaced, the choice among them
\* is not; without an answer both stay as they are.
SetShippingReply(s) ==
    LET r == req[s]
        n == r.screen
    IN  /\ r.kind = "setship"
        /\ scr' = [scr EXCEPT
               ![n].isLoading = LoadingAfterSet(r),
               ![n].threw = @ \/ r.res \in {"message", "failed"},
               ![n].listed = ListedAfter(r, @)]
        /\ Answer(s, NoRequest)
        /\ UNCHANGED <<route, quoteId>>

\* Mutant: a payment that timed out is sent again.
PaymentReplyRetry(s) ==
    LET r == req[s]
        n == r.screen
        failed == r.res = "failed"
    IN  /\ r.kind \in {"pay", "gateway"}
        /\ scr' = [scr EXCEPT ![n].isLoading = failed]
        /\ route' = IF r.kind = "pay" /\ r.res = "ok" /\ OnScreen(n)
                    THEN [route EXCEPT !.confirmed = TRUE] ELSE route
        /\ Answer(s, IF failed THEN [r EXCEPT !.res = "sent"]
                     ELSE IF r.kind = "gateway" /\ r.res = "ok"
                     THEN Ask("register", n, 0, NoMethod, NoAddress)
                     ELSE NoRequest)
        /\ UNCHANGED quoteId

\* callApiPayment: a timeout throws under the spinner.  The confirmation of an
\* order needs its screen; the gateway is called without it.
PaymentReply(s) ==
    LET r == req[s]
        n == r.screen
        failed == r.res = "failed"
    IN  /\ r.kind \in {"pay", "gateway"}
        /\ scr' = [scr EXCEPT ![n].isLoading = failed, ![n].threw = @ \/ failed]
        /\ route' = IF r.kind = "pay" /\ r.res = "ok" /\ OnScreen(n)
                    THEN [route EXCEPT !.confirmed = TRUE] ELSE route
        /\ Answer(s, IF r.kind = "gateway" /\ r.res = "ok"
                     THEN Ask("register", n, 0, NoMethod, NoAddress)
                     ELSE NoRequest)
        /\ UNCHANGED quoteId

\* Anything but Success is passed over in silence.
RegistrationReply(s) ==
    LET r == req[s]
    IN  /\ r.kind = "register"
        /\ route' = IF r.res = "ok" /\ OnScreen(r.screen)
                    THEN [route EXCEPT !.web = @ + 1] ELSE route
        /\ Answer(s, NoRequest)
        /\ UNCHANGED <<scr, quoteId>>

\* The cart's number is kept before the screens are removed, which a
\* confirmation that is gone cannot do.  New screens share no old list.
QuoteReply(s) ==
    LET r == req[s]
    IN  /\ r.kind = "quote"
        /\ quoteId' = IF r.res = "ok" THEN r.quote ELSE quoteId
        /\ IF r.res = "ok" /\ route.confirmed /\ OnScreen(r.screen)
           THEN /\ route' = CartOnly
                /\ scr' = [n \in Screens |-> [scr[n] EXCEPT !.shared = FALSE]]
           ELSE UNCHANGED <<route, scr>>
        /\ Answer(s, NoRequest)

Reply(s) ==
    /\ req[s].res # "sent"
    /\ \/ ProfileReply(s) \/ SetShippingReply(s) \/ PaymentReply(s)
       \/ RegistrationReply(s) \/ QuoteReply(s)
    /\ UNCHANGED <<opened, srv, default, taps, orders, done>>

----------------------------------------------------------------------------

Next ==
    \/ \E m \in AnyMethod : ProceedToCheckout(m)
    \/ LeavePayment
    \/ \E cleared \in BOOLEAN : EstimateAnswered(cleared)
    \/ OpenAddresses \/ LeaveAddresses
    \/ \E a \in AnyAddress : ChangeDefault(a)
    \/ \E i \in 0..1 : _onClickRadioPaymentMethod(i)
    \/ _onClickButtonPayNow
    \/ LeaveWebView \/ CallbackLoaded \/ ContinueShopping
    \/ \E s \in Slots : Serve(s) \/ Fault(s) \/ Reply(s)

Spec == Init /\ [][Next]_vars

----------------------------------------------------------------------------
(* Properties *)

\* A payment screen does one thing at a time: of its requests for the profile,
\* for the delivery and to pay one at most is under way, and only under its
\* spinner, although screens are left and reopened with requests under way and
\* the gateway is called without one (payment_notifier.dart).
OneAtATime ==
    \A s, t \in Slots :
        req[s].kind \in Awaited =>
            /\ scr[req[s].screen].isLoading
            /\ (req[t].kind \in Awaited /\ req[t].screen = req[s].screen => s = t)

\* No order without a delivery of its own screen: the request to pay names
\* none, so the server must have taken one from the same screen, through
\* whatever screens, carts and failures came before (updateInitialValue leaves
\* the payment methods out, without which nothing can be chosen).
DeliverySetFirst == \A o \in orders : o.of.taken

AsShown(o) == o.toMethod = o.method /\ o.toAddress = o.address

\* The only ways to a delivery other than the one shown are two: the server did
\* not take the screen's last one, or it took one of another screen after it
\* (onSetShippingMethod, buildCreateOrderRequest).
MisdeliveryExplained ==
    \A o \in orders : ~AsShown(o) => o.of.last \in {"refused", "overtaken"}

\* "//call SetShippingMethod to set Billing and Sgipping Address": an order goes
\* where the screen that placed it says, by the method it says.
DeliveredAsShown == \A o \in orders : AsShown(o)

\* A payment screen is not locked for good: whatever was refused, while its
\* spinner is up one of its requests is under way, unless an exception ended
\* the handler of one.
SpinnerHasOwner ==
    \A n \in Screens : scr[n].isLoading /\ ~scr[n].threw =>
        \E s \in Slots : req[s].kind \in Awaited /\ req[s].screen = n

\* What a screen is doing, in the words of CheckoutFlow: the request of its own
\* that is under way says so, or else its spinner.
Phase(n) ==
    LET own == {s \in Slots : req[s].kind \in Awaited /\ req[s].screen = n}
        Awaits(kinds) == \E s \in own : req[s].kind \in kinds
    IN  IF n > opened THEN "closed"
        ELSE IF own = {} THEN IF scr[n].isLoading THEN "stuck" ELSE "idle"
        ELSE IF Awaits({"profile"}) THEN "asking"
        ELSE IF \E s \in own : req[s].res # "sent" THEN "answered"
        ELSE IF Awaits({"setship"}) THEN "setting" ELSE "paying"

Flow == INSTANCE CheckoutFlow WITH
            phase <- [n \in Screens |-> Phase(n)],
            taken <- {n \in Screens : done[n].taken},
            cart <- [number |-> srv.quote, active |-> srv.active,
                     delivered |-> srv.method # NoMethod]

\* The checkout keeps the promise of CheckoutFlow: through screens that are left
\* and reopened under their requests, lost answers and the gateway, every screen
\* goes on only after an answer, one whose handler threw never again, nothing
\* is paid from a screen without a delivery, and a cart is ordered once, even if
\* a payment that timed out is made again (payment_notifier.dart).
ImplementsFlow == Flow!Spec
=============================================================================
