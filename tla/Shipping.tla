------------------------------ MODULE Shipping ------------------------------
(***************************************************************************)
(* What the cart screen does about delivery: the estimate, a chain of three *)
(* requests that fetches the shipping methods; the radio buttons that       *)
(* select one of them; the totals, asked for again after every change that  *)
(* may affect them; the coupon; and the step to the payment screen, which   *)
(* is handed the list of methods itself, not a copy.                        *)
(*                                                                          *)
(* The spinner over the screen is up while the first request of an estimate *)
(* is awaited, and down during the other two: the customer goes on tapping. *)
(* Requests are served and answered in any order.                           *)
(*                                                                          *)
(* The state starts where the constructor of CartNotifier, with the cart    *)
(* and the countries loaded, makes its first estimate.  The cart is assumed *)
(* not to become empty, which would hide the card with the methods; what is *)
(* in it is module Cart.  The amounts of the totals are abstracted to what  *)
(* they were computed from.                                                 *)
(***************************************************************************)
EXTENDS Integers, Sequences, FiniteSets

CONSTANTS
    Methods,   \* what ShippingMethodModel says of a carrier and its method
    NoMethod,  \* a request or totals without a method
    Lists,     \* the lists of methods an estimate may return
    Slots,     \* requests in flight at once (a bound)
    Faults,    \* what may go wrong with a request: a subset of AllFaults
    MaxTaps    \* how often the customer taps (a bound)

\* "message": an answer that carries an error; "null": a status the repository
\* turns into null, or no network; "failed": an exception, or a timeout, after
\* the server did its part or before.
AllFaults == {"message", "null", "failed"}

ASSUME ShippingAssumption ==
    /\ NoMethod \notin Methods
    /\ Lists \subseteq Seq(Methods)
    /\ Faults \subseteq AllFaults
    /\ MaxTaps \in Nat

VARIABLES
    methods,   \* lstShippingMethod
    stale,     \* the radio buttons still drawn of a list that was cleared
    radio,     \* selectedRadioShippingMethod
    totals,    \* listTotalSegmentsModel: whether any are shown, for which method
    coupon,    \* couponCode: whether one is shown
    hud,       \* isLoading, the spinner that takes every tap
    loading,   \* isLoadingCartTotalData, the spinner in place of the totals
    payment,   \* the payment screen, if it is open, and what it was handed
    applied,   \* whether the server has a coupon on the cart
    req,       \* the requests in flight
    taps,      \* taps so far
    asked,     \* history: the method the last request for totals named
    thrown     \* history: whether a request or the handler of one has thrown

vars == <<methods, stale, radio, totals, coupon, hud, loading, payment, applied,
          req, taps, asked, thrown>>

Kinds == {"formkeys", "login", "estimate", "totals", "addcoupon",
          "removecoupon", "put", "list", "delete", "relist"}

\* A request: what a request for totals asks for, the outcome ("sent" until
\* there is one), and what the answer says.
Request == [kind: Kinds \cup {"free"}, method: Methods \cup {NoMethod},
            res: {"sent", "ok"} \cup AllFaults,
            list: Lists \cup {<<>>}, coupon: BOOLEAN]

Ask(kind, m) == [kind |-> kind, method |-> m, res |-> "sent", list |-> <<>>,
                 coupon |-> FALSE]
NoRequest == Ask("free", NoMethod)

\* The list of the payment screen is the one of the cart screen until that one
\* gets another.
Payment == [open: BOOLEAN, shared: BOOLEAN, list: Lists \cup {<<>>},
            selected: Nat]
NoPayment == [open |-> FALSE, shared |-> FALSE, list |-> <<>>, selected |-> 0]

TypeOK ==
    /\ methods \in Lists \cup {<<>>}
    /\ stale \in Nat
    /\ radio \in Nat
    /\ totals \in [shown: BOOLEAN, method: Methods \cup {NoMethod}]
    /\ coupon \in BOOLEAN
    /\ hud \in BOOLEAN
    /\ loading \in BOOLEAN
    /\ payment \in Payment
    /\ applied \in BOOLEAN
    /\ req \in [Slots -> Request]
    /\ taps \in Nat
    /\ asked \in Methods \cup {NoMethod}
    /\ thrown \in BOOLEAN

Free == {s \in Slots : req[s].kind = "free"}

\* Assigning any field but the list through `clear` notifies the screen, which
\* is then drawn again.
Redraw == stale' = 0

\* The radio buttons on the screen.
Buttons == 0 .. (IF methods = <<>> THEN stale ELSE Len(methods)) - 1

Init ==
    /\ methods = <<>>
    /\ stale = 0
    /\ radio = 0
    /\ totals = [shown |-> FALSE, method |-> NoMethod]
    /\ coupon = FALSE
    /\ hud = TRUE
    /\ loading = FALSE
    /\ payment = NoPayment
    /\ applied \in BOOLEAN
    /\ \E s \in Slots : req = [[t \in Slots |-> NoRequest]
                                   EXCEPT ![s] = Ask("formkeys", NoMethod)]
    /\ taps = 0
    /\ asked = NoMethod
    /\ thrown = FALSE

----------------------------------------------------------------------------
(* Asking for the totals *)

\* _buildTotalRequest with this list and selection.  A selection outside the
\* list makes it null, which the repository dereferences: a failure to come.
_buildTotalRequest(list, i) ==
    IF list = <<>> \/ i = -1 THEN Ask("totals", NoMethod)
    ELSE IF i < Len(list) THEN Ask("totals", list[i + 1])
    ELSE [Ask("totals", NoMethod) EXCEPT !.res = "failed"]

\* callApiGetCartTotal, as a part of an action that leaves slot s to it: it
\* reads the list and the selection as they are now, and is not awaited.
callApiGetCartTotal(s) ==
    LET r == _buildTotalRequest(methods', radio')
    IN  /\ loading' = TRUE
        /\ req' = [req EXCEPT ![s] = r]
        /\ asked' = r.method
        /\ thrown' = IF r.res = "failed" THEN TRUE ELSE thrown
        /\ Redraw

----------------------------------------------------------------------------
(* The customer *)

Tappable ==
    /\ ~hud /\ ~payment.open
    /\ taps < MaxTaps /\ taps' = taps + 1

\* A button that puts the spinner up and sends one request.
Press(kind) ==
    /\ Tappable
    /\ hud' = TRUE
    /\ \E s \in Free : req' = [req EXCEPT ![s] = Ask(kind, NoMethod)]
    /\ Redraw
    /\ UNCHANGED <<methods, radio, totals, coupon, loading, payment, applied,
                   asked, thrown>>

\* The button, or another country or region.
callApiEstimateShippingAndTax == Press("formkeys")

\* Another quantity for a line, and a line removed.
callAPIAddItemToCart == Press("put")
callApiRemoveCartItem == Press("delete")

\* One button, for the coupon that is shown or for the one typed in.
callApiAddCoupon == ~coupon /\ Press("addcoupon")
callApiRemoveCoupon == coupon /\ Press("removecoupon")

\* Mutant: the selection is changed, the totals are left as they are.
SelectSilently(i) ==
    /\ Tappable
    /\ i \in Buttons /\ i # radio
    /\ radio' = i
    /\ Redraw
    /\ UNCHANGED <<methods, totals, coupon, hud, loading, payment, applied,
                   req, asked, thrown>>

\* _onClickRadioShippingMethod: the selection, and the totals for it; also by a
\* button that is left of a list that was cleared.
SelectMethod(i) ==
    /\ Tappable
    /\ i \in Buttons /\ i # radio
    /\ radio' = i
    /\ methods' = methods
    /\ \E s \in Free : callApiGetCartTotal(s)
    /\ UNCHANGED <<totals, coupon, hud, payment, applied>>

\* _onClickedButtonProceedToCheckout: the payment screen, with the list itself.
\* The guard compares with -1, which nothing assigns.
ProceedToCheckout ==
    /\ Tappable
    /\ radio # -1
    /\ payment' = [open |-> TRUE, shared |-> TRUE, list |-> methods,
                   selected |-> radio]
    /\ UNCHANGED <<methods, stale, radio, totals, coupon, hud, loading, applied, req,
                   asked, thrown>>

\* Back from the payment screen: the code after the route only fails.
BackToCart ==
    /\ payment.open
    /\ payment' = NoPayment
    /\ UNCHANGED <<methods, stale, radio, totals, coupon, hud, loading, applied,
                   req, taps, asked, thrown>>

----------------------------------------------------------------------------
(* The server and the network *)

Serve(s) ==
    /\ req[s].kind # "free" /\ req[s].res = "sent"
    /\ applied' = CASE req[s].kind = "addcoupon" -> TRUE
                    [] req[s].kind = "removecoupon" -> FALSE
                    [] OTHER -> applied
    /\ \E l \in Lists \cup {<<>>} :
           /\ req[s].kind # "estimate" => l = <<>>
           /\ req' = [req EXCEPT ![s].res = "ok", ![s].list = l,
                                 ![s].coupon = (applied /\ req[s].kind = "totals")]
    /\ UNCHANGED <<methods, stale, radio, totals, coupon, hud, loading, payment,
                   taps, asked, thrown>>

\* Something goes wrong before the server did its part, or after.
Fault(s) ==
    /\ req[s].kind # "free"
    /\ \E f \in Faults :
           /\ \/ req[s].res = "sent"
              \/ req[s].res = "ok" /\ f = "failed"
           /\ req' = [req EXCEPT ![s].res = f]
           /\ thrown' = IF f = "failed" THEN TRUE ELSE thrown
    /\ UNCHANGED <<methods, stale, radio, totals, coupon, hud, loading, payment,
                   applied, taps, asked>>

----------------------------------------------------------------------------
(* The replies *)

\* The form key is taken from any body there is.
HasBody(r) == r.res \in {"ok", "message"}

\* Mutant: only an accepted form key takes the spinner down.
FormKeysAccepted(s) ==
    /\ req[s].kind = "formkeys"
    /\ hud' = (hud /\ req[s].res # "ok")
    /\ req' = [req EXCEPT ![s] = IF HasBody(@) THEN Ask("login", NoMethod)
                                 ELSE NoRequest]
    /\ thrown' = IF HasBody(req[s]) THEN thrown ELSE TRUE
    /\ IF HasBody(req[s]) THEN Redraw ELSE UNCHANGED stale
    /\ UNCHANGED <<methods, radio, totals, coupon, loading, payment,
                   applied, taps, asked>>

\* With a body the login is sent and the spinner taken down; without, the
\* handler fails under its spinner.
FormKeysReply(s) ==
    /\ req[s].kind = "formkeys"
    /\ hud' = (hud /\ ~HasBody(req[s]))
    /\ req' = [req EXCEPT ![s] = IF HasBody(@) THEN Ask("login", NoMethod)
                                 ELSE NoRequest]
    /\ thrown' = IF HasBody(req[s]) THEN thrown ELSE TRUE
    /\ IF HasBody(req[s]) THEN Redraw ELSE UNCHANGED stale
    /\ UNCHANGED <<methods, radio, totals, coupon, loading, payment,
                   applied, taps, asked>>

\* Mutant: the selection the comment there speaks of.
NoSelection(r) == IF r.res # "failed" THEN -1 ELSE radio

\* The selection after a login, accepted or not.
ResetSelection(r) == IF r.res # "failed" THEN 0 ELSE radio

\* The web login: the selection is reset and the estimate sent, unless an
\* exception ends the chain.
LoginReply(s) ==
    /\ req[s].kind = "login"
    /\ radio' = ResetSelection(req[s])
    /\ req' = [req EXCEPT ![s] = IF @.res = "failed" THEN NoRequest
                                 ELSE Ask("estimate", NoMethod)]
    /\ IF req[s].res = "failed" THEN UNCHANGED stale ELSE Redraw
    /\ UNCHANGED <<methods, totals, coupon, hud, loading, payment, applied,
                   taps, asked, thrown>>

\* A list of methods is shown, as a list of its own, and its totals asked for.
MethodsShown(s) ==
    /\ req[s].res = "ok" /\ req[s].list # <<>>
    /\ methods' = req[s].list
    /\ payment' = [payment EXCEPT !.shared = FALSE]
    /\ radio' = radio
    /\ callApiGetCartTotal(s)
    /\ UNCHANGED <<totals, coupon, hud, applied, taps>>

\* No methods: the list is cleared, the one of the payment screen with it, and
\* nothing is drawn again for that.
MethodsCleared(s) ==
    /\ \/ req[s].res \in {"message", "null"}
       \/ req[s].res = "ok" /\ req[s].list = <<>>
    /\ methods' = <<>>
    /\ stale' = IF methods = <<>> THEN stale ELSE Len(methods)
    /\ payment' = IF payment.shared THEN [payment EXCEPT !.list = <<>>]
                  ELSE payment
    /\ req' = [req EXCEPT ![s] = NoRequest]
    /\ UNCHANGED <<radio, totals, coupon, hud, loading, applied, taps, asked,
                   thrown>>

\* An exception in the chain of futures is caught nowhere.
EstimateLost(s) ==
    /\ req[s].res = "failed"
    /\ req' = [req EXCEPT ![s] = NoRequest]
    /\ UNCHANGED <<methods, stale, radio, totals, coupon, hud, loading, payment,
                   applied, taps, asked, thrown>>

onNewShippingMethodResponse(s) ==
    /\ req[s].kind = "estimate"
    /\ MethodsShown(s) \/ MethodsCleared(s) \/ EstimateLost(s)

\* Mutant: an answer without totals leaves the spinner up.
LoadingUntilShown(r) == loading /\ r.res # "ok"

\* Every answer takes the spinner of the totals down, whether or not another
\* request is under way; an exception leaves it up.
LoadingAfter(r) == loading /\ r.res = "failed"

\* The totals, and the coupon that goes with them.  An exception takes the
\* spinner over the screen down, which is not its own.
onNewGetCartTotalResponse(s) ==
    LET r == req[s]
    IN  /\ r.kind = "totals"
        /\ IF r.res = "ok"
           THEN totals' = [shown |-> TRUE, method |-> r.method]
                /\ coupon' = r.coupon
           ELSE UNCHANGED <<totals, coupon>>
        /\ loading' = LoadingAfter(r)
        /\ hud' = (hud /\ r.res # "failed")
        /\ req' = [req EXCEPT ![s] = NoRequest]
        /\ Redraw
        /\ UNCHANGED <<methods, radio, payment, applied, taps, asked, thrown>>

\* The answers after which the totals are asked for again: a coupon accepted,
\* the removal of one answered at all, the cart list after a new quantity.
TotalsDue(r) ==
    \/ r.kind = "addcoupon" /\ r.res = "ok"
    \/ r.kind = "removecoupon" /\ r.res \in {"ok", "message"}
    \/ r.kind = "list"

CouponOrListReply(s) ==
    /\ req[s].kind \in {"addcoupon", "removecoupon", "list"}
    /\ hud' = FALSE
    /\ UNCHANGED <<methods, radio>>
    /\ IF TotalsDue(req[s])
       THEN callApiGetCartTotal(s)
       ELSE /\ req' = [req EXCEPT ![s] = NoRequest]
            /\ Redraw
            /\ UNCHANGED <<loading, asked, thrown>>
    /\ UNCHANGED <<totals, coupon, payment, applied, taps>>

\* What the reply to a change of the cart sends next: the cart list, without
\* the spinner after a new quantity and under it after a removal, which goes
\* on to an estimate.
AfterChange(r) ==
    CASE r.kind = "put" /\ r.res \in {"ok", "message"} -> Ask("list", NoMethod)
      [] r.kind = "delete" /\ r.res = "ok"             -> Ask("relist", NoMethod)
      [] r.kind = "relist"                             -> Ask("formkeys", NoMethod)
      [] OTHER                                         -> NoRequest

ChangeReply(s) ==
    LET next == AfterChange(req[s])
    IN  /\ req[s].kind \in {"put", "delete", "relist"}
        /\ hud' = (next.kind \in {"relist", "formkeys"})
        /\ req' = [req EXCEPT ![s] = next]
        /\ Redraw
        /\ UNCHANGED <<methods, radio, totals, coupon, loading, payment,
                       applied, taps, asked, thrown>>

Reply(s) ==
    /\ req[s].res # "sent"
    /\ \/ FormKeysReply(s) \/ LoginReply(s) \/ onNewShippingMethodResponse(s)
       \/ onNewGetCartTotalResponse(s) \/ CouponOrListReply(s) \/ ChangeReply(s)

----------------------------------------------------------------------------

Next ==
    \/ callApiEstimateShippingAndTax \/ callAPIAddItemToCart
    \/ callApiRemoveCartItem \/ callApiAddCoupon \/ callApiRemoveCoupon
    \/ \E i \in Buttons : SelectMethod(i)
    \/ ProceedToCheckout \/ BackToCart
    \/ \E s \in Slots : Serve(s) \/ Fault(s) \/ Reply(s)

Spec == Init /\ [][Next]_vars

\* NetworkProvider gives every request a time limit, so each one gets an answer
\* or a fault, and the event loop runs the handler that awaits it.
FairSpec ==
    /\ Spec
    /\ \A s \in Slots : WF_vars(Serve(s) \/ Fault(s)) /\ WF_vars(Reply(s))

----------------------------------------------------------------------------
(* Properties *)

\* The totals never wait for nothing: while their spinner is up a request for
\* totals is in flight.  (callApiGetCartTotal raises it and the answer lowers
\* it; an exception leaves it up, one for an index out of range included.)
LoadingHasOwner ==
    loading /\ ~thrown => \E s \in Slots : req[s].kind = "totals"

\* The requests whose answers, any of them but an exception, take the spinner
\* over the screen down or send the next of these.
HudKinds == {"formkeys", "put", "delete", "relist", "addcoupon", "removecoupon"}

\* The customer is never locked out for nothing: while the spinner over the
\* screen is up, a request is in flight whose answer takes it down.  Answers to
\* requests without the spinner (the cart list, totals) may come in between and
\* take it down for another's, so that two of them run at once; still no order
\* leaves it up behind the last (cart_notifier.dart, every handler that assigns
\* isLoading).
HudHasOwner ==
    hud /\ ~thrown => \E s \in Slots : req[s].kind \in HudKinds

\* Whatever the customer tapped while an estimate was under way, once none is
\* the last request for totals was for the method selected in the list shown
\* (_onClickRadioShippingMethod, the reset after the login and
\* onNewShippingMethodResponse together), unless an exception ended a chain.
AskedForSelection ==
    methods # <<>> /\ ~thrown /\ (\A s \in Slots : req[s].kind # "estimate")
        => radio \in 0 .. Len(methods) - 1 /\ asked = methods[radio + 1]

\* The customer is not locked out: without exceptions the spinner over the
\* screen, which takes every tap, is always taken down, and so is the one of
\* the totals (cart_notifier.dart, the handlers that raise isLoading).
SpinnersEnd == []<>(~hud \/ thrown) /\ []<>(~loading \/ thrown)

\* What a comment says, and the code does not do.

\* The radio button that is on is one of the list shown, or none: the comment at
\* cart_notifier.dart:243 has the selection reset, to none, before a new list.
RadioInRange == methods # <<>> => radio \in -1 .. Len(methods) - 1

=============================================================================
