--------------------------- MODULE ShippingProofs ---------------------------
(***************************************************************************)
(* Proofs about Shipping, for every set of methods and lists, any number of *)
(* requests in flight and of taps.  The lists may differ in length: a       *)
(* selection outside the list throws when the totals are asked for, and     *)
(* what is proved of the spinners and of the last request for totals is     *)
(* proved until something throws.                                           *)
(***************************************************************************)
EXTENDS Shipping, TLAPS

\* The request for totals that is built is one, whatever list and selection it
\* is built from.
LEMMA BuiltRequest ==
    ASSUME NEW list \in Lists \cup {<<>>}, NEW i \in Nat
    PROVE  /\ _buildTotalRequest(list, i) \in Request
           /\ _buildTotalRequest(list, i).kind = "totals"
           /\ _buildTotalRequest(list, i).method \in Methods \cup {NoMethod}
           /\ list # <<>> /\ i < Len(list)
                => _buildTotalRequest(list, i).method = list[i + 1]
           /\ IF list = <<>> \/ i < Len(list)
              THEN _buildTotalRequest(list, i).res = "sent"
              ELSE _buildTotalRequest(list, i).res = "failed"
<1>1. CASE list = <<>>
  BY <1>1 DEF _buildTotalRequest, Ask, Request, Kinds, AllFaults
<1>2. CASE list # <<>> /\ i < Len(list)
  <2>1. list[i + 1] \in Methods
    BY <1>2, ShippingAssumption DEF ShippingAssumption
  <2>2. _buildTotalRequest(list, i) = Ask("totals", list[i + 1])
    BY <1>2 DEF _buildTotalRequest
  <2> QED
    BY <1>2, <2>1, <2>2 DEF Ask, Request, Kinds, AllFaults
<1>3. CASE list # <<>> /\ ~(i < Len(list))
  <2>1. _buildTotalRequest(list, i)
          = [Ask("totals", NoMethod) EXCEPT !.res = "failed"]
    BY <1>3 DEF _buildTotalRequest
  <2> QED
    BY <1>3, <2>1 DEF Ask, Request, Kinds, AllFaults
<1> QED
  BY <1>1, <1>2, <1>3

\* A request that was just sent is one.
LEMMA Asked ==
    ASSUME NEW k \in Kinds \cup {"free"}, NEW m \in Methods \cup {NoMethod}
    PROVE  Ask(k, m) \in Request /\ Ask(k, m).kind = k /\ Ask(k, m).res = "sent"
BY DEF Ask, Request, AllFaults

----------------------------------------------------------------------------
(* Types *)

\* A radio button has an index, and so many are left of a list that was cleared.
LEMMA ButtonsType ==
    ASSUME TypeOK PROVE Buttons \subseteq Nat /\ Len(methods) \in Nat
<1>0. <<>> \in Seq(Methods) /\ Lists \subseteq Seq(Methods)
  BY ShippingAssumption
<1>1. methods \in Seq(Methods)
  BY <1>0 DEF TypeOK
<1> QED
  BY <1>1 DEF Buttons, TypeOK

LEMMA TypeInit == Init => TypeOK
<1> SUFFICES ASSUME Init PROVE TypeOK
  OBVIOUS
<1>1. PICK s \in Slots : req = [[t \in Slots |-> NoRequest]
                                   EXCEPT ![s] = Ask("formkeys", NoMethod)]
  BY DEF Init
<1>2. NoRequest \in Request /\ Ask("formkeys", NoMethod) \in Request
  BY Asked DEF NoRequest, Kinds
<1>3. req \in [Slots -> Request]
  BY <1>1, <1>2
<1> QED
  BY <1>3 DEF Init, TypeOK, NoPayment, Payment

LEMMA TypeTotals ==
    ASSUME TypeOK, NEW s \in Slots, callApiGetCartTotal(s),
           methods' \in Lists \cup {<<>>}, radio' \in Nat
    PROVE  /\ loading' \in BOOLEAN
           /\ req' \in [Slots -> Request]
           /\ asked' \in Methods \cup {NoMethod}
           /\ thrown' \in BOOLEAN
           /\ stale' \in Nat
BY BuiltRequest DEF TypeOK, callApiGetCartTotal, Redraw

LEMMA TypePress ==
    ASSUME TypeOK, NEW k \in Kinds, Press(k)
    PROVE  TypeOK'
<1>1. Ask(k, NoMethod) \in Request
  BY Asked
<1> QED
  BY <1>1 DEF TypeOK, Press, Tappable, Free, Redraw

LEMMA TypeNext == TypeOK /\ [Next]_vars => TypeOK'
<1> SUFFICES ASSUME TypeOK, [Next]_vars
             PROVE  TypeOK'
  OBVIOUS
<1>1. CASE callApiEstimateShippingAndTax
  BY <1>1, TypePress DEF callApiEstimateShippingAndTax, Kinds
<1>2. CASE callAPIAddItemToCart
  BY <1>2, TypePress DEF callAPIAddItemToCart, Kinds
<1>3. CASE callApiRemoveCartItem
  BY <1>3, TypePress DEF callApiRemoveCartItem, Kinds
<1>4. CASE callApiAddCoupon
  BY <1>4, TypePress DEF callApiAddCoupon, Kinds
<1>5. CASE callApiRemoveCoupon
  BY <1>5, TypePress DEF callApiRemoveCoupon, Kinds
<1>6. ASSUME NEW i \in Buttons, SelectMethod(i)
      PROVE  TypeOK'
  <2>1. PICK s \in Free : callApiGetCartTotal(s)
    BY <1>6 DEF SelectMethod
  <2>2. methods' \in Lists \cup {<<>>} /\ radio' \in Nat /\ s \in Slots
    BY <1>6, ButtonsType DEF SelectMethod, TypeOK, Free
  <2> QED
    BY <1>6, <2>1, <2>2, TypeTotals DEF SelectMethod, TypeOK, Tappable
<1>7. CASE ProceedToCheckout
  BY <1>7 DEF ProceedToCheckout, Tappable, TypeOK, Payment
<1>8. CASE BackToCart
  BY <1>8 DEF BackToCart, TypeOK, Payment, NoPayment
<1>9. ASSUME NEW s \in Slots, Serve(s)
      PROVE  TypeOK'
  <2> DEFINE c == applied /\ req[s].kind = "totals"
  <2>0. c \in BOOLEAN
    OBVIOUS
  <2>1. PICK l \in Lists \cup {<<>>} :
          req' = [req EXCEPT ![s].res = "ok", ![s].list = l, ![s].coupon = c]
    BY <1>9 DEF Serve
  <2> HIDE DEF c
  <2>2. [req[s] EXCEPT !.res = "ok", !.list = l, !.coupon = c] \in Request
    BY <2>0 DEF TypeOK, Request
  <2>3. req' \in [Slots -> Request]
    BY <2>1, <2>2 DEF TypeOK
  <2>4. applied' \in BOOLEAN
    BY <1>9 DEF Serve, TypeOK
  <2> QED
    BY <1>9, <2>3, <2>4 DEF Serve, TypeOK
<1>10. ASSUME NEW s \in Slots, Fault(s)
       PROVE  TypeOK'
  <2>1. PICK f \in Faults : /\ req' = [req EXCEPT ![s].res = f]
                            /\ thrown' = IF f = "failed" THEN TRUE ELSE thrown
    BY <1>10 DEF Fault
  <2>2. [req[s] EXCEPT !.res = f] \in Request
    BY ShippingAssumption DEF TypeOK, Request, ShippingAssumption
  <2> QED
    BY <1>10, <2>1, <2>2 DEF Fault, TypeOK
<1>11. ASSUME NEW s \in Slots, Reply(s)
       PROVE  TypeOK'
  <2>0. NoRequest \in Request
    BY Asked DEF NoRequest
  <2>1. CASE FormKeysReply(s)
    <3>1. stale' \in Nat
      BY <2>1 DEF FormKeysReply, Redraw, TypeOK
    <3>2. thrown' \in BOOLEAN /\ hud' \in BOOLEAN
      BY <2>1 DEF FormKeysReply, TypeOK
    <3>3. req' \in [Slots -> Request]
      BY <2>1, Asked DEF FormKeysReply, TypeOK, NoRequest, Kinds
    <3> QED
      BY <2>1, <3>1, <3>2, <3>3 DEF FormKeysReply, TypeOK
  <2>2. CASE LoginReply(s)
    BY <2>2, Asked DEF LoginReply, ResetSelection, TypeOK, NoRequest, Kinds,
                       Redraw
  <2>3. CASE MethodsShown(s)
    <3>1. /\ methods' \in Lists \cup {<<>>}
          /\ radio' \in Nat
          /\ callApiGetCartTotal(s)
      BY <2>3 DEF MethodsShown, TypeOK, Request
    <3> QED
      BY <2>3, <3>1, TypeTotals DEF MethodsShown, TypeOK, Payment
  <2>4. CASE MethodsCleared(s)
    BY <2>4, <2>0, ButtonsType DEF MethodsCleared, TypeOK, Payment
  <2>5. CASE EstimateLost(s)
    BY <2>5, <2>0 DEF EstimateLost, TypeOK
  <2>6. CASE onNewGetCartTotalResponse(s)
    <3>1. req[s].method \in Methods \cup {NoMethod}
      BY DEF TypeOK, Request
    <3>2. totals' = totals \/ totals' = [shown |-> TRUE, method |-> req[s].method]
      BY <2>6, Zenon DEF onNewGetCartTotalResponse
    <3>3. totals' \in [shown: BOOLEAN, method: Methods \cup {NoMethod}]
      <4>1. [shown |-> TRUE, method |-> req[s].method]
              \in [shown: BOOLEAN, method: Methods \cup {NoMethod}]
        BY <3>1
      <4>2. totals \in [shown: BOOLEAN, method: Methods \cup {NoMethod}]
        BY DEF TypeOK
      <4> QED
        BY <3>2, <4>1, <4>2, Zenon
    <3>4. req[s].coupon \in BOOLEAN
      BY DEF TypeOK, Request
    <3>5. coupon' \in BOOLEAN
      BY <2>6, <3>4, Zenon DEF onNewGetCartTotalResponse, TypeOK
    <3>6. loading' \in BOOLEAN /\ hud' \in BOOLEAN
      BY <2>6 DEF onNewGetCartTotalResponse, LoadingAfter
    <3>7. req' \in [Slots -> Request]
      BY <2>6, <2>0 DEF onNewGetCartTotalResponse, TypeOK
    <3> QED
      BY <2>6, <3>3, <3>5, <3>6, <3>7 DEF onNewGetCartTotalResponse, TypeOK, Redraw
  <2>7. CASE CouponOrListReply(s)
    <3>1. CASE TotalsDue(req[s])
      BY <2>7, <3>1, TypeTotals DEF CouponOrListReply, TypeOK
    <3>2. CASE ~TotalsDue(req[s])
      <4>1. req' \in [Slots -> Request] /\ stale' \in Nat
        BY <2>7, <3>2, <2>0 DEF CouponOrListReply, TypeOK, Redraw
      <4> QED
        BY <2>7, <3>2, <4>1 DEF CouponOrListReply, TypeOK
    <3> QED
      BY <3>1, <3>2
  <2>8. CASE ChangeReply(s)
    <3>1. AfterChange(req[s]) \in Request
      BY Asked DEF AfterChange, NoRequest, Kinds
    <3> QED
      BY <2>8, <3>1 DEF ChangeReply, TypeOK, Redraw
  <2> QED
    BY <1>11, <2>1, <2>2, <2>3, <2>4, <2>5, <2>6, <2>7, <2>8
       DEF Reply, onNewShippingMethodResponse
<1>12. CASE UNCHANGED vars
  BY <1>12 DEF vars, TypeOK
<1> QED
  BY <1>1, <1>2, <1>3, <1>4, <1>5, <1>6, <1>7, <1>8, <1>9, <1>10, <1>11, <1>12
     DEF Next

\* Every variable keeps its type, in particular the selection is never negative:
\* the -1 the guard of _onClickedButtonProceedToCheckout waits for does not come.
THEOREM TypeCorrect == Spec => []TypeOK
BY TypeInit, TypeNext, PTL DEF Spec

----------------------------------------------------------------------------
(* The totals *)

\* A request that failed was counted as an exception.
NoFailure == ~thrown => \A s \in Slots : req[s].res # "failed"

\* The strengthening under which the two properties of the totals are inductive.
TotalsInv == TypeOK /\ NoFailure /\ LoadingHasOwner /\ AskedForSelection

\* Exceptions are not forgotten.
LEMMA ThrownStays == [Next]_vars /\ ~thrown' => ~thrown
<1> SUFFICES ASSUME [Next]_vars, thrown
             PROVE  thrown'
  BY Zenon
<1>1. ASSUME NEW s \in Slots, callApiGetCartTotal(s)
      PROVE  thrown'
  BY <1>1, Zenon DEF callApiGetCartTotal
<1>2. ASSUME NEW i \in Buttons, SelectMethod(i)
      PROVE  thrown'
  BY <1>1, <1>2, Zenon DEF SelectMethod, Free
<1>3. ASSUME NEW s \in Slots, Reply(s)
      PROVE  thrown'
  BY <1>1, <1>3, Zenon DEF Reply, FormKeysReply, LoginReply,
       onNewShippingMethodResponse, MethodsShown, MethodsCleared, EstimateLost,
       onNewGetCartTotalResponse, CouponOrListReply, ChangeReply
<1>4. ASSUME NEW s \in Slots, Serve(s) \/ Fault(s)
      PROVE  thrown'
  BY <1>4, Zenon DEF Serve, Fault
<1> QED
  BY <1>2, <1>3, <1>4, Zenon DEF Next, vars, Press,
       callApiEstimateShippingAndTax, callAPIAddItemToCart,
       callApiRemoveCartItem, callApiAddCoupon, callApiRemoveCoupon,
       ProceedToCheckout, BackToCart

LEMMA TotalsInvInit == Init => TotalsInv
<1> SUFFICES ASSUME Init PROVE TotalsInv
  OBVIOUS
<1>1. PICK s \in Slots : req = [[t \in Slots |-> NoRequest]
                                   EXCEPT ![s] = Ask("formkeys", NoMethod)]
  BY DEF Init
<1>2. NoFailure
  BY <1>1, Asked DEF NoFailure, NoRequest, Kinds
<1>3. LoadingHasOwner /\ AskedForSelection
  BY DEF Init, LoadingHasOwner, AskedForSelection
<1> QED
  BY <1>2, <1>3, TypeInit DEF TotalsInv

\* A step that asks for the totals: it makes true what the steps before it may
\* have left open, because it reads the list and the selection of its own end.
LEMMA AskingKeeps ==
    ASSUME TotalsInv, TypeOK', NEW s \in Slots, callApiGetCartTotal(s),
           ~thrown, ~thrown'
    PROVE  (NoFailure /\ LoadingHasOwner /\ AskedForSelection)'
<1> DEFINE r == _buildTotalRequest(methods', radio')
<1>1. methods' \in Lists \cup {<<>>} /\ radio' \in Nat
  BY DEF TypeOK
<1>2. methods' # <<>> => radio' < Len(methods')
  <2>1. r.res # "failed"
    BY DEF callApiGetCartTotal
  <2> HIDE DEF r
  <2>2. r = _buildTotalRequest(methods', radio')
    BY DEF r
  <2> QED
    BY <1>1, <2>1, <2>2, BuiltRequest
<1>3. /\ r.kind = "totals" /\ r.res = "sent"
      /\ methods' # <<>> => r.method = methods'[radio' + 1]
  BY <1>1, <1>2, BuiltRequest
<1>4. /\ req' = [req EXCEPT ![s] = r]
      /\ asked' = r.method
  BY DEF callApiGetCartTotal
<1>5. req'[s] = r /\ \A t \in Slots \ {s} : req'[t] = req[t]
  BY <1>4 DEF TotalsInv, TypeOK
<1> HIDE DEF r
<1>6. NoFailure'
  BY <1>3, <1>5 DEF TotalsInv, NoFailure
<1>7. LoadingHasOwner'
  BY <1>3, <1>5 DEF LoadingHasOwner
<1>8. AskedForSelection'
  <2> SUFFICES ASSUME methods' # <<>>
               PROVE  /\ radio' \in 0 .. Len(methods') - 1
                      /\ asked' = methods'[radio' + 1]
    BY DEF AskedForSelection
  <2>1. methods' \in Seq(Methods)
    BY <1>1, ShippingAssumption DEF ShippingAssumption
  <2> QED
    BY <1>1, <1>2, <1>3, <1>4, <2>1
<1> QED
  BY <1>6, <1>7, <1>8

\* A step that gives a slot to another request, none of those the properties
\* speak of, or to the estimate a reset of the selection goes with.
LEMMA ReplacingKeeps ==
    ASSUME TotalsInv, ~thrown,
           NEW s \in Slots, NEW r \in Request, r.res = "sent",
           req[s].kind \notin {"totals", "estimate"},
           req' = [req EXCEPT ![s] = r],
           UNCHANGED <<methods, loading, asked>>,
           r.kind = "estimate" \/ UNCHANGED radio
    PROVE  (NoFailure /\ LoadingHasOwner /\ AskedForSelection)'
<1>1. req'[s] = r /\ \A t \in Slots \ {s} : req'[t] = req[t]
  BY DEF TotalsInv, TypeOK
<1>2. NoFailure'
  BY <1>1 DEF TotalsInv, NoFailure
<1>3. LoadingHasOwner'
  <2> SUFFICES ASSUME loading PROVE \E t \in Slots : req'[t].kind = "totals"
    BY DEF LoadingHasOwner
  <2>1. PICK t \in Slots : req[t].kind = "totals"
    BY DEF TotalsInv, LoadingHasOwner
  <2> QED
    BY <1>1, <2>1
<1>4. AskedForSelection'
  <2> SUFFICES ASSUME methods # <<>>, \A t \in Slots : req'[t].kind # "estimate"
               PROVE  /\ radio' \in 0 .. Len(methods) - 1
                      /\ asked = methods[radio' + 1]
    BY DEF AskedForSelection
  <2>1. radio' = radio /\ \A t \in Slots : req[t].kind # "estimate"
    BY <1>1
  <2> QED
    BY <2>1 DEF TotalsInv, AskedForSelection
<1> QED
  BY <1>2, <1>3, <1>4

\* A step that changes no kind of request and nothing the properties speak of.
LEMMA KindsKeep ==
    ASSUME TotalsInv, ~thrown, NoFailure',
           \A t \in Slots : req'[t].kind = req[t].kind,
           UNCHANGED <<methods, radio, loading, asked>>
    PROVE  (NoFailure /\ LoadingHasOwner /\ AskedForSelection)'
BY DEF TotalsInv, LoadingHasOwner, AskedForSelection

LEMMA PressKeeps ==
    ASSUME TotalsInv, ~thrown, NEW k \in Kinds, k \notin {"totals", "estimate"}, Press(k)
    PROVE  (NoFailure /\ LoadingHasOwner /\ AskedForSelection)'
<1>1. PICK s \in Free : req' = [req EXCEPT ![s] = Ask(k, NoMethod)]
  BY DEF Press
<1>2. Ask(k, NoMethod) \in Request /\ Ask(k, NoMethod).res = "sent"
  BY Asked
<1>3. s \in Slots /\ req[s].kind \notin {"totals", "estimate"}
  BY DEF Free
<1>4. UNCHANGED <<methods, loading, asked, radio>>
  BY DEF Press
<1> QED
  BY <1>1, <1>2, <1>3, <1>4, ReplacingKeeps

LEMMA TotalsInvNext ==
    ASSUME TotalsInv, [Next]_vars
    PROVE  TotalsInv'
<1> DEFINE Kept == (NoFailure /\ LoadingHasOwner /\ AskedForSelection)'
<1>0. TypeOK'
  BY TypeNext DEF TotalsInv
<1> SUFFICES ASSUME ~thrown' PROVE Kept
  BY <1>0 DEF TotalsInv, NoFailure, LoadingHasOwner, AskedForSelection
<1> ~thrown
  BY ThrownStays
<1>1. CASE callApiEstimateShippingAndTax
  BY <1>1, PressKeeps DEF callApiEstimateShippingAndTax, Kinds
<1>2. CASE callAPIAddItemToCart
  BY <1>2, PressKeeps DEF callAPIAddItemToCart, Kinds
<1>3. CASE callApiRemoveCartItem
  BY <1>3, PressKeeps DEF callApiRemoveCartItem, Kinds
<1>4. CASE callApiAddCoupon
  BY <1>4, PressKeeps DEF callApiAddCoupon, Kinds
<1>5. CASE callApiRemoveCoupon
  BY <1>5, PressKeeps DEF callApiRemoveCoupon, Kinds
<1>6. ASSUME NEW i \in Buttons, SelectMethod(i)
      PROVE  Kept
  <2>1. PICK s \in Slots : callApiGetCartTotal(s)
    BY <1>6 DEF SelectMethod, Free
  <2> QED
    BY <1>0, <2>1, AskingKeeps
<1>7. CASE ProceedToCheckout \/ BackToCart \/ UNCHANGED vars
  <2>1. UNCHANGED <<methods, radio, loading, asked, req>>
    BY <1>7 DEF ProceedToCheckout, BackToCart, vars
  <2> QED
    BY <2>1, KindsKeep DEF TotalsInv, NoFailure
<1>8. ASSUME NEW s \in Slots, Serve(s)
      PROVE  Kept
  <2> DEFINE c == applied /\ req[s].kind = "totals"
  <2>0. c \in BOOLEAN
    OBVIOUS
  <2>1. PICK l \in Lists \cup {<<>>} :
          req' = [req EXCEPT ![s].res = "ok", ![s].list = l, ![s].coupon = c]
    BY <1>8 DEF Serve
  <2> HIDE DEF c
  <2>2. /\ \A t \in Slots : req'[t].kind = req[t].kind
        /\ \A t \in Slots : req'[t].res \in {req[t].res, "ok"}
    BY <2>1 DEF TotalsInv, TypeOK, Request
  <2>3. NoFailure'
    BY <2>2 DEF TotalsInv, NoFailure
  <2> QED
    BY <1>8, <2>2, <2>3, KindsKeep DEF Serve
<1>9. ASSUME NEW s \in Slots, Fault(s)
      PROVE  Kept
  <2>1. PICK f \in Faults : req' = [req EXCEPT ![s].res = f] /\ f # "failed"
    BY <1>9, Zenon DEF Fault
  <2>2. /\ \A t \in Slots : req'[t].kind = req[t].kind
        /\ \A t \in Slots : req'[t].res \in {req[t].res, f}
    BY <2>1 DEF TotalsInv, TypeOK, Request
  <2>3. NoFailure'
    BY <2>1, <2>2 DEF TotalsInv, NoFailure
  <2> QED
    BY <1>9, <2>2, <2>3, KindsKeep DEF Fault
<1>10. ASSUME NEW s \in Slots, Reply(s)
       PROVE  Kept
  <2>1. req[s].res # "failed"
    BY DEF TotalsInv, NoFailure
  <2>2. NoRequest \in Request /\ NoRequest.kind = "free" /\ NoRequest.res = "sent"
    BY Asked DEF NoRequest
  <2>3. CASE FormKeysReply(s)
    <3>1. PICK r \in {NoRequest, Ask("login", NoMethod)} :
            req' = [req EXCEPT ![s] = r]
      BY <2>3 DEF FormKeysReply
    <3>2. r \in Request /\ r.res = "sent"
      BY <2>2, Asked DEF Kinds
    <3> QED
      BY <2>3, <3>1, <3>2, ReplacingKeeps DEF FormKeysReply
  <2>4. CASE LoginReply(s)
    <3>1. req' = [req EXCEPT ![s] = Ask("estimate", NoMethod)]
      BY <2>1, <2>4 DEF LoginReply
    <3>2. /\ Ask("estimate", NoMethod) \in Request
          /\ Ask("estimate", NoMethod).res = "sent"
          /\ Ask("estimate", NoMethod).kind = "estimate"
      BY Asked DEF Kinds
    <3> QED
      BY <2>4, <3>1, <3>2, ReplacingKeeps DEF LoginReply
  <2>5. CASE MethodsShown(s)
    BY <1>0, <2>5, AskingKeeps DEF MethodsShown
  <2>6. CASE req[s].kind = "estimate" /\ MethodsCleared(s)
    <3>1. req'[s] = NoRequest /\ \A t \in Slots \ {s} : req'[t] = req[t]
      BY <2>6 DEF MethodsCleared, TotalsInv, TypeOK
    <3>2. NoFailure'
      BY <2>2, <3>1 DEF TotalsInv, NoFailure
    <3>3. LoadingHasOwner'
      BY <2>6, <3>1 DEF MethodsCleared, TotalsInv, LoadingHasOwner
    <3>4. AskedForSelection'
      BY <2>6 DEF MethodsCleared, AskedForSelection
    <3> QED
      BY <3>2, <3>3, <3>4
  <2>7. CASE onNewGetCartTotalResponse(s)
    <3>1. req'[s] = NoRequest /\ \A t \in Slots \ {s} : req'[t] = req[t]
      BY <2>7 DEF onNewGetCartTotalResponse, TotalsInv, TypeOK
    <3>2. NoFailure'
      BY <2>2, <3>1 DEF TotalsInv, NoFailure
    <3>3. ~loading'
      BY <2>1, <2>7, Zenon DEF onNewGetCartTotalResponse, LoadingAfter
    <3>4. UNCHANGED <<methods, radio, asked>> /\ req[s].kind = "totals"
      BY <2>7, Zenon DEF onNewGetCartTotalResponse
    <3>5. AskedForSelection'
      <4> SUFFICES ASSUME methods # <<>>,
                          \A t \in Slots : req'[t].kind # "estimate"
                   PROVE  /\ radio \in 0 .. Len(methods) - 1
                          /\ asked = methods[radio + 1]
        BY <3>4 DEF AskedForSelection
      <4>1. \A t \in Slots : req[t].kind # "estimate"
        BY <3>1, <3>4
      <4> QED
        BY <4>1 DEF TotalsInv, AskedForSelection
    <3> QED
      BY <3>2, <3>3, <3>5 DEF LoadingHasOwner
  <2>8. CASE CouponOrListReply(s)
    <3>1. CASE TotalsDue(req[s])
      BY <1>0, <2>8, <3>1, AskingKeeps DEF CouponOrListReply
    <3>2. CASE ~TotalsDue(req[s])
      BY <2>2, <2>8, <3>2, ReplacingKeeps DEF CouponOrListReply
    <3> QED
      BY <3>1, <3>2
  <2>9. CASE ChangeReply(s)
    <3>1. AfterChange(req[s]) \in Request /\ AfterChange(req[s]).res = "sent"
      BY <2>2, Asked DEF AfterChange, Kinds
    <3> QED
      BY <2>9, <3>1, ReplacingKeeps DEF ChangeReply
  <2> QED
    BY <1>10, <2>1, <2>3, <2>4, <2>5, <2>6, <2>7, <2>8, <2>9
       DEF Reply, onNewShippingMethodResponse, EstimateLost
<1> QED
  BY <1>1, <1>2, <1>3, <1>4, <1>5, <1>6, <1>7, <1>8, <1>9, <1>10 DEF Next

\* Until something throws, the spinner of the totals has a request behind it,
\* whatever lists there are (callApiGetCartTotal raises and lowers it).
THEOREM LoadingCorrect == Spec => []LoadingHasOwner
<1>1. Init => TotalsInv
  BY TotalsInvInit
<1>2. TotalsInv /\ [Next]_vars => TotalsInv'
  BY TotalsInvNext
<1>3. TotalsInv => LoadingHasOwner
  BY DEF TotalsInv
<1> QED
  BY <1>1, <1>2, <1>3, PTL DEF Spec

\* Until something throws, and with no estimate under way, the selection is one
\* of the list shown and the last totals asked for are those of its method,
\* whatever lists there are and whatever was tapped while the estimate was under
\* way (_onClickRadioShippingMethod, onNewShippingMethodResponse).
THEOREM AskedCorrect == Spec => []AskedForSelection
<1>1. Init => TotalsInv
  BY TotalsInvInit
<1>2. TotalsInv /\ [Next]_vars => TotalsInv'
  BY TotalsInvNext
<1>3. TotalsInv => AskedForSelection
  BY DEF TotalsInv
<1> QED
  BY <1>1, <1>2, <1>3, PTL DEF Spec

----------------------------------------------------------------------------
(* The spinner over the screen *)

\* With the invariant of the totals, which counts the failures, the property is
\* inductive.
HudInv == TotalsInv /\ HudHasOwner

\* A step that gives a slot to another request keeps the owner of the spinner,
\* takes the spinner down, or sends the next owner.
LEMMA OwnerKept ==
    ASSUME HudInv, ~thrown, NEW s \in Slots, NEW r \in Request,
           req' = [req EXCEPT ![s] = r], hud' => hud \/ r.kind \in HudKinds,
           req[s].kind \notin HudKinds \/ ~hud' \/ r.kind \in HudKinds
    PROVE  HudHasOwner'
<1> SUFFICES ASSUME hud' PROVE \E t \in Slots : req'[t].kind \in HudKinds
  BY DEF HudHasOwner
<1>1. req'[s] = r /\ \A t \in Slots \ {s} : req'[t] = req[t]
  BY DEF HudInv, TotalsInv, TypeOK
<1>2. CASE r.kind \in HudKinds
  BY <1>1, <1>2
<1>3. CASE r.kind \notin HudKinds
  <2>1. PICK t \in Slots : req[t].kind \in HudKinds
    BY <1>3 DEF HudInv, HudHasOwner
  <2> QED
    BY <1>1, <1>3, <2>1
<1> QED
  BY <1>2, <1>3

\* A step that leaves the spinner and the kinds of the requests alone.
LEMMA OwnersStay ==
    ASSUME HudInv, ~thrown, \A t \in Slots : req'[t].kind = req[t].kind, hud' = hud
    PROVE  HudHasOwner'
BY DEF HudInv, HudHasOwner

LEMMA PressOwned ==
    ASSUME HudInv, ~thrown, NEW k \in HudKinds, Press(k)
    PROVE  HudHasOwner'
<1>1. PICK s \in Free : req' = [req EXCEPT ![s] = Ask(k, NoMethod)]
  BY DEF Press
<1>2. Ask(k, NoMethod) \in Request /\ Ask(k, NoMethod).kind = k
  BY Asked DEF HudKinds, Kinds
<1>3. s \in Slots
  BY DEF Free
<1> QED
  BY <1>1, <1>2, <1>3, OwnerKept

\* Asking for the totals takes a slot that owns no spinner, or goes with the
\* spinner taken down.
LEMMA TotalsOwned ==
    ASSUME HudInv, ~thrown, TypeOK', NEW s \in Slots, callApiGetCartTotal(s),
           hud' => hud, req[s].kind \notin HudKinds \/ ~hud'
    PROVE  HudHasOwner'
<1> DEFINE r == _buildTotalRequest(methods', radio')
<1>1. methods' \in Lists \cup {<<>>} /\ radio' \in Nat
  BY DEF TypeOK
<1>2. r \in Request
  BY <1>1, BuiltRequest
<1>3. req' = [req EXCEPT ![s] = r]
  BY DEF callApiGetCartTotal
<1> HIDE DEF r
<1> QED
  BY <1>2, <1>3, OwnerKept

\* The replies, once it is known that none of them is to a failure.
LEMMA ReplyOwned ==
    ASSUME HudInv, ~thrown, ~thrown', TypeOK', NEW s \in Slots, Reply(s)
    PROVE  HudHasOwner'
<1>1. req[s].res # "failed"
  BY DEF HudInv, TotalsInv, NoFailure
<1>2. NoRequest \in Request /\ NoRequest.kind = "free"
  BY Asked DEF NoRequest
<1>3. CASE FormKeysReply(s)
  <2>1. HasBody(req[s])
    BY <1>3 DEF FormKeysReply
  <2>2. req' = [req EXCEPT ![s] = Ask("login", NoMethod)] /\ ~hud'
    BY <1>3, <2>1 DEF FormKeysReply
  <2>3. Ask("login", NoMethod) \in Request
    BY Asked DEF Kinds
  <2> QED
    BY <2>2, <2>3, OwnerKept
<1>4. CASE LoginReply(s)
  <2>1. req' = [req EXCEPT ![s] = Ask("estimate", NoMethod)]
    BY <1>1, <1>4 DEF LoginReply
  <2>2. Ask("estimate", NoMethod) \in Request
    BY Asked DEF Kinds
  <2>3. req[s].kind \notin HudKinds /\ hud' = hud
    BY <1>4 DEF LoginReply, HudKinds
  <2> QED
    BY <2>1, <2>2, <2>3, OwnerKept
<1>5. CASE req[s].kind = "estimate" /\ MethodsShown(s)
  BY <1>5, TotalsOwned DEF MethodsShown, HudKinds
<1>6. CASE req[s].kind = "estimate" /\ MethodsCleared(s)
  BY <1>2, <1>6, OwnerKept DEF MethodsCleared, HudKinds
<1>7. CASE onNewGetCartTotalResponse(s)
  <2>1. req' = [req EXCEPT ![s] = NoRequest] /\ (hud' => hud)
    BY <1>7, Zenon DEF onNewGetCartTotalResponse
  <2>2. req[s].kind \notin HudKinds
    BY <1>7 DEF onNewGetCartTotalResponse, HudKinds
  <2> QED
    BY <1>2, <2>1, <2>2, OwnerKept
<1>8. CASE CouponOrListReply(s)
  <2>1. ~hud'
    BY <1>8 DEF CouponOrListReply
  <2> QED
    BY <2>1 DEF HudHasOwner
<1>9. CASE ChangeReply(s)
  <2>1. AfterChange(req[s]) \in Request
    BY <1>2, Asked DEF AfterChange, Kinds
  <2>2. /\ req' = [req EXCEPT ![s] = AfterChange(req[s])]
        /\ hud' = (AfterChange(req[s]).kind \in {"relist", "formkeys"})
    BY <1>9 DEF ChangeReply
  <2>3. hud' => AfterChange(req[s]).kind \in HudKinds
    BY <2>2 DEF HudKinds
  <2> QED
    BY <2>1, <2>2, <2>3, OwnerKept
<1> QED
  BY <1>1, <1>3, <1>4, <1>5, <1>6, <1>7, <1>8, <1>9
     DEF Reply, onNewShippingMethodResponse, EstimateLost

LEMMA HudInvNext ==
    ASSUME HudInv, [Next]_vars
    PROVE  HudInv'
<1>0. TypeOK' /\ TotalsInv'
  BY TypeNext, TotalsInvNext DEF HudInv, TotalsInv
<1> SUFFICES ASSUME ~thrown' PROVE HudHasOwner'
  BY <1>0 DEF HudInv, HudHasOwner
<1> ~thrown
  BY ThrownStays
<1>1. CASE callApiEstimateShippingAndTax
  BY <1>1, PressOwned DEF callApiEstimateShippingAndTax, HudKinds
<1>2. CASE callAPIAddItemToCart
  BY <1>2, PressOwned DEF callAPIAddItemToCart, HudKinds
<1>3. CASE callApiRemoveCartItem
  BY <1>3, PressOwned DEF callApiRemoveCartItem, HudKinds
<1>4. CASE callApiAddCoupon
  BY <1>4, PressOwned DEF callApiAddCoupon, HudKinds
<1>5. CASE callApiRemoveCoupon
  BY <1>5, PressOwned DEF callApiRemoveCoupon, HudKinds
<1>6. ASSUME NEW i \in Buttons, SelectMethod(i)
      PROVE  HudHasOwner'
  BY <1>6 DEF SelectMethod, Tappable, HudHasOwner
<1>7. CASE ProceedToCheckout \/ BackToCart \/ UNCHANGED vars
  BY <1>7, OwnersStay DEF ProceedToCheckout, BackToCart, vars
<1>8. ASSUME NEW s \in Slots, Serve(s)
      PROVE  HudHasOwner'
  <2> DEFINE c == applied /\ req[s].kind = "totals"
  <2>1. PICK l \in Lists \cup {<<>>} :
          req' = [req EXCEPT ![s].res = "ok", ![s].list = l, ![s].coupon = c]
    BY <1>8 DEF Serve
  <2> HIDE DEF c
  <2>2. \A t \in Slots : req'[t].kind = req[t].kind
    BY <2>1 DEF HudInv, TotalsInv, TypeOK, Request
  <2> QED
    BY <1>8, <2>2, OwnersStay DEF Serve
<1>9. ASSUME NEW s \in Slots, Fault(s)
      PROVE  HudHasOwner'
  <2>1. PICK f \in Faults : req' = [req EXCEPT ![s].res = f]
    BY <1>9, Zenon DEF Fault
  <2>2. \A t \in Slots : req'[t].kind = req[t].kind
    BY <2>1 DEF HudInv, TotalsInv, TypeOK, Request
  <2> QED
    BY <1>9, <2>2, OwnersStay DEF Fault
<1>10. ASSUME NEW s \in Slots, Reply(s)
       PROVE  HudHasOwner'
  BY <1>0, <1>10, ReplyOwned
<1> QED
  BY <1>1, <1>2, <1>3, <1>4, <1>5, <1>6, <1>7, <1>8, <1>9, <1>10 DEF Next

\* However many requests run at once and in whatever order they are answered,
\* the spinner over the cart screen is up only while a request is in flight that
\* takes it down, until something throws (isLoading in CartNotifier).
THEOREM HudCorrect == Spec => []HudHasOwner
<1>1. Init => HudInv
  <2> SUFFICES ASSUME Init PROVE HudHasOwner
    BY TotalsInvInit DEF HudInv
  <2>1. PICK s \in Slots : req = [[t \in Slots |-> NoRequest]
                                     EXCEPT ![s] = Ask("formkeys", NoMethod)]
    BY DEF Init
  <2>2. req[s].kind = "formkeys"
    BY <2>1, Asked DEF Kinds
  <2> QED
    BY <2>2 DEF HudHasOwner, HudKinds
<1>2. HudInv /\ [Next]_vars => HudInv'
  BY HudInvNext
<1>3. HudInv => HudHasOwner
  BY DEF HudInv
<1> QED
  BY <1>1, <1>2, <1>3, PTL DEF Spec
=============================================================================
