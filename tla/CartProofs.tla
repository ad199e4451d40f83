----------------------------- MODULE CartProofs -----------------------------
(***************************************************************************)
(* Proofs about Cart, for any number of products, of requests in flight and *)
(* of taps, whichever parts are used   and whatever fails.                *)
(***************************************************************************)
EXTENDS Cart, TLAPS

\* A request that changes the cart is about a product.  TypeOK is not inductive
\* without it: the server looks the product up.
Sound == {r \in Request : r.kind \in Changes => r.prod \in Products}

Inv == TypeOK /\ req \in [Slots -> Sound]

----------------------------------------------------------------------------
(* Types of the operators *)

LEMMA EmptyType == EmptyCart \in CartLines /\ NewCart \in Carts /\ NoItem \in Item
BY DEF EmptyCart, CartLines, NoLine, Line, NewCart, Carts, NoItem, Item

LEMMA AskType ==
    ASSUME NEW k \in Kinds \cup {"free"}, NEW x \in AllScreens \cup {"nobody"},
           NEW p \in Products \cup {NoProduct}, NEW id \in Nat, NEW q \in Int,
           k \in Changes => p \in Products
    PROVE  /\ Ask(k, x, p, id, q) \in Sound
           /\ Ask(k, x, p, id, q).kind = k
           /\ Ask(k, x, p, id, q).by = x
           /\ Ask(k, x, p, id, q).prod = p
BY EmptyType DEF Ask, Sound, Request, AllFaults

LEMMA GetType ==
    ASSUME NEW k \in (Kinds \cup {"free"}) \ Changes,
           NEW x \in AllScreens \cup {"nobody"}
    PROVE  /\ GetCartList(k, x) \in Sound
           /\ GetCartList(k, x).kind = k
           /\ GetCartList(k, x).by = x
           /\ \A b \in BOOLEAN : [GetCartList(k, x) EXCEPT !.live = b] \in Sound
BY EmptyType DEF GetCartList, Ask, Sound, Request, AllFaults, Changes

LEMMA NoRequestType == NoRequest \in Sound /\ NoRequest.kind = "free"
BY GetType DEF NoRequest, Kinds, Changes

LEMMA DetachType ==
    ASSUME NEW r \in Sound, NEW x
    PROVE  /\ Detach(x, r) \in Sound
           /\ Detach(x, r).kind = r.kind /\ Detach(x, r).by = r.by
           /\ Detach(x, r).prod = r.prod
           /\ Detach(x, r).live => r.live
BY DEF Detach, Sound, Request

LEMMA MatchType ==
    ASSUME NEW c \in Carts PROVE matchProductId(c) \in [Products -> Item]
BY DEF matchProductId, Carts, CartLines, Line, Item

LEMMA AddedType ==
    ASSUME NEW x, NEW i \in Item PROVE Added(x, i) \in Item
BY DEF Added, Item

LEMMA AddRequestType ==
    ASSUME NEW x \in AllScreens, NEW p \in Products, NEW i \in Item
    PROVE  /\ AddRequest(x, p, i) \in Sound
           /\ AddRequest(x, p, i).prod = p
           /\ AddRequest(x, p, i).by = x
<1>1. i.id \in Nat /\ i.qty \in Int
  BY DEF Item
<1> QED
  BY <1>1, AskType DEF AddRequest, Kinds, Changes

LEMMA LoweredType ==
    ASSUME hud \in [AllScreens -> BOOLEAN], NEW r
    PROVE  Lowered(r) \in [AllScreens -> BOOLEAN]
BY DEF Lowered

\* An answer to a change leaves products on the screens.
LEMMA UpdateType ==
    ASSUME Inv, NEW r \in Sound, r.kind \in Changes, UpdateItem(r)
    PROVE  item' \in [{"home", "list"} -> [Products -> Item]]
<1> DEFINE new(i) == CASE r.kind = "post" -> onNewFirstTimeAddToCart(r, i)
                       [] r.kind = "put" -> onNewDataChangeCartItemQuantity(r, i)
                       [] r.kind = "delete" -> Removed(r, i)
<1>1. ASSUME NEW i \in Item PROVE new(i) \in Item
  <2>1. r.id \in Nat /\ r.qty \in Int
    BY DEF Sound, Request
  <2>2. onNewFirstTimeAddToCart(r, i) \in Item
    <3>1. CASE r.res = "ok"
      <4> DEFINE q == IF r.by = "home" /\ i.qty = 1 THEN 1 ELSE i.qty + 1
      <4>1. q \in Int
        BY DEF Item
      <4>2. onNewFirstTimeAddToCart(r, i) = [i EXCEPT !.id = r.id, !.qty = q]
        BY <3>1 DEF onNewFirstTimeAddToCart
      <4> QED
        BY <2>1, <4>1, <4>2 DEF Item
    <3>2. CASE r.res # "ok"
      BY <3>2 DEF onNewFirstTimeAddToCart, Item
    <3> QED
      BY <3>1, <3>2
  <2>3. onNewDataChangeCartItemQuantity(r, i) \in Item
    BY <2>1 DEF onNewDataChangeCartItemQuantity, Item
  <2>4. Removed(r, i) \in Item
    BY DEF Removed, Item
  <2> QED
    BY <2>2, <2>3, <2>4 DEF Changes
<1>2. \/ item' = item
      \/ /\ r.by \in {"home", "list"}
         /\ item' = [item EXCEPT ![r.by][r.prod] = new(@)]
  BY DEF UpdateItem
<1> HIDE DEF new
<1>3. item \in [{"home", "list"} -> [Products -> Item]]
  BY DEF Inv, TypeOK
<1>4. r.prod \in Products
  BY DEF Sound
<1> QED
  BY <1>1, <1>2, <1>3, <1>4

----------------------------------------------------------------------------
(* The type invariant, one group of actions after the other *)

LEMMA InitInv == Init => Inv
<1> SUFFICES ASSUME Init PROVE Inv
  OBVIOUS
<1>1. PICK s \in Slots :
          req = [[t \in Slots |-> NoRequest]
                     EXCEPT ![s] = GetCartList("cartlist", "home")]
  BY DEF Init
<1>2. GetCartList("cartlist", "home") \in Sound
  BY GetType DEF Kinds, Changes, AllScreens
<1>3. req \in [Slots -> Sound] /\ req \in [Slots -> Request]
  BY <1>1, <1>2, NoRequestType DEF Sound
<1>4. server \in Carts
  <2>1. \A p \in Products :
            [EmptyCart EXCEPT ![p] = [id |-> 1, qty |-> 1]] \in CartLines
    BY EmptyType DEF CartLines, Line
  <2>2. \A l \in CartLines : [lines |-> l, version |-> 1] \in Carts
    BY DEF Carts
  <2> QED
    BY <2>1, <2>2, EmptyType DEF Init
<1>5. item \in [{"home", "list"} -> [Products -> Item]]
  BY EmptyType DEF Init
<1>6. hud \in [AllScreens -> BOOLEAN] /\ left \subseteq AllScreens
  <2>1. PICK up \in BOOLEAN :
            /\ hud = [x \in AllScreens |-> x = "home" /\ up]
            /\ left = {x \in {"home"} : up}
    BY Zenon DEF Init
  <2>2. \A x \in AllScreens : (x = "home" /\ up) \in BOOLEAN
    OBVIOUS
  <2>3. hud \in [AllScreens -> BOOLEAN]
    BY <2>1, <2>2, Zenon
  <2> QED
    BY <2>1, <2>3 DEF AllScreens
<1>7. /\ nextId \in Nat \ {0} /\ cache \in Carts /\ lines \in CartLines
      /\ view \in Views /\ taps \in Nat /\ seen \in Nat
  <2>1. /\ nextId = 2 /\ cache = NewCart /\ lines = EmptyCart
        /\ view = "home" /\ taps = 0 /\ seen = 0
    BY DEF Init
  <2> QED
    BY <2>1, EmptyType DEF Views
<1>8. crossed \in BOOLEAN
  BY Zenon DEF Init
<1> QED
  BY <1>3, <1>4, <1>5, <1>6, <1>7, <1>8 DEF Inv, TypeOK

\* A slot gets one sound request more, after the handlers of a screen have
\* lost their objects or not.
LEMMA SendType ==
    ASSUME Inv, NEW x, NEW s \in Slots, NEW r \in Sound,
           \/ req' = [req EXCEPT ![s] = r]
           \/ req' = [Detached(x) EXCEPT ![s] = r]
    PROVE  req' \in [Slots -> Sound] /\ req' \in [Slots -> Request]
<1>1. req \in [Slots -> Sound] /\ Detached(x) \in [Slots -> Sound]
  BY DetachType DEF Inv, Detached
<1>2. Sound \subseteq Request
  BY DEF Sound
<1> QED
  BY <1>1, <1>2

LEMMA NavigateType == Inv /\ Navigate => Inv'
<1> SUFFICES ASSUME Inv, Navigate PROVE Inv'
  OBVIOUS
<1> USE DEF AllScreens
<1>1. \A k \in {"cartlist", "products", "profile"}, x \in {"home", "list", "cart"} :
          GetCartList(k, x) \in Sound
  BY GetType DEF Kinds, Changes
<1>2. /\ \E x \in {"home", "list", "cart"},
            k \in {"cartlist", "products", "profile"}, s \in Slots :
             \/ req' = [req EXCEPT ![s] = GetCartList(k, x)]
             \/ req' = [Detached(x) EXCEPT ![s] = GetCartList(k, x)]
      /\ view' \in Views
  BY DEF Navigate, OpenCart, OpenProfile, TabToHome, OpenList, CartToList, ListToHome,
         PullHome, Free, Views, Inv, TypeOK
<1>3. req' \in [Slots -> Sound] /\ req' \in [Slots -> Request]
  BY <1>1, <1>2, SendType
<1>4. item' \in [{"home", "list"} -> [Products -> Item]]
  BY EmptyType DEF Navigate, OpenCart, OpenProfile, TabToHome, OpenList, CartToList,
                   ListToHome, PullHome, Inv, TypeOK
<1>5. lines' \in CartLines
  BY EmptyType DEF Navigate, OpenCart, OpenProfile, TabToHome, OpenList, CartToList,
                   ListToHome, PullHome, Inv, TypeOK
<1>6. hud' \in [{"home", "list", "cart"} -> BOOLEAN]
  BY DEF Navigate, OpenCart, OpenProfile, TabToHome, OpenList, CartToList, ListToHome,
         PullHome, Inv, TypeOK
<1>7. taps' \in Nat
  BY DEF Navigate, Inv, TypeOK
<1>8. UNCHANGED <<server, nextId, cache, seen, crossed>> /\ left' \subseteq left
  BY DEF Navigate, OpenCart, OpenProfile, TabToHome, OpenList, CartToList,
         ListToHome, PullHome, history
<1> QED
  BY <1>2, <1>3, <1>4, <1>5, <1>6, <1>7, <1>8 DEF Inv, TypeOK

LEMMA ItemsType ==
    ASSUME Inv, NEW x \in {"home", "list"}, NEW p \in Products
    PROVE  /\ item[x][p] \in Item
           /\ item[x][p].id \in Nat /\ item[x][p].qty \in Int
           /\ \A i \in Item : [item EXCEPT ![x][p] = i]
                                \in [{"home", "list"} -> [Products -> Item]]
BY DEF Inv, TypeOK, Item

LEMMA StepperType ==
    ASSUME Inv, NEW p \in Products,
           \/ HomeAdd(p) \/ ListAdd(p)
           \/ \E x \in {"home", "list"} : StepperRemove(x, p)
    PROVE  Inv'
<1> USE DEF AllScreens
<1>1. GetCartList("cartlist", "nobody") \in Sound
  BY GetType DEF Kinds, Changes
<1>2. Sound \subseteq Request
  BY DEF Sound
<1>3. taps' \in Nat
  BY DEF HomeAdd, ListAdd, StepperRemove, Inv, TypeOK
<1>4. hud' \in [{"home", "list", "cart"} -> BOOLEAN]
  <2>1. \/ hud' = hud
        \/ \E x \in {"home", "list"} : hud' = [hud EXCEPT ![x] = TRUE]
    BY DEF HomeAdd, ListAdd, StepperRemove
  <2> QED
    BY <2>1 DEF Inv, TypeOK
<1>5. UNCHANGED <<server, nextId, cache, lines, view, seen, left, crossed>>
  BY DEF HomeAdd, ListAdd, StepperRemove, history
<1>6. SUFFICES /\ req' \in [Slots -> Sound]
               /\ item' \in [{"home", "list"} -> [Products -> Item]]
  BY <1>2, <1>3, <1>4, <1>5 DEF Inv, TypeOK
<1>7. CASE HomeAdd(p)
  <2>1. item' = [item EXCEPT !["home"][p] = Added("home", item["home"][p])]
    BY <1>7 DEF HomeAdd
  <2>2. item' \in [{"home", "list"} -> [Products -> Item]]
    BY <2>1, ItemsType, AddedType
  <2>3. AddRequest("home", p, item'["home"][p]) \in Sound
    BY <2>2, AddRequestType
  <2>4. \E s, t \in Slots :
            req' = [req EXCEPT ![s] = GetCartList("cartlist", "nobody"),
                               ![t] = AddRequest("home", p, item'["home"][p])]
    BY <1>7 DEF HomeAdd, Free
  <2> QED
    BY <1>1, <2>2, <2>3, <2>4 DEF Inv
<1>8. CASE ListAdd(p)
  <2>1. item' = [item EXCEPT !["list"][p] = Added("list", item["list"][p])]
    BY <1>8 DEF ListAdd
  <2>2. item' \in [{"home", "list"} -> [Products -> Item]]
    BY <2>1, ItemsType, AddedType
  <2>3. AddRequest("list", p, item'["list"][p]) \in Sound
    BY <2>2, AddRequestType
  <2>4. Ask("put", "nobody", p, item["list"][p].id, item["list"][p].qty) \in Sound
    BY ItemsType, AskType DEF Kinds, Changes
  <2>5. \E s, t, u \in Slots :
            req' = [req EXCEPT
                      ![s] = Ask("put", "nobody", p, item["list"][p].id,
                                 item["list"][p].qty),
                      ![t] = GetCartList("cartlist", "nobody"),
                      ![u] = AddRequest("list", p, item'["list"][p])]
    BY <1>8, Zenon DEF ListAdd, Free
  <2> QED
    BY <1>1, <2>2, <2>3, <2>4, <2>5 DEF Inv
<1>9. ASSUME NEW x \in {"home", "list"}, StepperRemove(x, p)
      PROVE  /\ req' \in [Slots -> Sound]
             /\ item' \in [{"home", "list"} -> [Products -> Item]]
  <2> DEFINE i == item[x][p]
  <2>1. /\ Ask("delete", x, p, i.id, 1) \in Sound
        /\ Ask("put", x, p, i.id, i.qty - 1) \in Sound
    <3>1. i.id \in Nat /\ i.qty \in Int /\ i.qty - 1 \in Int /\ 1 \in Int
      BY ItemsType
    <3> HIDE DEF i
    <3>2. Ask("delete", x, p, i.id, 1) \in Sound
      BY <3>1, AskType DEF Kinds, Changes
    <3>3. Ask("put", x, p, i.id, i.qty - 1) \in Sound
      BY <3>1, AskType DEF Kinds, Changes
    <3> QED
      BY <3>2, <3>3
  <2>2. [i EXCEPT !.qty = @ - 1] \in Item
    BY ItemsType DEF Item
  <2>3. \/ item' = item
        \/ item' = [item EXCEPT ![x][p].qty = @ - 1]
    BY <1>9, Zenon DEF StepperRemove
  <2>4. \E s \in Slots : \/ req' = [req EXCEPT ![s] = Ask("delete", x, p, i.id, 1)]
                        \/ req' = [req EXCEPT ![s] = Ask("put", x, p, i.id, i.qty - 1)]
    BY <1>9, Zenon DEF StepperRemove, Free
  <2>5. req' \in [Slots -> Sound]
    <3> HIDE DEF i
    <3> QED
      BY <2>1, <2>4 DEF Inv
  <2>6. [item EXCEPT ![x][p].qty = @ - 1]
            = [item EXCEPT ![x][p] = [i EXCEPT !.qty = @ - 1]]
    OBVIOUS
  <2> QED
    BY <2>2, <2>3, <2>5, <2>6, ItemsType DEF Inv, TypeOK
<1> QED
  BY <1>7, <1>8, <1>9

LEMMA CartScreenType ==
    ASSUME Inv,
           \/ \E p \in Products, q \in 1..MaxQty : callAPIAddItemToCart(p, q)
           \/ \E p \in Products : callApiRemoveCartItem(p)
           \/ callApiEstimateShippingAndTax
    PROVE  Inv'
<1> USE DEF AllScreens
<1>1. PICK s \in Slots, r \in Sound : CartAsk(s, r)
  <2>1. \A p \in Products : lines[p].id \in Nat
    BY DEF Inv, TypeOK, CartLines, Line
  <2>2. ASSUME NEW p \in Products, NEW q \in Int
        PROVE  /\ Ask("put", "cart", p, lines[p].id, q) \in Sound
               /\ Ask("delete", "cart", p, lines[p].id, q) \in Sound
    <3>1. lines[p].id \in Nat
      BY <2>1
    <3> QED
      BY <3>1, AskType DEF Kinds, Changes
  <2>3. 0 \in Int /\ 1..MaxQty \subseteq Int
    OBVIOUS
  <2>4. GetCartList("keys", "cart") \in Sound
    BY GetType DEF Kinds, Changes
  <2> QED
    BY <2>2, <2>3, <2>4
    DEF callAPIAddItemToCart, callApiRemoveCartItem,
        callApiEstimateShippingAndTax, Free
<1>2. req' \in [Slots -> Sound] /\ req' \in [Slots -> Request]
  BY <1>1, SendType DEF CartAsk
<1> QED
  BY <1>1, <1>2 DEF CartAsk, Inv, TypeOK, history

LEMMA HeartType ==
    ASSUME Inv, NEW x \in {"home", "list"}, Heart(x) PROVE Inv'
<1>1. PICK s \in Slots, k \in {"favourite", "wishlist"} :
          req' = [req EXCEPT ![s] = GetCartList(k, x)]
  BY DEF Heart, Free
<1>2. GetCartList(k, x) \in Sound
  BY GetType DEF Kinds, Changes, AllScreens
<1>3. req' \in [Slots -> Sound] /\ req' \in [Slots -> Request]
  BY <1>1, <1>2, SendType
<1>4. hud' \in [AllScreens -> BOOLEAN]
  BY DEF Heart, Inv, TypeOK, AllScreens
<1> QED
  BY <1>3, <1>4 DEF Heart, Inv, TypeOK, history

\* An answer put on a request leaves it sound.
LEMMA AnswerType ==
    ASSUME NEW r \in Sound, NEW v \in {"ok"} \cup AllFaults, NEW n \in Nat,
           NEW c \in Carts
    PROVE  /\ [r EXCEPT !.res = v] \in Sound
           /\ [r EXCEPT !.res = v, !.id = n] \in Sound
           /\ [r EXCEPT !.res = v, !.cart = c] \in Sound
BY DEF Sound, Request

LEMMA SetLineType ==
    ASSUME Inv, NEW p \in Products, NEW l \in Line, SetLine(p, l)
    PROVE  server' \in Carts
BY DEF SetLine, Inv, TypeOK, Carts, CartLines

LEMMA ServeType == ASSUME Inv, NEW s \in Slots, Serve(s) PROVE Inv'
<1> DEFINE r == req[s]
<1>1. r \in Sound /\ Sound \subseteq Request
  BY DEF Inv, Sound
<1>2. SUFFICES /\ req' \in [Slots -> Sound]
               /\ server' \in Carts
               /\ nextId' \in Nat \ {0}
  BY <1>1 DEF Serve, Inv, TypeOK, history
<1>3. {"ok", "message", "null"} \subseteq {"ok"} \cup AllFaults
  BY DEF AllFaults
<1>4. CASE ServePost(s)
  <2> DEFINE old == server.lines[r.prod]
             new == [id |-> IF old.id = 0 THEN nextId ELSE old.id,
                     qty |-> old.qty + (IF r.qty > 0 THEN r.qty ELSE 1)]
  <2>1. r.prod \in Products
    BY <1>1, <1>4 DEF ServePost, Sound, Changes
  <2>2. old \in Line /\ r.qty \in Int
    BY <1>1, <2>1 DEF Inv, TypeOK, Carts, CartLines, Request
  <2>3. new \in Line /\ new.id \in Nat
    BY <2>2 DEF Line, Inv, TypeOK
  <2>4. \/ req' = Answer(s, "message") /\ UNCHANGED <<server, nextId>>
        \/ /\ SetLine(r.prod, new)
           /\ nextId' = nextId + (IF old.id = 0 THEN 1 ELSE 0)
           /\ req' = [req EXCEPT ![s].res = "ok", ![s].id = new.id]
    BY <1>4 DEF ServePost
  <2> HIDE DEF new
  <2>5. CASE req' = Answer(s, "message") /\ UNCHANGED <<server, nextId>>
    BY <1>1, <1>3, <2>5, AnswerType, EmptyType DEF Answer, Inv, TypeOK
  <2>6. CASE /\ SetLine(r.prod, new)
             /\ nextId' = nextId + (IF old.id = 0 THEN 1 ELSE 0)
             /\ req' = [req EXCEPT ![s].res = "ok", ![s].id = new.id]
    <3>1. server' \in Carts
      BY <2>1, <2>3, <2>6, SetLineType
    <3>2. nextId' \in Nat \ {0}
      BY <2>6 DEF Inv, TypeOK
    <3>3. [r EXCEPT !.res = "ok", !.id = new.id] \in Sound
      BY <1>1, <1>3, <2>3, AnswerType, EmptyType
    <3> QED
      BY <2>6, <3>1, <3>2, <3>3 DEF Inv
  <2> QED
    BY <2>4, <2>5, <2>6
<1>5. CASE ServeChange(s)
  <2>1. \E v \in {"ok", "message", "null"} : req' = Answer(s, v)
    BY <1>5, Zenon DEF ServeChange
  <2>2. req' \in [Slots -> Sound]
    BY <1>1, <1>3, <2>1, AnswerType, EmptyType DEF Answer, Inv
  <2>3. \/ server' = server
        \/ \E p \in Products :
              /\ r.kind = "put" => r.qty \in 1..MaxQty
              /\ SetLine(p, IF r.kind = "put" THEN [id |-> r.id, qty |-> r.qty]
                                              ELSE NoLine)
    BY <1>5, Zenon DEF ServeChange
  <2>4. NoLine \in Line
    BY DEF NoLine, Line
  <2>5. r.kind = "put" /\ r.qty \in 1..MaxQty => [id |-> r.id, qty |-> r.qty] \in Line
    BY <1>1 DEF Line, Request
  <2>6. server' \in Carts
    BY <2>3, <2>4, <2>5, SetLineType DEF Inv, TypeOK
  <2>7. nextId' = nextId
    BY <1>5 DEF ServeChange
  <2> QED
    BY <2>2, <2>6, <2>7 DEF Inv, TypeOK
<1>6. CASE ServeRead(s)
  <2>1. [r EXCEPT !.res = "ok", !.cart = server] \in Sound
    BY <1>1, <1>3, AnswerType DEF Inv, TypeOK
  <2> QED
    BY <1>6, <2>1 DEF ServeRead, Inv, TypeOK
<1> QED
  BY <1>4, <1>5, <1>6 DEF Serve

LEMMA FaultType == ASSUME Inv, NEW s \in Slots, Fault(s) PROVE Inv'
<1>1. PICK f \in AllFaults : req' = Answer(s, f)
  BY CartAssumption DEF Fault, CartAssumption
<1>2. req' \in [Slots -> Sound]
  <2>1. req[s] \in Sound /\ f \in {"ok"} \cup AllFaults /\ 0 \in Nat
    BY DEF Inv
  <2>2. [req[s] EXCEPT !.res = f] \in Sound
    BY <2>1, AnswerType, EmptyType
  <2> QED
    BY <1>1, <2>2 DEF Answer, Inv
<1>3. Sound \subseteq Request
  BY DEF Sound
<1> QED
  BY <1>2, <1>3 DEF Fault, Inv, TypeOK, history

\* The requests a reply sends.
LEMMA RefreshType ==
    /\ NoRequest \in Sound /\ NoRequest.by = "nobody"
    /\ \A x \in AllScreens \cup {"nobody"}, k \in Kinds \ Changes :
          /\ GetCartList(k, x) \in Sound
          /\ GetCartList(k, x).by = x /\ GetCartList(k, x).kind = k
          /\ \A b \in BOOLEAN : [GetCartList(k, x) EXCEPT !.live = b] \in Sound
<1>1. NoRequest.by = "nobody"
  BY DEF NoRequest, GetCartList, Ask
<1> QED
  BY <1>1, NoRequestType, GetType DEF Kinds, Changes

LEMMA AfterDeleteType == ASSUME NEW r \in Sound PROVE AfterDelete(r) \in Sound
<1>1. r.live \in BOOLEAN
  BY DEF Sound, Request
<1> QED
  BY <1>1, RefreshType DEF AfterDelete, AllScreens, Kinds, Changes

LEMMA RememberType ==
    ASSUME Inv, NEW s \in Slots, Remember(s)
    PROVE  left' \subseteq AllScreens /\ crossed' \in BOOLEAN
BY Zenon DEF Remember, LeftUp, Inv, TypeOK

LEMMA ChangeReplyType ==
    ASSUME Inv, NEW s \in Slots, PostReply(s) \/ PutReply(s) \/ DeleteReply(s),
           Remember(s), UNCHANGED <<server, nextId, view, taps>>
    PROVE  Inv'
<1> DEFINE r == req[s]
<1>1. r \in Sound /\ r.kind \in Changes /\ r.live \in BOOLEAN
  BY DEF Inv, PostReply, PutReply, DeleteReply, Changes, TypeOK, Request
<1>2. item' \in [{"home", "list"} -> [Products -> Item]]
  BY <1>1, UpdateType DEF PostReply, PutReply, DeleteReply
<1>3. hud' \in [AllScreens -> BOOLEAN]
  <2>1. hud' \in {Lowered(r), [hud EXCEPT !["cart"] = TRUE]}
    BY Zenon DEF PostReply, PutReply, DeleteReply
  <2>2. hud \in [AllScreens -> BOOLEAN] /\ "cart" \in AllScreens
    BY DEF Inv, TypeOK, AllScreens
  <2> QED
    BY <2>1, <2>2, LoweredType
<1>4. req' \in [Slots -> Sound]
  <2>1. CASE PostReply(s)
    BY <2>1, RefreshType DEF PostReply, Inv, Kinds, Changes
  <2>2. CASE PutReply(s)
    <3>1. \/ \E q \in {NoRequest, GetCartList("cartlist", "nobody")} :
                 req' = [req EXCEPT ![s] = q]
          \/ \E t \in Slots :
                 req' = [req EXCEPT
                           ![s] = GetCartList("cartlist", "nobody"),
                           ![t] = [GetCartList("cartlist", "cart")
                                      EXCEPT !.live = r.live]]
      BY <2>2 DEF PutReply, Free
    <3> HIDE DEF r
    <3>2. /\ GetCartList("cartlist", "nobody") \in Sound
          /\ [GetCartList("cartlist", "cart") EXCEPT !.live = r.live] \in Sound
      BY <1>1, RefreshType DEF AllScreens, Kinds, Changes
    <3> QED
      BY <3>1, <3>2, RefreshType DEF Inv
  <2>3. CASE DeleteReply(s)
    BY <1>1, <2>3, AfterDeleteType DEF DeleteReply, Inv
  <2> QED
    BY <2>1, <2>2, <2>3
<1>5. Sound \subseteq Request
  BY DEF Sound
<1>6. UNCHANGED <<server, nextId, cache, lines, view, taps, seen>>
  BY DEF PostReply, PutReply, DeleteReply
<1> QED
  BY <1>2, <1>3, <1>4, <1>5, <1>6, RememberType DEF Inv, TypeOK

LEMMA ReadReplyType ==
    ASSUME Inv, NEW s \in Slots,
           CartListReply(s) \/ ProductsReply(s) \/ KeysReply(s),
           Remember(s), UNCHANGED <<server, nextId, view, taps>>
    PROVE  Inv'
<1> DEFINE r == req[s]
<1>1. r \in Sound /\ r \in Request /\ Sound \subseteq Request
  BY DEF Inv, Sound, TypeOK
<1>2. r.cart \in Carts /\ r.live \in BOOLEAN /\ r.by \in AllScreens \cup {"nobody"}
  BY <1>1 DEF Request
<1>3. r.cart.lines \in CartLines /\ r.cart.version \in Nat
  BY <1>2 DEF Carts
<1>4. cache' \in Carts /\ seen' \in Nat
  BY <1>2, <1>3 DEF CartListReply, CachedAfter, ProductsReply, KeysReply, Inv,
                    TypeOK
<1>5. lines' \in CartLines
  BY <1>3, EmptyType DEF CartListReply, ProductsReply, KeysReply, Inv, TypeOK
<1>6. hud' \in [AllScreens -> BOOLEAN]
  BY DEF CartListReply, ProductsReply, KeysReply, Inv, TypeOK
<1>7. item' \in [{"home", "list"} -> [Products -> Item]]
  <2>1. matchProductId(cache) \in [Products -> Item]
    BY MatchType DEF Inv, TypeOK
  <2>2. [p \in Products |-> NoItem] \in [Products -> Item]
    BY EmptyType
  <2>3. \/ item' = item
        \/ \E f \in {matchProductId(cache), [p \in Products |-> NoItem]} :
               item' = [item EXCEPT ![r.by] = f]
    BY DEF CartListReply, ProductsReply, KeysReply
  <2> QED
    BY <2>1, <2>2, <2>3 DEF Inv, TypeOK
<1>8. req' \in [Slots -> Sound]
  <2>1. CASE CartListReply(s)
    <3> DEFINE q == CASE r.kind = "relist" ->
                             [GetCartList("keys", "cart") EXCEPT !.live = r.live]
                      [] r.by = "home" -> GetCartList("products", "home")
                      [] OTHER -> NoRequest
    <3>1. q \in Sound
      BY <1>2, RefreshType DEF AllScreens, Kinds, Changes
    <3>2. req' = [req EXCEPT ![s] = q]
      BY <2>1 DEF CartListReply
    <3> HIDE DEF q
    <3> QED
      BY <3>1, <3>2 DEF Inv
  <2>2. CASE ProductsReply(s)
    BY <2>2, RefreshType, DetachType DEF ProductsReply, Inv
  <2>3. CASE KeysReply(s)
    BY <2>3, RefreshType DEF KeysReply, Inv
  <2> QED
    BY <2>1, <2>2, <2>3
<1> QED
  BY <1>1, <1>4, <1>5, <1>6, <1>7, <1>8, RememberType DEF Inv, TypeOK

LEMMA SpinnerReplyType ==
    ASSUME Inv, NEW s \in Slots,
           ProfileReply(s) \/ FavouriteReply(s) \/ WishListReply(s),
           Remember(s), UNCHANGED <<server, nextId, view, taps>>
    PROVE  Inv'
<1>1. req[s] \in Request /\ Sound \subseteq Request
  BY DEF Inv, TypeOK, Sound
<1>2. req[s].live \in BOOLEAN /\ req[s].by \in AllScreens \cup {"nobody"}
  BY <1>1 DEF Request
<1>3. hud' \in [AllScreens -> BOOLEAN]
  BY DEF ProfileReply, FavouriteReply, WishListReply, Inv, TypeOK
<1>4. PICK q \in {NoRequest, [GetCartList("favourite", req[s].by)
                                 EXCEPT !.live = req[s].live]} :
          req' = [req EXCEPT ![s] = q]
  BY DEF ProfileReply, FavouriteReply, WishListReply
<1>5. q \in Sound
  BY <1>2, <1>4, RefreshType DEF Kinds, Changes
<1>6. req' \in [Slots -> Sound]
  BY <1>4, <1>5 DEF Inv
<1>7. UNCHANGED <<cache, item, lines, seen>>
  BY DEF ProfileReply, FavouriteReply, WishListReply
<1> QED
  BY <1>1, <1>3, <1>6, <1>7, RememberType DEF Inv, TypeOK

LEMMA NextInv == Inv /\ [Next]_vars => Inv'
<1> SUFFICES ASSUME Inv, [Next]_vars PROVE Inv'
  OBVIOUS
<1>1. CASE Navigate
  BY <1>1, NavigateType
<1>2. CASE Tap
  BY <1>2, StepperType, CartScreenType, HeartType DEF Tap
<1>3. ASSUME NEW s \in Slots, Serve(s) \/ Fault(s) PROVE Inv'
  BY <1>3, ServeType, FaultType
<1>4. ASSUME NEW s \in Slots, Reply(s) PROVE Inv'
  BY <1>4, ChangeReplyType, ReadReplyType, SpinnerReplyType DEF Reply
<1>5. CASE UNCHANGED vars
  BY <1>5 DEF vars, history, Inv, TypeOK
<1> QED
  BY <1>1, <1>2, <1>3, <1>4, <1>5 DEF Next

LEMMA InvAlways == Spec => []Inv
BY InitInv, NextInv, PTL DEF Spec

\* Every variable keeps its type: an answer never leaves a product without a
\* quantity or a line without an id (matchProductId, UpdateItem).
THEOREM TypeCorrect == Spec => []TypeOK
<1>1. Inv => TypeOK
  BY DEF Inv
<1> QED
  BY <1>1, InvAlways, PTL

----------------------------------------------------------------------------
(* The Home screen *)

HomeTap(r) == r.by = "home" /\ r.kind \in Changes \cup {"favourite", "wishlist"}
HomeChange(r) == r.by = "home" /\ r.kind \in Changes

\* HomeOneAtATime is not inductive without the hearts, which share the spinner,
\* and HomeNotNegative is not: an answer takes one piece away.  While the
\* handler of a change holds the product shown, one piece of it is shown at
\* least, and a quantity asked for is never below one.
HomeInv ==
    /\ \A s \in Slots : HomeTap(req[s]) =>
           /\ hud["home"]
           /\ \A t \in Slots : HomeTap(req[t]) => t = s
    /\ \A p \in Products : item["home"][p].qty >= 0
    /\ \A s \in Slots : HomeChange(req[s]) =>
           /\ req[s].qty >= 1
           /\ req[s].live => item["home"][req[s].prod].qty >= 1

\* The requests q and r are of the same tap on Home, as far as its handler is
\* concerned.
SameTap(q, r) ==
    /\ HomeTap(r)
    /\ HomeChange(q) => /\ HomeChange(r) /\ q.qty = r.qty /\ q.prod = r.prod
                        /\ q.live => r.live

\* A step that makes no change on Home, and leaves its products and its spinner
\* alone, keeps the invariant.
LEMMA KeepHome ==
    ASSUME HomeInv, item'["home"] = item["home"], hud["home"] => hud'["home"],
           \A s \in Slots : HomeTap(req'[s]) => SameTap(req'[s], req[s])
    PROVE  HomeInv'
<1>1. \A s \in Slots : HomeTap(req'[s]) => HomeTap(req[s])
  BY DEF SameTap
<1>2. \A s \in Slots : HomeChange(req'[s]) => SameTap(req'[s], req[s])
  BY DEF HomeChange, HomeTap
<1> QED
  BY <1>1, <1>2 DEF HomeInv, SameTap

\* So does one that replaces requests by such as change nothing on Home.
LEMMA ReplaceHome ==
    ASSUME Inv, HomeInv, item'["home"] = item["home"], hud["home"] => hud'["home"],
           NEW s, NEW r, ~HomeTap(r), NEW x,
           \/ req' = [req EXCEPT ![s] = r]
           \/ req' = [Detached(x) EXCEPT ![s] = r]
    PROVE  HomeInv'
<1>1. \A t \in Slots : /\ req[t] \in Sound
                       /\ HomeTap(Detach(x, req[t]))
                            => SameTap(Detach(x, req[t]), req[t])
  <2> SUFFICES ASSUME NEW t \in Slots
               PROVE  /\ req[t] \in Sound
                      /\ HomeTap(Detach(x, req[t]))
                            => SameTap(Detach(x, req[t]), req[t])
    OBVIOUS
  <2>1. req[t] \in Sound
    BY DEF Inv
  <2> QED
    BY <2>1 DEF Detach, HomeTap, HomeChange, SameTap, Sound, Request
<1>2. \A t \in Slots : HomeTap(req'[t]) => SameTap(req'[t], req[t])
  BY <1>1 DEF Detached, SameTap, HomeTap, HomeChange, Inv
<1> QED
  BY <1>2, KeepHome

LEMMA AskKind ==
    /\ \A k, x, p, id, q : /\ Ask(k, x, p, id, q).kind = k
                           /\ Ask(k, x, p, id, q).by = x
                           /\ Ask(k, x, p, id, q).prod = p
                           /\ Ask(k, x, p, id, q).qty = q
    /\ \A k, x : GetCartList(k, x).kind = k /\ GetCartList(k, x).by = x
BY DEF Ask, GetCartList

LEMMA NavigateHome == Inv /\ HomeInv /\ Navigate => HomeInv'
<1> SUFFICES ASSUME Inv, HomeInv, Navigate PROVE HomeInv'
  OBVIOUS
<1>1. \E x \in {"home", "list", "cart"}, k \in {"cartlist", "products", "profile"},
         s \in Slots :
         \/ req' = [req EXCEPT ![s] = GetCartList(k, x)]
         \/ req' = [Detached(x) EXCEPT ![s] = GetCartList(k, x)]
  BY DEF Navigate, OpenCart, OpenProfile, TabToHome, OpenList, CartToList, ListToHome,
         PullHome, Free
<1>2. item'["home"] = item["home"] /\ (hud["home"] => hud'["home"])
  BY DEF Navigate, OpenCart, OpenProfile, TabToHome, OpenList, CartToList, ListToHome,
         PullHome, Inv, TypeOK, AllScreens
<1>3. \A x : \A k \in {"cartlist", "products", "profile"} : ~HomeTap(GetCartList(k, x))
  BY AskKind DEF HomeTap, Changes
<1> QED
  BY <1>1, <1>2, <1>3, ReplaceHome

LEMMA CartScreenHome ==
    ASSUME Inv, HomeInv,
           \/ \E p \in Products, q \in 1..MaxQty : callAPIAddItemToCart(p, q)
           \/ \E p \in Products : callApiRemoveCartItem(p)
           \/ callApiEstimateShippingAndTax
    PROVE  HomeInv'
<1>1. PICK s, r : s \in Slots /\ CartAsk(s, r) /\ r.by = "cart"
  BY AskKind DEF callAPIAddItemToCart, callApiRemoveCartItem,
                 callApiEstimateShippingAndTax, Free
<1>2. item'["home"] = item["home"] /\ hud'["home"] = hud["home"]
  BY <1>1 DEF CartAsk, Inv, TypeOK, AllScreens
<1> QED
  BY <1>1, <1>2, ReplaceHome DEF CartAsk, HomeTap

LEMMA ServeHome ==
    ASSUME Inv, HomeInv, NEW s \in Slots, Serve(s) \/ Fault(s) PROVE HomeInv'
<1>1. item' = item /\ hud' = hud
  BY DEF Serve, Fault
<1>2. req[s] \in Sound /\ req \in [Slots -> Sound]
  BY DEF Inv
<1>3. \A t \in Slots : req'[t].kind = req[t].kind /\ req'[t].by = req[t].by
        /\ req'[t].qty = req[t].qty /\ req'[t].prod = req[t].prod
        /\ req'[t].live = req[t].live
  BY <1>2 DEF Serve, Fault, ServePost, ServeChange, ServeRead, Answer, Sound, Request
<1> QED
  BY <1>1, <1>3, KeepHome DEF HomeTap, HomeChange, SameTap

\* A change made on Home when its spinner is down, after which its product
\* shows at least one piece.
LEMMA FirstHome ==
    ASSUME Inv, HomeInv, ~hud["home"], NEW p \in Products, NEW i \in Item, i.qty >= 1,
           item' = [item EXCEPT !["home"][p] = i],
           hud' = [hud EXCEPT !["home"] = TRUE],
           NEW t \in Slots, HomeChange(req'[t]) => req'[t].prod = p /\ req'[t].qty >= 1,
           \A u \in Slots : u # t => req'[u] = req[u] \/ ~HomeTap(req'[u])
    PROVE  HomeInv'
<1>1. \A u \in Slots : ~HomeTap(req[u])
  BY DEF HomeInv
<1>2. \A u \in Slots : HomeTap(req'[u]) => u = t
  BY <1>1
<1>3. hud'["home"]
  BY DEF Inv, TypeOK, AllScreens
<1>4. item'["home"][p] = i /\ \A q \in Products : q # p => item'["home"][q] = item["home"][q]
  BY DEF Inv, TypeOK
<1>5. i.qty \in Int
  BY DEF Item
<1>6. \A q \in Products : item'["home"][q].qty >= 0
  BY <1>4, <1>5 DEF HomeInv
<1>7. \A u \in Slots : HomeChange(req'[u]) => u = t
  BY <1>2 DEF HomeTap, HomeChange
<1> QED
  BY <1>2, <1>3, <1>4, <1>6, <1>7 DEF HomeInv

LEMMA StepperHome ==
    ASSUME Inv, HomeInv, NEW p \in Products,
           \/ HomeAdd(p) \/ ListAdd(p)
           \/ \E x \in {"home", "list"} : StepperRemove(x, p)
    PROVE  HomeInv'
<1> DEFINE i == item["home"][p]
<1>0. i \in Item /\ i.qty \in Int /\ i.qty >= 0 /\ item["list"][p] \in Item
  BY ItemsType DEF HomeInv
<1>1. CASE HomeAdd(p)
  <2> DEFINE new == Added("home", i)
  <2>1. item' = [item EXCEPT !["home"][p] = new] /\ new \in Item
    BY <1>0, <1>1, AddedType DEF HomeAdd
  <2>2. new.qty >= 1
    BY <1>0 DEF Added, Item
  <2>3. item'["home"][p] = new
    BY <2>1 DEF Inv, TypeOK
  <2>4. PICK s, t \in Slots :
            req' = [req EXCEPT ![s] = GetCartList("cartlist", "nobody"),
                               ![t] = AddRequest("home", p, new)]
    BY <1>1, <2>3 DEF HomeAdd, Free
  <2>5. /\ AddRequest("home", p, new).prod = p
        /\ AddRequest("home", p, new).qty = new.qty
    BY AskKind DEF AddRequest
  <2>6. ~HomeTap(GetCartList("cartlist", "nobody"))
    BY AskKind DEF HomeTap
  <2>7. req'[t].prod = p /\ req'[t].qty >= 1
    BY <2>2, <2>4, <2>5 DEF Inv
  <2>8. \A u \in Slots : u # t => req'[u] = req[u] \/ ~HomeTap(req'[u])
    BY <2>4, <2>6 DEF Inv
  <2> QED
    BY <1>1, <2>1, <2>2, <2>7, <2>8, FirstHome DEF HomeAdd, Tappable
<1>2. CASE ListAdd(p)
  <2>1. item'["home"] = item["home"] /\ hud' = hud
    BY <1>2 DEF ListAdd, Inv, TypeOK
  <2> DEFINE a == Ask("put", "nobody", p, item["list"][p].id, item["list"][p].qty)
             b == GetCartList("cartlist", "nobody")
             c == AddRequest("list", p, item'["list"][p])
  <2>2. PICK s, t, u \in Slots : req' = [req EXCEPT ![s] = a, ![t] = b, ![u] = c]
    BY <1>2, Zenon DEF ListAdd, Free
  <2>3. a.by # "home" /\ b.by # "home" /\ c.by # "home"
    BY AskKind DEF AddRequest
  <2> HIDE DEF a, b, c
  <2>4. \A v \in Slots : HomeTap(req'[v]) => SameTap(req'[v], req[v])
    BY <2>2, <2>3 DEF HomeTap, HomeChange, SameTap, Inv
  <2> QED
    BY <2>1, <2>4, KeepHome
<1>3. CASE StepperRemove("home", p)
  <2>1. ~hud["home"] /\ i.qty >= 1 /\ hud' = [hud EXCEPT !["home"] = TRUE]
    BY <1>0, <1>3 DEF StepperRemove, Tappable
  <2>2. CASE i.qty = 1
    <3>1. item' = item
      BY <1>3, <2>2 DEF StepperRemove
    <3>2. item' = [item EXCEPT !["home"][p] = i]
      BY <3>1 DEF Inv, TypeOK
    <3>3. PICK s \in Slots : req' = [req EXCEPT ![s] = Ask("delete", "home", p, i.id, 1)]
      BY <1>3, <2>2 DEF StepperRemove, Free
    <3>4. req'[s].prod = p /\ req'[s].qty >= 1
      BY <3>3, AskKind DEF Inv
    <3>5. \A u \in Slots : u # s => req'[u] = req[u]
      BY <3>3 DEF Inv
    <3> QED
      BY <1>0, <2>1, <3>2, <3>4, <3>5, FirstHome
  <2>3. CASE i.qty # 1
    <3> DEFINE new == [i EXCEPT !.qty = @ - 1]
    <3>1. new \in Item /\ new.qty >= 1
      BY <1>0, <2>1, <2>3 DEF Item
    <3>2. item' = [item EXCEPT !["home"][p] = new]
      BY <1>3, <2>3 DEF StepperRemove
    <3>3. PICK s \in Slots : req' = [req EXCEPT ![s] = Ask("put", "home", p, i.id, i.qty - 1)]
      BY <1>3, <2>3 DEF StepperRemove, Free
    <3>4. req'[s].prod = p /\ req'[s].qty >= 1
      BY <1>0, <2>1, <2>3, <3>3, AskKind DEF Inv
    <3>5. \A u \in Slots : u # s => req'[u] = req[u]
      BY <3>3 DEF Inv
    <3> HIDE DEF new
    <3> QED
      BY <2>1, <3>1, <3>2, <3>4, <3>5, FirstHome
  <2> QED
    BY <2>2, <2>3
<1>4. CASE StepperRemove("list", p)
  <2>1. item'["home"] = item["home"] /\ hud' = hud
    BY <1>4 DEF StepperRemove, Inv, TypeOK
  <2> DEFINE j == item["list"][p]
             del == Ask("delete", "list", p, j.id, 1)
             put == Ask("put", "list", p, j.id, j.qty - 1)
  <2>2. PICK s \in Slots, r \in {del, put} : req' = [req EXCEPT ![s] = r]
    <3>1. \E s \in Slots : \/ req' = [req EXCEPT ![s] = del]
                           \/ req' = [req EXCEPT ![s] = put]
      BY <1>4, Zenon DEF StepperRemove, Free
    <3> QED
      BY <3>1
  <2>3. del.by = "list" /\ put.by = "list"
    BY AskKind
  <2> HIDE DEF del, put
  <2> QED
    BY <2>1, <2>2, <2>3, ReplaceHome DEF HomeTap
<1> QED
  BY <1>1, <1>2, <1>3, <1>4

LEMMA HeartHome ==
    ASSUME Inv, HomeInv, NEW x \in {"home", "list"}, Heart(x) PROVE HomeInv'
<1>1. PICK s \in Slots, k \in {"favourite", "wishlist"} :
          req' = [req EXCEPT ![s] = GetCartList(k, x)]
  BY DEF Heart, Free
<1>2. item' = item /\ hud' = [hud EXCEPT ![x] = TRUE] /\ ~hud[x]
  BY DEF Heart, Tappable
<1>3. CASE x = "list"
  <2>1. ~HomeTap(GetCartList(k, x))
    BY <1>3, AskKind DEF HomeTap
  <2>2. hud["home"] => hud'["home"]
    BY <1>2, <1>3 DEF Inv, TypeOK, AllScreens
  <2> QED
    BY <1>1, <1>2, <2>1, <2>2, ReplaceHome
<1>4. CASE x = "home"
  <2>1. \A u \in Slots : ~HomeTap(req[u])
    BY <1>2, <1>4 DEF HomeInv
  <2>2. \A u \in Slots : HomeTap(req'[u]) => u = s
    BY <1>1, <2>1 DEF Inv
  <2>3. ~HomeChange(GetCartList(k, x))
    BY AskKind DEF HomeChange, Changes
  <2>4. \A u \in Slots : ~HomeChange(req'[u])
    BY <1>1, <2>1, <2>3 DEF Inv, HomeTap, HomeChange
  <2>5. hud'["home"]
    BY <1>2, <1>4 DEF Inv, TypeOK, AllScreens
  <2> QED
    BY <1>2, <2>2, <2>4, <2>5 DEF HomeInv
<1> QED
  BY <1>3, <1>4

\* What the reply to a change does to requests: the one answered is gone, and
\* none that is new changes anything.
LEMMA ChangeReplySends ==
    ASSUME Inv, NEW s \in Slots, PostReply(s) \/ PutReply(s) \/ DeleteReply(s),
           NEW t \in Slots, HomeTap(req'[t])
    PROVE  t # s /\ req'[t] = req[t]
<1> DEFINE r == req[s]
           cartlist == GetCartList("cartlist", "nobody")
           own == [GetCartList("cartlist", "cart") EXCEPT !.live = r.live]
<1>1. /\ ~HomeTap(NoRequest) /\ ~HomeTap(cartlist) /\ ~HomeTap(own)
  BY DEF HomeTap, NoRequest, GetCartList, Ask, Changes
<1>2. ~HomeTap(AfterDelete(r))
  BY <1>1 DEF AfterDelete, HomeTap, GetCartList, Ask, Changes
<1>3. \/ \E q \in {NoRequest, cartlist, AfterDelete(r)} : req' = [req EXCEPT ![s] = q]
      \/ \E u \in Slots : req' = [req EXCEPT ![s] = cartlist, ![u] = own]
  <2>1. CASE PostReply(s)
    BY <2>1 DEF PostReply
  <2>2. CASE PutReply(s)
    BY <2>2, Zenon DEF PutReply, Free
  <2>3. CASE DeleteReply(s)
    BY <2>3 DEF DeleteReply
  <2> QED
    BY <2>1, <2>2, <2>3
<1> HIDE DEF cartlist, own
<1> QED
  BY <1>1, <1>2, <1>3 DEF Inv

LEMMA ChangeReplyHome ==
    ASSUME Inv, HomeInv, NEW s \in Slots,
           PostReply(s) \/ PutReply(s) \/ DeleteReply(s)
    PROVE  HomeInv'
<1> DEFINE r == req[s]
<1>1. r \in Sound /\ r.kind \in Changes /\ UpdateItem(r)
  BY DEF Inv, PostReply, PutReply, DeleteReply, Changes
<1>2. r.prod \in Products /\ r.qty \in Int
  BY <1>1 DEF Sound, Request
<1>3. CASE r.by # "home"
  <2>1. item'["home"] = item["home"]
    BY <1>1, <1>2, <1>3 DEF UpdateItem, Inv, TypeOK
  <2>2. hud'["home"] = hud["home"]
    BY <1>3 DEF PostReply, PutReply, DeleteReply, Lowered, Inv, TypeOK, AllScreens
  <2>3. \A t \in Slots : HomeTap(req'[t]) => SameTap(req'[t], req[t])
    BY ChangeReplySends DEF SameTap, HomeTap, HomeChange
  <2> QED
    BY <2>1, <2>2, <2>3, KeepHome
<1>4. CASE r.by = "home"
  <2>1. \A t \in Slots : ~HomeTap(req'[t])
    BY <1>1, <1>4, ChangeReplySends DEF HomeInv, HomeTap
  <2>2. \A t \in Slots : ~HomeChange(req'[t])
    BY <2>1 DEF HomeTap, HomeChange
  <2>3. \A p \in Products : item'["home"][p].qty >= 0
    <3> DEFINE i == item["home"][r.prod]
               new == CASE r.kind = "post" -> onNewFirstTimeAddToCart(r, i)
                        [] r.kind = "put" -> onNewDataChangeCartItemQuantity(r, i)
                        [] r.kind = "delete" -> Removed(r, i)
    <3>1. CASE ~r.live
      BY <1>1, <3>1 DEF UpdateItem, HomeInv
    <3>2. CASE r.live
      <4>1. i \in Item /\ i.qty >= 1 /\ i.qty \in Int /\ r.qty >= 1
        BY <1>1, <1>2, <1>4, <3>2, ItemsType DEF HomeInv, HomeChange
      <4>2. onNewFirstTimeAddToCart(r, i).qty >= 0
        <5> DEFINE q == IF r.by = "home" /\ i.qty = 1 THEN 1 ELSE i.qty + 1
                   stored == [i EXCEPT !.id = r.id, !.qty = q]
                   less == [i EXCEPT !.qty = @ - 1]
        <5>1. onNewFirstTimeAddToCart(r, i) \in {stored, less, i}
          BY DEF onNewFirstTimeAddToCart
        <5>2. stored.qty = q /\ less.qty = i.qty - 1
          BY <4>1 DEF Item
        <5>3. q >= 0
          BY <4>1
        <5> HIDE DEF i, q, stored, less
        <5> QED
          BY <4>1, <5>1, <5>2, <5>3
      <4>3. onNewDataChangeCartItemQuantity(r, i).qty >= 0
        <5>1. \/ onNewDataChangeCartItemQuantity(r, i) = [i EXCEPT !.qty = r.qty]
              \/ onNewDataChangeCartItemQuantity(r, i) = [i EXCEPT !.qty = @ - 1]
              \/ onNewDataChangeCartItemQuantity(r, i) = i
          BY DEF onNewDataChangeCartItemQuantity
        <5> HIDE DEF i
        <5> QED
          BY <1>2, <4>1, <5>1 DEF Item
      <4>4. Removed(r, i).qty >= 0
        <5>1. \/ Removed(r, i) = [i EXCEPT !.qty = @ - 1]
              \/ Removed(r, i) = i
          BY DEF Removed
        <5> HIDE DEF i
        <5> QED
          BY <4>1, <5>1 DEF Item
      <4>5. new.qty >= 0
        BY <1>1, <4>2, <4>3, <4>4 DEF Changes
      <4>6. item' = [item EXCEPT !["home"][r.prod] = new]
        BY <1>1, <1>4, <3>2 DEF UpdateItem
      <4> HIDE DEF new
      <4> QED
        BY <1>2, <4>5, <4>6 DEF HomeInv, Inv, TypeOK
    <3> QED
      BY <3>1, <3>2
  <2> QED
    BY <2>1, <2>2, <2>3 DEF HomeInv
<1> QED
  BY <1>3, <1>4

LEMMA ReadReplyHome ==
    ASSUME Inv, HomeInv, NEW s \in Slots,
           CartListReply(s) \/ ProductsReply(s) \/ KeysReply(s)
    PROVE  HomeInv'
<1> DEFINE r == req[s]
           keys == [GetCartList("keys", "cart") EXCEPT !.live = r.live]
<1>1. hud'["home"] = hud["home"]
  BY DEF CartListReply, ProductsReply, KeysReply, Inv, TypeOK, AllScreens
<1>2. /\ ~HomeTap(NoRequest) /\ ~HomeTap(keys)
      /\ ~HomeTap(GetCartList("products", "home"))
  BY DEF HomeTap, NoRequest, GetCartList, Ask, Changes
<1>3. ASSUME UNCHANGED item,
             \E q \in {NoRequest, keys, GetCartList("products", "home")} :
                 req' = [req EXCEPT ![s] = q]
      PROVE  HomeInv'
  <2> HIDE DEF keys
  <2> QED
    BY <1>1, <1>2, <1>3, ReplaceHome
<1>4. CASE CartListReply(s) \/ KeysReply(s)
  <2>1. UNCHANGED item
    BY <1>4 DEF CartListReply, KeysReply
  <2>2. \E q \in {NoRequest, keys, GetCartList("products", "home")} :
            req' = [req EXCEPT ![s] = q]
    BY <1>4 DEF CartListReply, KeysReply
  <2> QED
    BY <1>3, <2>1, <2>2
<1>5. CASE ProductsReply(s)
  <2>1. CASE UNCHANGED item /\ req' = [req EXCEPT ![s] = NoRequest]
    BY <1>3, <2>1
  <2>2. ASSUME NEW f \in {matchProductId(cache), [p \in Products |-> NoItem]},
               item' = [item EXCEPT ![r.by] = f],
               req' = [t \in Slots |->
                          IF t = s THEN NoRequest
                          ELSE IF req[t].kind \in Changes
                               THEN Detach(r.by, req[t]) ELSE req[t]]
        PROVE  HomeInv'
    <3>1. \A t \in Slots : HomeTap(req'[t]) =>
              /\ SameTap(req'[t], req[t])
              /\ r.by = "home" /\ HomeChange(req'[t]) => ~req'[t].live
      <4> SUFFICES ASSUME NEW t \in Slots, HomeTap(req'[t])
                   PROVE  /\ SameTap(req'[t], req[t])
                          /\ r.by = "home" /\ HomeChange(req'[t]) => ~req'[t].live
        OBVIOUS
      <4>1. t # s /\ req[t] \in Request
        BY <1>2, <2>2 DEF Inv, TypeOK
      <4>2. CASE req[t].kind \in Changes
        <5>1. req'[t] = Detach(r.by, req[t])
          BY <2>2, <4>1, <4>2
        <5> QED
          BY <4>1, <5>1 DEF Detach, HomeTap, HomeChange, SameTap, Request
      <4>3. CASE req[t].kind \notin Changes
        BY <2>2, <4>1, <4>3 DEF HomeTap, HomeChange, SameTap
      <4> QED
        BY <4>2, <4>3
    <3>2. CASE r.by # "home"
      <4>1. item'["home"] = item["home"]
        BY <2>2, <3>2 DEF Inv, TypeOK
      <4> QED
        BY <1>1, <3>1, <4>1, KeepHome
    <3>3. CASE r.by = "home"
      <4>1. item'["home"] = f
        BY <2>2, <3>3 DEF Inv, TypeOK
      <4>2. \A p \in Products : f[p].qty >= 0
        BY <2>2 DEF matchProductId, NoItem, Inv, TypeOK, Carts, CartLines, Line
      <4>3. \A t \in Slots : ~(HomeChange(req'[t]) /\ req'[t].live)
        BY <3>1, <3>3 DEF HomeTap, HomeChange
      <4>4. \A t \in Slots : HomeChange(req'[t]) => req'[t].qty = req[t].qty /\ HomeChange(req[t])
        BY <3>1 DEF HomeTap, HomeChange, SameTap
      <4>5. \A t \in Slots : HomeTap(req'[t]) => HomeTap(req[t])
        BY <3>1 DEF SameTap
      <4> QED
        BY <1>1, <4>1, <4>2, <4>3, <4>4, <4>5 DEF HomeInv
    <3> QED
      BY <3>2, <3>3
  <2> QED
    BY <1>5, <2>1, <2>2 DEF ProductsReply
<1> QED
  BY <1>4, <1>5

\* The answers that are about a spinner only.
LEMMA SpinnerReplyHome ==
    ASSUME Inv, HomeInv, NEW s \in Slots, Remember(s), ~crossed',
           ProfileReply(s) \/ FavouriteReply(s) \/ WishListReply(s)
    PROVE  HomeInv'
<1> DEFINE found == [GetCartList("favourite", req[s].by) EXCEPT !.live = req[s].live]
<1>1. item' = item
  BY DEF ProfileReply, FavouriteReply, WishListReply
<1>2. ~HomeTap(NoRequest)
  BY DEF HomeTap, NoRequest, GetCartList, Ask, Changes
<1>3. ASSUME req' = [req EXCEPT ![s] = NoRequest], \A t \in Slots : t # s => ~HomeTap(req[t])
      PROVE  HomeInv'
  <2>1. \A t \in Slots : ~HomeTap(req'[t])
    BY <1>2, <1>3 DEF Inv
  <2>2. \A t \in Slots : ~HomeChange(req'[t])
    BY <2>1 DEF HomeTap, HomeChange
  <2> QED
    BY <1>1, <2>1, <2>2 DEF HomeInv
<1>4. ASSUME req' = [req EXCEPT ![s] = NoRequest], hud["home"] => hud'["home"]
      PROVE  HomeInv'
  BY <1>1, <1>2, <1>4, ReplaceHome
<1>5. CASE ProfileReply(s)
  <2>1. req' = [req EXCEPT ![s] = NoRequest] /\ req[s].kind = "profile"
    BY <1>5 DEF ProfileReply
  <2>2. CASE hud'["home"] = hud["home"]
    BY <1>4, <2>1, <2>2
  <2>3. CASE hud'["home"] # hud["home"]
    <3>1. \A t \in Slots : ~HomeTap(req[t])
      BY <2>1, <2>3 DEF Remember, TapOfHome, HomeTap
    <3> QED
      BY <1>3, <2>1, <3>1
  <2> QED
    BY <2>2, <2>3
<1>6. CASE FavouriteReply(s)
  <2>1. req' = [req EXCEPT ![s] = NoRequest] /\ req[s].kind = "favourite"
    BY <1>6 DEF FavouriteReply
  <2>2. CASE req[s].by = "home"
    <3>1. \A t \in Slots : t # s => ~HomeTap(req[t])
      BY <2>1, <2>2 DEF HomeInv, HomeTap
    <3> QED
      BY <1>3, <2>1, <3>1
  <2>3. CASE req[s].by # "home"
    <3>1. hud'["home"] = hud["home"]
      BY <1>6, <2>3 DEF FavouriteReply, Inv, TypeOK, AllScreens
    <3> QED
      BY <1>4, <2>1, <3>1
  <2> QED
    BY <2>2, <2>3
<1>7. CASE WishListReply(s)
  <2>1. hud["home"] => hud'["home"]
    BY <1>7 DEF WishListReply, Inv, TypeOK, AllScreens
  <2>2. CASE req' = [req EXCEPT ![s] = NoRequest]
    BY <1>4, <2>1, <2>2
  <2>3. CASE req' = [req EXCEPT ![s] = found]
    <3>1. found.kind = "favourite" /\ found.by = req[s].by
      BY DEF GetCartList, Ask
    <3> HIDE DEF found
    <3>2. req'[s] = found /\ \A t \in Slots : t # s => req'[t] = req[t]
      BY <2>3 DEF Inv
    <3>3. req[s].kind = "wishlist"
      BY <1>7 DEF WishListReply
    <3>4. HomeTap(found) => SameTap(found, req[s])
      BY <3>1, <3>3 DEF HomeTap, HomeChange, SameTap, Changes
    <3>5. \A t \in Slots : HomeTap(req'[t]) => SameTap(req'[t], req[t])
      BY <3>2, <3>4 DEF SameTap
    <3> QED
      BY <1>1, <2>1, <3>5, KeepHome
  <2> QED
    BY <1>7, <2>2, <2>3 DEF WishListReply
<1> QED
  BY <1>5, <1>6, <1>7

LEMMA InitHome == Init => HomeInv
<1> SUFFICES ASSUME Init PROVE HomeInv
  OBVIOUS
<1>1. \A s \in Slots : ~HomeTap(req[s]) /\ ~HomeChange(req[s])
  BY DEF Init, HomeTap, HomeChange, NoRequest, GetCartList, Ask, Changes
<1>2. \A p \in Products : item["home"][p].qty >= 0
  BY DEF Init, NoItem
<1> QED
  BY <1>1, <1>2 DEF HomeInv

\* An answer to My Profile that takes the spinner off a tap ends it for good.
Serial == ~crossed => HomeInv

LEMMA NextHome == Inv /\ Serial /\ [Next]_vars => Serial'
<1> SUFFICES ASSUME Inv, Serial, [Next]_vars, ~crossed' PROVE HomeInv'
  BY DEF Serial
<1>1. crossed' = crossed \/ \E s \in Slots : Reply(s)
  BY DEF Next, Navigate, OpenCart, OpenProfile, TabToHome, OpenList, CartToList,
         ListToHome, PullHome, Tap, HomeAdd, ListAdd, StepperRemove, Heart,
         callAPIAddItemToCart, callApiRemoveCartItem,
         callApiEstimateShippingAndTax, CartAsk, Serve, Fault, vars, history
<1>2. HomeInv
  BY <1>1 DEF Reply, Remember, Serial
<1>3. CASE Navigate
  BY <1>2, <1>3, NavigateHome
<1>4. CASE Tap
  BY <1>2, <1>4, StepperHome, CartScreenHome, HeartHome DEF Tap
<1>5. ASSUME NEW s \in Slots, Serve(s) \/ Fault(s) PROVE HomeInv'
  BY <1>2, <1>5, ServeHome
<1>6. ASSUME NEW s \in Slots, Reply(s) PROVE HomeInv'
  BY <1>2, <1>6, ChangeReplyHome, ReadReplyHome, SpinnerReplyHome DEF Reply
<1>7. CASE UNCHANGED vars
  <2>1. item' = item /\ hud' = hud /\ req' = req
    BY <1>7 DEF vars
  <2> QED
    BY <1>2, <2>1, KeepHome DEF SameTap
<1> QED
  BY <1>3, <1>4, <1>5, <1>6, <1>7 DEF Next

LEMMA SerialAlways == Spec => []Serial
<1>1. Init => Inv /\ Serial
  BY InitInv, InitHome DEF Serial
<1>2. (Inv /\ Serial) /\ [Next]_vars => (Inv /\ Serial)'
  BY NextInv, NextHome
<1> QED
  BY <1>1, <1>2, PTL DEF Spec

\* The spinner of HomeNotifier, which ModalProgressHUD lays over the steppers,
\* serialises the changes made on the Home screen: however many requests are
\* in flight, and however often the screen was left and its products rebuilt.
THEOREM HomeSerialised == Spec => []HomeOneAtATime
<1>1. Serial => HomeOneAtATime
  BY DEF Serial, HomeInv, HomeTap, HomeOneAtATime, Changing
<1> QED
  BY <1>1, SerialAlways, PTL

\* The decrements of onNewDataChangeCartItemQuantity, onNewFirstTimeAddToCart
\* and the removal never take a quantity of the Home screen below zero.
THEOREM HomeStaysCounted == Spec => []HomeNotNegative
<1>1. Serial => HomeNotNegative
  BY DEF Serial, HomeInv, HomeNotNegative
<1> QED
  BY <1>1, SerialAlways, PTL
=============================================================================
