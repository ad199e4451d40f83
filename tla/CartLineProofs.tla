--------------------------- MODULE CartLineProofs ---------------------------
(***************************************************************************)
(* More results about Cart, for all its constants: the copy of the cart      *)
(* behind the badge is always one the server had, no item id is held for two *)
(* products, every change is followed by a list asked for after it, and no   *)
(* spinner waits for nothing.  They rest on what a step may do to the        *)
(* requests in flight.                                                       *)
(***************************************************************************)
EXTENDS CartProofs

----------------------------------------------------------------------------
(* The requests *)

\* A step leaves what the server and the handlers know of a request alone.
Kept(t) ==
    /\ req'[t].kind = req[t].kind /\ req'[t].res = req[t].res
    /\ req'[t].prod = req[t].prod /\ req'[t].id = req[t].id
    /\ req'[t].cart = req[t].cart

\* It sends a request, whose id was known for its product, if it has one.
Sent(t) ==
    /\ req'[t].res = "sent" /\ req'[t].cart = NewCart
    /\ req'[t].prod \in Products =>
           req'[t].id \in IdsOf(req'[t].prod) \cup {0}

LEMMA AskedFor ==
    ASSUME NEW k, NEW x, NEW p, NEW id, NEW q
    PROVE  /\ Ask(k, x, p, id, q).res = "sent"
           /\ Ask(k, x, p, id, q).cart = NewCart
           /\ Ask(k, x, p, id, q).prod = p
           /\ Ask(k, x, p, id, q).id = id
BY DEF Ask

LEMMA ListAsked ==
    ASSUME NEW k, NEW x
    PROVE  /\ GetCartList(k, x).res = "sent" /\ GetCartList(k, x).cart = NewCart
           /\ GetCartList(k, x).id = 0
           /\ \A b : /\ [GetCartList(k, x) EXCEPT !.live = b].res = "sent"
                     /\ [GetCartList(k, x) EXCEPT !.live = b].cart = NewCart
                     /\ [GetCartList(k, x) EXCEPT !.live = b].id = 0
BY DEF GetCartList, Ask

LEMMA NothingAsked ==
    NoRequest.res = "sent" /\ NoRequest.cart = NewCart /\ NoRequest.id = 0
BY ListAsked DEF NoRequest

\* Where the ids of a product are, and nowhere else.
LEMMA IdsIn ==
    ASSUME NEW p \in Products
    PROVE  /\ server.lines[p].id \in IdsOf(p)
           /\ cache.lines[p].id \in IdsOf(p)
           /\ lines[p].id \in IdsOf(p)
           /\ \A x \in {"home", "list"} : item[x][p].id \in IdsOf(p)
           /\ \A s \in Slots : req[s].prod = p => req[s].id \in IdsOf(p)
           /\ \A s \in Slots : req[s].cart.lines[p].id \in IdsOf(p)
BY DEF IdsOf

LEMMA IdsFrom ==
    ASSUME NEW p \in Products, NEW S,
           server'.lines[p].id \in S,
           cache'.lines[p].id \in S,
           lines'[p].id \in S,
           \A x \in {"home", "list"} : item'[x][p].id \in S,
           \A s \in Slots : req'[s].prod = p => req'[s].id \in S,
           \A s \in Slots : req'[s].cart.lines[p].id \in S
    PROVE  IdsOf(p)' \subseteq S
BY DEF IdsOf

LEMMA DetachKeeps ==
    ASSUME NEW x, NEW r \in Request
    PROVE  /\ Detach(x, r).kind = r.kind /\ Detach(x, r).res = r.res
           /\ Detach(x, r).prod = r.prod /\ Detach(x, r).id = r.id
           /\ Detach(x, r).cart = r.cart
BY DEF Detach, Request

\* One request more.
LEMMA OneSent ==
    ASSUME Inv, NEW x, NEW s \in Slots, NEW r,
           r.res = "sent", r.cart = NewCart,
           r.prod \in Products => r.id \in IdsOf(r.prod) \cup {0},
           \/ req' = [req EXCEPT ![s] = r]
           \/ req' = [Detached(x) EXCEPT ![s] = r]
    PROVE  \A t \in Slots : Kept(t) \/ Sent(t)
<1>1. req \in [Slots -> Request]
  BY DEF Inv, TypeOK
<1>2. \A t \in Slots : req'[t] \in {req[t], Detach(x, req[t])} \/ t = s
  BY <1>1 DEF Detached
<1>3. req'[s] = r
  BY <1>1 DEF Detached
<1>4. Sent(s)
  BY <1>3 DEF Sent
<1>5. ASSUME NEW t \in Slots, t # s PROVE Kept(t)
  <2>1. req[t] \in Request
    BY <1>1
  <2> QED
    BY <1>2, <1>5, <2>1, DetachKeeps DEF Kept
<1> QED
  BY <1>4, <1>5

LEMMA NavigateRequests ==
    ASSUME Inv, Navigate PROVE \A t \in Slots : Kept(t) \/ Sent(t)
<1>1. PICK x \in {"home", "list", "cart"},
            k \in {"cartlist", "products", "profile"}, s \in Slots :
         \/ req' = [req EXCEPT ![s] = GetCartList(k, x)]
         \/ req' = [Detached(x) EXCEPT ![s] = GetCartList(k, x)]
  BY DEF Navigate, OpenCart, OpenProfile, TabToHome, OpenList, CartToList, ListToHome,
         PullHome, Free
<1>2. /\ GetCartList(k, x).res = "sent" /\ GetCartList(k, x).cart = NewCart
      /\ GetCartList(k, x).id = 0
  BY ListAsked
<1> QED
  BY <1>1, <1>2, OneSent

LEMMA AddRequestAsked ==
    ASSUME NEW x, NEW p, NEW i
    PROVE  /\ AddRequest(x, p, i).res = "sent"
           /\ AddRequest(x, p, i).cart = NewCart
           /\ AddRequest(x, p, i).prod = p
           /\ AddRequest(x, p, i).id \in {i.id, 0}
BY AskedFor DEF AddRequest

LEMMA AddedKeepsId ==
    ASSUME NEW x, NEW i \in Item PROVE Added(x, i).id = i.id
BY DEF Added, Item

LEMMA TapRequests ==
    ASSUME Inv, Tap PROVE \A t \in Slots : Kept(t) \/ Sent(t)
<1>1. req \in [Slots -> Request] /\ req \in [Slots -> Sound]
        /\ item \in [{"home", "list"} -> [Products -> Item]]
  BY DEF Inv, TypeOK
<1>2. \A p \in Products, x \in {"home", "list"} :
          /\ item[x][p] \in Item
          /\ item[x][p].id \in IdsOf(p)
  BY <1>1, IdsIn
<1> DEFINE refresh == GetCartList("cartlist", "nobody")
<1>3. refresh.res = "sent" /\ refresh.cart = NewCart /\ refresh.id = 0
  BY ListAsked
<1> HIDE DEF refresh
<1>4. ASSUME NEW p \in Products, NEW x \in {"home", "list"}, NEW i \in Item,
             i.id = item[x][p].id,
             NEW s \in Slots, NEW t \in Slots, NEW u \in Slots, NEW q,
             q.res = "sent", q.cart = NewCart, q.prod = p, q.id = item[x][p].id,
             \/ req' = [req EXCEPT ![s] = refresh, ![t] = AddRequest(x, p, i)]
             \/ req' = [req EXCEPT ![s] = q, ![t] = refresh,
                                   ![u] = AddRequest(x, p, i)]
      PROVE  \A v \in Slots : Kept(v) \/ Sent(v)
  <2> DEFINE a == AddRequest(x, p, i)
  <2>1. /\ a.res = "sent" /\ a.cart = NewCart /\ a.prod = p
        /\ a.id \in IdsOf(p) \cup {0}
    BY <1>2, <1>4, AddRequestAsked
  <2> HIDE DEF a
  <2>2. \A v \in Slots : req'[v] \in {req[v], refresh, a, q}
    BY <1>1, <1>4 DEF a
  <2> SUFFICES ASSUME NEW v \in Slots PROVE Kept(v) \/ Sent(v)
    OBVIOUS
  <2>3. req'[v] = req[v] => Kept(v)
    BY DEF Kept
  <2>4. req'[v] \in {refresh, a, q} => Sent(v)
    BY <1>2, <1>3, <1>4, <2>1 DEF Sent
  <2> QED
    BY <2>2, <2>3, <2>4
<1>5. ASSUME NEW p \in Products, HomeAdd(p)
      PROVE  \A t \in Slots : Kept(t) \/ Sent(t)
  <2>1. item'["home"][p] = Added("home", item["home"][p])
    BY <1>1, <1>5 DEF HomeAdd
  <2>2. item'["home"][p] \in Item /\ item'["home"][p].id = item["home"][p].id
    BY <1>2, <2>1, AddedType, AddedKeepsId
  <2>3. PICK s, t \in Slots :
            req' = [req EXCEPT ![s] = refresh,
                               ![t] = AddRequest("home", p, item'["home"][p])]
    BY <1>5 DEF HomeAdd, Free, refresh
  <2> DEFINE q == Ask("put", "nobody", p, item["home"][p].id, 0)
  <2>4. /\ q.res = "sent" /\ q.cart = NewCart /\ q.prod = p
        /\ q.id = item["home"][p].id
    BY AskedFor
  <2> HIDE DEF q
  <2> QED
    BY <1>4, <2>2, <2>3, <2>4
<1>6. ASSUME NEW p \in Products, ListAdd(p)
      PROVE  \A t \in Slots : Kept(t) \/ Sent(t)
  <2>1. item'["list"][p] = Added("list", item["list"][p])
    BY <1>1, <1>6 DEF ListAdd
  <2>2. item'["list"][p] \in Item /\ item'["list"][p].id = item["list"][p].id
    BY <1>2, <2>1, AddedType, AddedKeepsId
  <2> DEFINE q == Ask("put", "nobody", p, item["list"][p].id, item["list"][p].qty)
  <2>3. PICK s, t, u \in Slots :
            req' = [req EXCEPT ![s] = q, ![t] = refresh,
                               ![u] = AddRequest("list", p, item'["list"][p])]
    BY <1>6, Zenon DEF ListAdd, Free, refresh
  <2>4. /\ q.res = "sent" /\ q.cart = NewCart /\ q.prod = p
        /\ q.id = item["list"][p].id
    BY AskedFor
  <2> HIDE DEF q
  <2> QED
    BY <1>4, <2>2, <2>3, <2>4
<1>7. ASSUME NEW p \in Products, NEW x \in {"home", "list"}, StepperRemove(x, p)
      PROVE  \A t \in Slots : Kept(t) \/ Sent(t)
  <2>1. PICK s \in Slots, k \in {"put", "delete"},
             q \in {1, item[x][p].qty - 1} :
                 req' = [req EXCEPT ![s] = Ask(k, x, p, item[x][p].id, q)]
    BY <1>7, Zenon DEF StepperRemove, Free
  <2> DEFINE r == Ask(k, x, p, item[x][p].id, q)
  <2>2. /\ r.res = "sent" /\ r.cart = NewCart /\ r.prod = p
        /\ r.id \in IdsOf(p)
    BY <1>2, AskedFor
  <2> HIDE DEF r
  <2>3. req' = [req EXCEPT ![s] = r]
    BY <2>1 DEF r
  <2> QED
    BY <2>2, <2>3, OneSent
<1>8. ASSUME NEW s \in Slots, NEW r, CartAsk(s, r), r.res = "sent",
             r.cart = NewCart,
             r.prod \in Products => r.id \in IdsOf(r.prod) \cup {0}
      PROVE  \A t \in Slots : Kept(t) \/ Sent(t)
  BY <1>8, OneSent DEF CartAsk
<1>9. ASSUME NEW p \in Products, NEW q \in 1..MaxQty, callAPIAddItemToCart(p, q)
      PROVE  \A t \in Slots : Kept(t) \/ Sent(t)
  <2> DEFINE r == Ask("put", "cart", p, lines[p].id, q)
  <2>1. r.res = "sent" /\ r.cart = NewCart /\ r.prod = p /\ r.id \in IdsOf(p)
    BY AskedFor, IdsIn
  <2>2. PICK s \in Slots : CartAsk(s, r)
    BY <1>9 DEF callAPIAddItemToCart, Free
  <2> HIDE DEF r
  <2> QED
    BY <1>8, <2>1, <2>2
<1>10. ASSUME NEW p \in Products, callApiRemoveCartItem(p)
       PROVE  \A t \in Slots : Kept(t) \/ Sent(t)
  <2> DEFINE r == Ask("delete", "cart", p, lines[p].id, 0)
  <2>1. r.res = "sent" /\ r.cart = NewCart /\ r.prod = p /\ r.id \in IdsOf(p)
    BY AskedFor, IdsIn
  <2>2. PICK s \in Slots : CartAsk(s, r)
    BY <1>10 DEF callApiRemoveCartItem, Free
  <2> HIDE DEF r
  <2> QED
    BY <1>8, <2>1, <2>2
<1>11. CASE callApiEstimateShippingAndTax
  <2>1. PICK s \in Slots : CartAsk(s, GetCartList("keys", "cart"))
    BY <1>11 DEF callApiEstimateShippingAndTax, Free
  <2> QED
    BY <1>8, <2>1, ListAsked
<1>12. ASSUME NEW x \in {"home", "list"}, Heart(x)
       PROVE  \A t \in Slots : Kept(t) \/ Sent(t)
  <2>1. PICK s \in Slots, k \in {"favourite", "wishlist"} :
            req' = [req EXCEPT ![s] = GetCartList(k, x)]
    BY <1>12 DEF Heart, Free
  <2> QED
    BY <2>1, ListAsked, OneSent
<1> QED
  BY <1>5, <1>6, <1>7, <1>9, <1>10, <1>11, <1>12 DEF Tap

LEMMA ReplyRequests ==
    ASSUME Inv, NEW s \in Slots, Reply(s)
    PROVE  \A t \in Slots : Kept(t) \/ Sent(t)
<1>1. req \in [Slots -> Request] /\ req[s] \in Request
  BY DEF Inv, TypeOK
<1> DEFINE r == req[s]
           refresh == GetCartList("cartlist", "nobody")
           own == [GetCartList("cartlist", "cart") EXCEPT !.live = r.live]
           next == CASE r.kind = "relist" ->
                            [GetCartList("keys", "cart") EXCEPT !.live = r.live]
                     [] r.by = "home" -> GetCartList("products", "home")
                     [] OTHER -> NoRequest
           found == [GetCartList("favourite", r.by) EXCEPT !.live = r.live]
           Empty(q) == q.res = "sent" /\ q.cart = NewCart /\ q.id = 0
<1>2. /\ Empty(NoRequest) /\ Empty(refresh) /\ Empty(own)
      /\ Empty(AfterDelete(r)) /\ Empty(next)
      /\ Empty(found)
  BY ListAsked, NothingAsked DEF AfterDelete
<1>3. \A t \in Slots : Empty(req'[t]) => Sent(t)
  BY DEF Sent
<1>4. \A t \in Slots : req'[t] = req[t] => Kept(t)
  BY DEF Kept
<1>5. CASE ProductsReply(s)
  <2>1. ASSUME NEW t \in Slots
        PROVE  req'[t] \in {NoRequest, req[t], Detach(r.by, req[t])}
    BY <1>1, <1>5 DEF ProductsReply
  <2>2. ASSUME NEW t \in Slots PROVE req'[t] = Detach(r.by, req[t]) => Kept(t)
    <3>1. req[t] \in Request
      BY <1>1
    <3> QED
      BY <3>1, DetachKeeps DEF Kept
  <2> HIDE DEF r, Empty
  <2> QED
    BY <1>2, <1>3, <1>4, <2>1, <2>2
<1>6. CASE ~ProductsReply(s)
  <2>1. \/ \E q \in {NoRequest, refresh, AfterDelete(r), next, found} :
               req' = [req EXCEPT ![s] = q]
        \/ \E u \in Slots : req' = [req EXCEPT ![s] = refresh, ![u] = own]
    <3>1. CASE PostReply(s)
      BY <3>1 DEF PostReply
    <3>2. CASE PutReply(s)
      BY <3>2, Zenon DEF PutReply, Free
    <3>3. CASE DeleteReply(s)
      BY <3>3 DEF DeleteReply
    <3>4. CASE CartListReply(s)
      BY <3>4 DEF CartListReply
    <3>5. CASE KeysReply(s) \/ ProfileReply(s) \/ FavouriteReply(s)
      BY <3>5 DEF KeysReply, ProfileReply, FavouriteReply
    <3>6. CASE WishListReply(s)
      BY <3>6 DEF WishListReply
    <3> QED
      BY <1>6, <3>1, <3>2, <3>3, <3>4, <3>5, <3>6 DEF Reply
  <2> HIDE DEF r, refresh, own, next, found, Empty
  <2>2. \A t \in Slots : \/ req'[t] = req[t]
                         \/ req'[t] \in {NoRequest, refresh, AfterDelete(r), next,
                                       found, own}
    BY <1>1, <2>1
  <2> QED
    BY <1>2, <1>3, <1>4, <2>2
<1> QED
  BY <1>5, <1>6

----------------------------------------------------------------------------
(* The badge *)

IsList(r) == r.kind \in {"cartlist", "relist"} /\ r.res = "ok"

LEMMA ListsAre == Lists = {req[s].cart : s \in {t \in Slots : IsList(req[t])}}
BY DEF Lists, IsList

\* No list is taken by a step that only sends.
LEMMA NoMoreLists ==
    ASSUME \A t \in Slots : Kept(t) \/ Sent(t)
    PROVE  Lists' \subseteq Lists
BY DEF Lists, Kept, Sent

LEMMA StoreInit == Init => Store!Init
<1> SUFFICES ASSUME Init PROVE Store!Init
  OBVIOUS
<1>1. server \in Carts /\ cache \in Carts
  BY InitInv DEF Inv, TypeOK
<1>2. Store!Versions = Carts
  BY DEF Store!Versions, Carts, CartLines
<1>3. server.version = 1 /\ cache.version = 0
  BY DEF Init, NewCart
<1>4. Lists = {}
  <2>1. \A s \in Slots : req[s].res = "sent"
    BY ListAsked, NothingAsked DEF Init
  <2> QED
    BY <2>1 DEF Lists
<1> QED
  BY <1>1, <1>2, <1>3, <1>4 DEF Store!Init

\* The server changes one line, or adds the list it is asked for.
LEMMA StoreServe ==
    ASSUME Inv, Inv', NEW s \in Slots, Serve(s) PROVE Store!Next
<1>1. req \in [Slots -> Request] /\ req[s] \in Request /\ server \in Carts
        /\ server' \in Carts
  BY DEF Inv, TypeOK
<1>2. Store!Versions = Carts
  BY DEF Store!Versions, Carts, CartLines
<1>3. cache' = cache /\ \A t \in Slots : t # s => req'[t] = req[t]
  BY <1>1 DEF Serve, ServePost, ServeChange, ServeRead, Answer
<1>4. req'[s].kind = req[s].kind
  BY <1>1 DEF Serve, ServePost, ServeChange, ServeRead, Answer, Request
<1>5. CASE ServePost(s) \/ ServeChange(s)
  <2>1. ~IsList(req[s]) /\ ~IsList(req'[s])
    BY <1>4, <1>5 DEF ServePost, ServeChange, IsList
  <2>2. Lists' = Lists
    BY <1>3, <2>1, ListsAre DEF Lists, IsList
  <2>3. server' = server \/ \E p \in Products : \E l : SetLine(p, l)
    <3>1. CASE ServePost(s)
      <4>1. req[s].prod \in Products
        BY <3>1 DEF Inv, Sound, ServePost, Changes
      <4> QED
        BY <3>1, <4>1 DEF ServePost
    <3>2. CASE ServeChange(s)
      BY <3>2, Zenon DEF ServeChange
    <3> QED
      BY <1>5, <3>1, <3>2
  <2>4. CASE server' = server
    BY <1>3, <2>2, <2>4 DEF Store!Next, Store!Lose
  <2>5. ASSUME NEW p \in Products, NEW l, SetLine(p, l) PROVE Store!Next
    <3>1. /\ server'.version = server.version + 1
          /\ \A q \in Products \ {p} : server'.lines[q] = server.lines[q]
      BY <1>1, <2>5 DEF SetLine, Carts, CartLines
    <3>2. Store!Change
      BY <1>1, <1>2, <1>3, <2>2, <3>1 DEF Store!Change
    <3> QED
      BY <3>2 DEF Store!Next
  <2> QED
    BY <2>3, <2>4, <2>5
<1>6. CASE ServeRead(s)
  <2>1. req'[s].cart = server /\ req'[s].res = "ok" /\ server' = server
    BY <1>1, <1>6 DEF ServeRead, Request
  <2>2. ~IsList(req[s])
    BY DEF Serve, IsList
  <2>3. CASE req[s].kind \in {"cartlist", "relist"}
    <3>1. IsList(req'[s])
      BY <1>4, <2>1, <2>3 DEF IsList
    <3>2. Lists' = Lists \cup {server}
      BY <1>3, <2>1, <2>2, <3>1, ListsAre DEF Lists, IsList
    <3> QED
      BY <1>3, <2>1, <3>2 DEF Store!Next, Store!Take
  <2>4. CASE req[s].kind \notin {"cartlist", "relist"}
    <3>1. ~IsList(req'[s])
      BY <1>4, <2>4 DEF IsList
    <3>2. Lists' \subseteq Lists
      BY <1>3, <3>1 DEF Lists, IsList
    <3> QED
      BY <1>3, <2>1, <3>2 DEF Store!Next, Store!Lose
  <2> QED
    BY <2>3, <2>4
<1> QED
  BY <1>5, <1>6 DEF Serve

LEMMA StoreNext == Inv /\ Inv' /\ [Next]_vars => [Store!Next]_(Store!vars)
<1> SUFFICES ASSUME Inv, Inv', [Next]_vars
             PROVE  Store!Next \/ UNCHANGED Store!vars
  OBVIOUS
<1>1. CASE Navigate \/ Tap
  <2>1. server' = server /\ cache' = cache
    BY <1>1 DEF Navigate, OpenCart, OpenProfile, TabToHome, OpenList, CartToList,
                ListToHome, PullHome, Tap, HomeAdd, ListAdd, StepperRemove,
                callAPIAddItemToCart, callApiRemoveCartItem,
                callApiEstimateShippingAndTax, CartAsk, Heart
  <2>2. Lists' \subseteq Lists
    BY <1>1, NavigateRequests, TapRequests, NoMoreLists
  <2> QED
    BY <2>1, <2>2 DEF Store!Next, Store!Lose
<1>2. ASSUME NEW s \in Slots, Serve(s) PROVE Store!Next
  BY <1>2, StoreServe
<1>3. ASSUME NEW s \in Slots, Fault(s) PROVE Store!Next
  <2>1. server' = server /\ cache' = cache
    BY <1>3 DEF Fault
  <2>2. PICK f \in AllFaults : req' = Answer(s, f)
    BY <1>3, CartAssumption DEF Fault, CartAssumption
  <2>3. req \in [Slots -> Request] /\ req[s] \in Request
    BY DEF Inv, TypeOK
  <2>4. req'[s].res # "ok" /\ \A t \in Slots : t # s => req'[t] = req[t]
    BY <2>2, <2>3 DEF Answer, AllFaults, Request
  <2>5. Lists' \subseteq Lists
    BY <2>4 DEF Lists
  <2> QED
    BY <2>1, <2>5 DEF Store!Next, Store!Lose
<1>4. ASSUME NEW s \in Slots, Reply(s) PROVE Store!Next
  <2>1. Lists' \subseteq Lists
    BY <1>4, ReplyRequests, NoMoreLists
  <2>2. server' = server
    BY <1>4 DEF Reply
  <2>3. cache' = cache \/ cache' \in Lists
    BY <1>4 DEF Reply, PostReply, PutReply, DeleteReply, CartListReply,
                CachedAfter, ProductsReply, KeysReply, ProfileReply,
                FavouriteReply, WishListReply, Lists
  <2> QED
    BY <2>1, <2>2, <2>3 DEF Store!Next, Store!Arrive, Store!Lose
<1>5. CASE UNCHANGED vars
  BY <1>5 DEF vars, Store!vars, Lists
<1> QED
  BY <1>1, <1>2, <1>3, <1>4, <1>5 DEF Next

\* Cart implements what the badge promises (CommonNotifier's cart list): one
\* change of the server's cart at a time, and a copy that is always a whole
\* list the server gave.
THEOREM CartImplementsStore == Spec => ImplementsStore
<1>1. Init => Store!Init
  BY StoreInit
<1>2. Inv /\ Inv' /\ [Next]_vars => [Store!Next]_(Store!vars)
  BY StoreNext
<1> QED
  BY <1>1, <1>2, InvAlways, PTL DEF Spec, ImplementsStore, Store!Spec

\* Hence the badge is never ahead of the server's cart, and counts that cart if
\* it has its version.
THEOREM BadgeConsistent == Spec => []Store!Consistent
BY CartImplementsStore, Store!AlwaysConsistent, PTL DEF ImplementsStore

----------------------------------------------------------------------------
(* The item ids *)

\* OwnLine is not inductive: the id of a new line must be new.
Known == \A p \in Products : \A i \in IdsOf(p) : i \in Nat /\ i < nextId

IdInv == OwnLine /\ Known

LEMMA IdInit == Init => IdInv
<1> SUFFICES ASSUME Init PROVE IdInv
  OBVIOUS
<1>1. \A s \in Slots : req[s].id = 0 /\ req[s].cart = NewCart
  BY ListAsked, NothingAsked DEF Init
<1>2. \A p \in Products :
          /\ NewCart.lines[p].id = 0 /\ EmptyCart[p].id = 0 /\ NoItem.id = 0
  BY DEF NewCart, EmptyCart, NoLine, NoItem
<1>3. nextId = 2
  BY DEF Init
<1>4. PICK k \in Products \cup {NoProduct} :
          \A p \in Products : server.lines[p].id = IF p = k THEN 1 ELSE 0
  <2>1. CASE server.lines = EmptyCart
    BY <1>2, <2>1, CartAssumption DEF CartAssumption
  <2>3. PICK l \in {EmptyCart} \cup {[EmptyCart EXCEPT ![p] =
                       [id |-> 1, qty |-> 1]] : p \in Products} :
            server = [lines |-> l, version |-> 1]
    BY DEF Init
  <2>4. server.lines = l
    BY <2>3
  <2>2. CASE \E k \in Products :
                 server.lines = [EmptyCart EXCEPT ![k] = [id |-> 1, qty |-> 1]]
    BY <1>2, <2>2 DEF EmptyCart
  <2> QED
    BY <2>1, <2>2, <2>4
<1>5. ASSUME NEW p \in Products, NEW i \in IdsOf(p)
      PROVE  i = 0 \/ (i = 1 /\ p = k)
  <2>1. \A x \in {"home", "list"} : item[x][p].id = 0
    BY <1>2 DEF Init
  <2>2. cache.lines[p].id = 0 /\ lines[p].id = 0
    BY <1>2 DEF Init
  <2> QED
    BY <1>1, <1>2, <1>4, <1>5, <2>1, <2>2 DEF IdsOf
<1> QED
  BY <1>3, <1>5 DEF IdInv, OwnLine, Known

\* A step that finds no id anywhere it was not.
LEMMA IdsKept ==
    ASSUME Inv, IdInv, nextId' = nextId,
           \A p \in Products : IdsOf(p)' \subseteq IdsOf(p) \cup {0}
    PROVE  IdInv'
<1>1. nextId \in Nat \ {0}
  BY DEF Inv, TypeOK
<1>2. Known'
  BY <1>1 DEF IdInv, Known
<1>3. OwnLine'
  BY DEF IdInv, OwnLine
<1> QED
  BY <1>2, <1>3 DEF IdInv

\* What a step that sends or answers may do with the other ids.
LEMMA IdsMoved ==
    ASSUME Inv, IdInv, UNCHANGED <<server, nextId>>,
           \A t \in Slots : Kept(t) \/ Sent(t),
           \A p \in Products :
               /\ cache'.lines[p].id \in IdsOf(p) \cup {0}
               /\ lines'[p].id \in IdsOf(p) \cup {0}
               /\ \A x \in {"home", "list"} :
                      item'[x][p].id \in IdsOf(p) \cup {0}
    PROVE  IdInv'
<1>1. ASSUME NEW p \in Products PROVE IdsOf(p)' \subseteq IdsOf(p) \cup {0}
  <2> DEFINE S == IdsOf(p) \cup {0}
  <2>1. NewCart.lines[p].id = 0
    BY DEF NewCart, EmptyCart, NoLine
  <2>2. \A t \in Slots : req'[t].prod = p => req'[t].id \in S
    BY IdsIn DEF Kept, Sent
  <2>3. \A t \in Slots : req'[t].cart.lines[p].id \in S
    BY <2>1, IdsIn DEF Kept, Sent
  <2>4. server'.lines[p].id \in S
    BY IdsIn
  <2>5. /\ cache'.lines[p].id \in S /\ lines'[p].id \in S
        /\ \A x \in {"home", "list"} : item'[x][p].id \in S
    OBVIOUS
  <2> HIDE DEF S
  <2>6. IdsOf(p)' \subseteq S
    BY <2>2, <2>3, <2>4, <2>5, IdsFrom
  <2> QED
    BY <2>6 DEF S
<1> QED
  BY <1>1, IdsKept

LEMMA IdCustomer == ASSUME Inv, IdInv, Navigate \/ Tap PROVE IdInv'
<1>1. UNCHANGED <<server, nextId, cache>>
  BY DEF Navigate, OpenCart, OpenProfile, TabToHome, OpenList, CartToList,
         ListToHome, PullHome, Tap, HomeAdd, ListAdd, StepperRemove,
         callAPIAddItemToCart, callApiRemoveCartItem,
         callApiEstimateShippingAndTax, CartAsk, Heart
<1>2. item \in [{"home", "list"} -> [Products -> Item]]
  BY DEF Inv, TypeOK
<1>3. \A p \in Products : EmptyCart[p].id = 0 /\ NoItem.id = 0
  BY DEF EmptyCart, NoLine, NoItem
<1>4. lines' = lines \/ lines' = EmptyCart
  BY DEF Navigate, OpenCart, OpenProfile, TabToHome, OpenList, CartToList,
         ListToHome, PullHome, Tap, HomeAdd, ListAdd, StepperRemove,
         callAPIAddItemToCart, callApiRemoveCartItem,
         callApiEstimateShippingAndTax, CartAsk, Heart
<1>5. ASSUME NEW p \in Products, NEW x \in {"home", "list"}
      PROVE  item'[x][p].id \in {item[x][p].id, 0}
  <2>1. CASE Navigate
    BY <1>2, <1>3, <2>1 DEF Navigate, OpenCart, OpenProfile, TabToHome, OpenList,
                            CartToList, ListToHome, PullHome
  <2>2. ASSUME NEW q \in Products, NEW y \in {"home", "list"},
               item' = [item EXCEPT ![y][q] = Added(y, item[y][q])]
        PROVE  item'[x][p].id = item[x][p].id
    <3>1. item[y][q] \in Item
      BY <1>2
    <3>2. Added(y, item[y][q]).id = item[y][q].id
      BY <3>1, AddedKeepsId
    <3> QED
      BY <1>2, <2>2, <3>2
  <2>3. ASSUME NEW q \in Products, NEW y \in {"home", "list"},
               item' = [item EXCEPT ![y][q].qty = @ - 1]
        PROVE  item'[x][p].id = item[x][p].id
    BY <1>2, <2>3 DEF Item
  <2>4. CASE Tap
    <3>1. ASSUME NEW q \in Products, HomeAdd(q)
          PROVE  item' = [item EXCEPT !["home"][q] = Added("home", item["home"][q])]
      BY <3>1 DEF HomeAdd
    <3>2. ASSUME NEW q \in Products, ListAdd(q)
          PROVE  item' = [item EXCEPT !["list"][q] = Added("list", item["list"][q])]
      BY <3>2 DEF ListAdd
    <3>3. ASSUME NEW q \in Products, NEW y \in {"home", "list"},
                 StepperRemove(y, q)
          PROVE  item' = item \/ item' = [item EXCEPT ![y][q].qty = @ - 1]
      BY <3>3, Zenon DEF StepperRemove
    <3>4. \/ item' = item
          \/ \E q \in Products, y \in {"home", "list"} :
                \/ item' = [item EXCEPT ![y][q] = Added(y, item[y][q])]
                \/ item' = [item EXCEPT ![y][q].qty = @ - 1]
      BY <2>4, <3>1, <3>2, <3>3, Zenon
         DEF Tap, callAPIAddItemToCart, callApiRemoveCartItem,
             callApiEstimateShippingAndTax, CartAsk, Heart
    <3> QED
      BY <2>2, <2>3, <3>4
  <2> QED
    BY <2>1, <2>4
<1>6. \A t \in Slots : Kept(t) \/ Sent(t)
  BY NavigateRequests, TapRequests
<1> QED
  BY <1>1, <1>3, <1>4, <1>5, <1>6, IdsIn, IdsMoved

\* An answer puts an id on the product it was asked for.
LEMMA IdUpdate ==
    ASSUME Inv, NEW s \in Slots, req[s].kind \in Changes, UpdateItem(req[s]),
           NEW p \in Products, NEW x \in {"home", "list"}
    PROVE  item'[x][p].id \in IdsOf(p)
<1> DEFINE r == req[s]
           new(i) == CASE r.kind = "post" -> onNewFirstTimeAddToCart(r, i)
                       [] r.kind = "put" -> onNewDataChangeCartItemQuantity(r, i)
                       [] r.kind = "delete" -> Removed(r, i)
<1>1. item \in [{"home", "list"} -> [Products -> Item]] /\ r.prod \in Products
  BY DEF Inv, TypeOK, Sound
<1>2. ASSUME NEW i \in Item PROVE new(i).id \in {i.id, r.id}
  <2>1. onNewFirstTimeAddToCart(r, i).id \in {i.id, r.id}
    <3>1. CASE r.res = "ok"
      <4> DEFINE q == IF r.by = "home" /\ i.qty = 1 THEN 1 ELSE i.qty + 1
      <4>1. onNewFirstTimeAddToCart(r, i) = [i EXCEPT !.id = r.id, !.qty = q]
        BY <3>1 DEF onNewFirstTimeAddToCart
      <4> HIDE DEF q
      <4> QED
        BY <4>1 DEF Item
    <3>2. CASE r.res # "ok"
      BY <3>2 DEF onNewFirstTimeAddToCart, Item
    <3> QED
      BY <3>1, <3>2
  <2>2. onNewDataChangeCartItemQuantity(r, i).id = i.id
    BY DEF onNewDataChangeCartItemQuantity, Item
  <2>3. Removed(r, i).id = i.id
    BY DEF Removed, Item
  <2> QED
    BY <2>1, <2>2, <2>3 DEF Changes
<1>3. \/ item' = item
      \/ /\ r.by \in {"home", "list"}
         /\ item' = [item EXCEPT ![r.by][r.prod] = new(@)]
  BY DEF UpdateItem
<1> HIDE DEF new
<1>4. item'[x][p] = item[x][p]
        \/ (p = r.prod /\ item'[x][p] = new(item[x][p]))
  BY <1>1, <1>3
<1>5. item[x][p] \in Item
  BY <1>1
<1> QED
  BY <1>2, <1>4, <1>5, IdsIn

LEMMA IdReply == ASSUME Inv, IdInv, NEW s \in Slots, Reply(s) PROVE IdInv'
<1>1. UNCHANGED <<server, nextId>>
  BY DEF Reply
<1>2. \A t \in Slots : Kept(t) \/ Sent(t)
  BY ReplyRequests
<1>3. \A p \in Products : EmptyCart[p].id = 0 /\ NoItem.id = 0
  BY DEF EmptyCart, NoLine, NoItem
<1>4. ASSUME NEW p \in Products
      PROVE  /\ cache'.lines[p].id \in IdsOf(p) \cup {0}
             /\ lines'[p].id \in IdsOf(p) \cup {0}
  <2>1. cache' = cache \/ cache' = req[s].cart
    BY DEF Reply, PostReply, PutReply, DeleteReply, CartListReply, CachedAfter,
           ProductsReply, KeysReply, ProfileReply, FavouriteReply, WishListReply
  <2>2. lines' \in {lines, req[s].cart.lines, EmptyCart}
    BY DEF Reply, PostReply, PutReply, DeleteReply, CartListReply,
           ProductsReply, KeysReply, ProfileReply, FavouriteReply, WishListReply
  <2> QED
    BY <1>3, <2>1, <2>2, IdsIn
<1>5. ASSUME NEW p \in Products, NEW x \in {"home", "list"}
      PROVE  item'[x][p].id \in IdsOf(p) \cup {0}
  <2>1. CASE PostReply(s) \/ PutReply(s) \/ DeleteReply(s)
    BY <2>1, IdUpdate DEF PostReply, PutReply, DeleteReply, Changes
  <2>2. CASE \/ CartListReply(s) \/ KeysReply(s) \/ ProfileReply(s)
             \/ FavouriteReply(s) \/ WishListReply(s)
    BY <2>2, IdsIn DEF CartListReply, KeysReply, ProfileReply, FavouriteReply,
                       WishListReply
  <2>3. CASE ProductsReply(s)
    <3>1. item \in [{"home", "list"} -> [Products -> Item]]
      BY DEF Inv, TypeOK
    <3>2. matchProductId(cache)[p].id = cache.lines[p].id
      BY DEF matchProductId
    <3>3. item'[x][p] \in {item[x][p], matchProductId(cache)[p], NoItem}
      BY <2>3, <3>1 DEF ProductsReply
    <3> QED
      BY <1>3, <3>2, <3>3, IdsIn
  <2> QED
    BY <2>1, <2>2, <2>3 DEF Reply
<1> QED
  BY <1>1, <1>2, <1>4, <1>5, IdsMoved

\* The server gives a new line an id of its own, and answers with what it has.
LEMMA IdServe == ASSUME Inv, IdInv, NEW s \in Slots, Serve(s) PROVE IdInv'
<1>1. req \in [Slots -> Request] /\ req[s] \in Request /\ server \in Carts
        /\ nextId \in Nat \ {0}
  BY DEF Inv, TypeOK
<1>2. UNCHANGED <<cache, item, lines>>
        /\ \A t \in Slots : t # s => req'[t] = req[t]
  BY <1>1 DEF Serve, ServePost, ServeChange, ServeRead, Answer
<1>3. req'[s].prod = req[s].prod
  BY <1>1 DEF Serve, ServePost, ServeChange, ServeRead, Answer, Request
<1>4. ASSUME NEW p \in Products, NEW S,
             IdsOf(p) \subseteq S, server'.lines[p].id \in S,
             req'[s].prod = p => req'[s].id \in S,
             req'[s].cart.lines[p].id \in S
      PROVE  IdsOf(p)' \subseteq S
  <2>1. /\ cache'.lines[p].id \in S /\ lines'[p].id \in S
        /\ \A x \in {"home", "list"} : item'[x][p].id \in S
    BY <1>2, <1>4, IdsIn
  <2>2. \A t \in Slots : req'[t].prod = p => req'[t].id \in S
    BY <1>2, <1>4, IdsIn
  <2>3. \A t \in Slots : req'[t].cart.lines[p].id \in S
    BY <1>2, <1>4, IdsIn
  <2> QED
    BY <1>4, <2>1, <2>2, <2>3, IdsFrom
<1>5. CASE ServeChange(s) \/ ServeRead(s)
  <2>1. req'[s].id = req[s].id /\ req'[s].cart \in {req[s].cart, server}
    BY <1>1, <1>5 DEF ServeChange, ServeRead, Answer, Request
  <2>2. ASSUME NEW p \in Products
        PROVE  server'.lines[p].id \in {server.lines[p].id, 0}
    <3>1. \/ server' = server
          \/ \E q \in Products :
                /\ req[s].id # 0 /\ server.lines[q].id = req[s].id
                /\ SetLine(q, IF req[s].kind = "put"
                              THEN [id |-> req[s].id, qty |-> req[s].qty]
                              ELSE NoLine)
      BY <1>5, Zenon DEF ServeChange, ServeRead
    <3> QED
      BY <1>1, <3>1 DEF SetLine, NoLine, Carts, CartLines
  <2>3. ASSUME NEW p \in Products PROVE IdsOf(p)' \subseteq IdsOf(p) \cup {0}
    <3> DEFINE S == IdsOf(p) \cup {0}
    <3>1. /\ IdsOf(p) \subseteq S /\ server'.lines[p].id \in S
          /\ req'[s].prod = p => req'[s].id \in S
          /\ req'[s].cart.lines[p].id \in S
      BY <1>3, <2>1, <2>2, IdsIn
    <3> HIDE DEF S
    <3>2. IdsOf(p)' \subseteq S
      BY <1>4, <3>1
    <3> QED
      BY <3>2 DEF S
  <2>4. nextId' = nextId
    BY <1>5 DEF ServeChange, ServeRead
  <2> QED
    BY <2>3, <2>4, IdsKept
<1>6. CASE ServePost(s)
  <2>1. PICK k \in Products : k = req[s].prod
    BY <1>6 DEF ServePost, Inv, Sound, Changes
  <2> DEFINE old == server.lines[k].id
             new == IF old = 0 THEN nextId ELSE old
  <2>2. CASE UNCHANGED <<server, nextId>> /\ req' = Answer(s, "message")
    <3>1. req'[s].id = req[s].id /\ req'[s].cart = req[s].cart
      BY <1>1, <2>2 DEF Answer, Request
    <3>2. ASSUME NEW p \in Products PROVE IdsOf(p)' \subseteq IdsOf(p) \cup {0}
      <4> DEFINE S == IdsOf(p) \cup {0}
      <4>1. /\ IdsOf(p) \subseteq S /\ server'.lines[p].id \in S
            /\ req'[s].prod = p => req'[s].id \in S
            /\ req'[s].cart.lines[p].id \in S
        BY <1>3, <2>2, <3>1, IdsIn
      <4> HIDE DEF S
      <4>2. IdsOf(p)' \subseteq S
        BY <1>4, <4>1
      <4> QED
        BY <4>2 DEF S
    <3> QED
      BY <2>2, <3>2, IdsKept
  <2>3. CASE ~(UNCHANGED <<server, nextId>> /\ req' = Answer(s, "message"))
    <3>1. PICK l : SetLine(k, l) /\ l.id = new
                     /\ nextId' = nextId + (IF old = 0 THEN 1 ELSE 0)
                     /\ req' = [req EXCEPT ![s].res = "ok", ![s].id = new]
      BY <1>6, <2>1, <2>3 DEF ServePost
    <3>2. req'[s].id = new /\ req'[s].cart = req[s].cart
      BY <1>1, <3>1 DEF Request
    <3>3. /\ server'.lines[k].id = new
          /\ \A p \in Products : p # k => server'.lines[p] = server.lines[p]
      BY <1>1, <3>1 DEF SetLine, Carts, CartLines
    <3>4. ASSUME NEW p \in Products, p # k
          PROVE  IdsOf(p)' \subseteq IdsOf(p)
      <4> DEFINE S == IdsOf(p)
      <4>1. /\ IdsOf(p) \subseteq S /\ server'.lines[p].id \in S
            /\ req'[s].prod # p
            /\ req'[s].cart.lines[p].id \in S
        BY <1>3, <2>1, <3>2, <3>3, <3>4, IdsIn
      <4> HIDE DEF S
      <4>2. IdsOf(p)' \subseteq S
        BY <1>4, <4>1
      <4> QED
        BY <4>2 DEF S
    <3>5. IdsOf(k)' \subseteq IdsOf(k) \cup {new}
      <4> DEFINE S == IdsOf(k) \cup {new}
      <4>1. /\ IdsOf(k) \subseteq S /\ server'.lines[k].id \in S
            /\ req'[s].id \in S /\ req'[s].cart.lines[k].id \in S
        BY <3>2, <3>3, IdsIn
      <4> HIDE DEF S
      <4>2. IdsOf(k)' \subseteq S
        BY <1>4, <4>1
      <4> QED
        BY <4>2 DEF S
    <3>6. new \in IdsOf(k) \/ (new = nextId /\ nextId' = nextId + 1)
      BY <3>1, IdsIn
    <3>7. nextId' \in {nextId, nextId + 1}
      BY <1>1, <3>1
    <3> HIDE DEF new, old
    <3>8. ASSUME NEW p \in Products, NEW i \in IdsOf(p)'
          PROVE  i \in IdsOf(p) \/ (p = k /\ i = new)
      BY <3>4, <3>5, <3>8
    <3>9. Known'
      <4>1. ASSUME NEW p \in Products, NEW i \in IdsOf(p)'
            PROVE  i \in Nat /\ i < nextId'
        BY <1>1, <3>6, <3>7, <3>8, <4>1 DEF IdInv, Known
      <4> QED
        BY <4>1 DEF Known
    <3>10. OwnLine'
      <4>1. ASSUME NEW p \in Products, NEW q \in Products, p # q,
                   NEW i \in IdsOf(p)', i \in IdsOf(q)'
            PROVE  i = 0
        <5>1. CASE i \in IdsOf(p) /\ i \in IdsOf(q)
          BY <4>1, <5>1 DEF IdInv, OwnLine
        <5>2. CASE new \in IdsOf(k)
          BY <3>8, <4>1, <5>2 DEF IdInv, OwnLine
        <5>3. CASE new = nextId /\ i = new /\ (i \in IdsOf(p) \/ i \in IdsOf(q))
          BY <1>1, <5>3 DEF IdInv, Known
        <5> QED
          BY <3>6, <3>8, <4>1, <5>1, <5>2, <5>3
      <4> QED
        BY <4>1 DEF OwnLine
    <3> QED
      BY <3>9, <3>10 DEF IdInv
  <2> QED
    BY <2>2, <2>3
<1> QED
  BY <1>5, <1>6 DEF Serve

LEMMA IdFault == ASSUME Inv, IdInv, NEW s \in Slots, Fault(s) PROVE IdInv'
<1>1. PICK f : req' = Answer(s, f)
  BY DEF Fault
<1>2. req \in [Slots -> Request] /\ req[s] \in Request
  BY DEF Inv, TypeOK
<1>3. \A t \in Slots : /\ req'[t].prod = req[t].prod /\ req'[t].id = req[t].id
                       /\ req'[t].cart = req[t].cart
  BY <1>1, <1>2 DEF Answer, Request
<1>4. UNCHANGED <<server, nextId, cache, item, lines>>
  BY DEF Fault
<1>5. ASSUME NEW p \in Products PROVE IdsOf(p)' \subseteq IdsOf(p) \cup {0}
  <2>1. /\ \A t \in Slots : req'[t].prod = p => req'[t].id \in IdsOf(p)
        /\ \A t \in Slots : req'[t].cart.lines[p].id \in IdsOf(p)
        /\ \A x \in {"home", "list"} : item'[x][p].id \in IdsOf(p)
        /\ server'.lines[p].id \in IdsOf(p) /\ cache'.lines[p].id \in IdsOf(p)
        /\ lines'[p].id \in IdsOf(p)
    BY <1>3, <1>4, IdsIn
  <2> DEFINE S == IdsOf(p)
  <2> HIDE DEF S
  <2>2. IdsOf(p)' \subseteq S
    BY <2>1, IdsFrom DEF S
  <2> QED
    BY <2>2 DEF S
<1> QED
  BY <1>4, <1>5, IdsKept

LEMMA IdNext == Inv /\ IdInv /\ [Next]_vars => IdInv'
<1> SUFFICES ASSUME Inv, IdInv, [Next]_vars PROVE IdInv'
  OBVIOUS
<1>1. CASE UNCHANGED vars
  <2>1. UNCHANGED <<server, nextId, cache, item, lines, req>>
    BY <1>1 DEF vars
  <2>2. \A t \in Slots : Kept(t)
    BY <2>1 DEF Kept
  <2> QED
    BY <2>1, <2>2, IdsIn, IdsMoved
<1>2. CASE Next
  BY <1>2, IdCustomer, IdServe, IdFault, IdReply DEF Next
<1> QED
  BY <1>1, <1>2

\* No item id, of now or of before, is held for two products: not by the
\* server, the cache, a screen, a request or an answer.  So a tap on one
\* product never changes the line of another.
THEOREM OwnLines == Spec => []OwnLine
<1>1. IdInv => OwnLine
  BY DEF IdInv
<1> QED
  BY <1>1, IdInit, IdNext, InvAlways, PTL DEF Spec

----------------------------------------------------------------------------
(* What is still to come *)

\* The customer only fills free slots.
LEMMA TapFillsFree ==
    ASSUME Inv, Tap, NEW t \in Slots, req[t].kind # "free"
    PROVE  req'[t] = req[t]
<1>1. req \in [Slots -> Request]
  BY DEF Inv, TypeOK
<1>2. ASSUME NEW p \in Products, HomeAdd(p) PROVE req'[t] = req[t]
  <2> DEFINE a == GetCartList("cartlist", "nobody")
             b == AddRequest("home", p, item'["home"][p])
  <2>1. PICK s, u \in Free : req' = [req EXCEPT ![s] = a, ![u] = b]
    BY <1>2 DEF HomeAdd
  <2> HIDE DEF a, b
  <2> QED
    BY <1>1, <2>1 DEF Free
<1>3. ASSUME NEW p \in Products, ListAdd(p) PROVE req'[t] = req[t]
  <2> DEFINE a == Ask("put", "nobody", p, item["list"][p].id, item["list"][p].qty)
             b == GetCartList("cartlist", "nobody")
             c == AddRequest("list", p, item'["list"][p])
  <2>1. PICK s, u, v \in Free :
            req' = [req EXCEPT ![s] = a, ![u] = b, ![v] = c]
    BY <1>3, Zenon DEF ListAdd
  <2> HIDE DEF a, b, c
  <2> QED
    BY <1>1, <2>1 DEF Free
<1>4. ASSUME NEW s \in Free, NEW r, req' = [req EXCEPT ![s] = r]
      PROVE  req'[t] = req[t]
  BY <1>1, <1>4 DEF Free
<1>5. ASSUME NEW p \in Products, NEW x \in {"home", "list"}, StepperRemove(x, p)
      PROVE  req'[t] = req[t]
  <2>1. \E s \in Free : \E r : req' = [req EXCEPT ![s] = r]
    BY <1>5, Zenon DEF StepperRemove
  <2> QED
    BY <1>4, <2>1
<1>6. ASSUME NEW s \in Free, NEW r, CartAsk(s, r) PROVE req'[t] = req[t]
  BY <1>4, <1>6 DEF CartAsk
<1>7. ASSUME NEW x \in {"home", "list"}, Heart(x) PROVE req'[t] = req[t]
  <2>1. \E s \in Free : \E r : req' = [req EXCEPT ![s] = r]
    BY <1>7 DEF Heart
  <2> QED
    BY <1>4, <2>1
<1> QED
  BY <1>2, <1>3, <1>5, <1>6, <1>7
  DEF Tap, callAPIAddItemToCart, callApiRemoveCartItem, callApiEstimateShippingAndTax

LEMMA KindsAwaited ==
    /\ AwaitedKinds["home"] = Changes \cup {"profile", "favourite", "wishlist"}
    /\ AwaitedKinds["list"] = {"products", "favourite", "wishlist"}
    /\ AwaitedKinds["cart"] = {"put", "delete", "cartlist", "relist", "keys"}
    /\ \A x \in AllScreens : "free" \notin AwaitedKinds[x]
BY DEF AwaitedKinds, Changes, AllScreens

\* Opening a cart screen or a product list detaches the handlers of the one
\* before, and sends what takes down the spinner of the new one.
LEMMA NavigateFillsFree ==
    ASSUME Inv, Navigate
    PROVE  \/ /\ \A t \in Slots : req[t].kind # "free" => req'[t] = req[t]
              /\ hud' = hud /\ left' = left
           \/ \E x \in AllScreens :
                 /\ hud' = [hud EXCEPT ![x] = TRUE]
                 /\ left \ {x} \subseteq left'
                 /\ \A t \in Slots : req[t].kind # "free" =>
                        req'[t] = req[t] \/ req'[t] = Detach(x, req[t])
                 /\ \E s \in Slots : Awaited(s, x)'
<1>1. req \in [Slots -> Request] /\ \A x : Detached(x) \in [Slots -> Sound]
  BY DetachType DEF Inv, TypeOK, Detached
<1>2. \A k, x : LET r == GetCartList(k, x)
                IN  r.kind = k /\ r.by = x /\ r.live = TRUE
  BY DEF GetCartList, Ask
<1>3. ASSUME NEW s \in Free, NEW k, NEW x,
             req' = [req EXCEPT ![s] = GetCartList(k, x)]
      PROVE  /\ \A t \in Slots : req[t].kind # "free" => req'[t] = req[t]
             /\ req'[s] = GetCartList(k, x)
  BY <1>1, <1>3 DEF Free
<1>4. ASSUME NEW s \in Free, NEW k, NEW x,
             req' = [Detached(x) EXCEPT ![s] = GetCartList(k, x)]
      PROVE  /\ \A t \in Slots : req[t].kind # "free" => req'[t] = Detach(x, req[t])
             /\ req'[s] = GetCartList(k, x)
  BY <1>1, <1>4 DEF Free, Detached
<1>5. Free \subseteq Slots
  BY DEF Free
<1>6. CASE OpenCart
  <2>1. PICK s \in Free :
            req' = [Detached("cart") EXCEPT ![s] = GetCartList("cartlist", "cart")]
    BY <1>6 DEF OpenCart
  <2>2. Awaited(s, "cart")'
    <3>1. req'[s] = GetCartList("cartlist", "cart")
      BY <1>4, <2>1
    <3> QED
      BY <1>2, <3>1, KindsAwaited DEF Awaited
  <2> QED
    BY <1>4, <1>5, <1>6, <2>1, <2>2 DEF OpenCart, history, AllScreens
<1>7. CASE OpenList
  <2>1. PICK s \in Free :
            req' = [Detached("list") EXCEPT ![s] = GetCartList("products", "list")]
    BY <1>7 DEF OpenList
  <2>2. Awaited(s, "list")'
    <3>1. req'[s] = GetCartList("products", "list")
      BY <1>4, <2>1
    <3> QED
      BY <1>2, <3>1, KindsAwaited DEF Awaited
  <2>3. /\ hud' = [hud EXCEPT !["list"] = TRUE]
        /\ left \ {"list"} \subseteq left'
    BY <1>7 DEF OpenList
  <2>4. \A t \in Slots : req[t].kind # "free" => req'[t] = Detach("list", req[t])
    BY <1>4, <2>1
  <2> QED
    BY <1>5, <2>2, <2>3, <2>4 DEF AllScreens
<1>8. CASE CartToList
  <2>1. PICK s \in Free : req' = [req EXCEPT ![s] = GetCartList("products", "list")]
    BY <1>8 DEF CartToList
  <2>2. req'[s] = GetCartList("products", "list")
    BY <1>3, <2>1
  <2>3. Awaited(s, "list")'
    BY <1>2, <2>2, KindsAwaited DEF Awaited
  <2> QED
    BY <1>3, <1>5, <1>8, <2>1, <2>3 DEF CartToList, history, AllScreens
<1>9. CASE TabToHome \/ ListToHome \/ PullHome
  <2>1. hud' = hud /\ left' = left
    BY <1>9 DEF TabToHome, ListToHome, PullHome, history
  <2>2. \E s \in Free : \E k : req' = [req EXCEPT ![s] = GetCartList(k, "home")]
    BY <1>9 DEF TabToHome, ListToHome, PullHome
  <2> QED
    BY <1>3, <2>1, <2>2
<1>10. CASE OpenProfile
  <2>1. PICK s \in Free : req' = [req EXCEPT ![s] = GetCartList("profile", "home")]
    BY <1>10 DEF OpenProfile
  <2>2. req'[s] = GetCartList("profile", "home")
    BY <1>3, <2>1
  <2>3. Awaited(s, "home")'
    BY <1>2, <2>2, KindsAwaited DEF Awaited
  <2> QED
    BY <1>3, <1>5, <1>10, <2>1, <2>3 DEF OpenProfile, history, AllScreens
<1> QED
  BY <1>6, <1>7, <1>8, <1>9, <1>10 DEF Navigate

\* A handler leaves the other requests alone, except that new products detach
\* the changes of the old ones.
LEMMA ReplyFillsFree ==
    ASSUME Inv, NEW s \in Slots, Reply(s),
           NEW t \in Slots, t # s, req[t].kind # "free"
    PROVE  \/ req'[t] = req[t]
           \/ /\ ProductsReply(s) /\ req[t].kind \in Changes
              /\ req'[t] = Detach(req[s].by, req[t])
<1>1. req \in [Slots -> Request]
  BY DEF Inv, TypeOK
<1>2. CASE PutReply(s)
  <2> DEFINE a == GetCartList("cartlist", "nobody")
             b == [GetCartList("cartlist", "cart") EXCEPT !.live = req[s].live]
  <2>1. \/ \E q \in {NoRequest, a} : req' = [req EXCEPT ![s] = q]
        \/ \E u \in Free : req' = [req EXCEPT ![s] = a, ![u] = b]
    BY <1>2, Zenon DEF PutReply
  <2> HIDE DEF a, b
  <2> QED
    BY <1>1, <2>1 DEF Free
<1>3. CASE ProductsReply(s)
  BY <1>1, <1>3 DEF ProductsReply, Changes
<1>4. CASE \/ PostReply(s) \/ DeleteReply(s) \/ CartListReply(s) \/ KeysReply(s)
           \/ ProfileReply(s) \/ FavouriteReply(s) \/ WishListReply(s)
  BY <1>1, <1>4 DEF PostReply, DeleteReply, CartListReply, KeysReply,
                    ProfileReply, FavouriteReply, WishListReply
<1> QED
  BY <1>2, <1>3, <1>4 DEF Reply

\* What became of the request that was answered.
LEMMA ReplyLeaves ==
    ASSUME Inv, NEW s \in Slots, Reply(s)
    PROVE  /\ PostReply(s) => req'[s] = IF req[s].res = "failed" THEN NoRequest
                                        ELSE GetCartList("cartlist", "nobody")
           /\ PutReply(s) => req'[s] = IF req[s].res = "failed" THEN NoRequest
                                       ELSE GetCartList("cartlist", "nobody")
           /\ DeleteReply(s) => req'[s] = AfterDelete(req[s])
           /\ CartListReply(s) /\ req[s].kind = "relist" /\ req[s].by = "cart" =>
                  req'[s] = [GetCartList("keys", "cart") EXCEPT !.live = req[s].live]
<1>1. req \in [Slots -> Request]
  BY DEF Inv, TypeOK
<1>2. CASE PutReply(s)
  <2>1. /\ ~PostReply(s) /\ ~DeleteReply(s) /\ ~CartListReply(s)
        /\ req[s].kind = "put"
    BY <1>2 DEF PutReply, PostReply, DeleteReply, CartListReply
  <2>2. CASE req[s].res = "failed"
    <3>1. req' = [req EXCEPT ![s] = NoRequest]
      BY <1>2, <2>2 DEF PutReply
    <3> QED
      BY <1>1, <2>1, <2>2, <3>1
  <2>3. CASE req[s].res # "failed"
    <3>1. \/ req' = [req EXCEPT ![s] = GetCartList("cartlist", "nobody")]
          \/ \E u \in Free : \E r :
                 req' = [req EXCEPT ![s] = GetCartList("cartlist", "nobody"), ![u] = r]
      BY <1>2, <2>3, Zenon DEF PutReply
    <3>2. req'[s] = GetCartList("cartlist", "nobody")
      BY <1>1, <2>1, <3>1 DEF Free
    <3> QED
      BY <2>1, <2>3, <3>2
  <2> QED
    BY <2>2, <2>3
<1>3. CASE ~PutReply(s)
  <2>1. PostReply(s) => req'[s] = IF req[s].res = "failed" THEN NoRequest
                                  ELSE GetCartList("cartlist", "nobody")
    BY <1>1 DEF PostReply
  <2>2. DeleteReply(s) => req'[s] = AfterDelete(req[s])
    BY <1>1 DEF DeleteReply
  <2>3. CartListReply(s) /\ req[s].kind = "relist" /\ req[s].by = "cart" =>
            req'[s] = [GetCartList("keys", "cart") EXCEPT !.live = req[s].live]
    BY <1>1 DEF CartListReply
  <2> QED
    BY <1>3, <2>1, <2>2, <2>3
<1> QED
  BY <1>2, <1>3

\* EveryChangeFetched is not inductive: with requests under way, a list with
\* the version the server has now has arrived or is still to come, and nothing
\* the app has seen is ahead of the server.
ToCome(r) ==
    \/ r.kind \in Changes /\ r.res = "ok"
    \/ r.kind \in {"cartlist", "relist"} /\ r.res = "sent"
    \/ IsList(r) /\ r.cart.version = server.version

NotAhead ==
    /\ seen <= server.version
    /\ \A s \in Slots : IsList(req[s]) => req[s].cart.version <= server.version

FetchInv ==
    /\ NotAhead
    /\ NothingLost => seen = server.version \/ \E s \in Slots : ToCome(req[s])

\* A request that is kept is still to come, as long as the server is the same.
LEMMA StillToCome ==
    ASSUME server' = server, NEW t \in Slots, ToCome(req[t]), Kept(t)
    PROVE  ToCome(req'[t])
BY DEF ToCome, Kept, IsList

\* A step that only sends brings no list.
LEMMA NotAheadSending ==
    ASSUME NotAhead, server' = server, seen' = seen,
           \A t \in Slots : Kept(t) \/ Sent(t)
    PROVE  NotAhead'
BY DEF NotAhead, Kept, Sent, IsList

LEMMA KeptIfDetached ==
    ASSUME Inv, NEW t \in Slots, NEW x,
           req'[t] = req[t] \/ req'[t] = Detach(x, req[t])
    PROVE  Kept(t)
<1>1. req[t] \in Request
  BY DEF Inv, TypeOK
<1> QED
  BY <1>1, DetachKeeps DEF Kept

LEMMA FetchInit == Init => FetchInv
<1> SUFFICES ASSUME Init PROVE FetchInv
  OBVIOUS
<1>1. server.version = 1 /\ seen = 0
  BY DEF Init
<1>2. PICK s \in Slots :
          req = [[t \in Slots |-> NoRequest]
                     EXCEPT ![s] = GetCartList("cartlist", "home")]
  BY DEF Init
<1>3. ToCome(req[s])
  BY <1>2 DEF ToCome, GetCartList, Ask
<1>4. \A t \in Slots : ~IsList(req[t])
  BY <1>2, ListAsked, NothingAsked DEF IsList
<1> QED
  BY <1>1, <1>3, <1>4 DEF FetchInv, NotAhead

LEMMA FetchCustomer == ASSUME Inv, FetchInv, Navigate \/ Tap PROVE FetchInv'
<1>1. server' = server /\ seen' = seen
  BY DEF Navigate, OpenCart, OpenProfile, TabToHome, OpenList, CartToList, ListToHome,
         PullHome, Tap, HomeAdd, ListAdd, StepperRemove, callAPIAddItemToCart,
         callApiRemoveCartItem, callApiEstimateShippingAndTax, CartAsk, Heart,
         history
<1>2. NotAhead'
  BY <1>1, NavigateRequests, TapRequests, NotAheadSending DEF FetchInv
<1>3. ASSUME NEW t \in Slots, ToCome(req[t]) PROVE ToCome(req'[t])
  <2>1. req[t].kind # "free"
    BY <1>3 DEF ToCome, IsList, Changes
  <2>2. Kept(t)
    BY <2>1, TapFillsFree, NavigateFillsFree, KeptIfDetached
  <2> QED
    BY <1>1, <1>3, <2>2, StillToCome
<1>4. \A t \in Slots : ToCome(req'[t]) => ToCome(req[t])'
  BY <1>1 DEF ToCome
<1> QED
  BY <1>1, <1>2, <1>3, <1>4 DEF FetchInv

LEMMA FetchServe ==
    ASSUME Inv, Inv', FetchInv, NEW s \in Slots, Serve(s) PROVE FetchInv'
<1>1. /\ req \in [Slots -> Request] /\ req[s] \in Request /\ req'[s] \in Request
      /\ server \in Carts /\ server' \in Carts /\ seen \in Nat
  BY DEF Inv, TypeOK
<1>2. /\ seen' = seen /\ req'[s].kind = req[s].kind
      /\ \A t \in Slots : t # s => req'[t] = req[t]
  BY <1>1 DEF Serve, ServePost, ServeChange, ServeRead, Answer, Request, history
<1>3. server.version \in Nat /\ server'.version \in Nat
  BY <1>1 DEF Carts
<1>4. CASE ServePost(s) \/ ServeChange(s)
  <2>1. req[s].kind \in Changes /\ ~IsList(req'[s])
    BY <1>2, <1>4 DEF ServePost, ServeChange, IsList, Changes
  <2>2. \/ server' = server /\ ~ToCome(req[s])
        \/ server'.version = server.version + 1 /\ req'[s].res = "ok"
    <3>1. ~ToCome(req[s])
      BY <2>1 DEF Serve, ToCome, IsList, Changes
    <3>2. CASE ServePost(s)
      BY <1>1, <3>1, <3>2 DEF ServePost, SetLine, Request
    <3>3. CASE ServeChange(s)
      <4>1. \/ server' = server
            \/ \E p \in Products : \E l : SetLine(p, l) /\ req' = Answer(s, "ok")
        BY <3>3, Zenon DEF ServeChange
      <4> QED
        BY <1>1, <3>1, <4>1 DEF SetLine, Answer, Request
    <3> QED
      BY <1>4, <3>2, <3>3
  <2>3. NotAhead'
    <3>1. \A t \in Slots : req[t].cart.version \in Nat
      BY <1>1 DEF Request, Carts
    <3>2. server.version <= server'.version
      BY <1>3, <2>2
    <3>3. seen' <= server'.version
      BY <1>1, <1>2, <1>3, <3>2 DEF FetchInv, NotAhead
    <3>4. ASSUME NEW t \in Slots, IsList(req'[t])
          PROVE  req'[t].cart.version <= server'.version
      <4>1. t # s /\ req'[t] = req[t]
        BY <1>2, <2>1, <3>4
      <4>2. req[t].cart.version <= server.version
        BY <3>4, <4>1 DEF FetchInv, NotAhead
      <4> QED
        BY <1>3, <3>1, <3>2, <4>1, <4>2
    <3> QED
      BY <3>3, <3>4 DEF NotAhead, IsList
  <2>4. CASE server' = server /\ ~ToCome(req[s])
    BY <1>2, <2>3, <2>4 DEF FetchInv, ToCome, IsList
  <2>5. CASE server'.version = server.version + 1 /\ req'[s].res = "ok"
    <3>1. ToCome(req[s])'
      BY <1>2, <2>1, <2>5 DEF ToCome
    <3> QED
      BY <2>3, <3>1 DEF FetchInv
  <2> QED
    BY <2>2, <2>4, <2>5
<1>5. CASE ServeRead(s)
  <2>1. server' = server /\ req'[s].res = "ok" /\ req'[s].cart = server
    BY <1>1, <1>5 DEF ServeRead, Request
  <2>2. NotAhead'
    BY <1>2, <1>3, <2>1 DEF FetchInv, NotAhead, IsList
  <2>3. ToCome(req[s]) => ToCome(req[s])'
    BY <1>2, <2>1 DEF ToCome, IsList, Serve
  <2>4. \A t \in Slots : ToCome(req[t]) => ToCome(req[t])'
    BY <1>2, <2>1, <2>3 DEF ToCome, IsList
  <2> QED
    BY <1>2, <2>1, <2>2, <2>4 DEF FetchInv
<1> QED
  BY <1>4, <1>5 DEF Serve

LEMMA FetchFault ==
    ASSUME Inv, FetchInv, NEW s \in Slots, Fault(s) PROVE FetchInv'
<1>1. req \in [Slots -> Request] /\ req[s] \in Request
  BY DEF Inv, TypeOK
<1>2. PICK f \in Faults : /\ f = "message" => req[s].kind \in {"post", "put"}
                          /\ f # "failed" => req[s].res = "sent"
                          /\ req' = Answer(s, f)
  BY DEF Fault
<1>3. /\ server' = server /\ seen' = seen
      /\ req'[s].kind = req[s].kind /\ req'[s].res = f
      /\ \A t \in Slots : t # s => req'[t] = req[t]
  BY <1>1, <1>2 DEF Fault, Answer, Request, history
<1>4. f # "ok"
  BY CartAssumption DEF CartAssumption, AllFaults
<1>5. NotAhead'
  BY <1>3, <1>4 DEF FetchInv, NotAhead, IsList
<1>6. NothingLost => ~ToCome(req[s])
  BY <1>2 DEF NothingLost, ToCome, IsList, Changes
<1> QED
  BY <1>3, <1>5, <1>6 DEF FetchInv, ToCome, IsList, NothingLost

\* The answer to a change has a list asked for, the answer to a list is seen.
LEMMA FetchReply ==
    ASSUME Inv, FetchInv, NEW s \in Slots, Reply(s) PROVE FetchInv'
<1>1. /\ req \in [Slots -> Request] /\ req[s] \in Request
      /\ server \in Carts /\ seen \in Nat
  BY DEF Inv, TypeOK
<1>2. server' = server /\ server.version \in Nat
  BY <1>1 DEF Reply, Carts
<1>3. \A t \in Slots : Kept(t) \/ Sent(t)
  BY ReplyRequests
<1>4. ASSUME NEW t \in Slots, t # s, ToCome(req[t]) PROVE ToCome(req[t])'
  <2>1. req[t].kind # "free"
    BY <1>4 DEF ToCome, IsList, Changes
  <2>2. Kept(t)
    BY <1>4, <2>1, ReplyFillsFree, KeptIfDetached
  <2>3. ToCome(req'[t])
    BY <1>2, <1>4, <2>2, StillToCome
  <2> QED
    BY <1>2, <2>3 DEF ToCome
<1>5. CASE CartListReply(s)
  <2>1. CASE IsList(req[s])
    <3>1. req[s].cart.version \in Nat /\ req[s].cart.version <= server.version
      BY <1>1, <2>1 DEF FetchInv, NotAhead, Request, Carts
    <3>2. seen' = IF req[s].cart.version > seen THEN req[s].cart.version ELSE seen
      BY <1>5, <2>1 DEF CartListReply, IsList
    <3>3. NotAhead'
      BY <1>2, <1>3, <3>1, <3>2 DEF FetchInv, NotAhead, Kept, Sent, IsList
    <3>4. seen = server.version \/ ToCome(req[s]) => seen' = server.version
      BY <1>1, <1>2, <2>1, <3>1, <3>2
      DEF FetchInv, NotAhead, ToCome, IsList, Changes
    <3> QED
      BY <1>2, <1>4, <3>3, <3>4 DEF FetchInv
  <2>2. CASE ~IsList(req[s])
    <3>1. seen' = seen /\ ~ToCome(req[s])
      BY <1>5, <2>2 DEF CartListReply, IsList, ToCome, Reply, Changes
    <3> QED
      BY <1>2, <1>3, <1>4, <3>1, NotAheadSending DEF FetchInv
  <2> QED
    BY <2>1, <2>2
<1>6. CASE PostReply(s) \/ PutReply(s) \/ DeleteReply(s)
  <2>1. seen' = seen
    BY <1>6 DEF PostReply, PutReply, DeleteReply
  <2>2. ASSUME ToCome(req[s]) PROVE ToCome(req[s])'
    <3>1. req[s].res = "ok"
      BY <1>6, <2>2 DEF ToCome, IsList, PostReply, PutReply, DeleteReply
    <3>2. \/ req'[s] = GetCartList("cartlist", "nobody")
          \/ req'[s] = [GetCartList("relist", "cart") EXCEPT !.live = req[s].live]
      BY <1>6, <3>1, ReplyLeaves DEF AfterDelete
    <3> QED
      BY <3>2 DEF ToCome, GetCartList, Ask
  <2> QED
    BY <1>2, <1>3, <1>4, <2>1, <2>2, NotAheadSending DEF FetchInv
<1>7. CASE \/ ProductsReply(s) \/ KeysReply(s) \/ ProfileReply(s)
           \/ FavouriteReply(s) \/ WishListReply(s)
  <2>1. seen' = seen /\ ~ToCome(req[s])
    BY <1>7 DEF ProductsReply, KeysReply, ProfileReply, FavouriteReply,
                WishListReply, ToCome, IsList, Changes
  <2> QED
    BY <1>2, <1>3, <1>4, <2>1, NotAheadSending DEF FetchInv
<1> QED
  BY <1>5, <1>6, <1>7 DEF Reply

LEMMA FetchNext == Inv /\ Inv' /\ FetchInv /\ [Next]_vars => FetchInv'
<1> SUFFICES ASSUME Inv, Inv', FetchInv, [Next]_vars PROVE FetchInv'
  OBVIOUS
<1>1. CASE UNCHANGED vars
  BY <1>1 DEF vars, history, FetchInv, NotAhead, ToCome, IsList
<1> QED
  BY <1>1, FetchCustomer, FetchServe, FetchFault, FetchReply DEF Next

\* However the lists overtake each other, the badge falls behind for one reason
\* only: with nothing lost and nothing under way, it has had the newest list.
THEOREM ChangesFetched == Spec => []EveryChangeFetched
<1>1. FetchInv => EveryChangeFetched
  BY DEF FetchInv, EveryChangeFetched, Quiet, ToCome, IsList, Changes
<1> QED
  BY <1>1, FetchInit, FetchNext, InvAlways, PTL DEF Spec

----------------------------------------------------------------------------
(* The spinners *)

\* What Home and the product list ask for, and the cart screen does not.
Askable(r) == r.kind \in {"products", "wishlist"} => r.by # "cart"

\* SpinnerHasOwner is not inductive: products and the wish list are asked for by
\* Home and by the product list only, and with nothing lost no handler ends by
\* an exception.
SpinInv ==
    /\ \A s \in Slots : Askable(req[s])
    /\ NothingLost => \A s \in Slots :
           /\ req[s].res # "failed"
           /\ req[s].kind \notin Changes => req[s].res \in {"sent", "ok"}
    /\ SpinnerHasOwner

\* What is sent and not answered yet is no reason to leave a spinner up.
LEMMA SpinParts ==
    ASSUME SpinInv, \A t \in Slots : Kept(t) \/ Sent(t),
           \A t \in Slots : Askable(req'[t]),
           NothingLost => \A x \in AllScreens \ left' :
               hud'[x] => \E t \in Slots : Awaited(t, x)'
    PROVE  SpinInv'
<1>1. (\A s \in Slots : Askable(req[s]))'
  BY DEF Askable
<1>2. ASSUME NothingLost, NEW s \in Slots
      PROVE  /\ req'[s].res # "failed"
             /\ req'[s].kind \notin Changes => req'[s].res \in {"sent", "ok"}
  BY <1>2 DEF SpinInv, Kept, Sent
<1>3. SpinnerHasOwner'
  BY DEF SpinnerHasOwner, NothingLost
<1> QED
  BY <1>1, <1>2, <1>3 DEF SpinInv, NothingLost

LEMMA SpinInit == Init => SpinInv
<1> SUFFICES ASSUME Init PROVE SpinInv
  OBVIOUS
<1>1. \A s \in Slots : req[s].res = "sent" /\ req[s].kind \in {"cartlist", "free"}
  BY DEF Init, NoRequest, GetCartList, Ask
<1>2. \A x \in AllScreens : hud[x] => x \in left
  BY DEF Init
<1> QED
  BY <1>1, <1>2 DEF SpinInv, Askable, SpinnerHasOwner

\* A request of which the kind, the screen and the handler stay is awaited as
\* before; detached from another screen, or for Home, it is too.
LEMMA StillAwaited ==
    ASSUME Inv, NEW x \in AllScreens, NEW t \in Slots, Awaited(t, x), NEW y,
           \/ req'[t] = req[t]
           \/ req'[t] = Detach(y, req[t]) /\ (y # x \/ x = "home")
    PROVE  Awaited(t, x)'
<1>1. req[t] \in Sound /\ req[t].by = x
  BY DEF Inv, Awaited
<1>2. CASE req'[t] = req[t]
  BY <1>2 DEF Awaited
<1>3. CASE req'[t] = Detach(y, req[t]) /\ (y # x \/ x = "home")
  <2>1. /\ req'[t].kind = req[t].kind /\ req'[t].by = req[t].by
        /\ y # x => req'[t] = req[t]
    BY <1>1, <1>3, DetachType DEF Detach
  <2> QED
    BY <1>3, <2>1 DEF Awaited
<1> QED
  BY <1>2, <1>3

LEMMA AwaitedIsSent ==
    ASSUME NEW x \in AllScreens, NEW t, Awaited(t, x) PROVE req[t].kind # "free"
BY KindsAwaited DEF Awaited

LEMMA NavigateSpin == ASSUME Inv, SpinInv, Navigate PROVE SpinInv'
<1>1. \A t \in Slots : Kept(t) \/ Sent(t)
  BY NavigateRequests
<1>2. \A t \in Slots : Askable(req'[t])
  <2>1. PICK x \in AllScreens, k \in {"cartlist", "products", "profile"},
              s \in Slots :
           /\ k = "products" => x # "cart"
           /\ \/ req' = [req EXCEPT ![s] = GetCartList(k, x)]
              \/ req' = [Detached(x) EXCEPT ![s] = GetCartList(k, x)]
    BY DEF Navigate, OpenCart, OpenProfile, TabToHome, OpenList, CartToList, ListToHome,
           PullHome, Free, AllScreens
  <2>2. Askable(GetCartList(k, x))
    BY <2>1, AskKind DEF Askable
  <2>3. ASSUME NEW t \in Slots
        PROVE  Askable(req[t]) /\ Askable(Detach(x, req[t]))
    <3>1. req[t] \in Sound
      BY DEF Inv
    <3> QED
      BY <3>1, DetachType DEF SpinInv, Askable
  <2>4. \A t \in Slots : req'[t] \in {req[t], Detach(x, req[t]), GetCartList(k, x)}
    BY <2>1 DEF Detached, Inv
  <2> QED
    BY <2>2, <2>3, <2>4
<1>3. ASSUME NothingLost, NEW x \in AllScreens \ left', hud'[x]
      PROVE  \E t \in Slots : Awaited(t, x)'
  <2>1. ASSUME NEW y \in AllScreens, x # y, left \ {y} \subseteq left',
               hud' = [hud EXCEPT ![y] = TRUE],
               \A t \in Slots : req[t].kind # "free" =>
                   req'[t] = Detach(y, req[t]) \/ req'[t] = req[t]
        PROVE  \E t \in Slots : Awaited(t, x)'
    <3>1. hud[x]
      BY <1>3, <2>1 DEF Inv, TypeOK
    <3>2. PICK t \in Slots : Awaited(t, x)
      BY <1>3, <2>1, <3>1 DEF SpinInv, SpinnerHasOwner
    <3> QED
      BY <2>1, <3>2, StillAwaited, AwaitedIsSent
  <2>2. CASE /\ \A t \in Slots : req[t].kind # "free" => req'[t] = req[t]
             /\ hud' = hud /\ left' = left
    <3>1. PICK t \in Slots : Awaited(t, x)
      BY <1>3, <2>2 DEF SpinInv, SpinnerHasOwner
    <3> QED
      BY <2>2, <3>1, StillAwaited, AwaitedIsSent
  <2> QED
    BY <2>1, <2>2, NavigateFillsFree
<1> QED
  BY <1>1, <1>2, <1>3, SpinParts

\* A tap that raises a spinner sends what takes it down.
LEMMA TapRaises ==
    ASSUME Inv, Tap
    PROVE  /\ left' = left
           /\ \/ hud' = hud
              \/ \E x \in AllScreens :
                    /\ hud' = [hud EXCEPT ![x] = TRUE]
                    /\ \E s \in Slots : Awaited(s, x)'
           /\ \A t \in Slots : req'[t] = req[t] \/ Askable(req'[t])
<1>1. req \in [Slots -> Request]
  BY DEF Inv, TypeOK
<1>2. \A k, x, p, id, q : LET r == Ask(k, x, p, id, q)
                          IN  r.kind = k /\ r.by = x /\ r.live = TRUE
  BY DEF Ask
<1>3. \A x, p, i : LET r == AddRequest(x, p, i)
                   IN  r.kind \in {"put", "post"} /\ r.by = x /\ r.live = TRUE
  BY <1>2 DEF AddRequest
<1>4. GetCartList("cartlist", "nobody").kind = "cartlist"
  BY <1>2 DEF GetCartList
<1>5. ASSUME NEW p \in Products, HomeAdd(p)
      PROVE  /\ hud' = [hud EXCEPT !["home"] = TRUE]
             /\ \E s \in Slots : Awaited(s, "home")'
             /\ \A t \in Slots : req'[t] = req[t] \/ Askable(req'[t])
  <2> DEFINE a == GetCartList("cartlist", "nobody")
             b == AddRequest("home", p, item'["home"][p])
  <2>1. PICK s, u \in Slots : s # u /\ req' = [req EXCEPT ![s] = a, ![u] = b]
    BY <1>5 DEF HomeAdd, Free
  <2>2. a.kind = "cartlist" /\ b.kind \in {"put", "post"} /\ b.by = "home"
    BY <1>3, <1>4
  <2> HIDE DEF a, b
  <2>3. req'[u] = b /\ \A t \in Slots : req'[t] \in {a, b, req[t]}
    BY <1>1, <2>1
  <2>4. Awaited(u, "home")'
    BY <2>2, <2>3, KindsAwaited DEF Awaited, Changes
  <2> QED
    BY <1>5, <2>2, <2>3, <2>4 DEF HomeAdd, Askable
<1>6. ASSUME NEW p \in Products, ListAdd(p)
      PROVE  /\ hud' = hud
             /\ \A t \in Slots : req'[t] = req[t] \/ Askable(req'[t])
  <2> DEFINE a == Ask("put", "nobody", p, item["list"][p].id, item["list"][p].qty)
             b == GetCartList("cartlist", "nobody")
             c == AddRequest("list", p, item'["list"][p])
  <2>1. PICK s, u, v \in Slots : req' = [req EXCEPT ![s] = a, ![u] = b, ![v] = c]
    BY <1>6, Zenon DEF ListAdd, Free
  <2>2. a.kind = "put" /\ b.kind = "cartlist" /\ c.kind \in {"put", "post"}
    BY <1>2, <1>3, <1>4
  <2> HIDE DEF a, b, c
  <2>3. \A t \in Slots : req'[t] \in {a, b, c, req[t]}
    BY <1>1, <2>1
  <2> QED
    BY <1>6, <2>2, <2>3 DEF ListAdd, Askable
<1>7. ASSUME NEW x \in {"home", "list"}, NEW p \in Products, StepperRemove(x, p)
      PROVE  /\ \/ hud' = hud
                \/ /\ x = "home" /\ hud' = [hud EXCEPT ![x] = TRUE]
                   /\ \E s \in Slots : Awaited(s, x)'
             /\ \A t \in Slots : req'[t] = req[t] \/ Askable(req'[t])
  <2>1. PICK s \in Slots, k \in {"put", "delete"}, q \in {1, item[x][p].qty - 1} :
                 req' = [req EXCEPT ![s] = Ask(k, x, p, item[x][p].id, q)]
    BY <1>7, Zenon DEF StepperRemove, Free
  <2> DEFINE r == Ask(k, x, p, item[x][p].id, q)
  <2>2. r.kind = k /\ r.by = x
    BY <1>2
  <2> HIDE DEF r
  <2>3. req'[s] = r /\ \A t \in Slots : t # s => req'[t] = req[t]
    BY <1>1, <2>1 DEF r
  <2>4. x = "home" => Awaited(s, x)'
    BY <2>2, <2>3, KindsAwaited DEF Awaited, Changes
  <2>5. hud' = IF x = "home" THEN [hud EXCEPT ![x] = TRUE] ELSE hud
    BY <1>7 DEF StepperRemove
  <2> QED
    BY <2>2, <2>3, <2>4, <2>5 DEF Askable
<1>8. ASSUME NEW s \in Slots, NEW r, CartAsk(s, r), r.by = "cart", r.live = TRUE,
             r.kind \in {"put", "delete", "keys"}
      PROVE  /\ hud' = [hud EXCEPT !["cart"] = TRUE]
             /\ \E t \in Slots : Awaited(t, "cart")'
             /\ \A t \in Slots : req'[t] = req[t] \/ Askable(req'[t])
  <2>1. req'[s] = r /\ \A t \in Slots : t # s => req'[t] = req[t]
    BY <1>1, <1>8 DEF CartAsk
  <2>2. Awaited(s, "cart")'
    BY <1>8, <2>1, KindsAwaited DEF Awaited
  <2> QED
    BY <1>8, <2>1, <2>2 DEF CartAsk, Askable
<1>9. left' = left
  BY DEF Tap, HomeAdd, ListAdd, StepperRemove, callAPIAddItemToCart,
         callApiRemoveCartItem, callApiEstimateShippingAndTax, CartAsk, Heart,
         history
<1>10. CASE \E p \in Products : \/ HomeAdd(p) \/ ListAdd(p)
                               \/ \E x \in {"home", "list"} : StepperRemove(x, p)
  <2>1. PICK p \in Products : \/ HomeAdd(p) \/ ListAdd(p)
                              \/ \E x \in {"home", "list"} : StepperRemove(x, p)
    BY <1>10
  <2> QED
    BY <1>5, <1>6, <1>7, <1>9, <2>1 DEF AllScreens
<1>11. CASE \E s \in Slots : \E r : /\ CartAsk(s, r) /\ r.by = "cart" /\ r.live = TRUE
                                    /\ r.kind \in {"put", "delete", "keys"}
  BY <1>8, <1>11, <1>9 DEF AllScreens
<1>12. ASSUME NEW p \in Products, NEW q \in 1..MaxQty, callAPIAddItemToCart(p, q)
       PROVE  \E s \in Slots : \E r : /\ CartAsk(s, r) /\ r.by = "cart" /\ r.live = TRUE
                                      /\ r.kind \in {"put", "delete", "keys"}
  BY <1>2, <1>12 DEF callAPIAddItemToCart, Free
<1>13. ASSUME NEW p \in Products, callApiRemoveCartItem(p)
       PROVE  \E s \in Slots : \E r : /\ CartAsk(s, r) /\ r.by = "cart" /\ r.live = TRUE
                                      /\ r.kind \in {"put", "delete", "keys"}
  BY <1>2, <1>13 DEF callApiRemoveCartItem, Free
<1>14. ASSUME callApiEstimateShippingAndTax
       PROVE  \E s \in Slots : \E r : /\ CartAsk(s, r) /\ r.by = "cart" /\ r.live = TRUE
                                      /\ r.kind \in {"put", "delete", "keys"}
  BY <1>2, <1>14 DEF callApiEstimateShippingAndTax, Free, GetCartList
<1>15. ASSUME NEW x \in {"home", "list"}, Heart(x)
       PROVE  /\ hud' = [hud EXCEPT ![x] = TRUE]
              /\ \E t \in Slots : Awaited(t, x)'
              /\ \A t \in Slots : req'[t] = req[t] \/ Askable(req'[t])
  <2>1. PICK s \in Slots, k \in {"favourite", "wishlist"} :
            req' = [req EXCEPT ![s] = GetCartList(k, x)]
    BY <1>15 DEF Heart, Free
  <2> DEFINE r == GetCartList(k, x)
  <2>2. r.kind = k /\ r.by = x /\ r.live = TRUE
    BY <1>2 DEF GetCartList
  <2> HIDE DEF r
  <2>3. req'[s] = r /\ \A t \in Slots : t # s => req'[t] = req[t]
    BY <1>1, <2>1 DEF r
  <2>4. Awaited(s, x)'
    BY <2>2, <2>3, KindsAwaited DEF Awaited
  <2> QED
    BY <1>15, <2>2, <2>3, <2>4 DEF Heart, Askable
<1> QED
  BY <1>10, <1>11, <1>12, <1>13, <1>14, <1>15, <1>9 DEF Tap, AllScreens

LEMMA TapSpin == ASSUME Inv, SpinInv, Tap PROVE SpinInv'
<1>1. \A t \in Slots : Kept(t) \/ Sent(t)
  BY TapRequests
<1>2. \A t \in Slots : Askable(req'[t])
  BY TapRaises DEF SpinInv
<1>3. ASSUME NothingLost, NEW x \in AllScreens \ left', hud'[x]
      PROVE  \E t \in Slots : Awaited(t, x)'
  <2>1. CASE hud[x]
    <3>1. PICK t \in Slots : Awaited(t, x)
      BY <1>3, <2>1, TapRaises DEF SpinInv, SpinnerHasOwner
    <3> QED
      BY <3>1, StillAwaited, AwaitedIsSent, TapFillsFree
  <2>2. CASE ~hud[x]
    <3>1. PICK y \in AllScreens : /\ hud' = [hud EXCEPT ![y] = TRUE]
                                        /\ \E s \in Slots : Awaited(s, y)'
      BY <1>3, <2>2, TapRaises
    <3>2. x = y
      BY <1>3, <2>2, <3>1 DEF Inv, TypeOK
    <3> QED
      BY <3>1, <3>2
  <2> QED
    BY <2>1, <2>2
<1> QED
  BY <1>1, <1>2, <1>3, SpinParts

LEMMA ServeSpin ==
    ASSUME Inv, SpinInv, NEW s \in Slots, Serve(s) \/ Fault(s) PROVE SpinInv'
<1>1. hud' = hud /\ left' = left
  BY DEF Serve, Fault, history
<1>2. req[s] \in Sound /\ req \in [Slots -> Sound]
  BY DEF Inv
<1>3. \A t \in Slots : /\ req'[t].kind = req[t].kind /\ req'[t].by = req[t].by
                       /\ req'[t].live = req[t].live
                       /\ t # s => req'[t] = req[t]
  BY <1>2 DEF Serve, Fault, ServePost, ServeChange, ServeRead, Answer, Sound, Request
<1>4. NothingLost => /\ req'[s].res # "failed"
                     /\ req'[s].kind \notin Changes => req'[s].res \in {"sent", "ok"}
  <2>1. CASE Serve(s)
    <3>1. CASE ServePost(s) \/ ServeChange(s)
      <4>1. req'[s].res \in {"ok", "message", "null"}
        BY <1>2, <3>1 DEF ServePost, ServeChange, Answer, Sound, Request
      <4> QED
        BY <1>3, <3>1, <4>1 DEF ServePost, ServeChange, Changes
    <3>2. CASE ServeRead(s)
      BY <1>2, <3>2 DEF ServeRead, Sound, Request
    <3> QED
      BY <2>1, <3>1, <3>2 DEF Serve
  <2>2. CASE Fault(s)
    <3>1. PICK f \in Faults : /\ f = "message" => req[s].kind \in {"post", "put"}
                              /\ req' = Answer(s, f)
      BY <2>2 DEF Fault
    <3>2. req'[s].res = f
      BY <1>2, <3>1 DEF Answer, Sound, Request
    <3> QED
      BY <1>3, <3>1, <3>2 DEF NothingLost, Changes
  <2> QED
    BY <2>1, <2>2
<1>5. \A x, t : t \in Slots => (Awaited(t, x) <=> Awaited(t, x)')
  BY <1>3 DEF Awaited
<1>6. SpinnerHasOwner'
  BY <1>1, <1>5 DEF SpinInv, SpinnerHasOwner, NothingLost
<1> QED
  BY <1>3, <1>4, <1>6 DEF SpinInv, Askable, NothingLost

\* The answer takes down the spinners its request was awaited for, or goes on to
\* the next request of a removal.
LEMMA ReplyLowers ==
    ASSUME Inv, SpinInv, NothingLost, NEW s \in Slots, Reply(s),
           NEW x \in AllScreens, hud'[x], x \notin LeftUp(s)
    PROVE  Awaited(s, x)' \/ (hud[x] /\ ~Awaited(s, x))
<1>1. req[s] \in Request /\ hud \in [AllScreens -> BOOLEAN]
  BY DEF Inv, TypeOK
<1>2. req[s].res # "failed" /\ (req[s].kind \notin Changes => req[s].res = "ok")
  BY DEF SpinInv, Reply
<1>3. CASE PostReply(s)
  <2>1. hud' = Lowered(req[s]) /\ req[s].kind = "post"
    BY <1>3 DEF PostReply
  <2>2. Awaited(s, x) => x = "home" /\ req[s].by = "home"
    BY <2>1, KindsAwaited DEF Awaited, AllScreens
  <2> QED
    BY <1>1, <1>2, <2>1, <2>2 DEF Lowered
<1>4. CASE PutReply(s)
  <2>1. hud' = Lowered(req[s]) /\ req[s].kind = "put"
    BY <1>4 DEF PutReply
  <2>2. Awaited(s, x) => /\ x \in {"home", "cart"} /\ req[s].by = x
                         /\ x = "cart" => req[s].live
    BY <2>1, KindsAwaited DEF Awaited, AllScreens
  <2> QED
    BY <1>1, <1>2, <2>1, <2>2 DEF Lowered
<1>5. CASE DeleteReply(s)
  <2>1. req[s].kind = "delete" /\ req'[s] = AfterDelete(req[s])
    BY <1>5, ReplyLeaves DEF DeleteReply
  <2>2. Awaited(s, x) => /\ x \in {"home", "cart"} /\ req[s].by = x
                         /\ x = "cart" => req[s].live
    BY <2>1, KindsAwaited DEF Awaited, AllScreens
  <2>3. CASE req[s].by = "cart" /\ req[s].res = "ok" /\ req[s].live
    <3>1. Awaited(s, "cart")'
      BY <2>1, <2>3, KindsAwaited DEF AfterDelete, Awaited, GetCartList, Ask
    <3>2. x # "cart" => hud[x]
      BY <1>1, <1>5, <2>3 DEF DeleteReply
    <3> QED
      BY <2>2, <2>3, <3>1, <3>2
  <2>4. CASE ~(req[s].by = "cart" /\ req[s].res = "ok" /\ req[s].live)
    <3>1. hud' = Lowered(req[s])
      BY <1>5, <2>4 DEF DeleteReply
    <3> QED
      BY <1>1, <2>1, <2>2, <3>1 DEF Lowered
  <2> QED
    BY <2>3, <2>4
<1>6. CASE CartListReply(s)
  <2>1. Awaited(s, x) => x = "cart" /\ req[s].by = "cart" /\ req[s].live
    BY <1>6, KindsAwaited DEF Awaited, AllScreens, CartListReply, Changes
  <2>2. CASE req[s].by = "cart" /\ req[s].live
    <3>1. hud' = [hud EXCEPT !["cart"] = req[s].kind = "relist"]
      BY <1>6, <2>2 DEF CartListReply
    <3>2. x = "cart" => Awaited(s, "cart")'
      <4>1. ASSUME x = "cart" PROVE req[s].kind = "relist"
        BY <1>1, <3>1, <4>1
      <4>2. ASSUME x = "cart"
            PROVE  req'[s] = [GetCartList("keys", "cart") EXCEPT !.live = req[s].live]
        BY <1>6, <2>2, <4>1, <4>2, ReplyLeaves
      <4> QED
        BY <2>2, <4>2, KindsAwaited DEF Awaited, GetCartList, Ask
    <3> QED
      BY <1>1, <2>1, <3>1, <3>2
  <2>3. CASE ~(req[s].by = "cart" /\ req[s].live)
    BY <1>6, <2>1, <2>3 DEF CartListReply
  <2> QED
    BY <2>2, <2>3
<1>7. CASE ProductsReply(s)
  <2>1. req[s].kind = "products" /\ req[s].res = "ok"
    BY <1>2, <1>7 DEF ProductsReply, Changes
  <2>2. Awaited(s, x) => x = "list" /\ req[s].by = "list" /\ req[s].live
    BY <2>1, KindsAwaited DEF Awaited, AllScreens, Changes
  <2> QED
    BY <1>1, <1>7, <2>1, <2>2 DEF ProductsReply
<1>8. CASE KeysReply(s)
  <2>1. req[s].kind = "keys" /\ req[s].res = "ok"
    BY <1>2, <1>8 DEF KeysReply, Changes
  <2>2. Awaited(s, x) => x = "cart" /\ req[s].live
    BY <2>1, KindsAwaited DEF Awaited, AllScreens, Changes
  <2> QED
    BY <1>1, <1>8, <2>1, <2>2 DEF KeysReply
<1>9. CASE ProfileReply(s)
  <2>1. req[s].kind = "profile" /\ hud' = [hud EXCEPT !["home"] = FALSE]
    BY <1>2, <1>9 DEF ProfileReply
  <2>2. Awaited(s, x) => x = "home"
    BY <2>1, KindsAwaited DEF Awaited, AllScreens, Changes
  <2> QED
    BY <1>1, <2>1, <2>2
<1>10. CASE FavouriteReply(s)
  <2>1. /\ req[s].kind = "favourite"
        /\ hud' = IF req[s].by = "home" \/ req[s].live
                  THEN [hud EXCEPT ![req[s].by] = FALSE] ELSE hud
    BY <1>2, <1>10 DEF FavouriteReply
  <2>2. Awaited(s, x) => req[s].by = x /\ (x = "home" \/ req[s].live)
    BY DEF Awaited
  <2> QED
    BY <1>1, <2>1, <2>2
<1>11. CASE WishListReply(s)
  <2>1. req[s].kind = "wishlist" /\ req[s].by # "cart"
    BY <1>11 DEF WishListReply, SpinInv, Askable
  <2>2. CASE req' = [req EXCEPT ![s] = NoRequest] /\ hud' = hud
    <3>1. req'[s].kind = "free"
      BY <2>2, NoRequestType DEF Inv
    <3>2. ~Awaited(s, x)
      BY <2>1, <3>1 DEF LeftUp, Awaited
    <3> QED
      BY <2>2, <3>2
  <2>3. CASE /\ hud' = IF req[s].live THEN [hud EXCEPT ![req[s].by] = TRUE] ELSE hud
             /\ req' = [req EXCEPT ![s] = [GetCartList("favourite", req[s].by)
                                              EXCEPT !.live = req[s].live]]
    <3>1. /\ req'[s].kind = "favourite" /\ req'[s].by = req[s].by
          /\ req'[s].live = req[s].live
      BY <2>3 DEF Inv, GetCartList, Ask
    <3>2. Awaited(s, x) => Awaited(s, x)'
      BY <2>1, <3>1, KindsAwaited DEF Awaited, AllScreens
    <3>3. ASSUME ~hud[x] PROVE Awaited(s, x)'
      <4>1. req[s].live /\ req[s].by = x
        BY <1>1, <2>3, <3>3
      <4> QED
        BY <2>1, <3>1, <4>1, KindsAwaited DEF Awaited, AllScreens
    <3> QED
      BY <3>2, <3>3
  <2> QED
    BY <1>11, <2>2, <2>3 DEF WishListReply
<1> QED
  BY <1>3, <1>4, <1>5, <1>6, <1>7, <1>8, <1>9, <1>10, <1>11 DEF Reply

\* The products a handler asks for are those of Home.
LEMMA ReplyAskable ==
    ASSUME Inv, SpinInv, NEW s \in Slots, Reply(s), NEW t \in Slots
    PROVE  Askable(req'[t])
<1>1. req \in [Slots -> Sound]
  BY DEF Inv
<1> DEFINE r == req[s]
           refresh == GetCartList("cartlist", "nobody")
           own == [GetCartList("cartlist", "cart") EXCEPT !.live = r.live]
           next == CASE r.kind = "relist" ->
                            [GetCartList("keys", "cart") EXCEPT !.live = r.live]
                     [] r.by = "home" -> GetCartList("products", "home")
                     [] OTHER -> NoRequest
           found == [GetCartList("favourite", r.by) EXCEPT !.live = r.live]
<1>2. /\ Askable(NoRequest) /\ Askable(refresh) /\ Askable(own)
      /\ Askable(AfterDelete(r)) /\ Askable(next)
      /\ Askable(found)
  BY DEF Askable, NoRequest, GetCartList, Ask, AfterDelete
<1>3. Askable(req[t]) /\ Askable(Detach(r.by, req[t]))
  <2>1. req[t] \in Sound
    BY <1>1
  <2> QED
    BY <2>1, DetachType DEF SpinInv, Askable
<1>4. req'[t] \in {req[t], Detach(r.by, req[t]), NoRequest, refresh, own,
                   AfterDelete(r), next, found}
  <2>1. CASE PutReply(s)
    <3>1. \/ \E q \in {NoRequest, refresh} : req' = [req EXCEPT ![s] = q]
          \/ \E u \in Slots : req' = [req EXCEPT ![s] = refresh, ![u] = own]
      BY <2>1, Zenon DEF PutReply, Free
    <3> HIDE DEF r, refresh, own, next, found
    <3> QED
      BY <1>1, <3>1
  <2>2. CASE ProductsReply(s)
    <3> HIDE DEF refresh, own, next, found
    <3> QED
      BY <1>1, <2>2 DEF ProductsReply
  <2>3. CASE \/ PostReply(s) \/ DeleteReply(s) \/ CartListReply(s) \/ KeysReply(s)
             \/ ProfileReply(s) \/ FavouriteReply(s) \/ WishListReply(s)
    <3>1. \E q \in {NoRequest, refresh, AfterDelete(r), next, found} :
              req' = [req EXCEPT ![s] = q]
      BY <2>3 DEF PostReply, DeleteReply, CartListReply, KeysReply,
                  ProfileReply, FavouriteReply, WishListReply
    <3> HIDE DEF r, refresh, own, next, found
    <3> QED
      BY <1>1, <3>1
  <2> QED
    BY <2>1, <2>2, <2>3 DEF Reply
<1> HIDE DEF r, refresh, own, next, found
<1> QED
  BY <1>2, <1>3, <1>4

LEMMA ReplySpin ==
    ASSUME Inv, SpinInv, NEW s \in Slots, Reply(s) PROVE SpinInv'
<1>1. ASSUME NothingLost, NEW x \in AllScreens \ left', hud'[x]
      PROVE  \E t \in Slots : Awaited(t, x)'
  <2>0. x \notin left /\ x \notin LeftUp(s)
    BY <1>1 DEF Reply, Remember, LeftUp, Inv, TypeOK
  <2>1. CASE hud[x] /\ ~Awaited(s, x)
    <3>1. PICK t \in Slots : Awaited(t, x)
      BY <1>1, <2>0, <2>1 DEF SpinInv, SpinnerHasOwner
    <3>2. t # s /\ req[t].kind # "free"
      BY <2>1, <3>1, AwaitedIsSent
    <3>3. CASE req'[t] = req[t]
      BY <3>1, <3>3, StillAwaited
    <3>4. CASE /\ ProductsReply(s) /\ req[t].kind \in Changes
               /\ req'[t] = Detach(req[s].by, req[t])
      <4>1. req[s].by # "cart"
        BY <3>4 DEF SpinInv, Askable, ProductsReply
      <4>2. x # "list"
        BY <3>1, <3>4, KindsAwaited DEF Awaited, Changes
      <4> QED
        BY <3>1, <3>4, <4>1, <4>2, StillAwaited DEF AllScreens
    <3> QED
      BY <3>2, <3>3, <3>4, ReplyFillsFree
  <2> QED
    BY <1>1, <2>0, <2>1, ReplyLowers
<1> QED
  BY <1>1, ReplyAskable, ReplyRequests, SpinParts

LEMMA SpinNext == Inv /\ SpinInv /\ [Next]_vars => SpinInv'
<1> SUFFICES ASSUME Inv, SpinInv, [Next]_vars PROVE SpinInv'
  OBVIOUS
<1>1. CASE UNCHANGED vars
  BY <1>1 DEF vars, history, SpinInv, SpinnerHasOwner, Awaited, Askable, NothingLost
<1> QED
  BY <1>1, NavigateSpin, TapSpin, ServeSpin, ReplySpin DEF Next

\* No spinner of the Home screen, the product list or the cart screen waits for
\* nothing: with nothing lost, and except where the code leaves a spinner up
\* (history left), a request is under way whose answer takes it down.
THEOREM SpinnersOwned == Spec => []SpinnerHasOwner
<1>1. SpinInv => SpinnerHasOwner
  BY DEF SpinInv
<1> QED
  BY <1>1, SpinInit, SpinNext, InvAlways, PTL DEF Spec
=============================================================================
