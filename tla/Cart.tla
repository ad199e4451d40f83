-------------------------------- MODULE Cart --------------------------------
(***************************************************************************)
(* The cart of the customer: the server's copy, the copy CommonNotifier    *)
(* caches for the badge, and the quantities the Home screen, the product   *)
(* list and the cart screen show.  Every change goes to the server in a    *)
(* request of its own; requests are served and answered in any order, and  *)
(* the handler that awaits an answer may find the products it was about    *)
(* replaced by a refresh.                                                  *)
(*                                                                         *)
(* Only products the steppers change directly are modelled: simple ones,   *)
(* without options or a minimum quantity (the others open the detail       *)
(* screen).  What the estimate does after its form key arrived is module   *)
(* Shipping.                                                               *)
(***************************************************************************)
EXTENDS Integers, FiniteSets

CONSTANTS
    Products,   \* what the shop sells
    NoProduct,  \* a request that is about no product
    Parts,      \* what the customer uses besides Home: a subset of AllParts
    Slots,      \* requests in flight at once (a bound)
    Faults,     \* what may go wrong with a request: a subset of AllFaults
    MaxQty,     \* the stock of each product: the server refuses more
    MaxTaps     \* how often the customer taps (a bound)

AllScreens == {"home", "list", "cart"}
AllParts == {"list", "cart", "profile", "hearts"}
AllFaults == {"message", "null", "failed"}

ASSUME CartAssumption ==
    /\ NoProduct \notin Products
    /\ Parts \subseteq AllParts
    /\ Faults \subseteq AllFaults
    /\ IsFiniteSet(Slots)
    /\ MaxQty \in Nat \ {0}
    /\ MaxTaps \in Nat

VARIABLES
    server,   \* the cart as the server holds it
    nextId,   \* the item id the server gives to the next new line
    cache,    \* CommonNotifier.cartListResponse and hmCartBasicInfo
    item,     \* the ItemProduct objects Home and the product list show
    lines,    \* CartNotifier.lstCartResponse
    hud,      \* isLoading of HomeNotifier, ProductListNotifier, CartNotifier
    view,     \* the screen on top
    req,      \* the requests in flight
    taps,     \* taps so far
    seen,     \* history: the latest version of the cart the cache has held
    left,     \* history: the screens whose spinner the code has left up
    crossed   \* history: My Profile took the spinner off a request of Home

history == <<seen, left, crossed>>
vars == <<server, nextId, cache, item, lines, hud, view, req, taps, history>>

\* A line of the cart; id 0 stands for no line, and for a null itemCartId.
Line == [id: Nat, qty: Nat]
NoLine == [id |-> 0, qty |-> 0]
CartLines == [Products -> Line]
EmptyCart == [p \in Products |-> NoLine]

\* A cart with its version, which every change counts up from 1; 0 is for one
\* that did not come from the server.
Carts == [lines: CartLines, version: Nat]
NewCart == [lines |-> EmptyCart, version |-> 0]

Item == [shown: BOOLEAN, id: Nat, qty: Int]
NoItem == [shown |-> FALSE, id |-> 0, qty |-> 0]

\* A request.  `by` is the screen whose handler awaits the answer ("nobody"
\* for a refresh of the cache alone), `live` whether that handler still holds
\* the object on the screen, `res` the answer, "sent" until there is one.
Changes == {"post", "put", "delete"}
Kinds == Changes \cup {"cartlist", "relist", "products", "keys", "profile",
                      "favourite", "wishlist"}
Request == [kind: Kinds \cup {"free"}, by: AllScreens \cup {"nobody"},
            live: BOOLEAN, prod: Products \cup {NoProduct}, id: Nat, qty: Int,
            res: {"sent", "ok"} \cup AllFaults, cart: Carts]

Ask(kind, by, p, id, qty) ==
    [kind |-> kind, by |-> by, live |-> TRUE, prod |-> p, id |-> id,
     qty |-> qty, res |-> "sent", cart |-> NewCart]
GetCartList(kind, by) == Ask(kind, by, NoProduct, 0, 0)
NoRequest == GetCartList("free", "nobody")

Views == {"home", "list", "cart", "listcart", "profile"}

TypeOK ==
    /\ server \in Carts
    /\ nextId \in Nat \ {0}
    /\ cache \in Carts
    /\ item \in [{"home", "list"} -> [Products -> Item]]
    /\ lines \in CartLines
    /\ hud \in [AllScreens -> BOOLEAN]
    /\ view \in Views
    /\ req \in [Slots -> Request]
    /\ taps \in Nat
    /\ seen \in Nat
    /\ left \subseteq AllScreens
    /\ crossed \in BOOLEAN

Free == {s \in Slots : req[s].kind = "free"}

\* A reply to a PUT of the cart screen sends two requests: one slot is kept
\* for each, so that no reply waits for a slot.
Reserved == {s \in Slots : req[s].kind = "put" /\ req[s].by = "cart"}
Room(n) == Cardinality(Free) >= n + Cardinality(Reserved)

\* The handlers of screen x no longer hold what the screen shows.
Detach(x, r) == IF r.by = x THEN [r EXCEPT !.live = FALSE] ELSE r
Detached(x) == [s \in Slots |-> Detach(x, req[s])]

\* Mutant: without containsKey a product outside the cart has a null quantity.
matchUnchecked(cart) ==
    [p \in Products |-> [shown |-> TRUE, id |-> cart.lines[p].id,
                         qty |-> IF cart.lines[p].id = 0 THEN NoProduct
                                 ELSE cart.lines[p].qty]]

\* Mutant: the first line is taken for every product.
matchAnyLine(cart) ==
    LET inCart == {p \in Products : cart.lines[p].id # 0}
    IN  [p \in Products |->
           IF inCart = {} THEN [NoItem EXCEPT !.shown = TRUE]
           ELSE LET l == cart.lines[CHOOSE q \in inCart : TRUE]
                IN  [shown |-> TRUE, id |-> l.id, qty |-> l.qty]]

\* The objects a refresh builds: quantity and item id from the cached cart.
matchProductId(cart) ==
    [p \in Products |-> [shown |-> TRUE, id |-> cart.lines[p].id,
                         qty |-> cart.lines[p].qty]]

\* HomeNotifier is born loading, and nothing the Home screen does by itself
\* takes its spinner down: only My Profile does, visited before or now.
Init ==
    /\ server \in {[lines |-> l, version |-> 1] :
                       l \in {EmptyCart} \cup {[EmptyCart EXCEPT ![p] =
                               [id |-> 1, qty |-> 1]] : p \in Products}}
    /\ nextId = 2
    /\ cache = NewCart
    /\ item = [x \in {"home", "list"} |-> [p \in Products |-> NoItem]]
    /\ lines = EmptyCart
    /\ \E up \in IF "profile" \in Parts THEN BOOLEAN ELSE {TRUE} :
           /\ hud = [x \in AllScreens |-> x = "home" /\ up]
           /\ left = {x \in {"home"} : up}
    /\ crossed = FALSE
    /\ view = "home"
    /\ \E s \in Slots :
           req = [[t \in Slots |-> NoRequest]
                      EXCEPT ![s] = GetCartList("cartlist", "home")]
    /\ taps = 0
    /\ seen = 0

----------------------------------------------------------------------------
(* Moving between the screens *)

\* The cart button of the app bar: a new CartNotifier, which asks for the
\* list.  On a tab it changes the tab, on the product list it pushes a route.
OpenCart ==
    /\ "cart" \in Parts /\ Room(1)
    /\ \/ view \in {"home", "profile"} /\ view' = "cart"
       \/ view = "list" /\ view' = "listcart"
    /\ lines' = EmptyCart
    /\ hud' = [hud EXCEPT !["cart"] = TRUE]
    /\ \E s \in Free : req' = [Detached("cart")
                                   EXCEPT ![s] = GetCartList("cartlist", "cart")]
    /\ UNCHANGED <<server, nextId, cache, item, history>>

\* The My Profile tab has the notifier of Home, and raises its spinner.  The
\* tabs are changed in the drawer, which no spinner covers.
OpenProfile ==
    /\ "profile" \in Parts /\ view \in {"home", "cart"} /\ Room(1)
    /\ view' = "profile"
    /\ hud' = [hud EXCEPT !["home"] = TRUE]
    /\ \E s \in Free : req' = [req EXCEPT ![s] = GetCartList("profile", "home")]
    /\ UNCHANGED <<server, nextId, cache, item, lines, history>>

\* A new Home screen under the same HomeNotifier: initialSetup asks for the
\* cart list, then for the products.
TabToHome ==
    /\ view \in {"cart", "profile"} /\ Room(1)
    /\ view' = "home"
    /\ \E s \in Free : req' = [req EXCEPT ![s] = GetCartList("cartlist", "home")]
    /\ UNCHANGED <<server, nextId, cache, item, lines, hud, history>>

\* refreshProductList: the products again, matched with the cart the cache
\* holds when they arrive.  OpenList makes a new ProductListNotifier.
OpenList ==
    /\ "list" \in Parts /\ view = "home" /\ ~hud["home"] /\ Room(1)
    /\ view' = "list"
    /\ item' = [item EXCEPT !["list"] = [p \in Products |-> NoItem]]
    /\ hud' = [hud EXCEPT !["list"] = TRUE]
    /\ \E s \in Free : req' = [Detached("list")
                                   EXCEPT ![s] = GetCartList("products", "list")]
    /\ left' = left \ {"list"}
    /\ UNCHANGED <<server, nextId, cache, lines, seen, crossed>>

CartToList ==
    /\ view = "listcart" /\ Room(1)
    /\ view' = "list"
    /\ hud' = [hud EXCEPT !["list"] = TRUE]
    /\ \E s \in Free : req' = [req EXCEPT ![s] = GetCartList("products", "list")]
    /\ UNCHANGED <<server, nextId, cache, item, lines, history>>

\* Back from the product list: _localApiHits rebuilds the products of Home.
ListToHome ==
    /\ view = "list" /\ Room(1)
    /\ view' = "home"
    /\ \E s \in Free : req' = [req EXCEPT ![s] = GetCartList("products", "home")]
    /\ UNCHANGED <<server, nextId, cache, item, lines, hud, history>>

\* Home pulled down: the products again, without the cart list.
PullHome ==
    /\ view = "home" /\ ~hud["home"] /\ Room(1)
    /\ \E s \in Free : req' = [req EXCEPT ![s] = GetCartList("products", "home")]
    /\ UNCHANGED <<server, nextId, cache, item, lines, hud, view, history>>

----------------------------------------------------------------------------
(* The steppers *)

\* Mutant: no spinner over the steppers.
TappableUnder(x) == view = x /\ taps < MaxTaps

\* ModalProgressHUD takes every tap while the notifier is loading.
Tappable(x) == view = x /\ ~hud[x] /\ taps < MaxTaps

\* isAvailable: the product's item id is in the cart list cached now, whether
\* or not the list asked for in the same handler is different.
isAvailable(i) ==
    i.id # 0 /\ \E q \in Products : cache.lines[q].id = i.id

\* The request of one tap on +, with the product as it is after the tap.
AddRequest(x, p, i) ==
    IF isAvailable(i) THEN Ask("put", x, p, i.id, i.qty)
                      ELSE Ask("post", x, p, 0, i.qty)

\* Mutant: the first piece shows only when the server has it.
AddedLate(x, i) == IF isAvailable(i) THEN [i EXCEPT !.qty = @ + 1] ELSE i

\* What the tap does to the product at once: a change of quantity shows the
\* new one, a first add only lifts a zero on the Home screen.
Added(x, i) ==
    IF isAvailable(i) THEN [i EXCEPT !.qty = @ + 1]
    ELSE IF x = "home" /\ i.qty = 0 THEN [i EXCEPT !.qty = 1] ELSE i

HomeAdd(p) ==
    /\ Tappable("home") /\ item["home"][p].shown /\ Room(2)
    /\ item' = [item EXCEPT !["home"][p] = Added("home", @)]
    /\ hud' = [hud EXCEPT !["home"] = TRUE]
    /\ \E s, t \in Free :
           /\ s # t
           /\ req' = [req EXCEPT ![s] = GetCartList("cartlist", "nobody"),
                                 ![t] = AddRequest("home", p, item'["home"][p])]
    /\ taps' = taps + 1
    /\ UNCHANGED <<server, nextId, cache, lines, view, history>>

\* The product list also sends the quantity as it was before the tap.
ListAdd(p) ==
    /\ Tappable("list") /\ item["list"][p].shown /\ Room(3)
    /\ item' = [item EXCEPT !["list"][p] = Added("list", @)]
    /\ \E s, t, u \in Free :
           /\ s # t /\ t # u /\ s # u
           /\ req' = [req EXCEPT
                 ![s] = Ask("put", "nobody", p, item["list"][p].id,
                            item["list"][p].qty),
                 ![t] = GetCartList("cartlist", "nobody"),
                 ![u] = AddRequest("list", p, item'["list"][p])]
    /\ taps' = taps + 1
    /\ UNCHANGED <<server, nextId, cache, lines, hud, view, history>>

\* - on a product: the last one is removed, more are reduced by a change of
\* quantity that shows at once; below that only a message appears.
StepperRemove(x, p) ==
    LET i == item[x][p]
    IN  /\ Tappable(x) /\ i.shown /\ i.qty # 0 /\ Room(1)
        /\ IF i.qty = 1
           THEN /\ \E s \in Free :
                       req' = [req EXCEPT ![s] = Ask("delete", x, p, i.id, 1)]
                /\ UNCHANGED item
           ELSE /\ \E s \in Free :
                       req' = [req EXCEPT ![s] =
                                   Ask("put", x, p, i.id, i.qty - 1)]
                /\ item' = [item EXCEPT ![x][p].qty = @ - 1]
        /\ hud' = IF x = "home" THEN [hud EXCEPT ![x] = TRUE] ELSE hud
        /\ taps' = taps + 1
        /\ UNCHANGED <<server, nextId, cache, lines, view, history>>

\* The heart of a product: on adds it to the wish list, off asks for the list
\* first, to find the entry to remove.
Heart(x) ==
    /\ "hearts" \in Parts /\ Tappable(x) /\ Room(1)
    /\ \E p \in Products : item[x][p].shown
    /\ hud' = [hud EXCEPT ![x] = TRUE]
    /\ \E s \in Free, kind \in {"favourite", "wishlist"} :
           req' = [req EXCEPT ![s] = GetCartList(kind, x)]
    /\ taps' = taps + 1
    /\ UNCHANGED <<server, nextId, cache, item, lines, view, history>>

----------------------------------------------------------------------------
(* The cart screen *)

CartVisible == view \in {"cart", "listcart"} /\ ~hud["cart"] /\ taps < MaxTaps

CartAsk(s, r) ==
    /\ req' = [req EXCEPT ![s] = r]
    /\ hud' = [hud EXCEPT !["cart"] = TRUE]
    /\ taps' = taps + 1
    /\ UNCHANGED <<server, nextId, cache, item, lines, view, history>>

\* A quantity from the drop-down, or typed: never more than the stock.
callAPIAddItemToCart(p, q) ==
    /\ CartVisible /\ lines[p].id # 0 /\ Room(2)
    /\ \E s \in Free : CartAsk(s, Ask("put", "cart", p, lines[p].id, q))

callApiRemoveCartItem(p) ==
    /\ CartVisible /\ lines[p].id # 0 /\ Room(1)
    /\ \E s \in Free : CartAsk(s, Ask("delete", "cart", p, lines[p].id, 0))

\* The Estimate button: the form key first.
callApiEstimateShippingAndTax ==
    /\ CartVisible /\ lines # EmptyCart /\ Room(1)
    /\ \E s \in Free : CartAsk(s, GetCartList("keys", "cart"))

----------------------------------------------------------------------------
(* The server, and the network *)

Answer(s, res) == [req EXCEPT ![s].res = res]

SetLine(p, l) ==
    server' = [lines |-> [server.lines EXCEPT ![p] = l],
               version |-> server.version + 1]

\* A POST adds to the line of the product or makes one; a quantity of 0 adds
\* one.  The answer carries the item id.
ServePost(s) ==
    LET r == req[s]
        old == server.lines[r.prod]
        new == [id |-> IF old.id = 0 THEN nextId ELSE old.id,
                qty |-> old.qty + (IF r.qty > 0 THEN r.qty ELSE 1)]
    IN  /\ r.kind = "post"
        /\ IF new.qty > MaxQty
           THEN req' = Answer(s, "message") /\ UNCHANGED <<server, nextId>>
           ELSE /\ SetLine(r.prod, new)
                /\ nextId' = nextId + (IF old.id = 0 THEN 1 ELSE 0)
                /\ req' = [req EXCEPT ![s].res = "ok", ![s].id = new.id]

\* A PUT sets the quantity of the line with the item id; a DELETE takes the
\* line away.  Without such a line the answer is neither 200 nor 400.
ServeChange(s) ==
    LET r == req[s]
        line(p) == r.id # 0 /\ server.lines[p].id = r.id
    IN  /\ r.kind \in {"put", "delete"}
        /\ \/ /\ \A p \in Products : ~line(p)
              /\ req' = Answer(s, "null")
              /\ UNCHANGED server
           \/ /\ r.kind = "put" /\ r.qty \notin 1..MaxQty
              /\ \E p \in Products : line(p)
              /\ req' = Answer(s, "message")
              /\ UNCHANGED server
           \/ \E p \in Products :
                 /\ line(p)
                 /\ r.kind = "put" => r.qty \in 1..MaxQty
                 /\ SetLine(p, IF r.kind = "put" THEN [id |-> r.id, qty |-> r.qty]
                                                 ELSE NoLine)
                 /\ req' = Answer(s, "ok")
        /\ UNCHANGED nextId

ServeRead(s) ==
    /\ req[s].kind \in Kinds \ Changes
    /\ req' = [req EXCEPT ![s].res = "ok", ![s].cart = server]
    /\ UNCHANGED <<server, nextId>>

Serve(s) ==
    /\ req[s].res = "sent"
    /\ ServePost(s) \/ ServeChange(s) \/ ServeRead(s)
    /\ UNCHANGED <<cache, item, lines, hud, view, taps, history>>

\* The request is refused ("message", where the client looks for one), answered
\* with another status ("null"), or times out: "failed", whether or not the
\* server has served it.
Fault(s) ==
    /\ \E f \in Faults :
           /\ f = "message" => req[s].kind \in {"post", "put"}
           /\ f # "failed" => req[s].res = "sent"
           /\ req' = Answer(s, f)
    /\ req[s].kind # "free"
    /\ UNCHANGED <<server, nextId, cache, item, lines, hud, view, taps, history>>

----------------------------------------------------------------------------
(* The handlers of the answers *)

\* onNewFirstTimeAddToCart of HomeNotifier, which showed the first piece before
\* it asked, and of ProductListNotifier, which did not.
onNewFirstTimeAddToCart(r, i) ==
    CASE r.res = "ok" ->
           [i EXCEPT !.id = r.id,
                     !.qty = IF r.by = "home" /\ @ = 1 THEN 1 ELSE @ + 1]
      [] r.res = "message" /\ r.by = "home" -> [i EXCEPT !.qty = @ - 1]
      [] OTHER -> i

\* onNewDataChangeCartItemQuantity: HomeNotifier takes a refused change for a
\* refused increase; ProductListNotifier leaves the product as it is.
onNewDataChangeCartItemQuantity(r, i) ==
    CASE r.res = "ok" -> [i EXCEPT !.qty = r.qty]
      [] r.res = "message" /\ r.by = "home" -> [i EXCEPT !.qty = @ - 1]
      [] OTHER -> i

Removed(r, i) == IF r.res = "ok" THEN [i EXCEPT !.qty = @ - 1] ELSE i

\* The product after the answer r, if the handler still holds it.
UpdateItem(r) ==
    item' = IF r.live /\ r.by \in {"home", "list"}
            THEN [item EXCEPT ![r.by][r.prod] =
                     CASE r.kind = "post" -> onNewFirstTimeAddToCart(r, @)
                       [] r.kind = "put" -> onNewDataChangeCartItemQuantity(r, @)
                       [] r.kind = "delete" -> Removed(r, @)]
            ELSE item

\* Mutant: only an accepted answer takes the spinner down.
LoweredOnSuccess(r) ==
    IF r.res = "ok" /\ (r.by = "home" \/ (r.by = "cart" /\ r.live))
    THEN [hud EXCEPT ![r.by] = FALSE] ELSE hud

\* Home and the cart screen take their spinner down; a call that failed
\* throws past that line, unless the handler has a try.
Lowered(r) ==
    IF (r.by = "home" /\ (r.kind = "delete" \/ r.res # "failed"))
         \/ (r.by = "cart" /\ r.live)
    THEN [hud EXCEPT ![r.by] = FALSE] ELSE hud

\* callApiAddToCart: the cache is refreshed after every answer but a failure.
PostReply(s) ==
    LET r == req[s]
    IN  /\ r.kind = "post"
        /\ UpdateItem(r)
        /\ hud' = Lowered(r)
        /\ req' = [req EXCEPT ![s] = IF r.res = "failed" THEN NoRequest
                                     ELSE GetCartList("cartlist", "nobody")]
        /\ UNCHANGED <<cache, lines, seen>>

\* callApiChangeCartItemQuantity of CommonNotifier refreshes the cache, that
\* of the cart screen also its own list, which may be another one.
PutReply(s) ==
    LET r == req[s]
        own == r.by = "cart" /\ r.res \in {"ok", "message"}
    IN  /\ r.kind = "put"
        /\ UpdateItem(r)
        /\ hud' = Lowered(r)
        /\ IF r.res = "failed" THEN req' = [req EXCEPT ![s] = NoRequest]
           ELSE IF ~own
           THEN req' = [req EXCEPT ![s] = GetCartList("cartlist", "nobody")]
           ELSE \E t \in Free :
                   req' = [req EXCEPT
                      ![s] = GetCartList("cartlist", "nobody"),
                      ![t] = [GetCartList("cartlist", "cart")
                                  EXCEPT !.live = r.live]]
        /\ UNCHANGED <<cache, lines, seen>>

\* Mutant: the badge is left alone.
AfterDeleteNothing(r) ==
    IF r.res = "ok" /\ r.by = "cart"
    THEN [GetCartList("relist", "cart") EXCEPT !.live = r.live]
    ELSE NoRequest

\* A removal is followed by a refresh when it was done.  On the cart screen the
\* refresh keeps the spinner and is followed by an estimate.
AfterDelete(r) ==
    IF r.res # "ok" THEN NoRequest
    ELSE IF r.by = "cart"
         THEN [GetCartList("relist", "cart") EXCEPT !.live = r.live]
         ELSE GetCartList("cartlist", "nobody")

DeleteReply(s) ==
    LET r == req[s]
    IN  /\ r.kind = "delete"
        /\ UpdateItem(r)
        /\ hud' = IF r.by = "cart" /\ r.res = "ok" /\ r.live
                  THEN [hud EXCEPT !["cart"] = TRUE] ELSE Lowered(r)
        /\ req' = [req EXCEPT ![s] = AfterDelete(r)]
        /\ UNCHANGED <<cache, lines, seen>>

\* Mutant: what a refused request brought is a cart as well.
CachedAnyAnswer(r) == r.cart

\* onNewCartListResponse, fillCartItemHashMapValues: the whole list, or nothing.
CachedAfter(r) == IF r.res = "ok" THEN r.cart ELSE cache

\* callApiGetCartList: the cache takes every list that arrives, whatever was
\* asked or has arrived since.  The cart screen shows the list it asked for,
\* and an empty cart when it got none.
CartListReply(s) ==
    LET r == req[s]
        shown == r.by = "cart" /\ r.live
    IN  /\ r.kind \in {"cartlist", "relist"}
        /\ cache' = CachedAfter(r)
        /\ seen' = IF r.res = "ok" /\ r.cart.version > seen THEN r.cart.version
                   ELSE seen
        /\ lines' = IF ~shown THEN lines
                    ELSE IF r.res = "ok" THEN r.cart.lines ELSE EmptyCart
        /\ hud' = IF shown THEN [hud EXCEPT !["cart"] = r.kind = "relist"]
                           ELSE hud
        /\ req' = [req EXCEPT ![s] =
              CASE r.kind = "relist" ->
                       [GetCartList("keys", "cart") EXCEPT !.live = r.live]
                [] r.by = "home" -> GetCartList("products", "home")
                [] OTHER -> NoRequest]
        /\ UNCHANGED item

\* The products are built anew; handlers under way keep the old ones.  A
\* product list that has been left builds what nobody sees.
ProductsReply(s) ==
    LET r == req[s]
        x == r.by
    IN  /\ r.kind = "products"
        /\ IF ~r.live \/ r.res = "failed" \/ (x = "list" /\ r.res # "ok")
           THEN /\ UNCHANGED item
                /\ req' = [req EXCEPT ![s] = NoRequest]
           ELSE /\ item' = [item EXCEPT ![x] =
                               IF r.res = "ok" THEN matchProductId(cache)
                               ELSE [p \in Products |-> NoItem]]
                /\ req' = [t \in Slots |->
                              IF t = s THEN NoRequest
                              ELSE IF req[t].kind \in Changes
                                   THEN Detach(x, req[t]) ELSE req[t]]
        /\ hud' = IF x = "list" /\ r.live /\ r.res # "failed"
                  THEN [hud EXCEPT ![x] = FALSE] ELSE hud
        /\ UNCHANGED <<cache, lines, seen>>

\* apiFormKeys: the estimate lowers the spinner when the form key has arrived;
\* without a form key the exception leaves it.
KeysReply(s) ==
    LET r == req[s]
    IN  /\ r.kind = "keys"
        /\ hud' = IF r.live /\ r.res = "ok" THEN [hud EXCEPT !["cart"] = FALSE]
                                            ELSE hud
        /\ req' = [req EXCEPT ![s] = NoRequest]
        /\ UNCHANGED <<cache, item, lines, seen>>

\* callApiGetUserProfileDetail lowers Home's spinner, whoever raised it; the
\* exception of a failed call leaves it.
ProfileReply(s) ==
    /\ req[s].kind = "profile"
    /\ hud' = IF req[s].res = "failed" THEN hud
              ELSE [hud EXCEPT !["home"] = FALSE]
    /\ req' = [req EXCEPT ![s] = NoRequest]
    /\ UNCHANGED <<cache, item, lines, seen>>

\* An entry was added to the wish list, or removed: Home has a try, the product
\* list has none.
FavouriteReply(s) ==
    LET r == req[s]
    IN  /\ r.kind = "favourite"
        /\ hud' = IF r.by = "home" \/ (r.live /\ r.res # "failed")
                  THEN [hud EXCEPT ![r.by] = FALSE] ELSE hud
        /\ req' = [req EXCEPT ![s] = NoRequest]
        /\ UNCHANGED <<cache, item, lines, seen>>

\* callApiGetWishList raises the spinner and does not lower it: if the product
\* is found on this list, or without one on the list of an earlier answer, the
\* removal does.
WishListReply(s) ==
    LET r == req[s]
    IN  /\ r.kind = "wishlist"
        /\ \/ /\ r.res # "failed"
              /\ hud' = IF r.live THEN [hud EXCEPT ![r.by] = TRUE] ELSE hud
              /\ req' = [req EXCEPT ![s] =
                            [GetCartList("favourite", r.by)
                                 EXCEPT !.live = r.live]]
           \/ /\ req' = [req EXCEPT ![s] = NoRequest]
              /\ UNCHANGED hud
        /\ UNCHANGED <<cache, item, lines, seen>>

\* What the handlers of Home's own taps wait for.
TapOfHome(s) ==
    /\ req[s].by = "home"
    /\ req[s].kind \in Changes \cup {"favourite", "wishlist"}

\* History: a wish list without the product leaves the spinner up; an answer to
\* My Profile may lower that of a tap.
LeftUp(s) ==
    {x \in AllScreens : /\ req[s].kind = "wishlist" /\ req'[s].kind = "free"
                        /\ req[s].by = x /\ (x = "home" \/ req[s].live)}
Remember(s) ==
    /\ left' = {x \in left \cup LeftUp(s) : hud'[x]}
    /\ crossed' = (crossed \/ (/\ req[s].kind = "profile"
                               /\ hud'["home"] # hud["home"]
                               /\ \E t \in Slots : TapOfHome(t)))

Reply(s) ==
    /\ req[s].res # "sent"
    /\ \/ PostReply(s) \/ PutReply(s) \/ DeleteReply(s)
       \/ CartListReply(s) \/ ProductsReply(s) \/ KeysReply(s)
       \/ ProfileReply(s) \/ FavouriteReply(s) \/ WishListReply(s)
    /\ Remember(s)
    /\ UNCHANGED <<server, nextId, view, taps>>

----------------------------------------------------------------------------
Navigate ==
    /\ taps < MaxTaps
    /\ taps' = taps + 1
    /\ \/ OpenCart \/ OpenProfile \/ OpenList
       \/ TabToHome \/ CartToList \/ ListToHome \/ PullHome

Tap ==
    \/ \E p \in Products :
          \/ HomeAdd(p)
          \/ ListAdd(p)
          \/ \E x \in {"home", "list"} : StepperRemove(x, p)
          \/ \E q \in 1..MaxQty : callAPIAddItemToCart(p, q)
          \/ callApiRemoveCartItem(p)
    \/ callApiEstimateShippingAndTax
    \/ \E x \in {"home", "list"} : Heart(x)

Next ==
    \/ Navigate
    \/ Tap
    \/ \E s \in Slots : Serve(s) \/ Fault(s) \/ Reply(s)

Spec == Init /\ [][Next]_vars

\* A request is served, or fails, and its answer reaches the handler: the
\* client gives up after two minutes.
FairSpec ==
    /\ Spec
    /\ \A s \in Slots :
          WF_vars(Serve(s)) /\ WF_vars(Reply(s))

----------------------------------------------------------------------------
(* What the badge promises *)

\* The lists of the cart on their way to the app.
Lists == {req[s].cart : s \in {t \in Slots :
             req[t].kind \in {"cartlist", "relist"} /\ req[t].res = "ok"}}

Store == INSTANCE CartStore WITH
             Keys <- Products, Values <- Line,
             store <- server, sent <- Lists, copy <- cache

\* Through all changes, refusals and lists that overtake each other, the cache
\* behind the badge is a whole cart the server had (fillCartItemHashMapValues).
ImplementsStore == Store!Spec

----------------------------------------------------------------------------
(* Properties *)

Changing(s, x) ==
    req[s].kind \in Changes /\ req[s].by = x

\* The spinner serialises the Home screen: no two changes made there are under
\* way at once, and none without the spinner, although the products may be
\* rebuilt, hearts tapped, and the screen left and opened again meanwhile -
\* unless an answer to My Profile has taken the spinner off one of them.
HomeOneAtATime ==
    ~crossed =>
        \A s \in Slots :
            Changing(s, "home") =>
                /\ hud["home"]
                /\ \A t \in Slots : Changing(t, "home") => t = s

\* The - of the Home screen stops at zero, as the message 'Cant reduce futher'
\* says: no answer, in whatever order, takes the quantity below it, as long as
\* the spinner serialises the taps.
HomeNotNegative == ~crossed => \A p \in Products : item["home"][p].qty >= 0

\* Ids held for product p: on the server, in the cache, on a screen, in a
\* request or in an answer.
IdsOf(p) ==
    {server.lines[p].id, cache.lines[p].id, lines[p].id}
        \cup {item[x][p].id : x \in {"home", "list"}}
        \cup {req[s].id : s \in {t \in Slots : req[t].prod = p}}
        \cup {req[s].cart.lines[p].id : s \in Slots}

\* A tap on one product never changes the line of another: no id, old or new,
\* is held for two products.
OwnLine ==
    \A p, q \in Products : p # q => IdsOf(p) \cap IdsOf(q) \subseteq {0}

Quiet == \A s \in Slots : req[s].kind = "free"

\* "//refresh for cart count": with nothing under way, the badge counts the
\* cart the server holds.
CountIsFresh == Quiet => cache.lines = server.lines

\* No request is lost: the only failures are refusals the client looks for.
NothingLost == Faults \subseteq {"message"}

\* Every change of the cart is followed by a list asked for after it: when
\* nothing is under way, and nothing was lost, the badge has held the cart as
\* the server has it now (callApiAddToCart, callApiChangeCartItemQuantity,
\* callApiRemoveCartItem).  If it holds another, an older list came after it.
EveryChangeFetched == NothingLost /\ Quiet => seen = server.version

\* The requests whose answers take the spinner of a screen down again.
AwaitedKinds ==
    [home |-> Changes \cup {"profile", "favourite", "wishlist"},
     list |-> {"products", "favourite", "wishlist"},
     cart |-> {"put", "delete", "cartlist", "relist", "keys"}]
Awaited(s, x) ==
    /\ req[s].by = x /\ req[s].kind \in AwaitedKinds[x]
    /\ x = "home" \/ req[s].live

\* No spinner waits for nothing: while one is up a request whose answer takes it
\* down is under way, although requests share the spinner, screens are left and
\* opened again, and products are rebuilt.  Left up are that of Home from its
\* birth to the first visit to My Profile, and that of a screen whose heart was
\* switched off for a product the wish list does not have.
SpinnerHasOwner ==
    NothingLost => \A x \in AllScreens \ left :
                       hud[x] => \E s \in Slots : Awaited(s, x)

\* "//call api: add item to cart": what a tap on + of the product list sends
\* never makes a line of the cart smaller.
AddNeverTakes ==
    [][\A s \in Slots, p \in Products :
          (req[s].kind = "put" /\ req[s].by = "nobody" /\ Serve(s))
              => server'.lines[p].qty >= server.lines[p].qty]_vars

\* A tap makes one change at most, one on the product list two.
LastVersion == 1 + MaxTaps * (IF "list" \in Parts THEN 2 ELSE 1)

\* Every change of the cart reaches the badge: a list that includes it, or a
\* later one, arrives.
ChangeFetched ==
    \A n \in 2..LastVersion : server.version >= n ~> seen >= n

\* A spinner comes down again, if it is not one the code leaves up.
SpinnerEnds == \A x \in AllScreens : hud[x] ~> (~hud[x] \/ x \in left)
=============================================================================
