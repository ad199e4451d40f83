# eBazzar shop owner app: a verification project

The repository is a Flutter app (Dart, `src/lib`, about 34 000 lines) with which
shop owners order from distributors through the REST services of a Magento shop.
The rest of `src/` is the vendored Flutter SDK, the Android and iOS projects and
assets. (The C and Objective-C files of the tree are all vendored or generated:
pods such as FMDB, GTMSessionFetcher, AppAuth and PayTabs, headers of the Flutter
engine, plugin registrants. The program is the Dart code, and nothing here models
those.) This directory holds TLA+ modules that model the app's own logic, TLC
configurations that check them on small instances, and theorems TLAPS proves
about them for every instance.

    cd tla
    tlc -workers 2 -config MCCart.cfg MCCart      # one run
    tlapm ShippingProofs.tla                      # one module of proofs

`PROJECT.json` says which definition models which lines of the source, which
properties each run checks, and which mutant of the model breaks each of them.

## 1. The system

### How it is built

Dart runs the app in one event loop. A tap, a reply or a timer runs its handler
up to the next `await` without interruption; between two such stretches anything
may run. So **an action of these modules is one stretch between awaits**, with
everything the stretch calls. All state is in objects of three kinds.

- *Notifiers* (`src/lib/core/notifier`), one per screen or tab, die with it; a
  handler that awaits keeps its own notifier and product objects alive and
  writes to them whether or not a screen still shows them.
- *`CommonNotifier`*, a singleton: identity (token, quote id, profile), the
  cached cart list behind the badge, the country list, the wish list.
- *`SharedPreferences`*: token, e-mail and password, quote id. Only these survive
  the process.

Requests go through `NetworkProvider.call`, which gives each two minutes and then
returns a `String` where the callers expect a response, so that they throw. Most
repositories turn an unexpected status into `null`. Nothing orders replies.

A spinner (`isLoading` of the notifier, drawn by `ModalProgressHUD`) takes the
taps of the screen. It is the only thing that keeps two handlers of a screen
apart, and it is one Boolean that every handler sets and clears.

### Components

| Component | State | Operations | Interacts with |
|---|---|---|---|
| Session and sign-in (`login_screen`, `login_notifier`, `otpverification`, `my_drawer`, `main`) | prefs, `CommonNotifier` identity, global `tokenfromotp`, routes, spinner | sign in by password or OTP, sign in from the saved credential, Logout, restart, Continue shopping | all others read token and quote id |
| Cart contents (`home_*`, `product_list_*`, `cart_notifier`, `common_notifier`) | server cart, cached list, product objects per screen, lines of the cart screen, three spinners | + and - on Home and product list, quantity and removal on the cart screen, refreshes, moving between screens | badge in every app bar |
| Delivery, totals, coupon (`cart_notifier`, `my_cart_screen`) | list of methods, selection, totals, coupon, two spinners | estimate, select a method, add or remove a coupon, proceed | hands its list to the payment screen |
| Checkout (`payment_notifier`, `payment_screen`, web view, `order_confirmation_*`) | addresses, payment methods, selections, order id | set shipping, place order, register with the gateway, confirm | quote, shared list |
| HTTP client (`network_provider`, `base_repository`) | a header map per repository | one request | every repository |
| Catalogue, search, filters, distributors | product lists, filter form | search, filter, sort, open | product objects of the cart steppers |
| Product detail | options, quantity | add a configurable product | cart |
| Wish list, comparison | list, hearts | add, remove, share | Home, product list |
| Addresses | list, form | add, edit, delete | default addresses in checkout |
| Registration, OTP entry, passwords | forms, count-downs | one request each | sign-in |
| Orders, reviews, rewards, profile, contact, saved cards, map | one list or form each | one request each | - |

### What is hard, and what correct means

| Component | Hard behaviour | Correct if |
|---|---|---|
| Session | a sign-in is five requests long; the screen may be popped, Logout tapped, the process killed between any two; identity has four copies | nobody but a shop owner or an OTP customer is signed in; the credential kept is one the server accepted; copies of the quote agree; a logout lasts; a sign-in past its OTP ends |
| Cart | changes and refreshes overtake each other; a refresh replaces objects a handler still writes to; a late answer updates the wrong one | a tap changes its own product; Home does one change at a time and does not go below zero, unless My Profile lowers its spinner; every change reaches the badge; spinners end that the code does not leave up |
| Delivery | the spinner covers the first request of three; selection and list change at different answers; totals are asked for without a number | with no estimate under way, until something throws, the selection is one of the list and the last totals asked for are its; a spinner has a request behind it, and ends |
| Checkout | retry after a time-out, set-shipping of a screen that was left, unguarded registration, a web view that confirms whatever happened | a screen does one thing at a time; no order without a delivery of its screen, and none elsewhere than shown but after a refused or overtaken delivery |
| Addresses | a deletion lowers the spinner with its refresh under way; a change pops whatever is on top; screens left and reopened | the list is the server's when all is quiet; the default address is not deleted by mistake; no other screen is closed |
| Catalogue | answers without sequence numbers | the list shown is the one last asked for |

`PROJECT.json` lists the hazards one by one with their lines, and the properties
aimed at each.

## 2. Order of work

In order of importance; what is modelled is 1 to 8.

1. `Session`, `SessionProofs`: who is signed in. Everything else signs its
   requests with the token and quote id of this module.
2. `Cart`, `CartProofs`: what every screen believes about the cart.
3. `Shipping`, `ShippingProofs`: delivery and totals on the cart screen.
4. `Checkout`, `CheckoutProofs`: payment screen, order, gateway, web view,
   confirmation, with the list `Shipping` shares (an estimate may clear it under
   the payment screen) and a quote that a placed order uses up.
5. `CartStore`: an abstract specification (a cart, changes, a copy that may lag),
   and `Cart` as an implementation of it.
6. `CartLineProofs`: the refinement and `OwnLine` for every shop.
7. `AddressBook`, `AddressBookProofs`: the addresses the order may go to.
8. `CheckoutFlow`: an abstract specification of the checkout (what each screen
   goes through, a cart that is ordered once), and `CheckoutFlowProofs`, that
   `Checkout` implements it.
9. Not done: abstract specifications of `Session` and `Shipping`; pure helpers
   as functions checked against a definition (`onNewGetCountryListResponse`,
   `_getSpecialPrice`); the count-down of an OTP.

Constants are parameters with named assumptions, there is one action per
operation, and no module uses a `RECURSIVE` operator, so each may be proved
about.

## 3. Modules

### Session

| State | Code |
|---|---|
| `prefs` | `AppSharedPreference`: token, e-mail, password, quote id |
| `common` | `CommonNotifier._userToken`, `_quoteId`, `_userDetail` |
| `tokenfromotp` | the global of `otpverification.dart` |
| `routes` | the login screen at the bottom, the main screen, a login screen on top, the register screen on that |
| `flow` | the runs of `_onClickButtonLogIn` under way, with what each was sent with, the route whose context it holds, and what the text fields of its screen hold now |
| `logout` | the second half of `_clearUserCredential`, not awaited |
| `isLoading`, `adminToken` | `LoginNotifier` |
| `calls` | requests of the constructor and of Continue shopping |
| `otpVerified`, `retyped` | history: OTPs accepted on this device; whether text was changed by hand under a sign-in |

A token is the customer it was issued to, a quote id its owner. `Restart` may
happen anywhere; it keeps the preferences, of which the not awaited writes of a
logout may be missing from the last on (`Durable`). At a start with a saved
token Flutter builds the login screen *and* the main screen on it, and the
hidden login screen signs in by itself when a credential is saved
(`InitialFlows`). What a sign-in saves at its end is not what it was sent with
but what the two controllers hold by then (`CountriesReply`,
`login_screen.dart:481-482`): the spinner comes down in between, so that the
text may have been edited (`Edit`), and `checkAlreadyUserLoggedIn` fills the
fields from the preferences when the register screen, opened under the sign-in,
closes (`ReturnFromRegister`, which is not stopped by a spinner). So does the
text of a second sign-in of the same screen. A handler whose screen was popped
throws at its first use of the context; `at = "gone"` stands for that. Left out:
customer id, name, e-mail and mobile number stored for display; the login
screen's spinner of a popped screen is one with the next; an emptied text field,
with which nothing signs in.

### Cart

| State | Code |
|---|---|
| `server`, `nextId` | the Magento cart (external: `PUT`, `POST`, `DELETE`, `GET` as the app uses them) |
| `cache` | `CommonNotifier.cartListResponse`, `hmCartBasicInfo` |
| `item["home"]`, `item["list"]` | the `ItemProduct` objects shown |
| `lines` | `CartNotifier.lstCartResponse` |
| `hud` | `isLoading` of the three notifiers |
| `req` | requests in flight, each with the handler that awaits it |
| `seen` | history: the latest version the cache has held |
| `left` | history: the screens whose spinner the code has left up |
| `crossed` | history: My Profile's answer took the spinner off a request of Home |

`Parts` says what the customer uses besides Home: the product list, the cart
screen, My Profile, the hearts. Home's notifier is born loading
(`base_notifier.dart:13`) and nothing Home does by itself lowers it; its spinner
takes every tap until it is lowered, by the answer to
`callApiGetUserProfileDetail`. Only My Profile calls it, when the tab opens
(`my_profile_screen.dart:58-59`; the repeats after its sub-screens, lines 331 to
358, are left out, as a visit to Home and back asks again too), and the tab
(`main_screen.dart:162-163`) has the notifier of Home
(`main_screen.dart:45-47`). So `Init` has the spinner up or, where My Profile is
among the parts, down, for a customer who has been there; and a visit to My
Profile under a tap of Home takes the spinner off that tap (`crossed`). A heart
switched off asks for the wish list (`callApiGetWishList`,
`home_notifier.dart:354-359`), which raises the spinner and leaves it to a
removal that need not follow.

A request is sent by a tap or by the handler of another's reply, served in
`Serve`, gone wrong in `Fault`, and handled in `Reply`; each of these in any
order among requests. `live` is false once the screen's objects have been
rebuilt under the handler: it then writes where nobody looks, but still lowers
the Home spinner, whose notifier stays. A slot is kept free for the second
request a reply of the cart screen sends, so the bound delays no reply.

Simplified: simple products only, one object per product and screen (Home's
several carousels hold one each); the calls that refresh the profile picture and
basic information in the same handlers change none of this state and are left
out, as are the hearts themselves and the drawer's own list of categories. Of
the product list's two ways to get its products the one without a `try` is
modelled, in which an exception leaves the spinner up.

### Shipping

| State | Code |
|---|---|
| `methods`, `radio` | `lstShippingMethod`, `selectedRadioShippingMethod` |
| `stale` | the radio buttons still drawn of a list that was cleared |
| `totals`, `coupon` | `listTotalSegmentsModel`, `couponCode` |
| `hud`, `loading` | `isLoading`, `isLoadingCartTotalData` |
| `payment` | the payment screen, if open, and whether its list is still the cart screen's own |
| `applied` | whether the server has a coupon on the cart |
| `asked`, `thrown` | history: the method of the last request for totals; whether anything has thrown |

It begins where the constructor of `CartNotifier`, with cart and countries
loaded, makes its first estimate. An estimate is three requests (`formkeys`,
`login`, `estimate`) whose continuations are nested, not awaited past the first:
the spinner comes down after the first. The login's answer resets the selection,
the estimate's replaces the list and asks for totals, or clears it.
`lstShippingMethod.clear()` notifies nobody (`cart_notifier.dart:580`, `583`):
the old buttons (`Buttons`) can be tapped until the next assignment of any field
(`Redraw`), and such a tap selects a method that is gone and asks for the totals
of none. Amounts are abstracted to the method they were computed for. A change
of country or region makes the same estimate as the button; only the UAE is
offered, so regions are not distinguished. The cart never becomes empty (that
hides the card); its lines are module `Cart`. After the payment screen the code
only throws on arguments that are not there, outside any handler, so
`BackToCart` changes nothing else.

### Checkout

| State | Code |
|---|---|
| `route` | the routes above the cart screen: payment, addresses, web views, confirmation |
| `scr[n]` | the `PaymentNotifier` of the n-th payment screen: the shipping method it was handed (and whether the cart screen still has that list), the default addresses, `lstPaymentMethods`, `selectedRadioPaymentMethod`, `isLoading` |
| `quoteId` | `CommonNotifier().quoteId` |
| `srv` | the server's cart: its number, whether an order used it up, the delivery set on it |
| `default` | the default addresses the server has |
| `req` | requests in flight, with the screen whose handler awaits each |
| `orders`, `done` | history: what each order's screen showed and where it went; whether the server ever took a delivery of a screen and what became of the last |

A payment screen asks for the profile, then (`SetsShipping`) sends the default
addresses and its method, and lists the payment methods the answer has. Pay now
(`MayPay`) places the order; with the first method the order's answer starts the
gateway's registration, which runs under no spinner and opens the web view. A
request to pay carries the quote id and the payment method: the delivery is
whatever the server has. `EstimateAnswered` is the one thing the cart screen's
handlers do to a payment screen: its shared list is cleared, or the cart screen
gets a new one. Screens are left under their requests and opened again;
`OnScreen` says whether a handler's context still finds a navigator. A request
that timed out is out of the model: one that the server serves only after its
client gave up (`network_provider`, two minutes) is not modelled, here or in the
other modules.

### AddressBook

| State | Code |
|---|---|
| `server` | the Magento address book, its default address and the number of changes (external) |
| `route` | the address screen and the form on it |
| `scr[n]` | the `ManageOrderNotifier` of the n-th address screen: `userDetailByTokenResponse`, `selectedRadioAddress`, `isLoading` |
| `req` | requests in flight, with the screen whose handler awaits each |
| `threw`, `asked`, `newest`, `overtaken`, `mixed` | history: an exception, lists asked for and answered, answers out of order, changes that overlapped or were asked for from an old list |

`Deleted` is where the spinner fails: `callDeleteAddressAPI` asks for the list,
does not await it, and takes the spinner down that the request has just raised.
From there on two requests of one screen overlap. `UpdateReply` pops the route on
top on success and on any exception; if the form is on top, its end asks for the
list. The form itself can only be left: `AddAddressNotifier` is born with its
spinner up and only the save under it lowers it. An address is shown as default
by its shipping flag; billing flags are left out, so that `Delete` is offered
here where a default billing address would hide it.

### CartStore

What the badge promises, without requests or handlers: a cart that changes one
line at a time, lists of it under way, a copy that is replaced by one of them.
`Cart` maps to it (`Store == INSTANCE CartStore WITH store <- server, sent <-
Lists, copy <- cache`): serving a change is `Change`, serving a list `Take`, a
handler that fills the cache `Arrive`, a lost list `Lose`, all else a stutter.
`Lists` are the answers on their way to the cache.

### CheckoutFlow

What a checkout promises, without requests, spinners or routes: payment screens
that are opened one after the other, each of which is at one thing at a time
(`phase`), and a cart that an order uses up. Only the last screen starts
anything; only one of which the server took a delivery (`taken`) pays; what was
asked is acted on once at most, and only an answer lets the screen go on; after
an exception it is stuck. `Checkout` maps to it: `Phase(n)` is what the one
awaited request of screen *n* says, or its spinner when there is none; `cart` is
the server's, without the method and the address. Opening a screen is `Open`,
coming back from the addresses `Return`, the profile's handler `Asked`, serving
a delivery or a payment `Deliver`, `Order` or `Refuse`, a lost one `Refuse`, its
handler `Answered`; taps, estimates, the gateway's registration and an answer
that is lost after it was given are stutters.

## 4. Runs

| Run | Instance | Shows |
|---|---|---|
| `session` | two customers (a shop owner, one with an OTP), one sign-in at a time, two calls of the main screen, edited text, the register screen | all invariants of Session, of which `KeptCredential` says that what is kept for the next start is a shop owner's with the right password, until an OTP is accepted or text changed under a sign-in; `LogoutSticks`, `SignInEnds` |
| `session_otp` | both are shop owners | *violated*: a refused OTP signs nobody in |
| `session_group` | as `session` | *violated*: the main screen is for shop owners |
| `cart` | two products, three screens, My Profile, hearts, three requests in flight, refusals and exceptions | `OwnLine`; `HomeOneAtATime`, `HomeNotNegative`, until My Profile takes the spinner off a tap; `ImplementsStore`: the cache is always a whole cart the server had |
| `cart_live` | one product, cart screen, My Profile, hearts, refusals | `ChangeFetched`, `SpinnerEnds`, and their safety halves `EveryChangeFetched` (the newest version was fetched when nothing is in flight) and `SpinnerHasOwner` |
| `cart_count` | one product, the cart screen; Home's spinner up throughout | *violated*: with nothing under way the badge counts the server's cart |
| `cart_add` | one product, the product list, opened after My Profile lowered Home's spinner | *violated*: + never takes from the cart |
| `shipping` | lists of two methods and of one, two requests in flight, three taps, all faults | `LoadingHasOwner`, `HudHasOwner` (the spinner over the screen is one Boolean for every request of the tab), `AskedForSelection`, `SpinnersEnd` |
| `shipping_radio` | lists of two and of one | *violated*: the selection is one of the list |
| `checkout` | two payment screens, two methods, two addresses, two requests in flight, five taps, all faults | `OneAtATime`, `SpinnerHasOwner`, `DeliverySetFirst`, `MisdeliveryExplained`; `ImplementsFlow`: no cart is ordered twice, however often it is paid for |
| `checkout_delivery` | the same | *violated*: an order goes where its screen says |
| `address_book` | two address screens, two addresses, two requests in flight, five taps, all faults | `SpinnerHasOwner`, `ListIsCurrent`, `KeepsDefault`, `ClosedByItsOwn`, `SpinnersEnd` |

**Bounds.** `Flows` and `Slots` bound what is in flight at once, `MaxTaps` what
the customer does after the start, `MaxQty` the stock. `MaxCalls` bounds the
requests of Continue shopping. Two customers are enough to be mixed up, two
products likewise. Two sign-ins under way at once, each with its text, are too
many states for a run: in `session` the text changes under the one there is by
hand, and what the return from the register screen does to a sign-in under way
is left to the theorems, which hold for any number of `Flows`. Three slots let a
change, the refresh of an earlier one and a rebuild of the products overtake
each other, which is what the Cart properties turn on; the product list's +
sends three requests at once and its run has four. Three taps are, for example:
select, estimate, select while the estimate is under way; or change, leave, come
back. The stock of two makes one piece, more, and too many different. In
Shipping two slots are an estimate and totals, or two totals; a third adds only
another of the same. In Checkout and AddressBook two screens are one that was
left and the one now open, and two requests one of each, or, after a deletion, a
list and the next change; five taps let a customer tap, leave, come back and tap
again. Deadlock is not checked where `MaxTaps` bounds the run: the customer
stops tapping there. Products, slots and flows are interchangeable and symmetry
is used in runs of safety properties (the refinement of `CartStore` is one);
`shipping`, `address_book` and the other runs of liveness have none.

**Fairness.** Every request is answered, refused or given up: `NetworkProvider`
sets a time limit of two minutes on each, and the event loop runs the handler
that awaits it. So there is weak fairness on the step that gives a request its
outcome and on the one that handles it. The verification of an OTP is not such a
request but an `http.post` without a time limit (`otpverification.dart:43`):
nothing says that its answer comes, and `FairSpec` of Session has fairness on
the four replies after it only. Nothing is assumed of the customer. For
`SignInEnds`, which is about sign-ins whose login was sent, restarts must stop:
each one starts the saved credential's sign-in again. Exceptions do lock
screens in this code (a spinner raised, the line that lowers it skipped).
`SpinnersEnd` excuses them by `thrown` and, in AddressBook, `threw`; `cart_live`
leaves them out of `Faults`. `SpinnerEnds` also excuses, by `left`, the spinner
Home is born with and that of a heart whose product is not on the wish list.

**Violations.** Each of the six contradicts a message or a comment of the
source, quoted under "findings" in `PROJECT.json`.

## 5. Proofs

Assumed: the named assumptions on the constants, nothing else. What holds for
every number of customers, sign-ins, slots, taps, methods:

| Theorem | Argument |
|---|---|
| `SessionProofs!TypeCorrect` | `TypeOK` is not inductive: the handlers store a flow's customer and token, which an idle flow does not have. `StageOK` says at which `pc` they are there; `Inv`, their conjunction, is what all other proofs of the module start from |
| `IdentityCorrect` | two replies store a token: an accepted OTP, which is recorded, and the profile of a customer past the group check; every other step copies, removes or keeps one, a half-done logout at a crash included |
| `PasswordCorrect` | `Moved` bounds what one step may do to a flow: keep its customer and password, get its token only from `apiUserLogin`, pass to the quote only past the group check. Without a global token `apiUserLogin` returns the typed customer's. Only a restart clears the global, and no flow that survives it has a token |
| `QuoteCorrect` | one handler writes both copies; a restart blanks memory and keeps the file |
| `CredentialCorrect` | a credential is written by one handler, past the group check (lemma `GroupAlways`), with the text the fields hold by then. While no text is changed by hand that is what the sign-in was sent with, which `PasswordDecides` makes right, or the saved credential, which the return from the register screen put there and which is right already. Accepted OTPs are never forgotten (`OtpsStay`), so a step only has to be looked at where there is none after it |
| `LogoutCorrect` | an action property: of the steps possible with no sign-in under way none writes a token or a credential |
| `ShippingProofs!TypeCorrect` | the request built from list and selection is one (`BuiltRequest`), whatever the selection; the selection is a natural number, so that the guard of Proceed never closes |
| `LoadingCorrect`, `AskedCorrect` | one invariant, `TotalsInv`: types, that a failure has been counted in `thrown`, and the two properties, for lists of any length: a selection outside its list cannot be asked totals for without an exception, which is in `thrown` when it is. An estimate under way excuses the selection until it asks again |
| `HudCorrect` | `HudInv` is the property with `TotalsInv`, by which no answer before the first exception is a failure. A step that gives a slot to another request keeps the owner of the spinner, takes the spinner down or sends the next owner (`OwnerKept`) |
| `CartProofs!TypeCorrect` | the server looks up the product of a change: `Inv` adds to `TypeOK` that a request which changes the cart is about a product (`Sound`) |
| `HomeSerialised`, `HomeStaysCounted` | one invariant, `HomeInv`. That the quantity is not negative is not inductive, since three answers take one away. Added: a change made on Home asks for at least one piece, and while its handler holds the product shown, that product shows at least one; a rebuild of the products detaches the handlers under way. One change at a time is what keeps two answers from each taking the same piece, hence all of it (`Serial`) as long as My Profile has not taken the spinner off a tap |
| `CartStore!AlwaysConsistent` | versions: the server's grows with every change, so that a list of its version is its cart |
| `CartLineProofs!CartImplementsStore`, `BadgeConsistent` | each step of `Cart` is classified by what it does to server, lists and cache (`CachedAfter` is the one place that fills the cache); with `Store!AlwaysConsistent` the badge is consistent too |
| `OwnLines` | `OwnLine` is not inductive, since the id of a new line must be new. `IdInv` adds that every id held for a product, in server, cache, object, line or request, is below `nextId` (`Known`); a step holds an id for a product only if it was held for it before, or `ServePost` has just made it |
| `ChangesFetched` | `FetchInv`: nothing the app has seen is ahead of the server, and with nothing lost the newest version was seen or is still to come, by a change just answered, a list asked for and not served, or one served since (`ToCome`) |
| `SpinnersOwned` | `SpinInv` adds what makes the property inductive: only Home and the product list ask for products and the wish list, and with nothing lost no request fails but a change that is refused. The one answer that neither lowers the spinner nor sends the next request, a wish list without the product, puts its screen in `left` |
| `CheckoutProofs!TypeCorrect`, `ScreensSerialised`, `SpinnersOwned` | one invariant, `Serial`: the order of the routes (`Routes`), that requests come from screens that were opened, and the two properties. The tap that sends a request needs the spinner down, hence no awaited request of that screen; an answer either ends with the spinner or sends the next |
| `DeliveriesSetFirst`, `MisdeliveriesExplained` | `Delivery`: where payment methods are listed the server took a delivery of that screen (`Taken`); a screen whose last delivery was taken and not outdated shows what the server has (`ShownHeld`), so does a request to pay (`PaidHeld`). A delivery of another screen marks the rest overtaken |
| `CheckoutFlowProofs!CheckoutImplementsFlow` | with one awaited request at most (`Serial`) this request tells the phase of its screen, and without one the spinner does (`SerialTold`); a step in the life of a request moves its own screen alone (`Others`). That a paying screen was delivered is `Taken`, of `Delivery`. With a payment that is sent again after a time-out the step of its answer is none of the abstract ones |
| `AddressBookProofs!TypeCorrect`, `SpinnerOwned`, `ClosedOnlyByItsOwn` | `Inv` adds to the types that requests are of screens that were opened. An answer lowers the spinner, throws or sends the next request; a pop needs the context of the screen on top |
| `ListStaysCurrent` | `Counted` (no list answered that was not asked for; the last one asked for is answered or under way) and `Fresh`: the last list asked for has the book as it is, or a change of the open screen is under way whose answer asks again or closes the screen |
| `DefaultKept` | `Snapshots`: no list is newer than the book, and one of its version has its default. `Solo`: until something is mixed there is one change at a time and no deletion under way names the default |

Each module of proofs has a typing lemma per group of actions, one lemma per fact
about requests that several actions use, and one step per action.

Only model-checked: liveness (`SignInEnds`, `ChangeFetched`, `SpinnerEnds`, and
`SpinnersEnd` of Shipping and AddressBook), which this prover does not reach
under fairness. What makes them safe to rely on is proved: `EveryChangeFetched`
and `SpinnerHasOwner` for Cart, `LoadingHasOwner` and `HudHasOwner` for
Shipping, `SpinnerHasOwner` for AddressBook say that whenever something is due a
request that brings it is in flight; fairness adds only that requests are
answered. Every safety property a passing run checks is a theorem.

## 6. Not modelled

- *Catalogue, search, wish list, comparison.* Their screens show answers as they
  arrive, and keep marks on product objects that the next answer replaces, or
  remove by index after an await. No relation between the screen and the server
  holds of all their runs, and nothing in the repository states one; the races
  are listed as hazards. What the hearts do to a spinner is in Cart. Product
  detail adds to the cart as `Cart` does.
- *The form of an address*, of which nothing can be tapped (see AddressBook).
- *Forms, lists, saved cards, map*: one request and one form or list each.
- Layout, texts and JSON; the header map each repository shares among its
  requests (it is built and encoded into the request in one stretch, without an
  await in between, so no request sees another's).
- `payment_card_notifier1.dart`, the `_old`, `_dummy` and `_back_up` screens and
  `ui/test`, which nothing opens.
- The SDK, the platform projects, and all C and Objective-C code, vendored or
  generated.
