----------------------------- MODULE AddressBook ----------------------------
(***************************************************************************)
(* The addresses of the customer: the screen opened from the payment screen *)
(* and from the profile, its list, the radio buttons, Set as Default        *)
(* Address and Delete, and the server's address book, whose default address *)
(* is where the next order goes.                                            *)
(*                                                                          *)
(* The spinner is meant to allow one request at a time, but a deletion      *)
(* takes it down with the list it has just asked for still under way, and   *)
(* the arrow of the app bar works under it: requests overlap, on one screen *)
(* and between a screen that was left and the next.                         *)
(*                                                                          *)
(* The form for a new address or an edited one is only a route on top: its  *)
(* notifier is born with its spinner up and nothing but a save takes it     *)
(* down, so no button of the form can be tapped.  Default means the default *)
(* shipping address; the billing address never changes here.                *)
(***************************************************************************)
EXTENDS Integers, Sequences

CONSTANTS
    Addresses,  \* the ids of addresses
    NoAddress,  \* no default address
    Book,       \* the addresses the server has at first
    Slots,      \* requests in flight at once (a bound)
    Faults,     \* what may go wrong with a request: a subset of AllFaults
    MaxScreens, \* how often the screen is opened (a bound)
    MaxTaps     \* how often the customer does anything else (a bound)

\* "message": 401, no network, or an answer that says no; "null": another
\* status; "failed": a timeout, after the server did its part or before.
AllFaults == {"message", "null", "failed"}

ASSUME AddressBookAssumption ==
    /\ NoAddress \notin Addresses
    /\ Book \in Seq(Addresses)
    /\ Faults \subseteq AllFaults
    /\ MaxScreens \in Nat
    /\ MaxTaps \in Nat

VARIABLES
    server,  \* the address book of the server
    route,   \* whether the screen is open, and the form on it
    opened,  \* screens opened so far: the last one may be on top
    scr,     \* the ManageOrderNotifier of each of them
    req,     \* the requests in flight
    taps,    \* taps so far
    mixed    \* history: a change was asked for from an old list, or with another
             \* change under way

vars == <<server, route, opened, scr, req, taps, mixed>>

Screens == 1..MaxScreens
AnyAddress == Addresses \cup {NoAddress}

\* The version counts the changes.
Server == [book: Seq(Addresses), default: AnyAddress, version: Nat \ {0}]

\* userDetailByTokenResponse: null is no page, a refusal a page without addresses;
\* neither has a version.
Shown == [page: BOOLEAN, book: Seq(Addresses), default: AnyAddress, version: Nat]
NoPage == [page |-> FALSE, book |-> <<>>, default |-> NoAddress, version |-> 0]
EmptyPage == [NoPage EXCEPT !.page = TRUE]

\* radio: selectedRadioAddress, counted from 1, 0 for none.  threw: history, an
\* exception ended a handler.  asked, newest: history, how many lists were asked
\* for, the last of them that was answered.  overtaken: history, an answer came
\* after that of a later request, or a screen left before changed the book.
Screen == [shown: Shown, radio: Nat, isLoading: BOOLEAN, threw: BOOLEAN,
           asked: Nat, newest: Nat, overtaken: BOOLEAN]

Changes == {"update", "delete"}
Kinds == {"profile"} \cup Changes
Request == [kind: Kinds \cup {"free"}, screen: Nat, id: AnyAddress, nth: Nat,
            shown: Shown, res: {"sent", "ok"} \cup AllFaults]

Ask(kind, n, id, nth) ==
    [kind |-> kind, screen |-> n, id |-> id, nth |-> nth, shown |-> NoPage,
     res |-> "sent"]
NoRequest == Ask("free", 0, NoAddress, 0)

TypeOK ==
    /\ server \in Server
    /\ route \in [manage: BOOLEAN, form: BOOLEAN]
    /\ opened \in 0..MaxScreens
    /\ scr \in [Screens -> Screen]
    /\ req \in [Slots -> Request]
    /\ taps \in Nat
    /\ mixed \in BOOLEAN

Init ==
    /\ \E d \in AnyAddress :
           server = [book |-> Book, default |-> d, version |-> 1]
    /\ route = [manage |-> FALSE, form |-> FALSE]
    /\ opened = 0
    /\ scr = [n \in Screens |->
           [shown |-> NoPage, radio |-> 0, isLoading |-> FALSE, threw |-> FALSE,
            asked |-> 0, newest |-> 0, overtaken |-> FALSE]]
    /\ req = [s \in Slots |-> NoRequest]
    /\ taps = 0
    /\ mixed = FALSE

----------------------------------------------------------------------------
(* The customer *)

Tap == taps < MaxTaps /\ taps' = taps + 1

Send(r) == \E s \in Slots : req[s].kind = "free" /\ req' = [req EXCEPT ![s] = r]

\* callApiGetUserProfileDetail of screen n, up to its first await.
Refreshed(n) == [scr EXCEPT ![n].radio = 0, ![n].isLoading = TRUE, ![n].asked = @ + 1]
AskList(n) == Ask("profile", n, NoAddress, scr[n].asked + 1)

\* The constructor of the notifier asks for the list.
OpenManage ==
    /\ ~route.manage /\ opened < MaxScreens
    /\ opened' = opened + 1
    /\ route' = [route EXCEPT !.manage = TRUE]
    /\ scr' = Refreshed(opened + 1)
    /\ Send(AskList(opened + 1))
    /\ UNCHANGED <<server, taps, mixed>>

\* The arrow of the app bar, or the button of the device.
LeaveManage ==
    /\ Tap /\ route.manage /\ ~route.form
    /\ route' = [route EXCEPT !.manage = FALSE]
    /\ UNCHANGED <<server, opened, scr, req, mixed>>

\* The page is there, and no spinner over it.
Tappable ==
    /\ route.manage /\ ~route.form
    /\ ~scr[opened].isLoading /\ scr[opened].shown.page

\* Add New Address, or Edit on one of the list.
OpenForm ==
    /\ Tap /\ Tappable
    /\ route' = [route EXCEPT !.form = TRUE]
    /\ UNCHANGED <<server, opened, scr, req, mixed>>

\* Left with null, which asks for nothing.
LeaveForm ==
    /\ Tap /\ route.form
    /\ route' = [route EXCEPT !.form = FALSE]
    /\ UNCHANGED <<server, opened, scr, req, mixed>>

onClickAddressSelect(i) ==
    /\ Tap /\ Tappable
    /\ i \in 1 .. Len(scr[opened].shown.book) /\ i # scr[opened].radio
    /\ scr' = [scr EXCEPT ![opened].radio = i]
    /\ UNCHANGED <<server, route, opened, req, mixed>>

\* history
Mixed ==
    \/ mixed
    \/ scr[opened].shown.version # server.version
    \/ \E s \in Slots : req[s].kind \in Changes

Change(kind, id) ==
    /\ scr' = [scr EXCEPT ![opened].isLoading = TRUE]
    /\ Send(Ask(kind, opened, id, 0))
    /\ mixed' = Mixed
    /\ UNCHANGED <<server, route, opened>>

\* Mutant: no exception for the default address.
DeleteForAll(d) == {}

\* _manageAddress: an address shown as the default has no Delete.
NoDelete(d) == {d}

callDeleteAddressAPI(i) ==
    LET shown == scr[opened].shown
    IN  /\ Tap /\ Tappable
        /\ i \in 1 .. Len(shown.book)
        /\ shown.book[i] \notin NoDelete(shown.default)
        /\ Change("delete", shown.book[i])

\* Set as Default Address, on an address that is not: the selection is a place
\* in the list now shown, and throws outside it.
callUpdateAddress ==
    LET shown == scr[opened].shown
        i == scr[opened].radio
    IN  /\ Tap /\ Tappable
        /\ i \in 1 .. Len(shown.book) /\ shown.book[i] # shown.default
        /\ Change("update", shown.book[i])

----------------------------------------------------------------------------
(* The server and the network *)

Answer(s, r) == req' = [req EXCEPT ![s] = r]

Places(id) == {i \in 1 .. Len(server.book) : server.book[i] = id}

\* The book without its i-th address.
Without(i) ==
    [j \in 1 .. Len(server.book) - 1 |-> server.book[IF j < i THEN j ELSE j + 1]]

ServeProfile(s) ==
    /\ req[s].kind = "profile"
    /\ Answer(s, [req[s] EXCEPT !.res = "ok", !.shown =
           [page |-> TRUE, book |-> server.book, default |-> server.default,
            version |-> server.version]])
    /\ UNCHANGED <<server, scr>>

\* history: a change that a screen left before asked for overtakes the list of
\* the one now open.
Changed(n) == IF n = opened \/ opened = 0 THEN scr
              ELSE [scr EXCEPT ![opened].overtaken = TRUE]

ServeUpdate(s) ==
    LET r == req[s]
    IN  /\ r.kind = "update" /\ Places(r.id) # {}
        /\ server' = [server EXCEPT !.default = r.id, !.version = @ + 1]
        /\ Answer(s, [r EXCEPT !.res = "ok"])
        /\ scr' = Changed(r.screen)

ServeDelete(s) ==
    LET r == req[s]
    IN  /\ r.kind = "delete"
        /\ \E i \in Places(r.id) :
               server' = [book |-> Without(i),
                          default |-> IF server.default = r.id THEN NoAddress
                                      ELSE server.default,
                          version |-> server.version + 1]
        /\ Answer(s, [r EXCEPT !.res = "ok"])
        /\ scr' = Changed(r.screen)

\* There is no such address any more.
ServeNot(s) ==
    /\ req[s].kind \in Changes /\ Places(req[s].id) = {}
    /\ Answer(s, [req[s] EXCEPT !.res = "message"])
    /\ UNCHANGED <<server, scr>>

Serve(s) ==
    /\ req[s].res = "sent"
    /\ ServeProfile(s) \/ ServeUpdate(s) \/ ServeDelete(s) \/ ServeNot(s)
    /\ UNCHANGED <<route, opened, taps, mixed>>

\* Refused or lost on the way, or the answer lost.
Fault(s) ==
    /\ req[s].kind # "free"
    /\ \E f \in Faults :
           /\ req[s].res = "sent" \/ (req[s].res = "ok" /\ f = "failed")
           /\ Answer(s, [req[s] EXCEPT !.res = f])
    /\ UNCHANGED <<server, route, opened, scr, taps, mixed>>

----------------------------------------------------------------------------
(* The handlers of the answers *)

\* Mutant: no list, no record.
ReceivedOrNothing(r) == IF r.res = "ok" THEN r.shown ELSE NoAddress

\* What became of the list: a refusal has no addresses, and any other failure no
\* page (apiGetUserDetailByToken).
Received(r) == IF r.res = "ok" THEN r.shown
               ELSE IF r.res = "message" THEN EmptyPage ELSE NoPage

\* Mutant: an answer without a list keeps the spinner up.
LoadedIfAny(r) == r.res \notin {"ok", "message"}

\* The spinner after the answer: it goes down for whatever else is under way.
LoadingAfterList(r) == FALSE

ProfileReply(s) ==
    LET r == req[s]
        n == r.screen
    IN  /\ r.kind = "profile"
        /\ scr' = [scr EXCEPT
               ![n].shown = Received(r),
               ![n].isLoading = LoadingAfterList(r),
               ![n].overtaken = @ \/ r.nth < scr[n].newest,
               ![n].newest = IF r.nth < @ THEN @ ELSE r.nth]
        /\ Answer(s, NoRequest)
        /\ UNCHANGED route

\* Mutant: the list is asked for only by Set as Default Address.
DeletedQuietly(s, n) ==
    /\ scr' = [scr EXCEPT ![n].isLoading = FALSE]
    /\ Answer(s, NoRequest)

\* The list is asked for and not awaited: the spinner it raised goes down with
\* the deletion's.
Deleted(s, n) ==
    /\ scr' = [Refreshed(n) EXCEPT ![n].isLoading = FALSE]
    /\ Answer(s, AskList(n))

\* A timeout throws under the spinner.
DeleteReply(s) ==
    LET r == req[s]
        n == r.screen
    IN  /\ r.kind = "delete"
        /\ \/ r.res = "ok" /\ Deleted(s, n)
           \/ /\ r.res # "ok"
              /\ scr' = [scr EXCEPT ![n].isLoading = r.res = "failed",
                                    ![n].threw = @ \/ r.res = "failed"]
              /\ Answer(s, NoRequest)
        /\ UNCHANGED route

\* Mutant: whatever is open.
AnyScreen(n) == route.manage

\* The context of the notifier: of a screen that was left it finds no navigator.
OnScreen(n) == route.manage /\ n = opened

\* Done, or any failure but a refusal: the route on top is popped.  That may be
\* the form, whose end has the list asked for.  A popped screen's handler throws.
UpdateReply(s) ==
    LET r == req[s]
        n == r.screen
    IN  /\ r.kind = "update"
        /\ \/ /\ r.res = "message"
              /\ scr' = [scr EXCEPT ![n].isLoading = FALSE]
              /\ Answer(s, NoRequest)
              /\ UNCHANGED route
           \/ /\ r.res # "message" /\ ~OnScreen(n)
              /\ scr' = [scr EXCEPT ![n].threw = TRUE]
              /\ Answer(s, NoRequest)
              /\ UNCHANGED route
           \/ /\ r.res # "message" /\ OnScreen(n) /\ route.form
              /\ scr' = Refreshed(opened)
              /\ Answer(s, AskList(opened))
              /\ route' = [route EXCEPT !.form = FALSE]
           \/ /\ r.res # "message" /\ OnScreen(n) /\ ~route.form
              /\ scr' = [scr EXCEPT ![n].isLoading = FALSE]
              /\ Answer(s, NoRequest)
              /\ route' = [route EXCEPT !.manage = FALSE]

Reply(s) ==
    /\ req[s].res # "sent"
    /\ ProfileReply(s) \/ DeleteReply(s) \/ UpdateReply(s)
    /\ UNCHANGED <<server, opened, taps, mixed>>

----------------------------------------------------------------------------

Next ==
    \/ OpenManage \/ LeaveManage \/ OpenForm \/ LeaveForm
    \/ \E i \in 1 .. Len(Book) : onClickAddressSelect(i) \/ callDeleteAddressAPI(i)
    \/ callUpdateAddress
    \/ \E s \in Slots : Serve(s) \/ Fault(s) \/ Reply(s)

Spec == Init /\ [][Next]_vars

\* NetworkProvider gives every request a time limit, so each one gets an answer
\* or a fault, and the event loop runs the handler that awaits it.
FairSpec ==
    /\ Spec
    /\ \A s \in Slots : WF_vars(Serve(s) \/ Fault(s)) /\ WF_vars(Reply(s))

----------------------------------------------------------------------------
(* Properties *)

Owned(n) == \E s \in Slots : req[s].kind # "free" /\ req[s].screen = n

\* The spinner of a screen never waits for nothing: something of the screen is
\* under way, or an exception ended one of its handlers, although lists take the
\* spinner down for changes and changes pop the form (callUpdateAddress,
\* callDeleteAddressAPI).
SpinnerHasOwner ==
    \A n \in Screens : scr[n].isLoading /\ ~scr[n].threw => Owned(n)

\* When nothing is under way the open screen shows the server's address book,
\* unless an older list arrived last or a screen left before changed the book:
\* every change is followed by a list asked for after it, or closes the screen
\* (callApiGetUserProfileDetail after a deletion and after the form).
ListIsCurrent ==
    LET n == opened
    IN  /\ route.manage
        /\ \A s \in Slots : req[s].kind = "free"
        /\ ~scr[n].threw /\ ~scr[n].overtaken
        => scr[n].shown.version \in {0, server.version}

\* A customer who has a default address loses it only by changes that overlap or
\* were asked for from an old list: the list hides Delete for the address it
\* shows as the default, which is not always the default when the deletion is
\* served (_manageAddress).
KeepsDefault ==
    [][server.default # NoAddress /\ server'.default = NoAddress => mixed]_vars

\* A screen is closed by the customer or by the answer to a change of its own,
\* never by that of a screen left before (Navigator.pop in callUpdateAddress).
ClosedByItsOwn ==
    [][route.manage /\ ~route'.manage =>
        \/ taps' # taps
        \/ \E s \in Slots : /\ req[s].kind = "update" /\ req[s].screen = opened
                            /\ req'[s] # req[s]]_vars

\* Every spinner comes down again, unless an exception ended a handler.
SpinnersEnd ==
    \A n \in Screens : scr[n].isLoading ~> (~scr[n].isLoading \/ scr[n].threw)
=============================================================================
