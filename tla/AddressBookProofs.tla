-------------------------- MODULE AddressBookProofs -------------------------
(***************************************************************************)
(* Proofs about AddressBook, for any number of screens, requests in flight  *)
(* and addresses: what the run checks on two of each holds of all.          *)
(***************************************************************************)
EXTENDS AddressBook, TLAPS

----------------------------------------------------------------------------
(* Types, and where requests and routes may be *)

\* A request is of a screen that was opened; a route is open over those below.
Placed ==
    /\ \A s \in Slots : req[s].kind # "free" => req[s].screen \in 1..opened
    /\ route.manage => opened >= 1
    /\ route.form => route.manage

Inv == TypeOK /\ Placed

LEMMA Asked ==
    ASSUME NEW k \in Kinds \cup {"free"}, NEW n \in Nat, NEW a \in AnyAddress,
           NEW q \in Nat
    PROVE  /\ Ask(k, n, a, q) \in Request
           /\ Ask(k, n, a, q).kind = k
           /\ Ask(k, n, a, q).screen = n
           /\ Ask(k, n, a, q).id = a
           /\ Ask(k, n, a, q).nth = q
           /\ Ask(k, n, a, q).res = "sent"
           /\ Ask(k, n, a, q).shown = NoPage
<1>1. NoPage \in Shown
  BY DEF NoPage, Shown, AnyAddress
<1> QED
  BY <1>1 DEF Ask, Request, AllFaults

LEMMA Nothing ==
    NoRequest \in Request /\ NoRequest.kind = "free" /\ NoRequest.shown = NoPage
<1>1. 0 \in Nat /\ NoAddress \in AnyAddress
  BY DEF AnyAddress
<1> QED
  BY <1>1, Asked DEF NoRequest

LEMMA Pages ==
    /\ NoPage \in Shown /\ NoPage.version = 0
    /\ EmptyPage \in Shown /\ EmptyPage.version = 0
<1>1. NoPage \in Shown /\ NoPage.version = 0
  BY DEF NoPage, Shown, AnyAddress
<1>2. EmptyPage \in Shown /\ EmptyPage.version = NoPage.version
  BY <1>1 DEF EmptyPage, Shown
<1> QED
  BY <1>1, <1>2

\* A screen whose list is asked for once more.
LEMMA Again ==
    ASSUME TypeOK, NEW n \in Screens
    PROVE  /\ Refreshed(n) \in [Screens -> Screen]
           /\ Refreshed(n)[n] = [scr[n] EXCEPT !.radio = 0, !.isLoading = TRUE,
                                               !.asked = scr[n].asked + 1]
           /\ \A m \in Screens \ {n} : Refreshed(n)[m] = scr[m]
           /\ AskList(n) \in Request
           /\ AskList(n).kind = "profile" /\ AskList(n).screen = n
           /\ AskList(n).nth = scr[n].asked + 1 /\ AskList(n).res = "sent"
           /\ AskList(n).shown = NoPage
<1>1. [scr[n] EXCEPT !.radio = 0, !.isLoading = TRUE, !.asked = scr[n].asked + 1]
          \in Screen
  <2>1. scr[n] \in Screen /\ scr[n].asked + 1 \in Nat /\ 0 \in Nat
    BY DEF TypeOK, Screen
  <2> QED
    BY <2>1 DEF Screen
<1>2. Refreshed(n) =
          [scr EXCEPT ![n] = [scr[n] EXCEPT !.radio = 0, !.isLoading = TRUE,
                                            !.asked = scr[n].asked + 1]]
  BY DEF Refreshed, TypeOK, Screen
<1>3. n \in Nat /\ scr[n].asked + 1 \in Nat /\ NoAddress \in AnyAddress
  BY DEF TypeOK, Screen, Screens, AnyAddress
<1>4. "profile" \in Kinds \cup {"free"}
  BY DEF Kinds
<1>5. /\ AskList(n) \in Request
      /\ AskList(n).kind = "profile" /\ AskList(n).screen = n
      /\ AskList(n).nth = scr[n].asked + 1 /\ AskList(n).res = "sent"
      /\ AskList(n).shown = NoPage
  BY <1>3, <1>4, Asked DEF AskList
<1> QED
  BY <1>1, <1>2, <1>5 DEF TypeOK

LEMMA InvInit == Init => Inv
<1> SUFFICES ASSUME Init PROVE Inv
  OBVIOUS
<1>1. NoAddress \in AnyAddress
  BY DEF AnyAddress
<1>2. [shown |-> NoPage, radio |-> 0, isLoading |-> FALSE, threw |-> FALSE,
       asked |-> 0, newest |-> 0, overtaken |-> FALSE] \in Screen
  BY Pages DEF Screen
<1>3. scr \in [Screens -> Screen]
  BY <1>2 DEF Init
<1>4. server \in Server
  BY AddressBookAssumption DEF Init, Server, AddressBookAssumption
<1>5. opened \in 0..MaxScreens
  BY AddressBookAssumption DEF Init, AddressBookAssumption
<1>6. req \in [Slots -> Request] /\ \A s \in Slots : req[s].kind = "free"
  BY Nothing DEF Init
<1> QED
  BY <1>3, <1>4, <1>5, <1>6 DEF Init, Inv, TypeOK, Placed

LEMMA InvOpen ==
    ASSUME Inv, OpenManage
    PROVE  Inv'
<1>1. opened + 1 \in Screens /\ opened' \in 0..MaxScreens
  BY AddressBookAssumption
     DEF OpenManage, Inv, TypeOK, Screens, AddressBookAssumption
<1>8. /\ Refreshed(opened + 1) \in [Screens -> Screen]
      /\ AskList(opened + 1) \in Request
      /\ AskList(opened + 1).screen = opened + 1
  BY <1>1, Again DEF Inv
<1>2. scr' \in [Screens -> Screen]
  BY <1>8 DEF OpenManage
<1>3. req' \in [Slots -> Request]
  BY <1>8 DEF OpenManage, Send, Inv, TypeOK
<1>4. route' \in [manage: BOOLEAN, form: BOOLEAN] /\ route'.manage
  BY DEF OpenManage, Inv, TypeOK
<1>5. \A s \in Slots : req'[s].kind # "free" => req'[s].screen \in 1..opened'
  BY <1>1, <1>8 DEF OpenManage, Send, Inv, TypeOK, Placed, Screens
<1>6. opened' >= 1
  BY DEF OpenManage, Inv, TypeOK
<1>7. server' = server /\ taps' = taps /\ mixed' = mixed
  BY DEF OpenManage
<1> QED
  BY <1>2, <1>3, <1>4, <1>5, <1>6, <1>7, <1>1 DEF Inv, TypeOK, Placed

LEMMA InvWalk ==
    ASSUME Inv, LeaveManage \/ OpenForm \/ LeaveForm
    PROVE  Inv'
<1>1. /\ server' = server /\ opened' = opened /\ scr' = scr /\ req' = req
      /\ mixed' = mixed /\ taps' = taps + 1
  BY DEF LeaveManage, OpenForm, LeaveForm, Tap
<1>2. /\ route' \in [manage: BOOLEAN, form: BOOLEAN]
      /\ route'.manage => opened >= 1
      /\ route'.form => route'.manage
  <2>1. CASE LeaveManage
    BY <2>1 DEF LeaveManage, Inv, TypeOK, Placed
  <2>2. CASE OpenForm
    BY <2>2 DEF OpenForm, Tappable, Inv, TypeOK, Placed
  <2>3. CASE LeaveForm
    BY <2>3 DEF LeaveForm, Inv, TypeOK, Placed
  <2> QED
    BY <2>1, <2>2, <2>3
<1> QED
  BY <1>1, <1>2 DEF Inv, TypeOK, Placed

\* A page that can be tapped is of one of the screens.
LEMMA OnOpened ==
    ASSUME Inv, route.manage
    PROVE  opened \in Screens /\ opened \in 1..opened
BY AddressBookAssumption DEF Inv, TypeOK, Placed, Screens, AddressBookAssumption

LEMMA InvSelect ==
    ASSUME Inv, NEW i \in 1 .. Len(Book), onClickAddressSelect(i)
    PROVE  Inv'
<1>1. opened \in Screens
  BY OnOpened DEF onClickAddressSelect, Tappable
<1>2. [scr[opened] EXCEPT !.radio = i] \in Screen
  <2>1. scr[opened] \in Screen /\ i \in Nat
    BY <1>1, AddressBookAssumption DEF Inv, TypeOK, AddressBookAssumption
  <2> QED
    BY <2>1 DEF Screen
<1>3. scr' = [scr EXCEPT ![opened] = [scr[opened] EXCEPT !.radio = i]]
  BY DEF onClickAddressSelect
<1>4. scr' \in [Screens -> Screen]
  BY <1>1, <1>2, <1>3 DEF Inv, TypeOK
<1> QED
  BY <1>4 DEF onClickAddressSelect, Tap, Inv, TypeOK, Placed

\* A change is asked for on the open screen.
LEMMA InvChange ==
    ASSUME Inv, NEW k \in Changes, NEW a \in AnyAddress, Tappable, Tap, Change(k, a)
    PROVE  Inv'
<1>1. opened \in Screens /\ opened \in 1..opened /\ opened \in Nat
  BY OnOpened DEF Tappable, Screens
<1>2. [scr[opened] EXCEPT !.isLoading = TRUE] \in Screen
  BY <1>1 DEF Inv, TypeOK, Screen
<1>3. scr' = [scr EXCEPT ![opened] = [scr[opened] EXCEPT !.isLoading = TRUE]]
  BY DEF Change
<1>4. scr' \in [Screens -> Screen]
  BY <1>1, <1>2, <1>3 DEF Inv, TypeOK
<1>5. /\ Ask(k, opened, a, 0) \in Request
      /\ Ask(k, opened, a, 0).screen = opened
  BY <1>1, Asked DEF Kinds, Changes
<1>6. req' \in [Slots -> Request]
  BY <1>5 DEF Change, Send, Inv, TypeOK
<1>7. \A s \in Slots : req'[s].kind # "free" => req'[s].screen \in 1..opened
  BY <1>1, <1>5 DEF Change, Send, Inv, TypeOK, Placed
<1>8. mixed' \in BOOLEAN
  BY DEF Change, Mixed, Inv, TypeOK
<1> QED
  BY <1>4, <1>6, <1>7, <1>8 DEF Change, Tap, Inv, TypeOK, Placed

\* A book that loses one of its addresses is one.
LEMMA WithoutOne ==
    ASSUME TypeOK, NEW id, NEW i \in Places(id)
    PROVE  Without(i) \in Seq(Addresses)
<1>1. /\ server.book \in Seq(Addresses)
      /\ i \in 1 .. Len(server.book)
  BY DEF TypeOK, Server, Places
<1>2. Len(server.book) - 1 \in Nat
  BY <1>1
<1>3. Without(i) \in [1 .. Len(server.book) - 1 -> Addresses]
  BY <1>1 DEF Without
<1> QED
  BY <1>2, <1>3

\* What is served is answered, the request otherwise as it was; the screens only
\* remember that they were overtaken.
LEMMA Served ==
    ASSUME TypeOK, NEW s \in Slots, Serve(s)
    PROVE  /\ server' \in Server
           /\ scr' \in [Screens -> Screen]
           /\ \A m \in Screens :
                  scr'[m] \in {scr[m], [scr[m] EXCEPT !.overtaken = TRUE]}
           /\ req' \in [Slots -> Request]
           /\ \A t \in Slots \ {s} : req'[t] = req[t]
           /\ req'[s].kind = req[s].kind /\ req'[s].screen = req[s].screen
           /\ req'[s].id = req[s].id /\ req'[s].nth = req[s].nth
           /\ req'[s].res \in {"ok", "message"}
<1> DEFINE r == req[s]
<1>1. r \in Request /\ req \in [Slots -> Request] /\ server \in Server
  BY DEF TypeOK
<1>2. ASSUME NEW n
      PROVE  /\ Changed(n) \in [Screens -> Screen]
             /\ \A m \in Screens :
                    Changed(n)[m] \in {scr[m], [scr[m] EXCEPT !.overtaken = TRUE]}
  <2>1. \A m \in Screens : [scr[m] EXCEPT !.overtaken = TRUE] \in Screen
    BY DEF TypeOK, Screen
  <2>2. Changed(n) \in
            {scr, [scr EXCEPT ![opened] = [scr[opened] EXCEPT !.overtaken = TRUE]]}
    BY DEF Changed
  <2> QED
    BY <2>1, <2>2 DEF TypeOK
<1>3. CASE ServeProfile(s)
  <2> DEFINE p == [page |-> TRUE, book |-> server.book, default |-> server.default,
                   version |-> server.version]
  <2>1. p \in Shown
    BY <1>1 DEF Shown, Server
  <2>2. [r EXCEPT !.res = "ok", !.shown = p] \in Request
    BY <1>1, <2>1 DEF Request
  <2>3. req' = [req EXCEPT ![s] = [r EXCEPT !.res = "ok", !.shown = p]]
    BY <1>3 DEF ServeProfile, Answer
  <2>4. server' = server /\ scr' = scr
    BY <1>3 DEF ServeProfile
  <2> HIDE DEF p
  <2> QED
    BY <1>1, <2>2, <2>3, <2>4 DEF TypeOK, Request
<1>4. ASSUME NEW f \in {"ok", "message"}, Answer(s, [r EXCEPT !.res = f])
      PROVE  /\ req' \in [Slots -> Request]
             /\ \A t \in Slots \ {s} : req'[t] = req[t]
             /\ req'[s].kind = r.kind /\ req'[s].screen = r.screen
             /\ req'[s].id = r.id /\ req'[s].nth = r.nth
             /\ req'[s].res = f
  <2>1. [r EXCEPT !.res = f] \in Request
    BY <1>1, <1>4 DEF Request, AllFaults
  <2> QED
    BY <1>1, <1>4, <2>1 DEF Answer, Request
<1>5. CASE ServeUpdate(s)
  <2>1. server' = [server EXCEPT !.default = r.id, !.version = @ + 1]
        /\ scr' = Changed(r.screen) /\ Answer(s, [r EXCEPT !.res = "ok"])
    BY <1>5 DEF ServeUpdate
  <2>2. server' \in Server
    <3>1. r.id \in AnyAddress
      BY <1>1 DEF Request
    <3>2. server.version + 1 \in Nat \ {0}
      BY <1>1 DEF Server
    <3> QED
      BY <1>1, <2>1, <3>1, <3>2 DEF Server
  <2> HIDE DEF r
  <2> QED
    BY <1>2, <1>4, <2>1, <2>2 DEF r
<1>6. CASE ServeDelete(s)
  <2>1. PICK i \in Places(r.id) :
               server' = [book |-> Without(i),
                          default |-> IF server.default = r.id THEN NoAddress
                                      ELSE server.default,
                          version |-> server.version + 1]
    BY <1>6 DEF ServeDelete
  <2>2. Without(i) \in Seq(Addresses)
    BY <2>1, WithoutOne
  <2>3. server' \in Server
    BY <1>1, <2>1, <2>2 DEF Server, AnyAddress
  <2>4. scr' = Changed(r.screen) /\ Answer(s, [r EXCEPT !.res = "ok"])
    BY <1>6 DEF ServeDelete
  <2> HIDE DEF r
  <2> QED
    BY <1>2, <1>4, <2>3, <2>4 DEF r
<1>7. CASE ServeNot(s)
  <2>1. server' = server /\ scr' = scr /\ Answer(s, [r EXCEPT !.res = "message"])
    BY <1>7 DEF ServeNot
  <2> HIDE DEF r
  <2> QED
    BY <1>1, <1>4, <2>1 DEF r, TypeOK
<1> QED
  BY <1>3, <1>5, <1>6, <1>7 DEF Serve

LEMMA InvServe ==
    ASSUME Inv, NEW s \in Slots, Serve(s)
    PROVE  Inv'
<1>1. route' = route /\ opened' = opened /\ taps' = taps /\ mixed' = mixed
  BY DEF Serve
<1>2. TypeOK
  BY DEF Inv
<1>3. TypeOK'
  BY <1>1, <1>2, Served DEF TypeOK
<1>4. Placed'
  BY <1>1, <1>2, Served DEF Inv, Placed
<1> QED
  BY <1>3, <1>4 DEF Inv

\* A fault changes what became of a request and nothing else.
LEMMA Failed ==
    ASSUME TypeOK, NEW s \in Slots, Fault(s)
    PROVE  /\ req' \in [Slots -> Request]
           /\ \A t \in Slots \ {s} : req'[t] = req[t]
           /\ req'[s].kind = req[s].kind /\ req'[s].screen = req[s].screen
           /\ req'[s].id = req[s].id /\ req'[s].nth = req[s].nth
           /\ req'[s].shown = req[s].shown
           /\ req'[s].res \in AllFaults
           /\ req[s].res = "sent" \/ (req[s].res = "ok" /\ req'[s].res = "failed")
<1>1. PICK f \in Faults :
          /\ req[s].res = "sent" \/ (req[s].res = "ok" /\ f = "failed")
          /\ Answer(s, [req[s] EXCEPT !.res = f])
  BY DEF Fault
<1>2. req[s] \in Request /\ req \in [Slots -> Request] /\ f \in AllFaults
  BY AddressBookAssumption DEF TypeOK, AddressBookAssumption
<1>3. [req[s] EXCEPT !.res = f] \in Request
  BY <1>2 DEF Request, AllFaults
<1> QED
  BY <1>1, <1>2, <1>3 DEF Answer, Request

LEMMA InvFault ==
    ASSUME Inv, NEW s \in Slots, Fault(s)
    PROVE  Inv'
<1>1. /\ server' = server /\ route' = route /\ opened' = opened /\ scr' = scr
      /\ taps' = taps /\ mixed' = mixed
  BY DEF Fault
<1>2. TypeOK
  BY DEF Inv
<1>3. TypeOK'
  BY <1>1, <1>2, Failed DEF TypeOK
<1>4. Placed'
  BY <1>1, <1>2, Failed DEF Inv, Placed
<1> QED
  BY <1>3, <1>4 DEF Inv

----------------------------------------------------------------------------
(* What a handler does *)

\* The screen of a request that is under way.
LEMMA ItsScreen ==
    ASSUME Inv, NEW s \in Slots, req[s].kind # "free"
    PROVE  req[s].screen \in Screens /\ req[s].screen \in 1..opened
BY AddressBookAssumption DEF Inv, TypeOK, Placed, Screens, AddressBookAssumption

LEMMA ListAnswered ==
    ASSUME Inv, NEW s \in Slots, ProfileReply(s)
    PROVE  LET r == req[s]
               n == r.screen
           IN  /\ r.kind = "profile" /\ n \in Screens
               /\ scr' \in [Screens -> Screen]
               /\ \A m \in Screens \ {n} : scr'[m] = scr[m]
               /\ scr'[n].shown = Received(r) /\ ~scr'[n].isLoading
               /\ scr'[n].threw = scr[n].threw /\ scr'[n].asked = scr[n].asked
               /\ scr'[n].overtaken = (scr[n].overtaken \/ r.nth < scr[n].newest)
               /\ scr'[n].newest = (IF r.nth < scr[n].newest THEN scr[n].newest
                                    ELSE r.nth)
               /\ req' = [req EXCEPT ![s] = NoRequest]
               /\ route' = route
<1> DEFINE r == req[s]
           n == r.screen
           S == [scr[n] EXCEPT
                     !.shown = Received(r), !.isLoading = FALSE,
                     !.overtaken = scr[n].overtaken \/ r.nth < scr[n].newest,
                     !.newest = IF r.nth < scr[n].newest THEN scr[n].newest
                                ELSE r.nth]
<1>1. r.kind = "profile" /\ n \in Screens
  BY ItsScreen DEF ProfileReply
<1>2. scr \in [Screens -> Screen] /\ req \in [Slots -> Request] /\ scr[n] \in Screen
  BY <1>1 DEF Inv, TypeOK
<1>3. r.shown \in Shown /\ r.nth \in Nat
  BY <1>2 DEF Request
<1>4. Received(r) \in Shown
  BY <1>3, Pages DEF Received
<1>5. scr' = [scr EXCEPT ![n] = S]
  BY <1>2 DEF ProfileReply, LoadingAfterList, Screen
<1>6. S \in Screen
  BY <1>2, <1>3, <1>4 DEF Screen
<1>7. /\ S.shown = Received(r) /\ ~S.isLoading
      /\ S.threw = scr[n].threw /\ S.asked = scr[n].asked
      /\ S.overtaken = (scr[n].overtaken \/ r.nth < scr[n].newest)
      /\ S.newest = (IF r.nth < scr[n].newest THEN scr[n].newest ELSE r.nth)
  BY <1>2 DEF Screen
<1>8. req' = [req EXCEPT ![s] = NoRequest] /\ route' = route
  BY DEF ProfileReply, Answer
<1> HIDE DEF S
<1> QED
  BY <1>1, <1>2, <1>5, <1>6, <1>7, <1>8

\* A screen whose handler ends: only the spinner and the exception.
LEMMA Ended ==
    ASSUME TypeOK, NEW n \in Screens, NEW l \in BOOLEAN, NEW e \in BOOLEAN,
           scr' = [scr EXCEPT ![n].isLoading = l, ![n].threw = e]
    PROVE  /\ scr' \in [Screens -> Screen]
           /\ \A m \in Screens \ {n} : scr'[m] = scr[m]
           /\ scr'[n].shown = scr[n].shown /\ scr'[n].isLoading = l
           /\ scr'[n].threw = e
           /\ scr'[n].asked = scr[n].asked /\ scr'[n].newest = scr[n].newest
           /\ scr'[n].overtaken = scr[n].overtaken
<1> DEFINE S == [scr[n] EXCEPT !.isLoading = l, !.threw = e]
<1>1. scr[n] \in Screen /\ scr \in [Screens -> Screen]
  BY DEF TypeOK
<1>2. scr' = [scr EXCEPT ![n] = S]
  BY <1>1 DEF Screen
<1>3. /\ S \in Screen
      /\ S.shown = scr[n].shown /\ S.isLoading = l /\ S.threw = e
      /\ S.asked = scr[n].asked /\ S.newest = scr[n].newest
      /\ S.overtaken = scr[n].overtaken
  BY <1>1 DEF Screen
<1> HIDE DEF S
<1> QED
  BY <1>1, <1>2, <1>3

\* A change is answered, and the list asked for again.
Relisted(s, n) ==
    /\ n \in Screens
    /\ scr' \in [Screens -> Screen]
    /\ \A m \in Screens \ {n} : scr'[m] = scr[m]
    /\ scr'[n].shown = scr[n].shown /\ scr'[n].threw = scr[n].threw
    /\ scr'[n].asked = scr[n].asked + 1 /\ scr'[n].newest = scr[n].newest
    /\ scr'[n].overtaken = scr[n].overtaken
    /\ req' = [req EXCEPT ![s] = AskList(n)]

\* A change is answered, and nothing asked for.
Closed(s, n) ==
    /\ n \in Screens
    /\ scr' \in [Screens -> Screen]
    /\ \A m \in Screens \ {n} : scr'[m] = scr[m]
    /\ scr'[n].shown = scr[n].shown
    /\ scr[n].threw => scr'[n].threw
    /\ scr'[n].isLoading => scr'[n].threw
    /\ scr'[n].asked = scr[n].asked /\ scr'[n].newest = scr[n].newest
    /\ scr'[n].overtaken = scr[n].overtaken
    /\ req' = [req EXCEPT ![s] = NoRequest]

LEMMA DeletionAnswered ==
    ASSUME Inv, NEW s \in Slots, DeleteReply(s)
    PROVE  LET n == req[s].screen
           IN  /\ req[s].kind = "delete"
               /\ route' = route
               /\ \/ req[s].res = "ok" /\ Relisted(s, n) /\ ~scr'[n].isLoading
                  \/ /\ req[s].res # "ok" /\ Closed(s, n)
                     /\ req[s].res = "failed" => scr'[n].threw
<1> DEFINE r == req[s]
           n == r.screen
<1>1. r.kind = "delete" /\ n \in Screens /\ route' = route
  BY ItsScreen DEF DeleteReply
<1>2. TypeOK /\ scr \in [Screens -> Screen] /\ scr[n] \in Screen
  BY <1>1 DEF Inv, TypeOK
<1>3. CASE r.res = "ok" /\ Deleted(s, n)
  <2>1. /\ scr' = [Refreshed(n) EXCEPT ![n].isLoading = FALSE]
        /\ req' = [req EXCEPT ![s] = AskList(n)]
    BY <1>3 DEF Deleted, Answer
  <2> DEFINE Q == [scr[n] EXCEPT !.radio = 0, !.isLoading = TRUE,
                                 !.asked = scr[n].asked + 1]
             S == [Q EXCEPT !.isLoading = FALSE]
  <2>2. /\ Refreshed(n) \in [Screens -> Screen] /\ Refreshed(n)[n] = Q
        /\ \A m \in Screens \ {n} : Refreshed(n)[m] = scr[m]
        /\ Q \in Screen
    <3>1. /\ Refreshed(n) \in [Screens -> Screen] /\ Refreshed(n)[n] = Q
          /\ \A m \in Screens \ {n} : Refreshed(n)[m] = scr[m]
      BY <1>1, <1>2, Again
    <3> QED
      BY <1>1, <3>1
  <2>3. /\ S \in Screen
        /\ S.shown = scr[n].shown /\ S.threw = scr[n].threw /\ ~S.isLoading
        /\ S.asked = scr[n].asked + 1 /\ S.newest = scr[n].newest
        /\ S.overtaken = scr[n].overtaken
    BY <1>2, <2>2 DEF Screen
  <2>4. scr' = [Refreshed(n) EXCEPT ![n] = S]
    BY <1>1, <2>1, <2>2
  <2> HIDE DEF S, Q
  <2>5. Relisted(s, n) /\ ~scr'[n].isLoading
    BY <1>1, <2>1, <2>2, <2>3, <2>4 DEF Relisted
  <2> QED
    BY <1>1, <1>3, <2>5
<1>4. CASE /\ r.res # "ok"
           /\ scr' = [scr EXCEPT ![n].isLoading = r.res = "failed",
                                 ![n].threw = @ \/ r.res = "failed"]
           /\ Answer(s, NoRequest)
  <2> DEFINE l == r.res = "failed"
             e == scr[n].threw \/ r.res = "failed"
  <2>1. l \in BOOLEAN /\ e \in BOOLEAN
    BY <1>2 DEF Screen
  <2>2. scr' = [scr EXCEPT ![n].isLoading = l, ![n].threw = e]
    BY <1>4, <1>2 DEF Screen
  <2> HIDE DEF l, e
  <2>3. /\ scr' \in [Screens -> Screen]
        /\ \A m \in Screens \ {n} : scr'[m] = scr[m]
        /\ scr'[n].shown = scr[n].shown /\ scr'[n].isLoading = l
        /\ scr'[n].threw = e
        /\ scr'[n].asked = scr[n].asked /\ scr'[n].newest = scr[n].newest
        /\ scr'[n].overtaken = scr[n].overtaken
    BY <1>1, <1>2, <2>1, <2>2, Ended
  <2>4. Closed(s, n)
    BY <1>1, <1>4, <2>3 DEF Closed, Answer, l, e
  <2> QED
    BY <1>1, <1>4, <2>3, <2>4 DEF e
<1> QED
  BY <1>1, <1>3, <1>4 DEF DeleteReply

LEMMA UpdateAnswered ==
    ASSUME Inv, NEW s \in Slots, UpdateReply(s)
    PROVE  LET n == req[s].screen
           IN  /\ req[s].kind = "update"
               /\ \/ /\ Closed(s, n) /\ route' = route
                     /\ req[s].res = "message" \/ ~OnScreen(n)
                  \/ /\ Relisted(s, n) /\ OnScreen(n)
                     /\ route.form /\ route' = [route EXCEPT !.form = FALSE]
                  \/ /\ Closed(s, n) /\ OnScreen(n)
                     /\ ~route.form /\ route' = [route EXCEPT !.manage = FALSE]
<1> DEFINE r == req[s]
           n == r.screen
<1>1. r.kind = "update" /\ n \in Screens
  BY ItsScreen DEF UpdateReply
<1>2. TypeOK /\ scr \in [Screens -> Screen] /\ scr[n] \in Screen
  BY <1>1 DEF Inv, TypeOK
<1>3. ASSUME scr' = [scr EXCEPT ![n].isLoading = FALSE], Answer(s, NoRequest)
      PROVE  Closed(s, n)
  <2>1. scr[n].threw \in BOOLEAN /\ FALSE \in BOOLEAN
    BY <1>2 DEF Screen
  <2>2. scr' = [scr EXCEPT ![n].isLoading = FALSE, ![n].threw = scr[n].threw]
    BY <1>1, <1>2, <1>3 DEF Screen
  <2>3. /\ scr' \in [Screens -> Screen]
        /\ \A m \in Screens \ {n} : scr'[m] = scr[m]
        /\ scr'[n].shown = scr[n].shown /\ scr'[n].isLoading = FALSE
        /\ scr'[n].threw = scr[n].threw
        /\ scr'[n].asked = scr[n].asked /\ scr'[n].newest = scr[n].newest
        /\ scr'[n].overtaken = scr[n].overtaken
    BY <1>1, <1>2, <2>1, <2>2, Ended
  <2> QED
    BY <1>1, <1>3, <2>3 DEF Closed, Answer
<1>4. CASE /\ r.res = "message" /\ scr' = [scr EXCEPT ![n].isLoading = FALSE]
           /\ Answer(s, NoRequest) /\ route' = route
  BY <1>1, <1>3, <1>4
<1>5. CASE /\ r.res # "message" /\ ~OnScreen(n)
           /\ scr' = [scr EXCEPT ![n].threw = TRUE]
           /\ Answer(s, NoRequest) /\ route' = route
  <2>1. scr[n].isLoading \in BOOLEAN /\ TRUE \in BOOLEAN
    BY <1>2 DEF Screen
  <2>2. scr' = [scr EXCEPT ![n].isLoading = scr[n].isLoading, ![n].threw = TRUE]
    BY <1>1, <1>2, <1>5 DEF Screen
  <2>3. /\ scr' \in [Screens -> Screen]
        /\ \A m \in Screens \ {n} : scr'[m] = scr[m]
        /\ scr'[n].shown = scr[n].shown
        /\ scr'[n].threw = TRUE
        /\ scr'[n].asked = scr[n].asked /\ scr'[n].newest = scr[n].newest
        /\ scr'[n].overtaken = scr[n].overtaken
    BY <1>1, <1>2, <2>1, <2>2, Ended
  <2>4. Closed(s, n)
    BY <1>1, <1>5, <2>3 DEF Closed, Answer
  <2> QED
    BY <1>1, <1>5, <2>4
<1>6. CASE /\ r.res # "message" /\ OnScreen(n) /\ route.form
           /\ scr' = Refreshed(opened) /\ Answer(s, AskList(opened))
           /\ route' = [route EXCEPT !.form = FALSE]
  <2>1. n = opened /\ scr' = Refreshed(n) /\ req' = [req EXCEPT ![s] = AskList(n)]
    BY <1>6 DEF OnScreen, Answer
  <2> DEFINE Q == [scr[n] EXCEPT !.radio = 0, !.isLoading = TRUE,
                                 !.asked = scr[n].asked + 1]
  <2>2. /\ Refreshed(n) \in [Screens -> Screen] /\ Refreshed(n)[n] = Q
        /\ \A m \in Screens \ {n} : Refreshed(n)[m] = scr[m]
    BY <1>1, <1>2, Again
  <2>3. /\ Q.shown = scr[n].shown /\ Q.threw = scr[n].threw
        /\ Q.asked = scr[n].asked + 1 /\ Q.newest = scr[n].newest
        /\ Q.overtaken = scr[n].overtaken
    BY <1>2 DEF Screen
  <2> HIDE DEF Q
  <2>4. Relisted(s, n)
    BY <1>1, <2>1, <2>2, <2>3 DEF Relisted
  <2> QED
    BY <1>1, <1>6, <2>4
<1>7. CASE /\ r.res # "message" /\ OnScreen(n) /\ ~route.form
           /\ scr' = [scr EXCEPT ![n].isLoading = FALSE]
           /\ Answer(s, NoRequest) /\ route' = [route EXCEPT !.manage = FALSE]
  BY <1>1, <1>3, <1>7
<1> QED
  BY <1>1, <1>4, <1>5, <1>6, <1>7 DEF UpdateReply

LEMMA InvReply ==
    ASSUME Inv, NEW s \in Slots, Reply(s)
    PROVE  Inv'
<1> DEFINE n == req[s].screen
<1>1. server' = server /\ opened' = opened /\ taps' = taps /\ mixed' = mixed
  BY DEF Reply
<1>2. TypeOK /\ req \in [Slots -> Request]
  BY DEF Inv, TypeOK
<1>3. /\ req[s].kind # "free" /\ n \in Screens /\ n \in 1..opened
      /\ AskList(n) \in Request /\ AskList(n).screen = n
  <2>1. req[s].kind # "free"
    BY DEF Reply, ProfileReply, DeleteReply, UpdateReply
  <2>2. n \in Screens /\ n \in 1..opened
    BY <2>1, ItsScreen
  <2> QED
    BY <1>2, <2>1, <2>2, Again
<1>4. ASSUME scr' \in [Screens -> Screen],
             req' \in {[req EXCEPT ![s] = NoRequest], [req EXCEPT ![s] = AskList(n)]},
             \/ route' = route
             \/ OnScreen(n) /\ route.form /\ route' = [route EXCEPT !.form = FALSE]
             \/ OnScreen(n) /\ ~route.form /\ route' = [route EXCEPT !.manage = FALSE]
      PROVE  Inv'
  <2>1. req' \in [Slots -> Request]
    BY <1>2, <1>3, <1>4, Nothing
  <2>2. \A t \in Slots : req'[t].kind # "free" => req'[t].screen \in 1..opened
    BY <1>2, <1>3, <1>4, Nothing DEF Inv, Placed
  <2>3. /\ route' \in [manage: BOOLEAN, form: BOOLEAN]
        /\ route'.manage => route.manage
        /\ route'.form => route'.manage
    BY <1>4 DEF Inv, TypeOK, Placed
  <2> QED
    BY <1>1, <1>4, <2>1, <2>2, <2>3 DEF Inv, TypeOK, Placed
<1>5. CASE ProfileReply(s)
  BY <1>4, <1>5, ListAnswered
<1>6. CASE DeleteReply(s)
  <2>1. /\ Relisted(s, n) \/ Closed(s, n)
        /\ route' = route
    BY <1>6, DeletionAnswered
  <2> QED
    BY <1>4, <2>1 DEF Relisted, Closed
<1>7. CASE UpdateReply(s)
  <2>1. \/ Closed(s, n) /\ route' = route
        \/ /\ Relisted(s, n) /\ OnScreen(n)
           /\ route.form /\ route' = [route EXCEPT !.form = FALSE]
        \/ /\ Closed(s, n) /\ OnScreen(n)
           /\ ~route.form /\ route' = [route EXCEPT !.manage = FALSE]
    BY <1>7, UpdateAnswered
  <2> QED
    BY <1>4, <2>1 DEF Relisted, Closed
<1> QED
  BY <1>5, <1>6, <1>7 DEF Reply

\* The changes a customer asks for, and the addresses they name.
LEMMA Asks ==
    ASSUME Inv,
           \/ \E i \in 1 .. Len(Book) : callDeleteAddressAPI(i)
           \/ callUpdateAddress
    PROVE  /\ Tap /\ Tappable
           /\ \E a \in Addresses :
                  \/ Change("update", a)
                  \/ /\ a \notin NoDelete(scr[opened].shown.default)
                     /\ Change("delete", a)
<1>1. Tap /\ Tappable
  BY DEF callDeleteAddressAPI, callUpdateAddress
<1>2. opened \in Screens
  BY <1>1, OnOpened DEF Tappable
<1>3. scr[opened].shown.book \in Seq(Addresses)
  BY <1>2 DEF Inv, TypeOK, Screen, Shown
<1>4. \A i \in 1 .. Len(scr[opened].shown.book) :
          scr[opened].shown.book[i] \in Addresses
  BY <1>3
<1>5. CASE callUpdateAddress
  BY <1>1, <1>4, <1>5 DEF callUpdateAddress
<1>6. ASSUME NEW i \in 1 .. Len(Book), callDeleteAddressAPI(i)
      PROVE  \E a \in Addresses : /\ a \notin NoDelete(scr[opened].shown.default)
                                  /\ Change("delete", a)
  BY <1>4, <1>6 DEF callDeleteAddressAPI
<1> QED
  BY <1>1, <1>5, <1>6

LEMMA InvStep == Inv /\ [Next]_vars => Inv'
<1> SUFFICES ASSUME Inv, [Next]_vars PROVE Inv'
  OBVIOUS
<1>1. CASE OpenManage
  BY <1>1, InvOpen
<1>2. CASE LeaveManage \/ OpenForm \/ LeaveForm
  BY <1>2, InvWalk
<1>3. ASSUME NEW i \in 1 .. Len(Book), onClickAddressSelect(i) PROVE Inv'
  BY <1>3, InvSelect
<1>4. CASE \/ \E i \in 1 .. Len(Book) : callDeleteAddressAPI(i)
           \/ callUpdateAddress
  <2>1. PICK a \in Addresses : Change("update", a) \/ Change("delete", a)
    BY <1>4, Asks
  <2>2. Tap /\ Tappable /\ a \in AnyAddress
    BY <1>4, Asks DEF AnyAddress
  <2> QED
    BY <2>1, <2>2, InvChange DEF Changes
<1>5. ASSUME NEW s \in Slots, Serve(s) PROVE Inv'
  BY <1>5, InvServe
<1>6. ASSUME NEW s \in Slots, Fault(s) PROVE Inv'
  BY <1>6, InvFault
<1>7. ASSUME NEW s \in Slots, Reply(s) PROVE Inv'
  BY <1>7, InvReply
<1>8. CASE UNCHANGED vars
  BY <1>8 DEF vars, Inv, TypeOK, Placed
<1> QED
  BY <1>1, <1>2, <1>3, <1>4, <1>5, <1>6, <1>7, <1>8 DEF Next

LEMMA Always == Spec => []Inv
<1> QED
  BY InvInit, InvStep, PTL DEF Spec

\* The state of the screens and of the address book is always of its type
\* (manage_address_notifier.dart).
THEOREM TypeCorrect == Spec => []TypeOK
<1>1. Inv => TypeOK
  BY DEF Inv
<1> QED
  BY Always, <1>1, PTL

----------------------------------------------------------------------------
(* The spinner *)

\* A step that takes no owner away and raises no spinner.
LEMMA OwnersStay ==
    ASSUME Inv, SpinnerHasOwner, scr' \in [Screens -> Screen],
           \A m \in Screens :
               scr'[m].isLoading = scr[m].isLoading /\ scr'[m].threw = scr[m].threw,
           \A s \in Slots : req[s].kind # "free" =>
               req'[s].kind # "free" /\ req'[s].screen = req[s].screen
    PROVE  SpinnerHasOwner'
BY DEF SpinnerHasOwner, Owned

\* One that asks for something for screen n.
LEMMA OwnerComes ==
    ASSUME Inv, SpinnerHasOwner, NEW n \in Screens,
           NEW r \in Request, r.kind # "free", r.screen = n, Send(r),
           \A m \in Screens \ {n} : scr'[m] = scr[m]
    PROVE  SpinnerHasOwner'
<1>1. PICK s \in Slots : req[s].kind = "free" /\ req' = [req EXCEPT ![s] = r]
  BY DEF Send
<1>2. req \in [Slots -> Request]
  BY DEF Inv, TypeOK
<1>3. Owned(n)'
  BY <1>1, <1>2 DEF Owned
<1>4. ASSUME NEW m \in Screens \ {n}, Owned(m) PROVE Owned(m)'
  BY <1>1, <1>2, <1>4 DEF Owned
<1> QED
  BY <1>3, <1>4 DEF SpinnerHasOwner

\* One that answers a request, the screen of which stops waiting, throws or asks
\* again.
LEMMA OwnerGoes ==
    ASSUME Inv, SpinnerHasOwner, NEW s \in Slots, NEW n \in Screens,
           req[s].screen = n,
           \A m \in Screens \ {n} : scr'[m] = scr[m],
           \/ /\ scr'[n].isLoading => scr'[n].threw
              /\ req' = [req EXCEPT ![s] = NoRequest]
           \/ req' = [req EXCEPT ![s] = AskList(n)]
    PROVE  SpinnerHasOwner'
<1>1. TypeOK /\ req \in [Slots -> Request]
  BY DEF Inv, TypeOK
<1>2. AskList(n).kind # "free" /\ AskList(n).screen = n
  BY <1>1, Again
<1>3. ASSUME NEW m \in Screens \ {n}, Owned(m) PROVE Owned(m)'
  BY <1>1, <1>3 DEF Owned
<1>4. scr'[n].isLoading /\ ~scr'[n].threw => Owned(n)'
  BY <1>1, <1>2 DEF Owned
<1> QED
  BY <1>3, <1>4 DEF SpinnerHasOwner

LEMMA OwnerStep == Inv /\ SpinnerHasOwner /\ [Next]_vars => SpinnerHasOwner'
<1> SUFFICES ASSUME Inv, SpinnerHasOwner, [Next]_vars PROVE SpinnerHasOwner'
  OBVIOUS
<1>0. TypeOK /\ scr \in [Screens -> Screen] /\ req \in [Slots -> Request]
  BY DEF Inv, TypeOK
<1>1. CASE OpenManage
  <2>1. opened + 1 \in Screens
    BY <1>1, AddressBookAssumption
       DEF OpenManage, Inv, TypeOK, Screens, AddressBookAssumption
  <2>2. /\ AskList(opened + 1) \in Request /\ AskList(opened + 1).kind # "free"
        /\ AskList(opened + 1).screen = opened + 1
        /\ \A m \in Screens \ {opened + 1} : Refreshed(opened + 1)[m] = scr[m]
    BY <1>0, <2>1, Again
  <2>3. Send(AskList(opened + 1)) /\ scr' = Refreshed(opened + 1)
    BY <1>1 DEF OpenManage
  <2> QED
    BY <2>1, <2>2, <2>3, OwnerComes
<1>2. CASE LeaveManage \/ OpenForm \/ LeaveForm
  BY <1>0, <1>2, OwnersStay DEF LeaveManage, OpenForm, LeaveForm
<1>3. ASSUME NEW i \in 1 .. Len(Book), onClickAddressSelect(i) PROVE SpinnerHasOwner'
  <2>1. Inv' /\ scr' \in [Screens -> Screen]
    BY <1>3, InvSelect DEF Inv, TypeOK
  <2>2. \A m \in Screens :
            scr'[m].isLoading = scr[m].isLoading /\ scr'[m].threw = scr[m].threw
    BY <1>0, <1>3 DEF onClickAddressSelect, Screen
  <2>3. req' = req
    BY <1>3 DEF onClickAddressSelect
  <2> QED
    BY <2>1, <2>2, <2>3, OwnersStay
<1>4. CASE \/ \E i \in 1 .. Len(Book) : callDeleteAddressAPI(i)
           \/ callUpdateAddress
  <2>1. PICK a \in Addresses, k \in Changes : Change(k, a)
    BY <1>4, Asks DEF Changes
  <2>2. opened \in Screens /\ opened \in Nat /\ a \in AnyAddress
    BY <1>4, Asks, OnOpened DEF Tappable, Screens, AnyAddress
  <2>3. /\ Ask(k, opened, a, 0) \in Request /\ Ask(k, opened, a, 0).kind # "free"
        /\ Ask(k, opened, a, 0).screen = opened
    BY <2>2, Asked DEF Kinds, Changes
  <2>4. /\ Send(Ask(k, opened, a, 0))
        /\ \A m \in Screens \ {opened} : scr'[m] = scr[m]
    BY <1>0, <2>1, <2>2 DEF Change
  <2> QED
    BY <2>2, <2>3, <2>4, OwnerComes
<1>5. ASSUME NEW s \in Slots, Serve(s) PROVE SpinnerHasOwner'
  <2>1. /\ scr' \in [Screens -> Screen]
        /\ \A m \in Screens :
               scr'[m] \in {scr[m], [scr[m] EXCEPT !.overtaken = TRUE]}
        /\ \A t \in Slots :
               req'[t].kind = req[t].kind /\ req'[t].screen = req[t].screen
    BY <1>0, <1>5, Served
  <2>2. \A m \in Screens :
            scr'[m].isLoading = scr[m].isLoading /\ scr'[m].threw = scr[m].threw
    BY <1>0, <2>1 DEF Screen
  <2> QED
    BY <2>1, <2>2, OwnersStay
<1>6. ASSUME NEW s \in Slots, Fault(s) PROVE SpinnerHasOwner'
  <2>1. /\ scr' = scr
        /\ \A t \in Slots :
               req'[t].kind = req[t].kind /\ req'[t].screen = req[t].screen
    BY <1>0, <1>6, Failed DEF Fault
  <2> QED
    BY <1>0, <2>1, OwnersStay
<1>7. ASSUME NEW s \in Slots, ProfileReply(s) PROVE SpinnerHasOwner'
  BY <1>7, ListAnswered, OwnerGoes
<1>8. ASSUME NEW s \in Slots, DeleteReply(s) PROVE SpinnerHasOwner'
  <2>1. Relisted(s, req[s].screen) \/ Closed(s, req[s].screen)
    BY <1>8, DeletionAnswered
  <2> QED
    BY <2>1, OwnerGoes DEF Relisted, Closed
<1>9. ASSUME NEW s \in Slots, UpdateReply(s) PROVE SpinnerHasOwner'
  <2>1. Relisted(s, req[s].screen) \/ Closed(s, req[s].screen)
    BY <1>9, UpdateAnswered
  <2> QED
    BY <2>1, OwnerGoes DEF Relisted, Closed
<1>10. CASE UNCHANGED vars
  BY <1>10 DEF vars, SpinnerHasOwner, Owned
<1> QED
  BY <1>1, <1>2, <1>3, <1>4, <1>5, <1>6, <1>7, <1>8, <1>9, <1>10 DEF Next, Reply

\* A spinner over the addresses is never left up with nothing under way, but
\* where an exception ended a handler (callApiGetUserProfileDetail,
\* callDeleteAddressAPI, callUpdateAddress).
THEOREM SpinnerOwned == Spec => []SpinnerHasOwner
<1>1. Init => SpinnerHasOwner
  BY DEF Init, SpinnerHasOwner
<1> QED
  BY <1>1, OwnerStep, Always, PTL DEF Spec

----------------------------------------------------------------------------
(* Who closes the screen *)

LEMMA OwnStep ==
    ASSUME Inv, [Next]_vars, route.manage, ~route'.manage
    PROVE  \/ taps' # taps
           \/ \E s \in Slots : /\ req[s].kind = "update" /\ req[s].screen = opened
                               /\ req'[s] # req[s]
<1>0. /\ req \in [Slots -> Request] /\ taps \in Nat
      /\ route \in [manage: BOOLEAN, form: BOOLEAN]
  BY DEF Inv, TypeOK
<1>1. CASE LeaveManage
  BY <1>0, <1>1 DEF LeaveManage, Tap
<1>2. CASE OpenManage \/ OpenForm \/ LeaveForm
  BY <1>0, <1>2 DEF OpenManage, OpenForm, LeaveForm
<1>3. CASE \E i \in 1 .. Len(Book) : onClickAddressSelect(i)
  BY <1>3 DEF onClickAddressSelect
<1>4. CASE \/ \E i \in 1 .. Len(Book) : callDeleteAddressAPI(i)
           \/ callUpdateAddress
  BY <1>4, Asks DEF Change
<1>5. CASE \E s \in Slots : Serve(s) \/ Fault(s)
  BY <1>5 DEF Serve, Fault
<1>6. ASSUME NEW s \in Slots, Reply(s)
      PROVE  \E t \in Slots : /\ req[t].kind = "update" /\ req[t].screen = opened
                              /\ req'[t] # req[t]
  <2>1. CASE ProfileReply(s) \/ DeleteReply(s)
    BY <2>1 DEF ProfileReply, DeleteReply
  <2>2. CASE UpdateReply(s)
    <3> DEFINE n == req[s].screen
    <3>1. /\ req[s].kind = "update"
          /\ Closed(s, n) /\ OnScreen(n)
      BY <1>0, <2>2, UpdateAnswered
    <3>2. req'[s].kind = "free" /\ n = opened
      BY <1>0, <3>1, Nothing DEF Closed, OnScreen
    <3> QED
      BY <3>1, <3>2
  <2> QED
    BY <1>6, <2>1, <2>2 DEF Reply
<1>7. CASE UNCHANGED vars
  BY <1>7 DEF vars
<1> QED
  BY <1>1, <1>2, <1>3, <1>4, <1>5, <1>6, <1>7 DEF Next

\* The pop of a handler never closes a screen opened after its own was left
\* (callUpdateAddress).
THEOREM ClosedOnlyByItsOwn == Spec => ClosedByItsOwn
<1> DEFINE Own ==
        route.manage /\ ~route'.manage =>
            \/ taps' # taps
            \/ \E s \in Slots : /\ req[s].kind = "update" /\ req[s].screen = opened
                                /\ req'[s] # req[s]
<1>1. Inv /\ [Next]_vars => Own
  BY OwnStep
<1>2. Inv /\ [Next]_vars => [Own]_vars
  BY <1>1
<1> QED
  BY <1>2, Always, PTL DEF Spec, ClosedByItsOwn

----------------------------------------------------------------------------
(* The list that is shown *)

\* What serving a request does to the book, and what the request gets.
LEMMA ServedHow ==
    ASSUME TypeOK, NEW s \in Slots, Serve(s)
    PROVE  \/ /\ req[s].kind = "profile" /\ server' = server /\ scr' = scr
              /\ req'[s].shown.version = server.version
              /\ req'[s].shown.default = server.default
           \/ /\ req[s].kind \in Changes /\ server' = server /\ scr' = scr
              /\ req'[s].shown = req[s].shown
           \/ /\ req[s].kind \in Changes /\ req'[s].res = "ok"
              /\ server'.version = server.version + 1
              /\ scr' = Changed(req[s].screen) /\ req'[s].shown = req[s].shown
              /\ server'.default = NoAddress =>
                     \/ server.default = NoAddress
                     \/ req[s].kind = "delete" /\ server.default = req[s].id
<1> DEFINE r == req[s]
<1>1. r \in Request /\ req \in [Slots -> Request] /\ server \in Server
  BY DEF TypeOK
<1>2. CASE ServeProfile(s)
  <2> DEFINE p == [page |-> TRUE, book |-> server.book, default |-> server.default,
                   version |-> server.version]
             q == [r EXCEPT !.res = "ok", !.shown = p]
  <2>1. req' = [req EXCEPT ![s] = q] /\ server' = server /\ scr' = scr
    BY <1>2 DEF ServeProfile, Answer
  <2>2. req'[s] = q
    BY <1>1, <2>1
  <2>3. q.shown = p
    BY <1>1 DEF Request
  <2>4. p.version = server.version /\ p.default = server.default
    OBVIOUS
  <2>5. r.kind = "profile"
    BY <1>2 DEF ServeProfile
  <2> HIDE DEF p, q
  <2>6. req'[s].shown = p
    BY <2>2, <2>3
  <2> QED
    BY <2>1, <2>4, <2>5, <2>6
<1>3. ASSUME NEW f, Answer(s, [r EXCEPT !.res = f])
      PROVE  req'[s].res = f /\ req'[s].shown = r.shown
  BY <1>1, <1>3 DEF Answer, Request
<1>4. CASE ServeUpdate(s)
  <2>1. /\ r.kind \in Changes /\ Answer(s, [r EXCEPT !.res = "ok"])
        /\ server' = [server EXCEPT !.default = r.id, !.version = @ + 1]
        /\ scr' = Changed(r.screen)
    BY <1>4 DEF ServeUpdate, Changes
  <2>2. r.id \in Addresses
    <3>1. PICK i \in 1 .. Len(server.book) : server.book[i] = r.id
      BY <1>4 DEF ServeUpdate, Places
    <3>2. server.book \in Seq(Addresses)
      BY <1>1 DEF Server
    <3> QED
      BY <3>1, <3>2
  <2>3. server'.default = r.id /\ server'.version = server.version + 1
    BY <1>1, <2>1 DEF Server
  <2> QED
    BY <1>3, <2>1, <2>2, <2>3, AddressBookAssumption DEF AddressBookAssumption
<1>5. CASE ServeDelete(s)
  <2>1. PICK i \in Places(r.id) :
               server' = [book |-> Without(i),
                          default |-> IF server.default = r.id THEN NoAddress
                                      ELSE server.default,
                          version |-> server.version + 1]
    BY <1>5 DEF ServeDelete
  <2>2. /\ r.kind = "delete" /\ Answer(s, [r EXCEPT !.res = "ok"])
        /\ scr' = Changed(r.screen)
    BY <1>5 DEF ServeDelete
  <2>3. /\ server'.version = server.version + 1
        /\ server'.default = IF server.default = r.id THEN NoAddress
                             ELSE server.default
    BY <2>1
  <2> QED
    BY <1>3, <2>2, <2>3 DEF Changes
<1>6. CASE ServeNot(s)
  BY <1>3, <1>6 DEF ServeNot
<1> QED
  BY <1>2, <1>4, <1>5, <1>6 DEF Serve

\* The lists are counted: none answered that was not asked for, and the last
\* one asked for is answered or under way.
Counted ==
    /\ \A n \in Screens :
           /\ scr[n].newest <= scr[n].asked
           /\ \/ scr[n].newest = scr[n].asked
              \/ \E s \in Slots : /\ req[s].kind = "profile" /\ req[s].screen = n
                                  /\ req[s].nth = scr[n].asked
    /\ \A s \in Slots :
           req[s].kind = "profile" => req[s].nth <= scr[req[s].screen].asked

\* The last list that screen n asked for has the book as it is: shown, or in an
\* answer under way.
LastFresh(n) ==
    /\ scr[n].newest = scr[n].asked => scr[n].shown.version \in {0, server.version}
    /\ \A s \in Slots :
           /\ req[s].kind = "profile" /\ req[s].screen = n
           /\ req[s].nth = scr[n].asked /\ req[s].res = "ok"
           => req[s].shown.version = server.version

\* A change the server may have made, the answer of which has the list asked for
\* again or closes the screen.
Pending(n) ==
    \E s \in Slots : /\ req[s].kind \in Changes /\ req[s].screen = n
                     /\ req[s].res \in {"ok", "failed"}

Fresh ==
    route.manage /\ ~scr[opened].threw /\ ~scr[opened].overtaken
        => LastFresh(opened) \/ Pending(opened)

LEMMA CurrentFromFresh == Inv /\ Counted /\ Fresh => ListIsCurrent
<1> SUFFICES ASSUME Inv, Counted, Fresh, route.manage,
                    \A s \in Slots : req[s].kind = "free",
                    ~scr[opened].threw, ~scr[opened].overtaken
             PROVE  scr[opened].shown.version \in {0, server.version}
  BY DEF ListIsCurrent
<1>1. opened \in Screens
  BY OnOpened
<1>2. scr[opened].newest = scr[opened].asked
  BY <1>1 DEF Counted
<1>3. ~Pending(opened)
  BY DEF Pending, Changes
<1> QED
  BY <1>2, <1>3 DEF Fresh, LastFresh

\* A step that leaves lists and screens alone, and no change that was made.
LEMMA FreshStays ==
    ASSUME Inv, Counted, Fresh, server' = server, opened' = opened,
           route'.manage => route.manage,
           \A m \in Screens :
               /\ scr'[m].shown = scr[m].shown /\ scr'[m].threw = scr[m].threw
               /\ scr'[m].asked = scr[m].asked /\ scr'[m].newest = scr[m].newest
               /\ scr'[m].overtaken = scr[m].overtaken,
           \A s \in Slots :
               \/ req'[s] = req[s]
               \/ req[s].kind = "free" /\ req'[s].kind \in Changes
               \/ /\ req'[s].kind = req[s].kind /\ req'[s].screen = req[s].screen
                  /\ req'[s].nth = req[s].nth
                  /\ req'[s].res # "ok"
                  /\ req[s].res \in {"ok", "failed"} => req'[s].res = "failed"
    PROVE  Counted' /\ Fresh'
<1>1. ASSUME NEW s \in Slots
      PROVE  /\ req[s].kind = "profile" =>
                    /\ req'[s].kind = "profile" /\ req'[s].screen = req[s].screen
                    /\ req'[s].nth = req[s].nth
             /\ req'[s].kind = "profile" =>
                    /\ req[s].kind = "profile" /\ req'[s].screen = req[s].screen
                    /\ req'[s].nth = req[s].nth
             /\ req'[s].kind = "profile" /\ req'[s].res = "ok" => req'[s] = req[s]
             /\ req[s].kind \in Changes /\ req[s].res \in {"ok", "failed"} =>
                    /\ req'[s].kind \in Changes /\ req'[s].screen = req[s].screen
                    /\ req'[s].res \in {"ok", "failed"}
  BY DEF Changes
<1>2. Counted'
  <2>1. ASSUME NEW n \in Screens
        PROVE  /\ scr'[n].newest <= scr'[n].asked
               /\ \/ scr'[n].newest = scr'[n].asked
                  \/ \E s \in Slots : /\ req'[s].kind = "profile"
                                      /\ req'[s].screen = n
                                      /\ req'[s].nth = scr'[n].asked
    <3>1. CASE scr[n].newest = scr[n].asked
      BY <2>1, <3>1 DEF Counted
    <3>2. ASSUME NEW s \in Slots, req[s].kind = "profile", req[s].screen = n,
                 req[s].nth = scr[n].asked
          PROVE  /\ req'[s].kind = "profile" /\ req'[s].screen = n
                 /\ req'[s].nth = scr'[n].asked
      BY <1>1, <2>1, <3>2
    <3> QED
      BY <2>1, <3>1, <3>2 DEF Counted
  <2>2. ASSUME NEW s \in Slots, req'[s].kind = "profile"
        PROVE  req'[s].nth <= scr'[req'[s].screen].asked
    <3>1. req[s].kind = "profile" /\ req[s].screen \in Screens
      BY <1>1, <2>2, ItsScreen
    <3> QED
      BY <1>1, <2>2, <3>1 DEF Counted
  <2> QED
    BY <2>1, <2>2 DEF Counted
<1>3. Fresh'
  <2> SUFFICES ASSUME route'.manage, ~scr'[opened].threw, ~scr'[opened].overtaken
               PROVE  LastFresh(opened)' \/ Pending(opened)'
    BY DEF Fresh
  <2>1. opened \in Screens
    BY OnOpened
  <2>2. CASE LastFresh(opened)
    BY <1>1, <2>1, <2>2 DEF LastFresh
  <2>3. CASE Pending(opened)
    BY <1>1, <2>3 DEF Pending
  <2> QED
    BY <2>1, <2>2, <2>3 DEF Fresh
<1> QED
  BY <1>2, <1>3

\* The list of screen n is asked for, in the slot of nothing or of a change.
LEMMA ListAsked ==
    ASSUME Inv, Counted, NEW s \in Slots, NEW n \in Screens,
           req[s].kind # "profile", req' = [req EXCEPT ![s] = AskList(n)],
           server' = server,
           \A m \in Screens \ {n} : scr'[m] = scr[m],
           scr'[n].asked = scr[n].asked + 1, scr'[n].newest = scr[n].newest
    PROVE  Counted' /\ LastFresh(n)'
<1>1. TypeOK /\ req \in [Slots -> Request]
  BY DEF Inv, TypeOK
<1>2. /\ AskList(n).kind = "profile" /\ AskList(n).screen = n
      /\ AskList(n).nth = scr[n].asked + 1 /\ AskList(n).res = "sent"
  BY <1>1, Again
<1>3. \A t \in Slots \ {s} : req'[t] = req[t]
  BY <1>1
<1>4. req'[s] = AskList(n)
  BY <1>1
<1>5. scr[n].asked \in Nat /\ scr[n].newest \in Nat
  BY <1>1 DEF TypeOK, Screen
<1>6. scr[n].newest <= scr[n].asked
  BY DEF Counted
<1>7. \A t \in Slots : req[t].kind = "profile" =>
          /\ req[t].screen \in Screens /\ req[t].nth \in Nat
          /\ req[t].nth <= scr[req[t].screen].asked
  BY <1>1, ItsScreen DEF Counted, Request
<1>8. Counted'
  <2>1. ASSUME NEW m \in Screens
        PROVE  /\ scr'[m].newest <= scr'[m].asked
               /\ \/ scr'[m].newest = scr'[m].asked
                  \/ \E t \in Slots : /\ req'[t].kind = "profile"
                                      /\ req'[t].screen = m
                                      /\ req'[t].nth = scr'[m].asked
    <3>1. CASE m = n
      BY <1>2, <1>4, <1>5, <1>6, <3>1
    <3>2. CASE m # n
      <4>1. \/ scr[m].newest = scr[m].asked
            \/ \E t \in Slots \ {s} : /\ req[t].kind = "profile"
                                      /\ req[t].screen = m
                                      /\ req[t].nth = scr[m].asked
        BY DEF Counted
      <4>2. scr'[m] = scr[m] /\ scr[m].newest <= scr[m].asked
        BY <3>2 DEF Counted
      <4> QED
        BY <1>3, <4>1, <4>2
    <3> QED
      BY <3>1, <3>2
  <2>2. ASSUME NEW t \in Slots, req'[t].kind = "profile"
        PROVE  req'[t].nth <= scr'[req'[t].screen].asked
    <3>1. CASE t = s
      BY <1>2, <1>4, <1>5, <3>1
    <3>2. CASE t # s
      BY <1>3, <1>5, <1>7, <2>2, <3>2
    <3> QED
      BY <3>1, <3>2
  <2> QED
    BY <2>1, <2>2 DEF Counted
<1>9. LastFresh(n)'
  <2>1. scr'[n].newest # scr'[n].asked
    BY <1>5, <1>6
  <2>2. ASSUME NEW t \in Slots, req'[t].kind = "profile", req'[t].screen = n,
               req'[t].nth = scr'[n].asked, req'[t].res = "ok"
        PROVE  FALSE
    <3>1. t # s
      BY <1>2, <1>4, <2>2
    <3> QED
      BY <1>3, <1>5, <1>7, <2>2, <3>1
  <2> QED
    BY <2>1, <2>2 DEF LastFresh
<1> QED
  BY <1>8, <1>9

\* What happens to a request of screen n leaves the list of another alone.
LEMMA Elsewhere ==
    ASSUME Inv, NEW s \in Slots, NEW n \in Screens, NEW m \in Screens \ {n},
           req[s].kind = "free" \/ req[s].screen = n,
           req'[s].kind = "free" \/ req'[s].screen = n,
           \A t \in Slots \ {s} : req'[t] = req[t],
           server' = server, scr'[m] = scr[m]
    PROVE  /\ LastFresh(m) => LastFresh(m)'
           /\ Pending(m) => Pending(m)'
<1>1. ASSUME LastFresh(m) PROVE LastFresh(m)'
  <2>1. ASSUME NEW t \in Slots, req'[t].kind = "profile", req'[t].screen = m
        PROVE  req'[t] = req[t]
    BY <2>1
  <2> QED
    BY <1>1, <2>1 DEF LastFresh
<1>2. ASSUME Pending(m) PROVE Pending(m)'
  BY <1>2 DEF Pending, Changes
<1> QED
  BY <1>1, <1>2

LEMMA FreshOpen ==
    ASSUME Inv, Counted, OpenManage
    PROVE  Counted' /\ Fresh'
<1>1. PICK n \in Screens : n = opened + 1
  BY AddressBookAssumption
     DEF OpenManage, Inv, TypeOK, Screens, AddressBookAssumption
<1>2. PICK s \in Slots : req[s].kind = "free" /\ req' = [req EXCEPT ![s] = AskList(n)]
  BY <1>1 DEF OpenManage, Send
<1>3. TypeOK /\ scr' = Refreshed(n) /\ server' = server /\ opened' = n
  BY <1>1 DEF OpenManage, Inv
<1>4. /\ Refreshed(n)[n] = [scr[n] EXCEPT !.radio = 0, !.isLoading = TRUE,
                                          !.asked = scr[n].asked + 1]
      /\ \A m \in Screens \ {n} : Refreshed(n)[m] = scr[m]
      /\ scr[n] \in Screen
  BY <1>3, Again DEF TypeOK
<1>5. scr'[n].asked = scr[n].asked + 1 /\ scr'[n].newest = scr[n].newest
  BY <1>3, <1>4 DEF Screen
<1>6. Counted' /\ LastFresh(n)'
  BY <1>2, <1>3, <1>4, <1>5, ListAsked
<1> QED
  BY <1>3, <1>6 DEF Fresh, LastFresh

\* A change is answered and the list asked for again.
LEMMA FreshAgain ==
    ASSUME Inv, Counted, Fresh, NEW s \in Slots, req[s].kind \in Changes,
           Relisted(s, req[s].screen), server' = server, opened' = opened,
           route'.manage => route.manage
    PROVE  Counted' /\ Fresh'
<1>0. PICK n \in Screens : n = req[s].screen
  BY DEF Relisted
<1>1. /\ req' = [req EXCEPT ![s] = AskList(n)]
      /\ \A m \in Screens \ {n} : scr'[m] = scr[m]
      /\ scr'[n].asked = scr[n].asked + 1 /\ scr'[n].newest = scr[n].newest
      /\ scr'[n].threw = scr[n].threw /\ scr'[n].overtaken = scr[n].overtaken
  BY <1>0 DEF Relisted
<1>2. req[s].kind # "profile"
  BY DEF Changes
<1>3. Counted' /\ LastFresh(n)'
  BY <1>1, <1>2, ListAsked
<1>4. TypeOK /\ req \in [Slots -> Request]
  BY DEF Inv, TypeOK
<1>5. AskList(n).screen = n
  BY <1>1, <1>4, Again
<1>6. Fresh'
  <2> SUFFICES ASSUME route'.manage, ~scr'[opened].threw, ~scr'[opened].overtaken
               PROVE  LastFresh(opened)' \/ Pending(opened)'
    BY DEF Fresh
  <2>1. opened \in Screens
    BY OnOpened
  <2>2. CASE opened = n
    BY <1>3, <2>2 DEF LastFresh
  <2>3. CASE opened # n
    <3>1. LastFresh(opened) \/ Pending(opened)
      BY <1>1, <2>1, <2>3 DEF Fresh
    <3>2. /\ req[s].screen = n /\ req'[s].screen = n
          /\ \A t \in Slots \ {s} : req'[t] = req[t]
          /\ scr'[opened] = scr[opened] /\ opened \in Screens \ {n}
      BY <1>0, <1>1, <1>4, <1>5, <2>1, <2>3
    <3> QED
      BY <1>1, <3>1, <3>2, Elsewhere
  <2> QED
    BY <2>2, <2>3
<1> QED
  BY <1>3, <1>6

\* A change is answered and nothing asked for: refused, or its screen is not open,
\* or it threw.
LEMMA FreshClosed ==
    ASSUME Inv, Counted, Fresh, NEW s \in Slots, req[s].kind \in Changes,
           Closed(s, req[s].screen), server' = server, opened' = opened,
           route'.manage => route.manage,
           \/ req[s].res \notin {"ok", "failed"}
           \/ scr'[req[s].screen].threw
           \/ ~route'.manage
           \/ req[s].screen # opened
    PROVE  Counted' /\ Fresh'
<1> DEFINE n == req[s].screen
<1>1. /\ n \in Screens /\ req' = [req EXCEPT ![s] = NoRequest]
      /\ \A m \in Screens \ {n} : scr'[m] = scr[m]
      /\ scr'[n].asked = scr[n].asked /\ scr'[n].newest = scr[n].newest
      /\ scr'[n].shown = scr[n].shown
      /\ scr[n].threw => scr'[n].threw
      /\ scr'[n].overtaken = scr[n].overtaken
  BY DEF Closed
<1>2. req \in [Slots -> Request] /\ NoRequest.kind = "free"
  BY Nothing DEF Inv, TypeOK
<1>3. \A t \in Slots \ {s} : req'[t] = req[t]
  BY <1>1, <1>2
<1>4. req'[s].kind = "free" /\ req[s].kind # "profile"
  BY <1>1, <1>2 DEF Changes
<1>5. \A m \in Screens : /\ scr'[m].asked = scr[m].asked
                         /\ scr'[m].newest = scr[m].newest
                         /\ scr'[m].shown = scr[m].shown
                         /\ scr'[m].overtaken = scr[m].overtaken
                         /\ scr[m].threw => scr'[m].threw
  BY <1>1
<1>6. Counted'
  <2>1. \A t \in Slots : /\ req'[t].kind = "profile" => req'[t] = req[t]
                         /\ req[t].kind = "profile" => req'[t] = req[t]
    BY <1>3, <1>4
  <2>2. ASSUME NEW t \in Slots, req'[t].kind = "profile"
        PROVE  req'[t].nth <= scr'[req'[t].screen].asked
    <3>1. req'[t] = req[t] /\ req[t].screen \in Screens
      BY <2>1, <2>2, ItsScreen
    <3> QED
      BY <1>5, <2>2, <3>1 DEF Counted
  <2> QED
    BY <1>5, <2>1, <2>2 DEF Counted
<1>7. Fresh'
  <2> SUFFICES ASSUME route'.manage, ~scr'[opened].threw, ~scr'[opened].overtaken
               PROVE  LastFresh(opened)' \/ Pending(opened)'
    BY DEF Fresh
  <2>1. opened \in Screens
    BY OnOpened
  <2>2. CASE LastFresh(opened)
    BY <1>3, <1>4, <1>5, <2>1, <2>2 DEF LastFresh
  <2>3. CASE Pending(opened)
    <3>1. PICK t \in Slots : /\ req[t].kind \in Changes /\ req[t].screen = opened
                             /\ req[t].res \in {"ok", "failed"}
      BY <2>3 DEF Pending
    <3>2. t # s
      BY <3>1
    <3> QED
      BY <1>3, <3>1, <3>2 DEF Pending
  <2> QED
    BY <1>5, <2>1, <2>2, <2>3 DEF Fresh
<1> QED
  BY <1>6, <1>7

LEMMA FreshAnswered ==
    ASSUME Inv, Counted, Fresh, NEW s \in Slots, ProfileReply(s),
           server' = server, opened' = opened
    PROVE  Counted' /\ Fresh'
<1>1. PICK n \in Screens : n = req[s].screen
  BY ListAnswered
<1>2. /\ req[s].kind = "profile"
      /\ \A m \in Screens \ {n} : scr'[m] = scr[m]
      /\ scr'[n].shown = Received(req[s])
      /\ scr'[n].threw = scr[n].threw /\ scr'[n].asked = scr[n].asked
      /\ scr'[n].overtaken = (scr[n].overtaken \/ req[s].nth < scr[n].newest)
      /\ scr'[n].newest = (IF req[s].nth < scr[n].newest THEN scr[n].newest
                           ELSE req[s].nth)
      /\ req' = [req EXCEPT ![s] = NoRequest]
      /\ route' = route
  BY <1>1, ListAnswered
<1>3. /\ req \in [Slots -> Request] /\ req[s] \in Request
      /\ scr[n].asked \in Nat /\ scr[n].newest \in Nat /\ req[s].nth \in Nat
  BY DEF Inv, TypeOK, Screen, Request
<1>4. /\ \A t \in Slots \ {s} : req'[t] = req[t]
      /\ req'[s].kind = "free"
  BY <1>2, <1>3, Nothing
<1>5. scr[n].newest <= scr[n].asked /\ req[s].nth <= scr[n].asked
  BY <1>1, <1>2 DEF Counted
<1>6. Counted'
  <2>1. ASSUME NEW m \in Screens \ {n}
        PROVE  /\ scr'[m].newest <= scr'[m].asked
               /\ \/ scr'[m].newest = scr'[m].asked
                  \/ \E t \in Slots : /\ req'[t].kind = "profile"
                                      /\ req'[t].screen = m
                                      /\ req'[t].nth = scr'[m].asked
    <3>1. \/ scr[m].newest = scr[m].asked
          \/ \E t \in Slots \ {s} : /\ req[t].kind = "profile"
                                    /\ req[t].screen = m
                                    /\ req[t].nth = scr[m].asked
      BY <1>1 DEF Counted
    <3>2. scr'[m] = scr[m] /\ scr[m].newest <= scr[m].asked
      BY <1>2 DEF Counted
    <3> QED
      BY <1>4, <3>1, <3>2
  <2>2. /\ scr'[n].newest <= scr'[n].asked
        /\ \/ scr'[n].newest = scr'[n].asked
           \/ \E t \in Slots : /\ req'[t].kind = "profile" /\ req'[t].screen = n
                               /\ req'[t].nth = scr'[n].asked
    <3>1. CASE req[s].nth = scr[n].asked \/ scr[n].newest = scr[n].asked
      BY <1>2, <1>3, <1>5, <3>1
    <3>2. ASSUME req[s].nth # scr[n].asked, NEW t \in Slots,
                 req[t].kind = "profile", req[t].screen = n,
                 req[t].nth = scr[n].asked
          PROVE  /\ req'[t].kind = "profile" /\ req'[t].screen = n
                 /\ req'[t].nth = scr'[n].asked
      BY <1>2, <1>4, <3>2
    <3>3. scr'[n].newest <= scr'[n].asked
      BY <1>2, <1>3, <1>5
    <3> QED
      BY <3>1, <3>2, <3>3 DEF Counted
  <2>3. ASSUME NEW t \in Slots, req'[t].kind = "profile"
        PROVE  req'[t].nth <= scr'[req'[t].screen].asked
    <3>1. req'[t] = req[t]
      BY <1>4, <2>3
    <3>2. req[t].screen \in Screens /\ req[t].nth <= scr[req[t].screen].asked
      BY <2>3, <3>1, ItsScreen DEF Counted
    <3> QED
      BY <1>2, <3>1, <3>2
  <2> QED
    BY <2>1, <2>2, <2>3 DEF Counted
<1>7. Fresh'
  <2> SUFFICES ASSUME route'.manage, ~scr'[opened].threw, ~scr'[opened].overtaken
               PROVE  LastFresh(opened)' \/ Pending(opened)'
    BY DEF Fresh
  <2>1. opened \in Screens /\ route.manage
    BY <1>2, OnOpened
  <2>2. CASE opened # n
    <3>1. LastFresh(opened) \/ Pending(opened)
      BY <1>2, <2>1, <2>2 DEF Fresh
    <3>2. scr'[opened] = scr[opened] /\ opened \in Screens \ {n}
      BY <1>2, <2>1, <2>2
    <3> QED
      BY <1>1, <1>4, <3>1, <3>2, Elsewhere
  <2>3. CASE opened = n
    <3>1. /\ ~scr[n].threw /\ ~scr[n].overtaken
          /\ ~(req[s].nth < scr[n].newest) /\ scr'[n].newest = req[s].nth
      BY <1>2, <2>3
    <3>2. LastFresh(n) \/ Pending(n)
      BY <2>1, <2>3, <3>1 DEF Fresh
    <3>3. CASE Pending(n)
      BY <1>2, <1>4, <2>3, <3>3 DEF Pending, Changes
    <3>4. CASE LastFresh(n)
      <4>1. ASSUME scr'[n].newest = scr'[n].asked
            PROVE  scr'[n].shown.version \in {0, server.version}
        BY <1>1, <1>2, <3>1, <3>4, <4>1, Pages DEF LastFresh, Received
      <4>2. ASSUME NEW t \in Slots, req'[t].kind = "profile", req'[t].screen = n,
                   req'[t].nth = scr'[n].asked, req'[t].res = "ok"
            PROVE  req'[t].shown.version = server.version
        <5>1. req'[t] = req[t]
          BY <1>4, <4>2
        <5> QED
          BY <1>2, <3>4, <4>2, <5>1 DEF LastFresh
      <4> QED
        BY <2>3, <4>1, <4>2 DEF LastFresh
    <3> QED
      BY <3>2, <3>3, <3>4
  <2> QED
    BY <2>2, <2>3
<1> QED
  BY <1>6, <1>7

LEMMA FreshServe ==
    ASSUME Inv, Counted, Fresh, NEW s \in Slots, Serve(s)
    PROVE  Counted' /\ Fresh'
<1>1. TypeOK /\ req[s].res = "sent" /\ route' = route /\ opened' = opened
  BY DEF Serve, Inv
<1>2. /\ \A m \in Screens :
             scr'[m] \in {scr[m], [scr[m] EXCEPT !.overtaken = TRUE]}
      /\ \A t \in Slots \ {s} : req'[t] = req[t]
      /\ req'[s].kind = req[s].kind /\ req'[s].screen = req[s].screen
      /\ req'[s].nth = req[s].nth
  BY <1>1, Served
<1>3. \A m \in Screens :
          /\ scr'[m].shown = scr[m].shown /\ scr'[m].threw = scr[m].threw
          /\ scr'[m].asked = scr[m].asked /\ scr'[m].newest = scr[m].newest
          /\ scr[m].overtaken => scr'[m].overtaken
  BY <1>1, <1>2 DEF TypeOK, Screen
<1>4. \A t \in Slots : /\ req'[t].kind = req[t].kind
                       /\ req'[t].screen = req[t].screen
                       /\ req'[t].nth = req[t].nth
  BY <1>2
<1>5. Counted'
  <2>1. ASSUME NEW t \in Slots, req'[t].kind = "profile"
        PROVE  req'[t].nth <= scr'[req'[t].screen].asked
    BY <1>3, <1>4, <2>1, ItsScreen DEF Counted
  <2> QED
    BY <1>3, <1>4, <2>1 DEF Counted
<1>6. Fresh'
  <2> SUFFICES ASSUME route'.manage, ~scr'[opened].threw, ~scr'[opened].overtaken
               PROVE  LastFresh(opened)' \/ Pending(opened)'
    BY <1>1 DEF Fresh
  <2>1. opened \in Screens /\ opened >= 1 /\ route.manage
    BY <1>1, OnOpened
  <2>2. LastFresh(opened) \/ Pending(opened)
    BY <1>3, <2>1 DEF Fresh
  <2>3. Pending(opened) => Pending(opened)'
    BY <1>1, <1>2 DEF Pending
  <2>4. CASE /\ req[s].kind = "profile" /\ server' = server /\ scr' = scr
             /\ req'[s].shown.version = server.version
    <3>1. LastFresh(opened) => LastFresh(opened)'
      BY <1>1, <1>2, <2>4 DEF LastFresh
    <3> QED
      BY <2>2, <2>3, <3>1
  <2>5. CASE req[s].kind \in Changes /\ server' = server /\ scr' = scr
    <3>1. LastFresh(opened) => LastFresh(opened)'
      BY <1>1, <1>2, <2>5 DEF LastFresh, Changes
    <3> QED
      BY <2>2, <2>3, <3>1
  <2>6. CASE /\ req[s].kind \in Changes /\ req'[s].res = "ok"
             /\ scr' = Changed(req[s].screen)
    <3>1. CASE req[s].screen = opened
      BY <1>1, <1>2, <2>6, <3>1 DEF Pending
    <3>2. CASE req[s].screen # opened
      <4>1. scr' = [scr EXCEPT ![opened].overtaken = TRUE]
        BY <2>1, <2>6, <3>2 DEF Changed
      <4>2. scr'[opened].overtaken
        BY <1>1, <2>1, <4>1 DEF TypeOK, Screen
      <4> QED
        BY <4>2
    <3> QED
      BY <3>1, <3>2
  <2> QED
    BY <1>1, <2>4, <2>5, <2>6, ServedHow
<1> QED
  BY <1>5, <1>6

LEMMA FreshInit == Init => Counted /\ Fresh
<1> SUFFICES ASSUME Init PROVE Counted /\ Fresh
  OBVIOUS
<1>1. \A s \in Slots : req[s].kind = "free"
  BY Nothing DEF Init
<1>2. \A n \in Screens : scr[n].asked = 0 /\ scr[n].newest = 0
  BY DEF Init
<1> QED
  BY <1>1, <1>2 DEF Counted, Fresh, Init

LEMMA FreshStep == Inv /\ Counted /\ Fresh /\ [Next]_vars => Counted' /\ Fresh'
<1> SUFFICES ASSUME Inv, Counted, Fresh, [Next]_vars PROVE Counted' /\ Fresh'
  OBVIOUS
<1>0. TypeOK /\ scr \in [Screens -> Screen] /\ req \in [Slots -> Request]
      /\ route \in [manage: BOOLEAN, form: BOOLEAN]
  BY DEF Inv, TypeOK
<1>1. CASE OpenManage
  BY <1>1, FreshOpen
<1>2. CASE LeaveManage \/ OpenForm \/ LeaveForm
  <2>1. /\ server' = server /\ opened' = opened /\ scr' = scr /\ req' = req
        /\ route'.manage => route.manage
    BY <1>0, <1>2 DEF LeaveManage, OpenForm, LeaveForm
  <2> QED
    BY <2>1, FreshStays
<1>3. ASSUME NEW i \in 1 .. Len(Book), onClickAddressSelect(i)
      PROVE  Counted' /\ Fresh'
  <2>1. /\ server' = server /\ opened' = opened /\ req' = req /\ route' = route
        /\ scr' = [scr EXCEPT ![opened].radio = i]
    BY <1>3 DEF onClickAddressSelect
  <2>2. \A m \in Screens :
            /\ scr'[m].shown = scr[m].shown /\ scr'[m].threw = scr[m].threw
            /\ scr'[m].asked = scr[m].asked /\ scr'[m].newest = scr[m].newest
            /\ scr'[m].overtaken = scr[m].overtaken
    BY <1>0, <2>1 DEF Screen
  <2> QED
    BY <2>1, <2>2, FreshStays
<1>4. CASE \/ \E i \in 1 .. Len(Book) : callDeleteAddressAPI(i)
           \/ callUpdateAddress
  <2>1. PICK a \in Addresses, k \in Changes : Change(k, a)
    BY <1>4, Asks DEF Changes
  <2>2. opened \in Screens /\ opened \in Nat /\ a \in AnyAddress
    BY <1>4, Asks, OnOpened DEF Tappable, Screens, AnyAddress
  <2>3. /\ server' = server /\ opened' = opened /\ route' = route
        /\ scr' = [scr EXCEPT ![opened].isLoading = TRUE]
        /\ Send(Ask(k, opened, a, 0))
    BY <2>1 DEF Change
  <2>4. Ask(k, opened, a, 0).kind \in Changes
    BY <2>2, Asked DEF Kinds, Changes
  <2>5. \A s \in Slots : \/ req'[s] = req[s]
                         \/ req[s].kind = "free" /\ req'[s].kind \in Changes
    BY <1>0, <2>3, <2>4 DEF Send
  <2>6. \A m \in Screens :
            /\ scr'[m].shown = scr[m].shown /\ scr'[m].threw = scr[m].threw
            /\ scr'[m].asked = scr[m].asked /\ scr'[m].newest = scr[m].newest
            /\ scr'[m].overtaken = scr[m].overtaken
    BY <1>0, <2>3 DEF Screen
  <2> QED
    BY <2>3, <2>5, <2>6, FreshStays
<1>5. ASSUME NEW s \in Slots, Serve(s) PROVE Counted' /\ Fresh'
  BY <1>5, FreshServe
<1>6. ASSUME NEW s \in Slots, Fault(s) PROVE Counted' /\ Fresh'
  <2>1. server' = server /\ opened' = opened /\ route' = route /\ scr' = scr
    BY <1>6 DEF Fault
  <2>2. \A t \in Slots :
            \/ req'[t] = req[t]
            \/ /\ req'[t].kind = req[t].kind /\ req'[t].screen = req[t].screen
               /\ req'[t].nth = req[t].nth
               /\ req'[t].res # "ok"
               /\ req[t].res \in {"ok", "failed"} => req'[t].res = "failed"
    BY <1>0, <1>6, Failed DEF AllFaults
  <2> QED
    BY <2>1, <2>2, FreshStays
<1>7. ASSUME NEW s \in Slots, Reply(s) PROVE Counted' /\ Fresh'
  <2>1. server' = server /\ opened' = opened
    BY <1>7 DEF Reply
  <2>2. CASE ProfileReply(s)
    BY <2>1, <2>2, FreshAnswered
  <2>3. CASE DeleteReply(s)
    <3>1. /\ req[s].kind \in Changes /\ route' = route
          /\ \/ Relisted(s, req[s].screen)
             \/ /\ Closed(s, req[s].screen) /\ req[s].res # "ok"
                /\ req[s].res = "failed" => scr'[req[s].screen].threw
      BY <2>3, DeletionAnswered DEF Changes
    <3> QED
      BY <2>1, <3>1, FreshAgain, FreshClosed
  <2>4. CASE UpdateReply(s)
    <3>1. /\ req[s].kind \in Changes
          /\ route'.manage => route.manage
          /\ \/ Relisted(s, req[s].screen)
             \/ /\ Closed(s, req[s].screen)
                /\ \/ req[s].res = "message"
                   \/ ~OnScreen(req[s].screen) /\ route' = route
                   \/ ~route'.manage
      BY <1>0, <2>4, UpdateAnswered DEF Changes
    <3> QED
      BY <2>1, <3>1, FreshAgain, FreshClosed DEF OnScreen
  <2> QED
    BY <1>7, <2>2, <2>3, <2>4 DEF Reply
<1>8. CASE UNCHANGED vars
  BY <1>8 DEF vars, Counted, Fresh, LastFresh, Pending
<1> QED
  BY <1>1, <1>2, <1>3, <1>4, <1>5, <1>6, <1>7, <1>8 DEF Next

\* When nothing is under way the open screen shows the address book as the server
\* has it, or what an overtaking answer or a screen left before put in its place:
\* deletions ask for the list again, and other changes close the screen or have
\* the form ask for it (callDeleteAddressAPI, callUpdateAddress).
THEOREM ListStaysCurrent == Spec => []ListIsCurrent
<1>1. Init => Counted /\ Fresh
  BY FreshInit
<1>2. Inv /\ (Counted /\ Fresh) /\ [Next]_vars => (Counted /\ Fresh)'
  BY FreshStep
<1>3. Inv /\ (Counted /\ Fresh) => ListIsCurrent
  BY CurrentFromFresh
<1> QED
  BY <1>1, <1>2, <1>3, Always, PTL DEF Spec

----------------------------------------------------------------------------
(* The default address *)

\* A list is never newer than the book, and of its version it has its default.
Past(p) ==
    /\ p.version <= server.version
    /\ p.version = server.version => p.default = server.default

Snapshots ==
    /\ \A n \in Screens : Past(scr[n].shown)
    /\ \A s \in Slots : Past(req[s].shown)

\* While all changes were asked for one by one from the list as it was, no
\* deletion under way names the default address.
Solo ==
    ~mixed =>
        /\ \A s, t \in Slots : req[s].kind \in Changes /\ req[t].kind \in Changes => s = t
        /\ \A s \in Slots :
               req[s].kind = "delete" /\ req[s].res = "sent" => req[s].id # server.default

LEMMA PastPages ==
    ASSUME TypeOK
    PROVE  Past(NoPage) /\ Past(EmptyPage)
BY Pages DEF Past, TypeOK, Server

\* A step that only moves lists about and brings no change and no list.
LEMMA SoloStays ==
    ASSUME Inv, Snapshots, Solo, server' = server, mixed' = mixed,
           \A n \in Screens : scr'[n].shown = scr[n].shown,
           \A s \in Slots :
               /\ Past(req'[s].shown)
               /\ req'[s].kind \in Changes =>
                      req'[s].kind = req[s].kind /\ req'[s].id = req[s].id
               /\ req'[s].kind \in Changes /\ req'[s].res = "sent" =>
                      req[s].res = "sent"
    PROVE  Snapshots' /\ Solo'
<1>1. Snapshots'
  <2>1. ASSUME NEW n \in Screens PROVE Past(scr[n].shown)'
    BY DEF Snapshots, Past
  <2>2. ASSUME NEW s \in Slots PROVE Past(req[s].shown)'
    BY DEF Past
  <2> QED
    BY <2>1, <2>2 DEF Snapshots
<1>2. Solo'
  BY DEF Solo, Changes
<1> QED
  BY <1>1, <1>2

\* A change is asked for on the open screen: one that is not mixed names an
\* address of the book as it is.
LEMMA SoloChange ==
    ASSUME Inv, Snapshots, Solo, NEW k \in Changes, NEW a \in Addresses, Tappable,
           Change(k, a),
           k = "delete" => a \notin NoDelete(scr[opened].shown.default)
    PROVE  Snapshots' /\ Solo'
<1>1. opened \in Screens /\ opened \in Nat /\ a \in AnyAddress
  BY OnOpened DEF Tappable, Screens, AnyAddress
<1> DEFINE q == Ask(k, opened, a, 0)
<1>2. /\ q.kind = k /\ q.id = a /\ q.shown = NoPage
  BY <1>1, Asked DEF Kinds, Changes
<1> HIDE DEF q
<1>3. TypeOK /\ scr \in [Screens -> Screen] /\ req \in [Slots -> Request]
  BY DEF Inv, TypeOK
<1>4. /\ server' = server /\ mixed' = Mixed
      /\ scr' = [scr EXCEPT ![opened].isLoading = TRUE]
      /\ \E s \in Slots : req[s].kind = "free" /\ req' = [req EXCEPT ![s] = q]
  BY DEF Change, Send, q
<1>5. PICK s \in Slots : req[s].kind = "free" /\ req' = [req EXCEPT ![s] = q]
  BY <1>4
<1>6. \A n \in Screens : scr'[n].shown = scr[n].shown
  BY <1>3, <1>4 DEF Screen
<1>7. req'[s] = q /\ \A t \in Slots \ {s} : req'[t] = req[t]
  BY <1>3, <1>5
<1>8. Snapshots'
  <2>1. ASSUME NEW n \in Screens PROVE Past(scr[n].shown)'
    BY <1>4, <1>6 DEF Snapshots, Past
  <2>2. ASSUME NEW t \in Slots PROVE Past(req[t].shown)'
    <3>1. Past(req'[t].shown)
      BY <1>2, <1>3, <1>7, PastPages DEF Snapshots
    <3> QED
      BY <1>4, <3>1 DEF Past
  <2> QED
    BY <2>1, <2>2 DEF Snapshots
<1>9. Solo'
  <2> SUFFICES ASSUME ~Mixed
               PROVE  /\ \A t, u \in Slots :
                             req'[t].kind \in Changes /\ req'[u].kind \in Changes
                                 => t = u
                      /\ \A t \in Slots :
                             req'[t].kind = "delete" /\ req'[t].res = "sent"
                                 => req'[t].id # server.default
    BY <1>4 DEF Solo
  <2>1. \A t \in Slots : req[t].kind \notin Changes
    BY DEF Mixed
  <2>2. \A t \in Slots : req'[t].kind \in Changes => t = s
    BY <1>7, <2>1
  <2>3. scr[opened].shown.default = server.default
    BY <1>1 DEF Mixed, Snapshots, Past
  <2>4. k = "delete" => a # server.default
    BY <2>3 DEF NoDelete
  <2>5. \A t \in Slots : req'[t].kind = "delete" => req'[t].id # server.default
    BY <1>2, <1>7, <2>2, <2>4 DEF Changes
  <2> QED
    BY <2>2, <2>5
<1> QED
  BY <1>8, <1>9

\* What serving does to lists and deletions.
LEMMA SoloServe ==
    ASSUME Inv, Snapshots, Solo, NEW s \in Slots, Serve(s)
    PROVE  /\ Snapshots' /\ Solo'
           /\ server.default # NoAddress /\ server'.default = NoAddress => mixed
<1>1. TypeOK /\ req[s].res = "sent" /\ mixed' = mixed
  BY DEF Serve, Inv
<1>2. /\ \A m \in Screens :
             scr'[m] \in {scr[m], [scr[m] EXCEPT !.overtaken = TRUE]}
      /\ \A t \in Slots \ {s} : req'[t] = req[t]
      /\ req'[s].kind = req[s].kind /\ req'[s].id = req[s].id
      /\ req'[s].res \in {"ok", "message"}
  BY <1>1, Served
<1>3. \A m \in Screens : scr'[m].shown = scr[m].shown
  BY <1>1, <1>2 DEF TypeOK, Screen
<1>4. CASE /\ req[s].kind = "profile" /\ server' = server
           /\ req'[s].shown.version = server.version
           /\ req'[s].shown.default = server.default
  <2>1. server.version \in Nat
    BY <1>1 DEF TypeOK, Server
  <2>2. \A t \in Slots : Past(req'[t].shown)
    BY <1>2, <1>4, <2>1 DEF Past, Snapshots
  <2> QED
    BY <1>1, <1>2, <1>3, <1>4, <2>2, SoloStays
<1>5. CASE server' = server /\ req'[s].shown = req[s].shown
  <2>1. \A t \in Slots : Past(req'[t].shown)
    BY <1>2, <1>5 DEF Snapshots
  <2> QED
    BY <1>1, <1>2, <1>3, <1>5, <2>1, SoloStays
<1>6. CASE /\ req[s].kind \in Changes
           /\ server'.version = server.version + 1
           /\ req'[s].shown = req[s].shown
           /\ server'.default = NoAddress =>
                  \/ server.default = NoAddress
                  \/ req[s].kind = "delete" /\ server.default = req[s].id
  <2>1. server.version \in Nat
        /\ (\A n \in Screens : scr[n].shown.version \in Nat)
        /\ (\A t \in Slots : req[t].shown.version \in Nat)
    BY <1>1 DEF TypeOK, Server, Screen, Request, Shown
  <2>2. Snapshots'
    <3>1. ASSUME NEW n \in Screens PROVE Past(scr[n].shown)'
      BY <1>3, <1>6, <2>1 DEF Snapshots, Past
    <3>2. ASSUME NEW t \in Slots PROVE Past(req[t].shown)'
      <4>1. req'[t].shown = req[t].shown
        BY <1>2, <1>6
      <4> QED
        BY <1>6, <2>1, <4>1 DEF Snapshots, Past
    <3> QED
      BY <3>1, <3>2 DEF Snapshots
  <2>3. Solo'
    <3>1. ASSUME ~mixed, NEW t \in Slots, req'[t].kind \in Changes PROVE t = s
      BY <1>2, <1>6, <3>1 DEF Solo
    <3>2. ASSUME ~mixed, NEW t \in Slots, req'[t].kind = "delete",
                 req'[t].res = "sent"
          PROVE  FALSE
      BY <1>2, <3>1, <3>2 DEF Changes
    <3> QED
      BY <1>1, <3>1, <3>2 DEF Solo
  <2>4. server.default # NoAddress /\ server'.default = NoAddress => mixed
    BY <1>1, <1>6 DEF Solo
  <2> QED
    BY <2>2, <2>3, <2>4
<1> QED
  BY <1>1, <1>4, <1>5, <1>6, ServedHow

LEMMA SoloInit == Init => Snapshots /\ Solo
<1> SUFFICES ASSUME Init PROVE Snapshots /\ Solo
  OBVIOUS
<1>1. TypeOK
  BY InvInit DEF Inv
<1>2. \A s \in Slots : req[s].kind = "free" /\ req[s].shown = NoPage
  BY Nothing DEF Init
<1>3. \A n \in Screens : scr[n].shown = NoPage
  BY DEF Init
<1> QED
  BY <1>1, <1>2, <1>3, PastPages DEF Snapshots, Solo, Changes

LEMMA SoloStep ==
    ASSUME Inv, Snapshots, Solo, [Next]_vars
    PROVE  /\ Snapshots' /\ Solo'
           /\ server.default # NoAddress /\ server'.default = NoAddress => mixed
<1>0. TypeOK /\ scr \in [Screens -> Screen] /\ req \in [Slots -> Request]
  BY DEF Inv, TypeOK
<1>10. \A s \in Slots : Past(req[s].shown)
  BY DEF Snapshots
<1>1. CASE OpenManage
  <2>1. PICK n \in Screens : n = opened + 1
    BY <1>1, AddressBookAssumption
       DEF OpenManage, Inv, TypeOK, Screens, AddressBookAssumption
  <2>2. /\ Refreshed(n)[n] = [scr[n] EXCEPT !.radio = 0, !.isLoading = TRUE,
                                            !.asked = scr[n].asked + 1]
        /\ \A m \in Screens \ {n} : Refreshed(n)[m] = scr[m]
        /\ AskList(n).kind = "profile" /\ AskList(n).shown = NoPage
    BY <1>0, Again
  <2>3. /\ scr' = Refreshed(n) /\ Send(AskList(n))
        /\ server' = server /\ mixed' = mixed
    BY <1>1, <2>1 DEF OpenManage
  <2>4. \A m \in Screens : scr'[m].shown = scr[m].shown
    <3>1. scr'[n].shown = scr[n].shown
      <4>1. scr[n] \in Screen
        BY <1>0
      <4> QED
        BY <2>2, <2>3, <4>1 DEF Screen
    <3> QED
      BY <2>2, <2>3, <3>1
  <2>5. PICK s \in Slots : req' = [req EXCEPT ![s] = AskList(n)]
    BY <2>3 DEF Send
  <2>6. req'[s] = AskList(n) /\ \A t \in Slots \ {s} : req'[t] = req[t]
    BY <1>0, <2>5
  <2>7. \A t \in Slots : Past(req'[t].shown)
    BY <1>0, <1>10, <2>2, <2>6, PastPages
  <2>8. \A t \in Slots : req'[t].kind \in Changes => req'[t] = req[t]
    BY <2>2, <2>6 DEF Changes
  <2> QED
    BY <2>3, <2>4, <2>7, <2>8, SoloStays
<1>2. CASE LeaveManage \/ OpenForm \/ LeaveForm
  <2>1. server' = server /\ mixed' = mixed /\ scr' = scr /\ req' = req
    BY <1>2 DEF LeaveManage, OpenForm, LeaveForm
  <2> QED
    BY <1>10, <2>1, SoloStays
<1>3. ASSUME NEW i \in 1 .. Len(Book), onClickAddressSelect(i)
      PROVE  /\ Snapshots' /\ Solo' /\ server' = server
  <2>1. /\ server' = server /\ mixed' = mixed /\ req' = req
        /\ scr' = [scr EXCEPT ![opened].radio = i]
    BY <1>3 DEF onClickAddressSelect
  <2>2. \A n \in Screens : scr'[n].shown = scr[n].shown
    BY <1>0, <2>1 DEF Screen
  <2> QED
    BY <1>10, <2>1, <2>2, SoloStays
<1>4. CASE \/ \E i \in 1 .. Len(Book) : callDeleteAddressAPI(i)
           \/ callUpdateAddress
  <2>1. PICK a \in Addresses, k \in Changes :
            /\ Change(k, a)
            /\ k = "delete" => a \notin NoDelete(scr[opened].shown.default)
    BY <1>4, Asks DEF Changes
  <2>2. Tappable /\ server' = server
    BY <1>4, <2>1, Asks DEF Change
  <2>3. Snapshots' /\ Solo'
    BY <2>1, <2>2, SoloChange
  <2> QED
    BY <2>2, <2>3
<1>5. ASSUME NEW s \in Slots, Serve(s)
      PROVE  /\ Snapshots' /\ Solo'
             /\ server.default # NoAddress /\ server'.default = NoAddress => mixed
  BY <1>5, SoloServe
<1>6. ASSUME NEW s \in Slots, Fault(s)
      PROVE  /\ Snapshots' /\ Solo' /\ server' = server
  <2>1. server' = server /\ mixed' = mixed /\ scr' = scr
    BY <1>6 DEF Fault
  <2>2. \A t \in Slots :
            /\ req'[t].kind = req[t].kind /\ req'[t].id = req[t].id
            /\ req'[t].shown = req[t].shown
            /\ req'[t].res = "sent" => req[t].res = "sent"
    BY <1>0, <1>6, Failed DEF AllFaults
  <2> QED
    BY <1>10, <2>1, <2>2, SoloStays
<1>7. ASSUME NEW s \in Slots, Reply(s)
      PROVE  /\ Snapshots' /\ Solo' /\ server' = server
  <2>1. server' = server /\ mixed' = mixed
    BY <1>7 DEF Reply
  <2>2. PICK n \in Screens : n = req[s].screen
    <3>1. req[s].kind # "free"
      BY <1>7 DEF Reply, ProfileReply, DeleteReply, UpdateReply
    <3> QED
      BY <3>1, ItsScreen
  <2>3. /\ AskList(n).kind = "profile" /\ AskList(n).shown = NoPage
        /\ NoRequest.kind = "free" /\ NoRequest.shown = NoPage
    BY <1>0, <2>2, Again, Nothing
  <2>4. ASSUME req' \in {[req EXCEPT ![s] = NoRequest], [req EXCEPT ![s] = AskList(n)]}
        PROVE  /\ \A t \in Slots : Past(req'[t].shown)
               /\ \A t \in Slots : req'[t].kind \in Changes => req'[t] = req[t]
    <3>1. /\ req'[s] \in {NoRequest, AskList(n)}
          /\ \A t \in Slots \ {s} : req'[t] = req[t]
      BY <1>0, <2>4
    <3> QED
      BY <1>0, <1>10, <2>3, <3>1, PastPages DEF Changes
  <2>5. CASE Relisted(s, n) \/ Closed(s, n)
    <3>1. \A m \in Screens : scr'[m].shown = scr[m].shown
      BY <2>5 DEF Relisted, Closed
    <3>2. /\ \A t \in Slots : Past(req'[t].shown)
          /\ \A t \in Slots : req'[t].kind \in Changes => req'[t] = req[t]
      BY <2>4, <2>5 DEF Relisted, Closed
    <3> QED
      BY <2>1, <3>1, <3>2, SoloStays
  <2>6. CASE ProfileReply(s)
    <3>1. /\ scr'[n].shown = Received(req[s])
          /\ \A m \in Screens \ {n} : scr'[m] = scr[m]
          /\ req' = [req EXCEPT ![s] = NoRequest]
      BY <2>2, <2>6, ListAnswered
    <3>2. Past(Received(req[s]))
      BY <1>0, <1>10, PastPages DEF Received
    <3>3. \A m \in Screens : Past(scr'[m].shown)
      BY <3>1, <3>2 DEF Snapshots
    <3>4. /\ \A t \in Slots : Past(req'[t].shown)
          /\ \A t \in Slots : req'[t].kind \in Changes => req'[t] = req[t]
      BY <2>4, <3>1
    <3>5. Snapshots'
      <4>1. ASSUME NEW m \in Screens PROVE Past(scr[m].shown)'
        BY <2>1, <3>3 DEF Past
      <4>2. ASSUME NEW t \in Slots PROVE Past(req[t].shown)'
        BY <2>1, <3>4 DEF Past
      <4> QED
        BY <4>1, <4>2 DEF Snapshots
    <3>6. Solo'
      BY <2>1, <3>4 DEF Solo, Changes
    <3> QED
      BY <2>1, <3>5, <3>6
  <2>7. CASE DeleteReply(s)
    BY <2>2, <2>5, <2>7, DeletionAnswered
  <2>8. CASE UpdateReply(s)
    BY <2>2, <2>5, <2>8, UpdateAnswered
  <2> QED
    BY <1>7, <2>6, <2>7, <2>8 DEF Reply
<1>8. CASE UNCHANGED vars
  <2>1. server' = server /\ mixed' = mixed /\ scr' = scr /\ req' = req
    BY <1>8 DEF vars
  <2> QED
    BY <1>10, <2>1, SoloStays
<1>9. CASE OpenManage \/ LeaveManage \/ OpenForm \/ LeaveForm \/ UNCHANGED vars
  BY <1>1, <1>2, <1>8, <1>9
     DEF OpenManage, LeaveManage, OpenForm, LeaveForm, vars
<1> QED
  BY <1>3, <1>4, <1>5, <1>6, <1>7, <1>9 DEF Next

\* A customer who has a default address keeps one, but for changes that overlap
\* or are asked for from an old list (_manageAddress).
THEOREM DefaultKept == Spec => KeepsDefault
<1> DEFINE Kept ==
        server.default # NoAddress /\ server'.default = NoAddress => mixed
<1>1. Init => Snapshots /\ Solo
  BY SoloInit
<1>2. Inv /\ (Snapshots /\ Solo) /\ [Next]_vars => (Snapshots /\ Solo)'
  BY SoloStep
<1>3. Inv /\ (Snapshots /\ Solo) /\ [Next]_vars => Kept
  BY SoloStep
<1>4. Inv /\ (Snapshots /\ Solo) /\ [Next]_vars => [Kept]_vars
  BY <1>3
<1> QED
  BY <1>1, <1>2, <1>4, Always, PTL DEF Spec, KeepsDefault
=============================================================================
