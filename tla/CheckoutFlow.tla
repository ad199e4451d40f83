---------------------------- MODULE CheckoutFlow ----------------------------
(***************************************************************************)
(* What a checkout promises, whatever requests, spinners and routes there   *)
(* are.  Payment screens are opened one after the other and each does one   *)
(* thing at a time: it asks for the profile, sends the delivery, or pays.   *)
(* The server acts on such a request once at most, and only an answer lets  *)
(* the screen go on; only the last screen starts anything, and only one of  *)
(* which a delivery was taken pays.  An order uses the cart up, so that no  *)
(* cart is ordered twice, however often it is paid for; a new cart has no   *)
(* delivery until a screen sends one.                                       *)
(***************************************************************************)
EXTENDS Integers

CONSTANT Screens  \* the payment screens, by the order they are opened in

VARIABLES
    phase,  \* what each screen does: "closed" until it is opened; "asking" for
            \* the profile, "setting" the delivery, "paying"; "answered" when the
            \* server or the network is done with the last two; "stuck" when an
            \* exception has ended its handler under the spinner; "idle"
    taken,  \* the screens of which the server took a delivery
    cart    \* the server's cart: its number, and whether it may be ordered

vars == <<phase, taken, cart>>

\* Only the last screen opened can be on top.
Last(n) == \A m \in Screens : m > n => phase[m] = "closed"

\* Screen n goes from one of these phases to one of those.
Goes(n, from, to) ==
    /\ phase[n] \in from
    /\ \E p \in to : phase' = [phase EXCEPT ![n] = p]

Init ==
    /\ phase = [n \in Screens |-> "closed"]
    /\ taken = {}
    /\ cart = [number |-> 1, active |-> TRUE, delivered |-> FALSE]

\* A new screen asks for the profile at once, one already open when the
\* customer comes back from the addresses.
Open(n) ==
    /\ Goes(n, {"closed"}, {"asking"})
    /\ \A m \in Screens : m < n => phase[m] # "closed"
    /\ UNCHANGED <<taken, cart>>

Return(n) ==
    /\ Goes(n, {"idle"}, {"asking"})
    /\ Last(n)
    /\ UNCHANGED <<taken, cart>>

\* The profile, with the addresses to deliver to, or without.
Asked(n) ==
    /\ Goes(n, {"asking"}, {"setting", "idle"})
    /\ UNCHANGED <<taken, cart>>

Deliver(n) ==
    /\ cart.active
    /\ Goes(n, {"setting"}, {"answered"})
    /\ taken' = taken \cup {n}
    /\ cart' = [cart EXCEPT !.delivered = TRUE]

Pay(n) ==
    /\ Goes(n, {"idle"}, {"paying"})
    /\ Last(n) /\ n \in taken
    /\ UNCHANGED <<taken, cart>>

Order(n) ==
    /\ n \in taken /\ cart.active /\ cart.delivered
    /\ Goes(n, {"paying"}, {"answered"})
    /\ cart' = [cart EXCEPT !.active = FALSE]
    /\ UNCHANGED taken

\* Refused, or lost on the way.
Refuse(n) ==
    /\ Goes(n, {"setting", "paying"}, {"answered"})
    /\ UNCHANGED <<taken, cart>>

\* The screen goes on, or not at all.
Answered(n) ==
    /\ Goes(n, {"answered"}, {"idle", "stuck"})
    /\ UNCHANGED <<taken, cart>>

NewCart ==
    /\ ~cart.active
    /\ cart' = [number |-> cart.number + 1, active |-> TRUE, delivered |-> FALSE]
    /\ UNCHANGED <<phase, taken>>

\* Every step of a screen takes it to another phase.
Step(n) ==
    /\ phase'[n] # phase[n]
    /\ \/ Open(n) \/ Return(n) \/ Asked(n) \/ Deliver(n)
       \/ Pay(n) \/ Order(n) \/ Refuse(n) \/ Answered(n)

Next == NewCart \/ \E n \in Screens : Step(n)

Spec == Init /\ [][Next]_vars
=============================================================================
