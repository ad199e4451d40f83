------------------------- MODULE CheckoutFlowProofs -------------------------
(***************************************************************************)
(* Checkout implements CheckoutFlow, for any number of payment screens,     *)
(* requests in flight, methods and addresses.  The argument: at most one    *)
(* awaited request of a screen is under way (Serial, of CheckoutProofs), so *)
(* that this request says what the screen does; and a request to pay is     *)
(* only there when the server took a delivery of the screen (Delivery).     *)
(***************************************************************************)
EXTENDS CheckoutProofs

----------------------------------------------------------------------------
(* What a screen does *)

\* What a request that a screen awaits says of the screen.
Stage(r) ==
    IF r.kind = "profile" THEN "asking"
    ELSE IF r.res # "sent" THEN "answered"
    ELSE IF r.kind = "setship" THEN "setting" ELSE "paying"

\* The request that an open screen awaits tells its phase; without one its
\* spinner does.
PhaseTold ==
    \A n \in Screens :
        /\ n > opened => Phase(n) = "closed"
        /\ \A s \in Slots :
               ~(n > opened) /\ Pending(s, n) => Phase(n) = Stage(req[s])
        /\ ~(n > opened) /\ (\A s \in Slots : ~Pending(s, n))
               => Phase(n) = IF scr[n].isLoading THEN "stuck" ELSE "idle"

LEMMA SerialTold == Serial => PhaseTold
<1> SUFFICES ASSUME Serial, NEW n \in Screens
             PROVE  /\ n > opened => Phase(n) = "closed"
                    /\ \A s \in Slots :
                           ~(n > opened) /\ Pending(s, n) => Phase(n) = Stage(req[s])
                    /\ ~(n > opened) /\ (\A s \in Slots : ~Pending(s, n))
                           => Phase(n) = IF scr[n].isLoading THEN "stuck" ELSE "idle"
  BY DEF PhaseTold
<1>1. n > opened => Phase(n) = "closed"
  BY DEF Phase
<1>2. ASSUME NEW s \in Slots, ~(n > opened), Pending(s, n)
      PROVE  Phase(n) = Stage(req[s])
  <2> DEFINE own == {t \in Slots : req[t].kind \in Awaited /\ req[t].screen = n}
  <2>1. own = {s}
    BY <1>2 DEF Serial, OneAtATime, Pending
  <2>2. Phase(n) = IF \E t \in own : req[t].kind \in {"profile"} THEN "asking"
                   ELSE IF \E t \in own : req[t].res # "sent" THEN "answered"
                   ELSE IF \E t \in own : req[t].kind \in {"setship"} THEN "setting"
                   ELSE "paying"
    BY <1>2, <2>1 DEF Phase
  <2> HIDE DEF own
  <2> QED
    BY <2>1, <2>2 DEF Stage
<1>3. ASSUME ~(n > opened), \A s \in Slots : ~Pending(s, n)
      PROVE  Phase(n) = IF scr[n].isLoading THEN "stuck" ELSE "idle"
  <2>1. {t \in Slots : req[t].kind \in Awaited /\ req[t].screen = n} = {}
    BY <1>3 DEF Pending
  <2> QED
    BY <1>3, <2>1 DEF Phase
<1> QED
  BY <1>1, <1>2, <1>3

LEMMA ToldNext == Serial' => PhaseTold'
BY SerialTold, PTL

\* A screen whose own request and spinner a step leaves alone does what it did.
LEMMA Untouched ==
    ASSUME Serial, Serial', NEW n \in Screens,
           n > opened' <=> n > opened,
           \A s \in Slots : Pending(s, n)' <=> Pending(s, n),
           \A s \in Slots : Pending(s, n) => Stage(req'[s]) = Stage(req[s]),
           scr'[n].isLoading = scr[n].isLoading
    PROVE  Phase(n)' = Phase(n)
<1>1. PhaseTold /\ PhaseTold'
  BY SerialTold, ToldNext
<1>2. CASE n > opened
  BY <1>1, <1>2 DEF PhaseTold
<1>3. CASE ~(n > opened) /\ \E s \in Slots : Pending(s, n)
  BY <1>1, <1>3 DEF PhaseTold
<1>4. CASE ~(n > opened) /\ \A s \in Slots : ~Pending(s, n)
  BY <1>1, <1>4 DEF PhaseTold
<1> QED
  BY <1>2, <1>3, <1>4

\* One screen goes on, the others do what they did.
LEMMA Moves ==
    ASSUME NEW n \in Screens, NEW from, NEW to, from \cap to = {},
           Phase(n) \in from, Phase(n)' \in to,
           \A m \in Screens : m # n => Phase(m)' = Phase(m)
    PROVE  /\ Flow!Goes(n, from, to)
           /\ [m \in Screens |-> Phase(m)]'[n] # [m \in Screens |-> Phase(m)][n]
<1> DEFINE f == [m \in Screens |-> Phase(m)]
           g == [m \in Screens |-> Phase(m)']
<1>1. g = [f EXCEPT ![n] = Phase(n)']
  OBVIOUS
<1>2. f[n] = Phase(n) /\ g[n] = Phase(n)'
  OBVIOUS
<1>3. [m \in Screens |-> Phase(m)]' = g
  OBVIOUS
<1> HIDE DEF f, g
<1>4. f[n] \in from /\ \E p \in to : g = [f EXCEPT ![n] = p]
  BY <1>1, <1>2
<1>5. g[n] # f[n]
  BY <1>2
<1> QED
  BY <1>3, <1>4, <1>5 DEF Flow!Goes, f, g

\* Every screen does what it did, and so does the server.
LEMMA Still ==
    ASSUME \A n \in Screens : Phase(n)' = Phase(n),
           srv' = srv,
           \A n \in Screens : done'[n].taken = done[n].taken
    PROVE  UNCHANGED Flow!vars
<1>1. [n \in Screens |-> Phase(n)]' = [n \in Screens |-> Phase(n)]
  OBVIOUS
<1>2. {n \in Screens : done[n].taken}' = {n \in Screens : done[n].taken}
  OBVIOUS
<1> QED
  BY <1>1, <1>2 DEF Flow!vars

\* The last screen opened.
LEMMA LastOpened ==
    ASSUME Serial, NEW n \in Screens, n = opened
    PROVE  Flow!Last(n)
<1>1. \A m \in Screens : m > n => Phase(m) = "closed"
  BY SerialTold DEF PhaseTold
<1> QED
  BY <1>1 DEF Flow!Last

LEMMA AllStill ==
    ASSUME Serial, Serial',
           \A s \in Slots, n \in Screens : Pending(s, n)' <=> Pending(s, n),
           \A s \in Slots, n \in Screens :
               Pending(s, n) => Stage(req'[s]) = Stage(req[s]),
           \A n \in Screens : scr'[n].isLoading = scr[n].isLoading,
           opened' = opened, srv' = srv,
           \A n \in Screens : done'[n].taken = done[n].taken
    PROVE  UNCHANGED Flow!vars
<1>1. ASSUME NEW n \in Screens PROVE Phase(n)' = Phase(n)
  BY Untouched
<1> QED
  BY <1>1, Still

\* A step in the life of a request of one screen leaves the others alone.
LEMMA Others ==
    ASSUME Serial, Serial', NEW s \in Slots, NEW n \in Screens,
           \A t \in Slots : t # s => req'[t] = req[t],
           Pending(s, n) \/ req[s].kind \notin Awaited,
           Pending(s, n)' \/ req'[s].kind \notin Awaited,
           \A m \in Screens : m # n => scr'[m].isLoading = scr[m].isLoading,
           \A m \in Screens : m # n => (m > opened' <=> m > opened)
    PROVE  \A m \in Screens : m # n => Phase(m)' = Phase(m)
<1> SUFFICES ASSUME NEW m \in Screens, m # n PROVE Phase(m)' = Phase(m)
  OBVIOUS
<1>1. \A t \in Slots : Pending(t, m)' <=> Pending(t, m)
  BY DEF Pending
<1>2. \A t \in Slots : Pending(t, m) => Stage(req'[t]) = Stage(req[t])
  BY DEF Pending
<1> QED
  BY <1>1, <1>2, Untouched

\* What a screen does before and after a step in the life of its request.
LEMMA Before ==
    ASSUME Serial, NEW s \in Slots, NEW n \in Screens, Pending(s, n)
    PROVE  Phase(n) = Stage(req[s]) /\ n <= opened
           /\ \A t \in Slots : t # s => ~Pending(t, n)
<1>1. n <= opened /\ ~(n > opened)
  BY OpenedScreens DEF Serial, FromOpened, Pending, Screens
<1> QED
  BY <1>1, SerialTold DEF PhaseTold, Serial, OneAtATime, Pending

LEMMA After ==
    ASSUME Serial', NEW s \in Slots, NEW n \in Screens, Pending(s, n)'
    PROVE  Phase(n)' = Stage(req'[s])
<1>1. 1..opened' \subseteq Screens /\ opened' \in Nat
  BY CheckoutAssumption DEF Serial, TypeOK, Screens, CheckoutAssumption
<1>2. ~(n > opened')
  BY <1>1 DEF Serial, FromOpened, Pending, Screens
<1> QED
  BY <1>2, ToldNext DEF PhaseTold

LEMMA AfterNothing ==
    ASSUME Serial', NEW n \in Screens, n <= opened',
           \A t \in Slots : ~Pending(t, n)'
    PROVE  Phase(n)' = IF scr'[n].isLoading THEN "stuck" ELSE "idle"
<1>1. ~(n > opened')
  BY CheckoutAssumption DEF Serial, TypeOK, Screens, CheckoutAssumption
<1> QED
  BY <1>1, ToldNext DEF PhaseTold

----------------------------------------------------------------------------
(* The steps *)

LEMMA FlowInit == Init => Flow!Init
<1> SUFFICES ASSUME Init PROVE Flow!Init
  OBVIOUS
<1>1. \A n \in Screens : Phase(n) = "closed"
  BY DEF Init, Phase, Screens
<1>2. [n \in Screens |-> Phase(n)] = [n \in Screens |-> "closed"]
  BY <1>1
<1>3. {n \in Screens : done[n].taken} = {}
  BY DEF Init
<1>4. srv = [quote |-> 1, active |-> TRUE, method |-> NoMethod,
             address |-> NoAddress]
  BY DEF Init
<1> QED
  BY <1>2, <1>3, <1>4 DEF Flow!Init

\* The customer's steps that send nothing.
LEMMA FlowCustomer ==
    ASSUME Serial, Serial',
           \/ LeavePayment
           \/ \E c \in BOOLEAN : EstimateAnswered(c)
           \/ OpenAddresses
           \/ \E a \in AnyAddress : ChangeDefault(a)
           \/ \E i \in 0..1 : _onClickRadioPaymentMethod(i)
           \/ LeaveWebView \/ CallbackLoaded
    PROVE  UNCHANGED Flow!vars
<1>1. req' = req /\ opened' = opened /\ srv' = srv /\ done' = done
  BY DEF LeavePayment, EstimateAnswered, OpenAddresses, ChangeDefault,
         _onClickRadioPaymentMethod, LeaveWebView, CallbackLoaded
<1>2. ASSUME NEW n \in Screens PROVE scr'[n].isLoading = scr[n].isLoading
  <2>1. scr \in [Screens -> Screen] /\ scr[n] \in Screen
    BY DEF Serial, TypeOK
  <2>2. ASSUME NEW c \in BOOLEAN, EstimateAnswered(c)
        PROVE  scr'[n].isLoading = scr[n].isLoading
    BY <2>1, <2>2 DEF EstimateAnswered, Screen
  <2>3. ASSUME NEW i \in 0..1, _onClickRadioPaymentMethod(i)
        PROVE  scr'[n].isLoading = scr[n].isLoading
    BY <2>1, <2>3 DEF _onClickRadioPaymentMethod, Screen
  <2> QED
    BY <2>2, <2>3 DEF LeavePayment, OpenAddresses, ChangeDefault, LeaveWebView,
                      CallbackLoaded
<1> QED
  BY <1>1, <1>2, AllStill DEF Pending

LEMMA FlowContinue ==
    ASSUME Serial, Serial', ContinueShopping
    PROVE  UNCHANGED Flow!vars
<1>1. PICK s \in Free :
          req' = [req EXCEPT ![s] = Ask("quote", opened, 0, NoMethod, NoAddress)]
  BY DEF ContinueShopping
<1>2. req \in [Slots -> Request] /\ scr' = scr /\ opened' = opened
        /\ srv' = srv /\ done' = done
  BY DEF ContinueShopping, Serial, TypeOK
<1>3. s \in Slots /\ req[s].kind = "free" /\ req'[s].kind = "quote"
        /\ \A t \in Slots : t # s => req'[t] = req[t]
  BY <1>1, <1>2 DEF Free, Ask
<1>4. \A t \in Slots, n \in Screens : Pending(t, n)' <=> Pending(t, n)
  BY <1>3 DEF Pending, Awaited
<1>5. \A t \in Slots, n \in Screens :
          Pending(t, n) => Stage(req'[t]) = Stage(req[t])
  BY <1>3 DEF Pending, Awaited
<1> QED
  BY <1>2, <1>4, <1>5, AllStill

\* The answers to requests that no screen awaits.
LEMMA FlowUnawaited ==
    ASSUME Serial, Serial', NEW s \in Slots, Reply(s),
           RegistrationReply(s) \/ QuoteReply(s)
    PROVE  UNCHANGED Flow!vars
<1>1. req \in [Slots -> Request] /\ opened' = opened
        /\ srv' = srv /\ done' = done
  BY DEF Reply, Serial, TypeOK
<1>2. req[s].kind \notin Awaited /\ req'[s].kind \notin Awaited
        /\ \A t \in Slots : t # s => req'[t] = req[t]
  BY <1>1, Nothing DEF RegistrationReply, QuoteReply, Answer, Awaited
<1>3. ASSUME NEW n \in Screens PROVE scr'[n].isLoading = scr[n].isLoading
  <2>1. scr[n] \in Screen
    BY DEF Serial, TypeOK
  <2> QED
    BY <2>1 DEF RegistrationReply, QuoteReply, Screen
<1>4. \A t \in Slots, n \in Screens : Pending(t, n)' <=> Pending(t, n)
  BY <1>2 DEF Pending
<1>5. \A t \in Slots, n \in Screens :
          Pending(t, n) => Stage(req'[t]) = Stage(req[t])
  BY <1>2 DEF Pending
<1> QED
  BY <1>1, <1>3, <1>4, <1>5, AllStill

\* A new screen: the ones below are open, none above.
LEMMA FlowProceed ==
    ASSUME Serial, Serial', NEW m \in AnyMethod, ProceedToCheckout(m)
    PROVE  Flow!Next
<1>1. opened + 1 \in Screens /\ opened \in Nat /\ opened' = opened + 1
        /\ scr \in [Screens -> Screen] /\ req \in [Slots -> Request]
        /\ srv' = srv /\ done' = done
  BY CheckoutAssumption, OpenedScreens
     DEF ProceedToCheckout, Serial, TypeOK, Screens, CheckoutAssumption
<1>2. PICK n \in Screens : n = opened + 1
  BY <1>1
<1>3. PICK s \in Free :
          req' = [req EXCEPT ![s] = Ask("profile", n, 0, NoMethod, NoAddress)]
  BY <1>2 DEF ProceedToCheckout
<1>4. s \in Slots /\ req[s].kind = "free"
        /\ req'[s].kind = "profile" /\ req'[s].screen = n
        /\ \A t \in Slots : t # s => req'[t] = req[t]
  BY <1>1, <1>3 DEF Free, Ask
<1>5. Pending(s, n)' /\ req[s].kind \notin Awaited
  BY <1>4 DEF Pending, Awaited
<1>6. /\ \A k \in Screens : k # n => scr'[k] = scr[k]
      /\ \A k \in Screens : k # n => (k > opened' <=> k > opened)
  BY <1>1, <1>2 DEF ProceedToCheckout, Screens
<1>7. \A k \in Screens : k # n => Phase(k)' = Phase(k)
  BY <1>4, <1>5, <1>6, Others
<1>8. Phase(n) = "closed"
  BY <1>1, <1>2, SerialTold DEF PhaseTold
<1>9. Phase(n)' = "asking"
  BY <1>4, <1>5, After DEF Stage
<1>10. ASSUME NEW k \in Screens, k < n PROVE Phase(k) # "closed"
  <2>1. ~(k > opened)
    BY <1>1, <1>2, <1>10 DEF Screens
  <2>2. \A t \in Slots : Stage(req[t]) # "closed"
    BY DEF Stage
  <2> QED
    BY <2>1, <2>2, SerialTold DEF PhaseTold
<1>11. /\ Flow!Goes(n, {"closed"}, {"asking"})
       /\ [k \in Screens |-> Phase(k)]'[n] # [k \in Screens |-> Phase(k)][n]
  BY <1>7, <1>8, <1>9, Moves
<1>12. Flow!Open(n)
  BY <1>1, <1>10, <1>11 DEF Flow!Open
<1> QED
  BY <1>11, <1>12 DEF Flow!Next, Flow!Step

\* The last screen asks for the profile again, or pays: it was doing nothing.
LEMMA FlowAsk ==
    ASSUME Serial, Serial', Delivery, LeaveAddresses \/ _onClickButtonPayNow
    PROVE  Flow!Next
<1>1. opened \in Screens /\ opened \in Nat /\ ~scr[opened].isLoading
        /\ opened' = opened /\ srv' = srv /\ done' = done
  BY CheckoutAssumption, OpenedScreens
     DEF LeaveAddresses, _onClickButtonPayNow, Tappable, Top, Serial, Routes,
         TypeOK, Screens, CheckoutAssumption
<1>2. scr \in [Screens -> Screen] /\ req \in [Slots -> Request]
        /\ scr[opened] \in Screen
  BY <1>1 DEF Serial, TypeOK
<1>3. PICK n \in Screens : n = opened
  BY <1>1
<1>4. \A k \in Screens : k # n => scr'[k] = scr[k]
  BY <1>2, <1>3 DEF LeaveAddresses, _onClickButtonPayNow
<1>5. \A t \in Slots : ~Pending(t, n)
  BY <1>1, <1>3 DEF Serial, OneAtATime, Pending
<1>6. Phase(n) = "idle"
  BY <1>1, <1>3, <1>5, SerialTold DEF PhaseTold
<1>7. Flow!Last(n)
  BY <1>3, LastOpened
<1>8. ASSUME NEW s \in Free, NEW k \in Awaited,
             req'[s].kind = k, req'[s].screen = n, req'[s].res = "sent",
             \A t \in Slots : t # s => req'[t] = req[t]
      PROVE  /\ \A m \in Screens : m # n => Phase(m)' = Phase(m)
             /\ k = "profile" => Phase(n)' = "asking"
             /\ k \in {"pay", "gateway"} => Phase(n)' = "paying"
  <2>1. s \in Slots /\ req[s].kind \notin Awaited /\ Pending(s, n)'
    BY <1>8 DEF Free, Pending, Awaited
  <2>2. \A m \in Screens : m # n => Phase(m)' = Phase(m)
    BY <1>1, <1>4, <1>8, <2>1, Others
  <2>3. Phase(n)' = Stage(req'[s])
    BY <2>1, After
  <2> QED
    BY <1>8, <2>2, <2>3 DEF Stage
<1>9. CASE LeaveAddresses
  <2>1. PICK s \in Free : req' = [req EXCEPT ![s] =
            Ask("profile", n, 0, NoMethod, NoAddress)]
    BY <1>3, <1>9 DEF LeaveAddresses
  <2>2. req'[s].kind = "profile" /\ req'[s].screen = n /\ req'[s].res = "sent"
          /\ \A t \in Slots : t # s => req'[t] = req[t]
    BY <1>2, <2>1 DEF Free, Ask
  <2>3. Phase(n)' = "asking" /\ \A m \in Screens : m # n => Phase(m)' = Phase(m)
    BY <1>8, <2>2 DEF Awaited
  <2>4. /\ Flow!Goes(n, {"idle"}, {"asking"})
        /\ [k \in Screens |-> Phase(k)]'[n] # [k \in Screens |-> Phase(k)][n]
    BY <1>6, <2>3, Moves
  <2>5. Flow!Return(n)
    BY <1>1, <1>7, <2>4 DEF Flow!Return
  <2> QED
    BY <2>4, <2>5 DEF Flow!Next, Flow!Step
<1>10. CASE _onClickButtonPayNow
  <2> DEFINE kind == IF scr[opened].chosen = 0 THEN "gateway" ELSE "pay"
  <2>1. PICK s \in Free : req' = [req EXCEPT ![s] =
            Ask(kind, n, quoteId, scr[opened].method, scr[opened].address)]
    BY <1>3, <1>10 DEF _onClickButtonPayNow
  <2>2. kind \in {"pay", "gateway"}
    OBVIOUS
  <2> HIDE DEF kind
  <2>3. req'[s].kind = kind /\ req'[s].screen = n /\ req'[s].res = "sent"
          /\ \A t \in Slots : t # s => req'[t] = req[t]
    BY <1>2, <2>1 DEF Free, Ask
  <2>4. Phase(n)' = "paying" /\ \A m \in Screens : m # n => Phase(m)' = Phase(m)
    BY <1>8, <2>2, <2>3 DEF Awaited
  <2>5. /\ Flow!Goes(n, {"idle"}, {"paying"})
        /\ [k \in Screens |-> Phase(k)]'[n] # [k \in Screens |-> Phase(k)][n]
    BY <1>6, <2>4, Moves
  <2>6. scr[n].listed # 0
    BY <1>2, <1>3, <1>10 DEF _onClickButtonPayNow, MayPay, Screen
  <2>7. n \in {m \in Screens : done[m].taken}
    BY <2>6 DEF Delivery, Taken
  <2>8. Flow!Pay(n)
    BY <1>1, <1>7, <2>5, <2>7 DEF Flow!Pay
  <2> QED
    BY <2>5, <2>8 DEF Flow!Next, Flow!Step
<1> QED
  BY <1>9, <1>10

\* The server or the network is done with an awaited request s of screen n.
LEMMA Dealt ==
    ASSUME Serial, Serial', NEW s \in Slots, Serve(s) \/ Fault(s),
           NEW n \in Screens, Pending(s, n)
    PROVE  /\ Phase(n) = Stage(req[s]) /\ Phase(n)' = Stage(req'[s])
           /\ \A m \in Screens : m # n => Phase(m)' = Phase(m)
<1>1. /\ \A t \in Slots : t # s => req'[t] = req[t]
      /\ req'[s].kind = req[s].kind /\ req'[s].screen = req[s].screen
  BY SameRequest DEF Serial
<1>2. Pending(s, n)' /\ scr' = scr /\ opened' = opened
  BY <1>1 DEF Pending, Serve, Fault
<1>3. \A m \in Screens : m # n => Phase(m)' = Phase(m)
  BY <1>1, <1>2, Others
<1> QED
  BY <1>2, <1>3, Before, After

\* Serving or losing a request that tells nothing else of its screen.
LEMMA DealtSame ==
    ASSUME Serial, Serial', NEW s \in Slots, Serve(s) \/ Fault(s),
           req[s].kind \in Awaited => Stage(req'[s]) = Stage(req[s]),
           srv' = srv, \A n \in Screens : done'[n].taken = done[n].taken
    PROVE  UNCHANGED Flow!vars
<1>1. /\ \A t \in Slots : t # s => req'[t] = req[t]
      /\ req'[s].kind = req[s].kind /\ req'[s].screen = req[s].screen
  BY SameRequest DEF Serial
<1>2. \A t \in Slots, n \in Screens : Pending(t, n)' <=> Pending(t, n)
  BY <1>1 DEF Pending
<1>3. \A t \in Slots, n \in Screens :
          Pending(t, n) => Stage(req'[t]) = Stage(req[t])
  BY <1>1 DEF Pending
<1>4. scr' = scr /\ opened' = opened
  BY DEF Serve, Fault
<1> QED
  BY <1>2, <1>3, <1>4, AllStill

\* A delivery or a payment that is refused, or lost on the way.
LEMMA DealtRefused ==
    ASSUME Serial, Serial', NEW s \in Slots, Serve(s) \/ Fault(s),
           req[s].kind \in {"setship", "pay", "gateway"}, req[s].res = "sent",
           req'[s].res # "sent",
           srv' = srv, \A n \in Screens : done'[n].taken = done[n].taken
    PROVE  Flow!Next
<1>1. req[s].screen \in Screens
  BY OpenedScreens DEF Serial, FromOpened, Awaited
<1>2. PICK n \in Screens : n = req[s].screen
  BY <1>1
<1>3. Pending(s, n) /\ req'[s].kind = req[s].kind
  BY <1>2, SameRequest DEF Pending, Awaited, Serial
<1>4. /\ Phase(n) \in {"setting", "paying"} /\ Phase(n)' \in {"answered"}
      /\ \A m \in Screens : m # n => Phase(m)' = Phase(m)
  BY <1>3, Dealt DEF Stage
<1>5. /\ Flow!Goes(n, {"setting", "paying"}, {"answered"})
      /\ [k \in Screens |-> Phase(k)]'[n] # [k \in Screens |-> Phase(k)][n]
  BY <1>4, Moves
<1>6. {k \in Screens : done[k].taken}' = {k \in Screens : done[k].taken}
  OBVIOUS
<1>7. Flow!Refuse(n)
  BY <1>5, <1>6 DEF Flow!Refuse
<1> QED
  BY <1>5, <1>7 DEF Flow!Next, Flow!Step

\* The cart in the words of CheckoutFlow, when one field of it is replaced.
LEMMA CartFields ==
    ASSUME NEW q, NEW a, NEW d, NEW b
    PROVE  /\ [[number |-> q, active |-> a, delivered |-> d] EXCEPT !.delivered = b]
                  = [number |-> q, active |-> a, delivered |-> b]
           /\ [[number |-> q, active |-> a, delivered |-> d] EXCEPT !.active = b]
                  = [number |-> q, active |-> b, delivered |-> d]
OBVIOUS

LEMMA FlowServeShipping ==
    ASSUME Serial, Serial', NEW s \in Slots, Serve(s), ServeShipping(s)
    PROVE  Flow!Next
<1> DEFINE r == req[s]
<1>1. r.kind = "setship" /\ r.res = "sent" /\ r.screen \in Screens
        /\ r.method \in AnyMethod
  BY OpenedScreens
     DEF Serve, ServeShipping, Serial, FromOpened, Awaited, TypeOK, Request
<1>2. req \in [Slots -> Request] /\ srv \in Server /\ r \in Request
        /\ done \in [Screens -> Done]
  BY DEF Serial, TypeOK
<1>3. CASE r.quote = srv.quote /\ srv.active /\ r.method # NoMethod
  <2>1. PICK c \in 0..2 : req' = [req EXCEPT ![s] =
                                     [r EXCEPT !.res = "ok", !.count = c]]
    BY <1>3 DEF ServeShipping, Answer
  <2>2. req'[s].res = "ok" /\ req'[s].kind = "setship"
    BY <1>1, <1>2, <2>1 DEF Request
  <2>3. PICK n \in Screens : n = r.screen
    BY <1>1
  <2>4. Pending(s, n)
    BY <1>1, <2>3 DEF Pending, Awaited
  <2>5. /\ Phase(n) \in {"setting"} /\ Phase(n)' \in {"answered"}
        /\ \A m \in Screens : m # n => Phase(m)' = Phase(m)
    BY <1>1, <2>2, <2>4, Dealt DEF Stage
  <2>6. /\ Flow!Goes(n, {"setting"}, {"answered"})
        /\ [k \in Screens |-> Phase(k)]'[n] # [k \in Screens |-> Phase(k)][n]
    BY <2>5, Moves
  <2>7. done' = Took(n)
    BY <1>3, <2>3 DEF ServeShipping
  <2>8. \A m \in Screens : done'[m].taken <=> done[m].taken \/ m = n
    <3> SUFFICES ASSUME NEW m \in Screens
                 PROVE  done'[m].taken <=> done[m].taken \/ m = n
      OBVIOUS
    <3>1. done[m] \in Done
      BY <1>2
    <3> QED
      BY <2>7, <3>1 DEF Took, Done
  <2>9. {m \in Screens : done[m].taken}'
            = {m \in Screens : done[m].taken} \cup {n}
    BY <2>8
  <2>10. srv' = [srv EXCEPT !.method = r.method, !.address = r.address]
    BY <1>3 DEF ServeShipping
  <2>11. srv'.quote = srv.quote /\ srv'.active = srv.active
           /\ srv'.method # NoMethod
    BY <1>2, <1>3, <2>10 DEF Server
  <2>12. [number |-> srv.quote, active |-> srv.active,
          delivered |-> srv.method # NoMethod]'
             = [[number |-> srv.quote, active |-> srv.active,
                 delivered |-> srv.method # NoMethod] EXCEPT !.delivered = TRUE]
    <3>1. (srv'.method # NoMethod) = TRUE
      BY <2>11
    <3>2. [number |-> srv.quote, active |-> srv.active,
           delivered |-> srv.method # NoMethod]'
             = [number |-> srv.quote, active |-> srv.active, delivered |-> TRUE]
      BY <2>11, <3>1, Zenon
    <3>3. PICK q, a, d, b :
                q = srv.quote /\ a = srv.active /\ d = (srv.method # NoMethod)
                  /\ b = TRUE
      OBVIOUS
    <3>4. [[number |-> q, active |-> a, delivered |-> d] EXCEPT !.delivered = b]
             = [number |-> q, active |-> a, delivered |-> b]
      BY CartFields
    <3> QED
      BY <3>2, <3>3, <3>4, Zenon
  <2>13. Flow!Deliver(n)
    BY <1>3, <2>6, <2>9, <2>12 DEF Flow!Deliver
  <2> QED
    BY <2>6, <2>13 DEF Flow!Next, Flow!Step
<1>4. CASE ~(r.quote = srv.quote /\ srv.active /\ r.method # NoMethod)
  <2>1. req' = [req EXCEPT ![s] = [r EXCEPT !.res = "null"]]
          /\ done' = Refused(r) /\ srv' = srv
    BY <1>4 DEF ServeShipping, Answer
  <2>2. req'[s].res = "null"
    BY <1>2, <2>1 DEF Request
  <2>3. \A n \in Screens : done'[n].taken = done[n].taken
    BY <1>1, <1>2, <2>1 DEF Refused, Done
  <2> QED
    BY <1>1, <2>1, <2>2, <2>3, DealtRefused
<1> QED
  BY <1>3, <1>4

LEMMA FlowServePayment ==
    ASSUME Serial, Serial', Delivery, NEW s \in Slots, Serve(s), ServePayment(s)
    PROVE  Flow!Next
<1> DEFINE r == req[s]
<1>1. r.kind \in {"pay", "gateway"} /\ r.res = "sent" /\ r.screen \in Screens
  BY OpenedScreens DEF Serve, ServePayment, Serial, FromOpened, Awaited
<1>2. req \in [Slots -> Request] /\ srv \in Server /\ r \in Request
        /\ done' = done
  BY DEF Serial, TypeOK, ServePayment
<1>3. CASE r.quote = srv.quote /\ srv.active /\ srv.method # NoMethod
  <2>1. req' = [req EXCEPT ![s] = [r EXCEPT !.res = "ok"]]
          /\ srv' = [srv EXCEPT !.active = FALSE]
    BY <1>3 DEF ServePayment, Answer
  <2>2. req'[s].res = "ok" /\ req'[s].kind = r.kind
    BY <1>2, <2>1 DEF Request
  <2>3. PICK n \in Screens : n = r.screen
    BY <1>1
  <2>4. Pending(s, n)
    BY <1>1, <2>3 DEF Pending, Awaited
  <2>5. /\ Phase(n) \in {"paying"} /\ Phase(n)' \in {"answered"}
        /\ \A m \in Screens : m # n => Phase(m)' = Phase(m)
    BY <1>1, <2>2, <2>4, Dealt DEF Stage
  <2>6. /\ Flow!Goes(n, {"paying"}, {"answered"})
        /\ [k \in Screens |-> Phase(k)]'[n] # [k \in Screens |-> Phase(k)][n]
    BY <2>5, Moves
  <2>7. n \in {m \in Screens : done[m].taken}
    BY <1>1, <2>3 DEF Delivery, Taken
  <2>8. srv'.quote = srv.quote /\ ~srv'.active /\ srv'.method = srv.method
          /\ srv'.active = FALSE
    BY <1>2, <2>1 DEF Server
  <2>9. [number |-> srv.quote, active |-> srv.active,
         delivered |-> srv.method # NoMethod]'
            = [[number |-> srv.quote, active |-> srv.active,
                delivered |-> srv.method # NoMethod] EXCEPT !.active = FALSE]
    <3>1. [number |-> srv.quote, active |-> srv.active,
           delivered |-> srv.method # NoMethod]'
             = [number |-> srv.quote, active |-> FALSE,
                delivered |-> srv.method # NoMethod]
      BY <2>8, Zenon
    <3>2. PICK q, a, d, b :
                q = srv.quote /\ a = srv.active /\ d = (srv.method # NoMethod)
                  /\ b = FALSE
      OBVIOUS
    <3>3. [[number |-> q, active |-> a, delivered |-> d] EXCEPT !.active = b]
             = [number |-> q, active |-> b, delivered |-> d]
      BY CartFields
    <3> QED
      BY <3>1, <3>2, <3>3, Zenon
  <2>10. {m \in Screens : done[m].taken}' = {m \in Screens : done[m].taken}
    BY <1>2
  <2>11. Flow!Order(n)
    BY <1>3, <2>6, <2>7, <2>9, <2>10 DEF Flow!Order
  <2> QED
    BY <2>6, <2>11 DEF Flow!Next, Flow!Step
<1>4. CASE ~(r.quote = srv.quote /\ srv.active /\ srv.method # NoMethod)
  <2>1. req' = [req EXCEPT ![s] = [r EXCEPT !.res = "message"]] /\ srv' = srv
    BY <1>4 DEF ServePayment, Answer
  <2>2. req'[s].res = "message"
    BY <1>2, <2>1 DEF Request
  <2> QED
    BY <1>1, <1>2, <2>1, <2>2, DealtRefused
<1> QED
  BY <1>3, <1>4

\* A profile tells nothing of its screen before it is read; a cart may be new.
LEMMA FlowServe ==
    ASSUME Serial, Serial', Delivery, NEW s \in Slots, Serve(s)
    PROVE  Flow!Next \/ UNCHANGED Flow!vars
<1>1. req'[s].kind = req[s].kind
  BY SameRequest DEF Serial
<1>2. CASE ServeProfile(s) \/ ServeRegistration(s)
  <2>1. srv' = srv /\ done' = done /\ req[s].kind \in {"profile", "register"}
    BY <1>2 DEF ServeProfile, ServeRegistration
  <2>2. req[s].kind \in Awaited => Stage(req'[s]) = Stage(req[s])
    BY <1>1, <2>1 DEF Stage, Awaited
  <2> QED
    BY <2>1, <2>2, DealtSame
<1>3. CASE ServeQuote(s)
  <2>1. done' = done /\ req[s].kind \notin Awaited /\ scr' = scr
          /\ opened' = opened
    BY <1>3 DEF ServeQuote, Serve, Awaited
  <2>2. CASE srv.active
    BY <1>3, <2>1, <2>2, DealtSame DEF ServeQuote
  <2>3. CASE ~srv.active
    <3>1. /\ \A t \in Slots : t # s => req'[t] = req[t]
          /\ req'[s].kind = req[s].kind
      BY SameRequest DEF Serial
    <3>2. ASSUME NEW n \in Screens PROVE Phase(n)' = Phase(n)
      <4>1. \A t \in Slots : Pending(t, n)' <=> Pending(t, n)
        BY <2>1, <3>1 DEF Pending
      <4>2. \A t \in Slots : Pending(t, n) => Stage(req'[t]) = Stage(req[t])
        BY <2>1, <3>1 DEF Pending
      <4> QED
        BY <2>1, <4>1, <4>2, Untouched
    <3>3. [k \in Screens |-> Phase(k)]' = [k \in Screens |-> Phase(k)]
      BY <3>2
    <3>4. srv' = [quote |-> srv.quote + 1, active |-> TRUE,
                  method |-> NoMethod, address |-> NoAddress]
      BY <1>3, <2>3 DEF ServeQuote
    <3>5. Flow!NewCart
      BY <2>1, <2>3, <3>3, <3>4 DEF Flow!NewCart
    <3> QED
      BY <3>5 DEF Flow!Next
  <2> QED
    BY <2>2, <2>3
<1>4. CASE ServeShipping(s)
  BY <1>4, FlowServeShipping
<1>5. CASE ServePayment(s)
  BY <1>5, FlowServePayment
<1> QED
  BY <1>2, <1>3, <1>4, <1>5 DEF Serve

\* What is lost on the way is refused; an answer that is lost was one.
LEMMA FlowFault ==
    ASSUME Serial, Serial', NEW s \in Slots, Fault(s)
    PROVE  Flow!Next \/ UNCHANGED Flow!vars
<1>1. req \in [Slots -> Request] /\ req[s] \in Request
        /\ done \in [Screens -> Done] /\ srv' = srv
  BY DEF Serial, TypeOK, Fault
<1>2. PICK f \in Faults : req' = [req EXCEPT ![s] = [req[s] EXCEPT !.res = f]]
  BY DEF Fault, Answer
<1>3. f # "sent" /\ req'[s].res = f /\ req'[s].kind = req[s].kind
  BY <1>1, <1>2, CheckoutAssumption DEF CheckoutAssumption, AllFaults, Request
<1>4. \A n \in Screens : done'[n].taken = done[n].taken
  BY <1>1 DEF Fault, Refused, Done
<1>5. CASE req[s].kind \in {"setship", "pay", "gateway"} /\ req[s].res = "sent"
  BY <1>1, <1>3, <1>4, <1>5, DealtRefused
<1>6. CASE ~(req[s].kind \in {"setship", "pay", "gateway"} /\ req[s].res = "sent")
  <2>1. req[s].kind \in Awaited => Stage(req'[s]) = Stage(req[s])
    BY <1>3, <1>6 DEF Stage, Awaited
  <2> QED
    BY <1>1, <1>4, <2>1, DealtSame
<1> QED
  BY <1>5, <1>6

\* A screen is done asking for the profile.
LEMMA FlowAsked ==
    ASSUME NEW n \in Screens, Phase(n) \in {"asking"},
           Phase(n)' \in {"setting", "idle"},
           \A m \in Screens : m # n => Phase(m)' = Phase(m),
           srv' = srv, done' = done
    PROVE  Flow!Next
<1>1. /\ Flow!Goes(n, {"asking"}, {"setting", "idle"})
      /\ [k \in Screens |-> Phase(k)]'[n] # [k \in Screens |-> Phase(k)][n]
  BY Moves
<1>2. Flow!Asked(n)
  BY <1>1 DEF Flow!Asked
<1> QED
  BY <1>1, <1>2 DEF Flow!Next, Flow!Step

\* A profile with a default address sends a delivery.
LEMMA FlowProfileReply ==
    ASSUME Serial, Serial', NEW s \in Slots, Reply(s), ProfileReply(s)
    PROVE  Flow!Next
<1>1. req \in [Slots -> Request] /\ scr \in [Screens -> Screen]
        /\ opened' = opened /\ srv' = srv /\ done' = done
        /\ req[s].kind = "profile" /\ req[s].screen \in Screens
  BY OpenedScreens
     DEF Reply, ProfileReply, Serial, TypeOK, FromOpened, Awaited
<1>2. PICK n \in Screens : n = req[s].screen
  BY <1>1
<1> DEFINE a == IF req[s].res = "ok" THEN req[s].address ELSE NoAddress
<1>3. /\ req' = [req EXCEPT ![s] =
                    IF SetsShipping(n, a)
                    THEN Ask("setship", n, quoteId, scr[n].method, a)
                    ELSE NoRequest]
      /\ scr' = [scr EXCEPT ![n].address = a,
                            ![n].isLoading = SetsShipping(n, a)]
  BY <1>2 DEF ProfileReply, Answer
<1> HIDE DEF a
<1>4. /\ \A t \in Slots : t # s => req'[t] = req[t]
      /\ \A m \in Screens : m # n => scr'[m] = scr[m]
      /\ scr'[n].isLoading = SetsShipping(n, a)
      /\ SetsShipping(n, a) => /\ req'[s].kind = "setship"
                               /\ req'[s].screen = n /\ req'[s].res = "sent"
      /\ ~SetsShipping(n, a) => req'[s] = NoRequest
  <2>1. scr[n] \in Screen
    BY <1>1
  <2> QED
    BY <1>1, <1>3, <2>1 DEF Ask, Screen
<1>5. Pending(s, n)
  BY <1>1, <1>2 DEF Pending, Awaited
<1>6. Pending(s, n)' \/ req'[s].kind \notin Awaited
  BY <1>4, Nothing DEF Pending, Awaited
<1>7. \A m \in Screens : m # n => Phase(m)' = Phase(m)
  BY <1>1, <1>4, <1>5, <1>6, Others
<1>8. Phase(n) \in {"asking"} /\ n <= opened /\ \A t \in Slots : t # s => ~Pending(t, n)
  BY <1>1, <1>5, Before DEF Stage
<1>9. CASE SetsShipping(n, a)
  <2>1. Pending(s, n)'
    BY <1>4, <1>9 DEF Pending, Awaited
  <2>2. Phase(n)' = "setting"
    BY <1>4, <1>9, <2>1, After DEF Stage
  <2> QED
    BY <1>1, <1>7, <1>8, <2>2, FlowAsked
<1>10. CASE ~SetsShipping(n, a)
  <2>1. \A t \in Slots : ~Pending(t, n)'
    BY <1>4, <1>8, <1>10, Nothing DEF Pending, Awaited
  <2>2. Phase(n)' = "idle"
    BY <1>1, <1>4, <1>8, <1>10, <2>1, AfterNothing
  <2> QED
    BY <1>1, <1>7, <1>8, <2>2, FlowAsked
<1> QED
  BY <1>9, <1>10

\* The answers to a delivery and to a payment: the screen goes on, or throws.
LEMMA FlowAnswered ==
    ASSUME Serial, Serial', NEW s \in Slots, Reply(s),
           SetShippingReply(s) \/ PaymentReply(s)
    PROVE  Flow!Next
<1>1. req \in [Slots -> Request] /\ scr \in [Screens -> Screen]
        /\ opened' = opened /\ srv' = srv /\ done' = done
        /\ req[s].kind \in {"setship", "pay", "gateway"} /\ req[s].res # "sent"
        /\ req[s].screen \in Screens
  BY OpenedScreens
     DEF Reply, SetShippingReply, PaymentReply, Serial, TypeOK, FromOpened,
         Awaited
<1>2. PICK n \in Screens : n = req[s].screen
  BY <1>1
<1>3. /\ \A t \in Slots : t # s => req'[t] = req[t]
      /\ \A m \in Screens : m # n => scr'[m] = scr[m]
      /\ req'[s].kind \notin Awaited
  BY <1>1, <1>2, Nothing
     DEF SetShippingReply, PaymentReply, Answer, Ask, Awaited
<1>4. Pending(s, n)
  BY <1>1, <1>2 DEF Pending, Awaited
<1>5. \A m \in Screens : m # n => Phase(m)' = Phase(m)
  BY <1>1, <1>3, <1>4, Others
<1>6. Phase(n) \in {"answered"} /\ n <= opened
        /\ \A t \in Slots : t # s => ~Pending(t, n)
  BY <1>1, <1>4, Before DEF Stage
<1>7. \A t \in Slots : ~Pending(t, n)'
  BY <1>3, <1>6 DEF Pending
<1>8. Phase(n)' \in {"idle", "stuck"}
  BY <1>1, <1>6, <1>7, AfterNothing
<1>9. /\ Flow!Goes(n, {"answered"}, {"idle", "stuck"})
      /\ [k \in Screens |-> Phase(k)]'[n] # [k \in Screens |-> Phase(k)][n]
  BY <1>5, <1>6, <1>8, Moves
<1>10. Flow!Answered(n)
  BY <1>1, <1>9 DEF Flow!Answered
<1> QED
  BY <1>9, <1>10 DEF Flow!Next, Flow!Step

\* Every step is one of the abstract steps, or none.
LEMMA FlowNext ==
    Serial /\ Serial' /\ Delivery /\ [Next]_vars => [Flow!Next]_(Flow!vars)
<1> SUFFICES ASSUME Serial, Serial', Delivery, [Next]_vars
             PROVE  Flow!Next \/ UNCHANGED Flow!vars
  OBVIOUS
<1>1. CASE UNCHANGED vars
  BY <1>1, AllStill DEF vars, Pending
<1>2. CASE Next
  <2>1. CASE \E m \in AnyMethod : ProceedToCheckout(m)
    BY <2>1, FlowProceed
  <2>2. CASE LeaveAddresses \/ _onClickButtonPayNow
    BY <2>2, FlowAsk
  <2>3. CASE ContinueShopping
    BY <2>3, FlowContinue
  <2>4. CASE \E s \in Slots : Serve(s)
    BY <2>4, FlowServe
  <2>5. CASE \E s \in Slots : Fault(s)
    BY <2>5, FlowFault
  <2>6. ASSUME NEW s \in Slots, Reply(s)
        PROVE  Flow!Next \/ UNCHANGED Flow!vars
    BY <2>6, FlowProfileReply, FlowAnswered, FlowUnawaited DEF Reply
  <2>7. CASE \/ LeavePayment
             \/ \E c \in BOOLEAN : EstimateAnswered(c)
             \/ OpenAddresses
             \/ \E a \in AnyAddress : ChangeDefault(a)
             \/ \E i \in 0..1 : _onClickRadioPaymentMethod(i)
             \/ LeaveWebView \/ CallbackLoaded
    BY <2>7, FlowCustomer
  <2> QED
    BY <1>2, <2>1, <2>2, <2>3, <2>4, <2>5, <2>6, <2>7 DEF Next
<1> QED
  BY <1>1, <1>2

\* The checkout of the app is one of the checkouts of CheckoutFlow: whatever is
\* left, reopened, refused or lost, a screen goes on only after an answer, pays
\* only after a delivery of its own was taken, and no cart is ordered twice.
THEOREM CheckoutImplementsFlow == Spec => ImplementsFlow
BY FlowInit, FlowNext, AlwaysSerial, AlwaysDelivery, PTL
   DEF Spec, ImplementsFlow, Flow!Spec
=============================================================================
