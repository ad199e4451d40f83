----------------------------- MODULE CartStore ------------------------------
(***************************************************************************)
(* What the badge promises, whatever requests and handlers there are: the   *)
(* server has a cart, which changes one line at a time; lists of it are     *)
(* taken and lie about for some time; now and then the app replaces its     *)
(* copy by one of them.  The copy is a cart the server had at one moment,   *)
(* whole.  It need not be the last one, nor newer than the copy before.     *)
(***************************************************************************)
EXTENDS Integers, TLAPS

CONSTANTS
    Keys,   \* the lines of a cart
    Values  \* what a line may be

VARIABLES
    store,  \* the cart of the server
    sent,   \* lists of it that were taken and have not arrived
    copy    \* the copy of the app

vars == <<store, sent, copy>>

\* The version counts the changes; 0 is no cart of the server yet.
Versions == [lines: [Keys -> Values], version: Nat]

Init ==
    /\ store \in Versions /\ store.version = 1
    /\ sent = {}
    /\ copy \in Versions /\ copy.version = 0

Change ==
    /\ store' \in Versions /\ store'.version = store.version + 1
    /\ \E k \in Keys : \A j \in Keys \ {k} : store'.lines[j] = store.lines[j]
    /\ UNCHANGED <<sent, copy>>

Take ==
    /\ sent' = sent \cup {store}
    /\ UNCHANGED <<store, copy>>

\* A list arrives: any that was taken, older than the copy or newer.
Arrive ==
    /\ copy' \in sent
    /\ sent' \subseteq sent
    /\ UNCHANGED store

Lose ==
    /\ sent' \subseteq sent
    /\ UNCHANGED <<store, copy>>

Next == Change \/ Take \/ Arrive \/ Lose

Spec == Init /\ [][Next]_vars

----------------------------------------------------------------------------

\* The copy is never ahead of the server, and shows the server's cart if it has
\* its version: no two carts share one, and no copy is put together from two.
Consistent ==
    \A c \in sent \cup {copy} :
        /\ c.version <= store.version
        /\ c.version = store.version => c = store

LEMMA ConsistentInit == Init => Consistent
BY DEF Init, Consistent, Versions

LEMMA ConsistentNext ==
    store \in Versions /\ (\A c \in sent \cup {copy} : c \in Versions)
        /\ Consistent /\ [Next]_vars
      => store' \in Versions /\ (\A c \in sent' \cup {copy'} : c \in Versions)
           /\ Consistent'
<1> SUFFICES ASSUME store \in Versions,
                    \A c \in sent \cup {copy} : c \in Versions,
                    Consistent, [Next]_vars
             PROVE  /\ store' \in Versions
                    /\ \A c \in sent' \cup {copy'} : c \in Versions
                    /\ Consistent'
  OBVIOUS
<1>1. store.version \in Nat /\ \A c \in sent \cup {copy} : c.version \in Nat
  BY DEF Versions
<1>2. CASE Change
  BY <1>1, <1>2 DEF Change, Consistent
<1>3. CASE Take
  BY <1>1, <1>3 DEF Take, Consistent
<1>4. CASE Arrive \/ Lose
  BY <1>4 DEF Arrive, Lose, Consistent
<1>5. CASE UNCHANGED vars
  BY <1>5 DEF vars, Consistent
<1> QED
  BY <1>2, <1>3, <1>4, <1>5 DEF Next

\* The promise of the badge keeps the copy consistent, for any number of lines,
\* changes and lists under way.
THEOREM AlwaysConsistent == Spec => []Consistent
<1> DEFINE I == /\ store \in Versions
                /\ \A c \in sent \cup {copy} : c \in Versions
                /\ Consistent
<1>1. Init => I
  BY ConsistentInit DEF Init
<1>2. I /\ [Next]_vars => I'
  BY ConsistentNext
<1>3. I => Consistent
  OBVIOUS
<1> QED
  BY <1>1, <1>2, <1>3, PTL DEF Spec
=============================================================================
