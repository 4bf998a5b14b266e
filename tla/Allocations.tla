----------------------------- MODULE Allocations -----------------------------
(***************************************************************************)
(* What order items are promised of the stock, without positions, locks,   *)
(* transactions, incidents or workers: an item is in one place, where the  *)
(* units on hand cover it beside everything else that is promised there;   *)
(* it leaves for a failover destination of that place, together with what  *)
(* else moves and never after its order ended.                             *)
(***************************************************************************)
EXTENDS Naturals, FiniteSets

CONSTANTS Warehouses, Offers, Items, Orders, OfferOf, OrderOf, Routes, Stock, Legacy,
          Nowhere

VARIABLES
    place,      \* place[i]: the warehouse that keeps a unit for the item
    onHand,     \* onHand[w][o]: units at the warehouse
    ended       \* orders fulfilled or cancelled

vars == <<place, onHand, ended>>

Init ==
    /\ place = [i \in Items |-> Nowhere]
    /\ onHand = Stock
    /\ ended = {}

Covered ==
    \A w \in Warehouses, o \in Offers :
        Legacy[w][o] + Cardinality({i \in Items : place[i] = w /\ OfferOf[i] = o})
            <= onHand[w][o]

\* The order may end while the reservation is on its way.
Reserve(i, w) ==
    /\ place[i] = Nowhere
    /\ place' = [place EXCEPT ![i] = w]
    /\ UNCHANGED <<onHand, ended>>

\* Items of w, not always all of them, to one destination per offer.
MoveAway(w) ==
    \E moved \in SUBSET {i \in Items : place[i] = w /\ OrderOf[i] \notin ended} :
        \E to \in [{OfferOf[i] : i \in moved} -> Routes[w]] :
            /\ place' = [i \in Items |-> IF i \in moved THEN to[OfferOf[i]] ELSE place[i]]
            /\ UNCHANGED <<onHand, ended>>

Adjust(w, o) ==
    /\ \A x \in Warehouses, p \in Offers :
          x # w \/ p # o => onHand'[x][p] = onHand[x][p]
    /\ UNCHANGED <<place, ended>>

EndOrder(r) ==
    /\ ended' = ended \cup {r}
    /\ UNCHANGED <<place, onHand>>

Next ==
    /\ Covered'
    /\ \/ \E w \in Warehouses : \/ \E i \in Items : Reserve(i, w)
                                \/ MoveAway(w)
                                \/ \E o \in Offers : Adjust(w, o)
       \/ \E r \in Orders : EndOrder(r)

Spec == Init /\ [][Next]_vars
=============================================================================
