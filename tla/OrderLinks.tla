------------------------------ MODULE OrderLinks ------------------------------
(***************************************************************************)
(* ArbitrageManager's list of the orders of every window.  It is kept in   *)
(* memory, written to one file from time to time and read back from the    *)
(* same file from time to time; the orders process reads the file too.     *)
(* The two orders of a candidate are linked one after the other without a  *)
(* call in between, so a candidate stands for both.                        *)
(***************************************************************************)
EXTENDS FiniteSets

CONSTANTS Candidats,  \* everything addClassicCandidat is ever called with
          Windows,    \* arbitrage windows
          WindowOf    \* the window of a candidate

ASSUME LinksOK ==
    /\ IsFiniteSet(Candidats)
    /\ WindowOf \in [Candidats -> Windows]

VARIABLES
    linked,   \* _linked_orders
    disk,     \* the file ORDERS_REL_FILENAME
    loaded    \* loadOrdersRelFromDisk has run in this process

links == <<linked, disk, loaded>>

NoLinks == [w \in Windows |-> {}]

LinksInit == linked = NoLinks /\ disk = NoLinks /\ loaded = FALSE

\* linkOrder for the sell order and for the buy order.
LinkOrders(c) ==
    /\ linked' = [linked EXCEPT ![WindowOf[c]] = @ \cup {c}]
    /\ UNCHANGED <<disk, loaded>>

\* A bug that could be: the first save does not wait for the first load.
SaveBeforeLoad ==
    /\ linked # NoLinks
    /\ disk' = linked
    /\ UNCHANGED <<linked, loaded>>

\* The first load is due 5 s after the start and the first save after 60 s,
\* both on one event loop; after that each comes every 30 s.
SaveOrdersRelsToDisk ==
    /\ loaded
    /\ linked # NoLinks
    /\ disk' = linked
    /\ UNCHANGED <<linked, loaded>>

\* The file replaces what memory holds of every window the file has.
LoadOrdersRelFromDisk ==
    /\ linked' = [w \in Windows |-> IF disk[w] = {} THEN linked[w] ELSE disk[w]]
    /\ loaded' = TRUE
    /\ UNCHANGED disk

\* The process dies.  saveOrdersRelsToDisk empties the file before it writes:
\* dying in between loses it.
LinksCrash ==
    /\ \/ disk' = disk
       \/ loaded /\ linked # NoLinks /\ disk' = NoLinks
    /\ linked' = NoLinks
    /\ loaded' = FALSE

LinksTypeOK ==
    /\ linked \in [Windows -> SUBSET Candidats]
    /\ disk \in [Windows -> SUBSET Candidats]
    /\ loaded \in BOOLEAN
=============================================================================
