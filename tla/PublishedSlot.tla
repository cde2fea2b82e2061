---------------------------- MODULE PublishedSlot ----------------------------
(***************************************************************************)
(* What the searching side may assume of the manuals: each title is a slot *)
(* that holds at most one published version, and one step replaces the     *)
(* version or empties the slot of one title (module docstring of           *)
(* src/admin_console/backend/routers/manuals.py, lines 4-8).               *)
(***************************************************************************)
CONSTANTS Ids, Titles

VARIABLE slot   \* the published versions of each title

SlotInit == slot = [t \in Titles |-> {}]

Publish(t, i) ==
    /\ \A u \in Titles : i \notin slot[u]
    /\ slot' = [slot EXCEPT ![t] = {i}]

Withdraw(t) == slot' = [slot EXCEPT ![t] = {}]

SlotNext == \E t \in Titles : Withdraw(t) \/ \E i \in Ids : Publish(t, i)

SlotSpec == SlotInit /\ [][SlotNext]_slot
=============================================================================
