--------------------------- MODULE DeliveryLedger ---------------------------
(***************************************************************************)
(* What a builder run promises its caller, without the queue that keeps    *)
(* the promise: only inventoried chunks are kept, a kept chunk stays kept  *)
(* whatever fails afterwards, a delivery hands over exactly what is kept,  *)
(* and the inventory is fixed once a chunk is kept, unless a stage that    *)
(* was done is run again: from then on it may be taken anew under what is  *)
(* already kept and delivered.                                             *)
(***************************************************************************)
CONSTANT Chunk

VARIABLES inventory,  \* chunks the source was found to have
          kept,       \* chunks whose rows are safely stored
          delivered,  \* chunks in the published packs
          redone      \* a stage that moves chunks was run again after it was done

vars == <<inventory, kept, delivered, redone>>

Init == inventory = {} /\ kept = {} /\ delivered = {} /\ redone = FALSE

TakeInventory(found) ==
  /\ kept = {} \/ redone
  /\ inventory' = found
  /\ UNCHANGED <<kept, delivered, redone>>

Keep(c) ==
  /\ c \in inventory
  /\ kept' = kept \cup {c}
  /\ UNCHANGED <<inventory, delivered, redone>>

Deliver ==
  /\ delivered' = kept
  /\ UNCHANGED <<inventory, kept, redone>>

Redo ==
  /\ redone' = TRUE
  /\ UNCHANGED <<inventory, kept, delivered>>

Next ==
  \/ \E found \in SUBSET Chunk : TakeInventory(found)
  \/ \E c \in Chunk : Keep(c)
  \/ Deliver
  \/ Redo

Spec == Init /\ [][Next]_vars
=============================================================================
