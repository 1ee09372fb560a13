---------------------------- MODULE MCDecoders ----------------------------
(* MCRdbFormat walks through keys too; the slots of keys are compared here, *)
(* apart from it, because they are computed with operators on bits that the *)
(* provers cannot reason about.                                             *)
EXTENDS MCRdbFormat, HashTag

\* Slot: the slot is the one the cluster specification gives to the key, so
\* that keys with one tag share it.
SlotsAgree ==
  kind = "key" => SlotIsTheClusters(value) /\ TagDecidesSlot(value, <<97, 125>>, <<123, 97, 125>>)
=============================================================================
