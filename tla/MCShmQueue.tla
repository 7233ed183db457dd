----------------------------- MODULE MCShmQueue -----------------------------
(* A ring of three slots, two distinguishable items, totals up to seven:   *)
(* both indices wrap twice.                                                *)
EXTENDS ShmQueue
=============================================================================
