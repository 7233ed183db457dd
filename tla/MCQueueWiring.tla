--------------------------- MODULE MCQueueWiring ---------------------------
(* Up to three processes of a type; the polling index wraps at 4, which is *)
(* no multiple of 3, as 256 is none.                                       *)
EXTENDS QueueWiring
=============================================================================
