---------------------------- MODULE MCXdrSender ----------------------------
(* Records of three units and a socket with room for four: a record fits,  *)
(* two do not, and a timeout can cut the second one.                       *)
EXTENDS XdrSender
=============================================================================
