---------------------------- MODULE MCLifecycle ----------------------------
(* Four workers: 1 logd, 2 sig_parser, 3 xdr_sender, 4 ui_sender.  The     *)
(* data_parser's loop is as deaf as logd's and the ui_sender's.            *)
EXTENDS Lifecycle
=============================================================================
