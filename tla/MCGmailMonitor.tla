---------------------------- MODULE MCGmailMonitor ----------------------------
(* Instances of GmailMonitor for TLC. *)
EXTENDS GmailMonitor
=============================================================================
