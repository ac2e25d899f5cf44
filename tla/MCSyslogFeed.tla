----------------------------- MODULE MCSyslogFeed -----------------------------
(* Instances of SyslogFeed for TLC. *)
EXTENDS SyslogFeed, TLC
=============================================================================
