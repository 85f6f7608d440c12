------------------------------- MODULE MCDaemon -------------------------------
(* Two callers, one that redeems and one that may do anything, and two     *)
(* daemons on one socket path.                                             *)
EXTENDS Daemon, TLC
CONSTANTS c1, c2

MCCall == {c1, c2}
MCAsks == c1 :> {"redeem"} @@ c2 :> {"redeem", "check", "revoke"}
=============================================================================
