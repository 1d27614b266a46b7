------------------------------ MODULE MCDaemon ------------------------------
(* The daemon's properties for TLC, with accounts that are all alike. *)
EXTENDS DaemonProperties, TLC

AccountsAlike == Permutations(Accounts)
=============================================================================
