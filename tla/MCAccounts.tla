------------------------------ MODULE MCAccounts ------------------------------
(* Accounts with its constants given by the configuration.                 *)
EXTENDS Accounts
=============================================================================
