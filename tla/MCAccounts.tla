----------------------------- MODULE MCAccounts -----------------------------
(* An account, for TLC.                                                     *)
EXTENDS Accounts

TheAccounts == {<<"ann">>}
=============================================================================
