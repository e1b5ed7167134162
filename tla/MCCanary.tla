------------------------------ MODULE MCCanary ------------------------------
(* Small instances of the canary registry for TLC. *)
EXTENDS Canary

TwoKinds == <<"api_key", "username">>
=============================================================================
