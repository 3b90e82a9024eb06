---------------------------- MODULE MCThreading ----------------------------
(* Small instances of Threading.                                           *)
EXTENDS Threading

=============================================================================
