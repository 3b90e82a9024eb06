---------------------------- MODULE MCAesdSocket ---------------------------
(* Small instances of AesdSocket.                                          *)
EXTENDS AesdSocket

=============================================================================
