---------------------------- MODULE MCKeepalive ----------------------------
(* A timeout of 10: a tick every 5, calls of up to 2, a start-up of 3.      *)
EXTENDS Keepalive
============================================================================
