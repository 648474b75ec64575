---------------------------- MODULE MCTransports ----------------------------
(* Transports alone, with a payload that names a transport.                *)
EXTENDS Transports
=============================================================================
