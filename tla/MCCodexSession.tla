--------------------------- MODULE MCCodexSession ---------------------------
(* CodexSession with two turns, one request of handshake, a wire of two lines and two disturbances. *)
EXTENDS CodexSession
=============================================================================
