----------------------------- MODULE MCShutdown -----------------------------
(* Shutdown with the code's timeouts in half seconds: 1 s, 3 s, 3.5 s, 5 s.  *)
EXTENDS Shutdown
=============================================================================
