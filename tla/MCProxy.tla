----------------------------- MODULE MCProxy -----------------------------
(* A command c, a protocol request p, a refresh request f.                  *)
EXTENDS Proxy
CONSTANTS c, p, f
=============================================================================
