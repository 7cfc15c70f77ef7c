----------------------------- MODULE MCRequant -----------------------------
(* A small instance of Requant for TLC.                                    *)
EXTENDS Requant

\* Scales of 1 (nothing folded) and others that divide One exactly.
MCOne == 12
=============================================================================
