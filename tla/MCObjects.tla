----------------------------- MODULE MCObjects -----------------------------
(* A small instance of Objects for TLC.                                    *)
EXTENDS Objects
=============================================================================
