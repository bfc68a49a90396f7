----------------------------- MODULE MCAssetPipe -----------------------------
(* A small instance of AssetPipe for TLC.                                  *)
EXTENDS AssetPipe, TLC

CONSTANTS r1, r2, r3
=============================================================================
