----------------------------- MODULE MCSettings -----------------------------
(***************************************************************************)
(* A bounded instance of Settings: two threads beside the shell's.         *)
(***************************************************************************)
EXTENDS Settings

CONSTANTS t1, t2

TwoThreads == {t1, t2}
=============================================================================
