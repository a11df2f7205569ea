----------------------------- MODULE MCStorage -----------------------------
(***************************************************************************)
(* A bounded instance of Storage: every operation there is.                *)
(***************************************************************************)
EXTENDS Storage

EveryKind == AllKinds
=============================================================================
