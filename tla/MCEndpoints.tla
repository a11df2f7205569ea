---------------------------- MODULE MCEndpoints ----------------------------
(***************************************************************************)
(* Bounded instances of Endpoints.  The board keeps the name of the one    *)
(* user whole, or what it keeps is the name of another.                    *)
(***************************************************************************)
EXTENDS Endpoints, TLC

CONSTANTS ana, bia

Interchangeable == Permutations(Workers)

Whole == [user \in Users |-> user]

\* bia's name has the 16 characters that the server allows, and begins with ana's.
Cut == [user \in Users |-> ana]
=============================================================================
