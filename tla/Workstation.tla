---------------------------- MODULE Workstation ----------------------------
(***************************************************************************)
(* What the schedule service promises of the workstation, whatever its     *)
(* threads, channels and flash do: one holder at a time, who keeps it      *)
(* until he gives it back or the board restarts.                           *)
(***************************************************************************)
EXTENDS Naturals

CONSTANTS
    Holders,       \* the ids a reservation or a session may be in the name of
    NoHolder,      \* the id of a free workstation
    Displaceable,  \* ids whose reservation any other replaces
    FirstUntil     \* when a session that has just started ends

VARIABLES
    phase,   \* "free", "reserved" or "inUse"
    holder,  \* in whose name
    window   \* from when until when

vars == <<phase, holder, window>>

Free ==
    /\ phase = "free"
    /\ holder = NoHolder
    /\ window = [from |-> 0, until |-> 0]

Init == Free

Windows == [from : Nat, until : Nat]

\* A new holder, and the window he has.
NewHolder ==
    /\ holder' \in Holders \ {NoHolder}
    /\ window' \in Windows

\* A reservation: of a free workstation, or an earlier one than the one there is.
Reserve ==
    /\ NewHolder
    /\ phase' = "reserved"
    /\ \/ phase = "free"
       \/ phase = "reserved" /\ (window'.from < window.from \/ holder \in Displaceable)

\* Whoever comes first may use a workstation that is not in use, reserved or not.
Start ==
    /\ NewHolder
    /\ phase # "inUse"
    /\ phase' = "inUse"
    /\ window' = [from |-> 0, until |-> FirstUntil]

\* The holder, of a reservation too, gets more time.
Extend ==
    /\ phase # "free"
    /\ phase' = "inUse"
    /\ window' \in Windows
    /\ window'.from = window.from
    /\ window'.until > window.until
    /\ UNCHANGED holder

\* The holder gives the workstation back, or the board restarts.
Release ==
    /\ phase # "free"
    /\ Free'

Next == Reserve \/ Start \/ Extend \/ Release

Spec == Init /\ [][Next]_vars
=============================================================================
