------------------------- MODULE MCScheduleService -------------------------
(***************************************************************************)
(* Bounded instances of ScheduleService: two users, one with a short name  *)
(* and one whose name fills the id array; two overlapping reservations.    *)
(***************************************************************************)
EXTENDS ScheduleService

ZeroPaddedIds == {Padded(n) : n \in Names} \cup {EmptyId}

FetchedIds == {Fetched(n) : n \in Names}

FetchedOrNamelessIds == FetchedIds \cup {Ghost, EmptyId}

TwoSlots == {[start |-> 1, end |-> 2], [start |-> 2, end |-> 3]}

(***************************************************************************)
(* schedule.c:104 and 132 report a refused EXTEND_TIME or END_USE as "User *)
(* ID mismatch: command from %s but schedule is for %s": it is refused     *)
(* because the two names differ.                                           *)
(***************************************************************************)
MismatchMeansAnotherUser ==
    \A p \in Publishers :
        (/\ at[p] = "apply" /\ cmd.id \in {"EXTEND_TIME", "END_USE"}
         /\ ~StartsEmpty(cmd.user) /\ state.last # "END_USE"
         /\ cmd.user # state.user)
            => cmd.user.name # state.user.name
=============================================================================
