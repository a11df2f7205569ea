------------------------------ MODULE Bookings ------------------------------
(***************************************************************************)
(* What the reservation server promises of its book, whatever its threads  *)
(* do and whenever their steps come: each change is one of those below, at *)
(* once, and a registration is made where its slot is free.                *)
(***************************************************************************)
EXTENDS Naturals, Sequences

CONSTANTS
    Users,  \* the names reservations are made in
    Length  \* how long a reservation is when it is made

VARIABLES
    book,    \* the reservations, in the order they were made
    revived  \* those that were over and came back

vars == <<book, revived>>

Live(r) == book[r].status # "over"

Booked(r) == book[r].start + Length

\* A reservation that takes the slot it was made for, and no other.
Steady(r) == Live(r) /\ book[r].end = Booked(r) /\ r \notin revived

Free(start) ==
    \A r \in DOMAIN book :
        Steady(r) => start >= book[r].end \/ start + Length <= book[r].start

Init == book = <<>> /\ revived = {}

Register ==
    LET new == book'[Len(book) + 1] IN
    /\ Len(book') = Len(book) + 1
    /\ book' = Append(book, new)
    /\ new = [user |-> new.user, start |-> new.start, end |-> new.start + Length, status |-> "pending"]
    /\ new.user \in Users
    /\ new.start \in Nat
    /\ Free(new.start)
    /\ UNCHANGED revived

Confirm(r) ==
    /\ Live(r)
    /\ book' = [book EXCEPT ![r] = [@ EXCEPT !.status = "active"]]
    /\ UNCHANGED revived

\* The confirmation of a reservation that was over when it came.
Revive(r) ==
    /\ ~Live(r)
    /\ book' = [book EXCEPT ![r] = [@ EXCEPT !.status = "active"]]
    /\ revived' = revived \cup {r}

End(r) ==
    /\ book' = [book EXCEPT ![r] = [@ EXCEPT !.status = "over"]]
    /\ revived' = revived \ {r}

\* A reservation that is extended is never cut below what it was made for.
Extend(r) ==
    LET end == book'[r].end IN
    /\ Len(book') = Len(book)
    /\ book' = [book EXCEPT ![r] = [@ EXCEPT !.end = end]]
    /\ end \in Nat
    /\ end > Booked(r)
    /\ UNCHANGED revived

\* The server comes up again.
Forget ==
    /\ book' = <<>>
    /\ revived' = {}

Next ==
    \/ Register
    \/ \E r \in DOMAIN book : Confirm(r) \/ Revive(r) \/ End(r) \/ Extend(r)
    \/ Forget

Spec == Init /\ [][Next]_vars
=============================================================================
