--------------------------- MODULE ScheduleStore ---------------------------
(***************************************************************************)
(* The reservation server (scripts/UI/app.py): a list of reservations that *)
(* the threads of Flask's server, one for each request, read and change.   *)
(* register holds a lock; confirm, cancel, end, extend and the reads do    *)
(* not, and may be interrupted between the look-up of a reservation and    *)
(* its change.                                                             *)
(***************************************************************************)
EXTENDS Naturals, Sequences, FiniteSets

CONSTANTS
    Workers,    \* the threads that serve requests
    Nobody,     \* the owner of the lock when nobody holds it
    Users,      \* names reservations are made in, cut to MAX_ID_LENGTH
    Anonymous,  \* the empty name
    Starts,     \* start times that are asked for
    Length,     \* FIRST_USE_TIMEOUT_MINUTES
    Extra,      \* EXTEND_MINUTES
    Capacity,   \* bound: no registration is sent when there are so many
    Extensions  \* bound: no extension is sent when there is so much extra time

ASSUME StoreAssumption ==
    /\ Nobody \notin Workers
    /\ Anonymous \notin Users
    /\ Starts \subseteq Nat
    /\ Length \in Nat \ {0}
    /\ Extra \in Nat \ {0}

VARIABLES
    book,      \* the reservations, in the order they were registered
    lock,      \* the thread that holds _lock
    at,        \* where each thread is
    waiting,   \* the threads whose client still waits for their answer
    req,       \* the request it serves, with the reservation it has found
    scanned,   \* the reservations its register has compared
    code,      \* its answer
    revived,   \* history: reservations a confirm brought back after they were over
    shortened  \* history: reservations an extend took time from

storeVars == <<book, lock, at, waiting, req, scanned, code, revived, shortened>>

\* A reservation that is over was cancelled or has ended.
Statuses == {"pending", "active", "over"}

Reservations == [user : Users, start : Nat, end : Nat, status : Statuses]

Changes == {"confirm", "cancel", "end", "extend"}
Operations == {"register", "offer"} \cup Changes

Requests ==
    [op : Operations \cup {"none"}, user : Users \cup {Anonymous}, start : Nat,
     found : Nat, end : Nat]

NoRequest == [op |-> "none", user |-> Anonymous, start |-> 0, found |-> 0, end |-> 0]

Places == {"idle", "lock", "scan", "append", "sort", "find", "act", "offer", "quote", "answered"}

StoreTypeOK ==
    /\ book \in Seq(Reservations)
    /\ lock \in Workers \cup {Nobody}
    /\ at \in [Workers -> Places]
    /\ waiting \subseteq Workers
    /\ req \in [Workers -> Requests]
    /\ scanned \in [Workers -> SUBSET Nat]
    /\ code \in [Workers -> {"none", "ok", "error"}]
    /\ revived \subseteq DOMAIN book
    /\ shortened \subseteq DOMAIN book

StoreInit ==
    /\ book = <<>>
    /\ lock = Nobody
    /\ at = [w \in Workers |-> "idle"]
    /\ waiting = {}
    /\ req = [w \in Workers |-> NoRequest]
    /\ scanned = [w \in Workers |-> {}]
    /\ code = [w \in Workers |-> "none"]
    /\ revived = {}
    /\ shortened = {}
-----------------------------------------------------------------------------
Live(r) == book[r].status \in {"pending", "active"}

Booked(r) == book[r].start + Length

Extended(r) == book[r].end > Booked(r)

\* The extra time there is, and may soon be.
ExtraTime ==
    Cardinality(UNION {{r} \X (Booked(r) + 1 .. book[r].end) : r \in DOMAIN book})
        + Extra * Cardinality({w \in Workers : req[w].op = "extend"})

Overlap(start1, end1, start2, end2) == start1 < end2 /\ end1 > start2

\* list.sort leaves the list empty until it is done, and calls the key function,
\* where another thread may run, before.
Listed == IF \E w \in Workers : at[w] = "sort" THEN {} ELSE DOMAIN book

\* The list is sorted by start time, and the sort is stable.
First(r, S) ==
    \A q \in S : \/ book[r].start < book[q].start
                 \/ book[r].start = book[q].start /\ r <= q

Move(w, place) == at' = [at EXCEPT ![w] = place]

Done(w) ==
    /\ Move(w, "idle")
    /\ req' = [req EXCEPT ![w] = NoRequest]
    /\ code' = [code EXCEPT ![w] = "none"]

\* The thread has its answer: c, and the reservation r, as it was read, if any.  When
\* nobody waits for it the thread is done.
Answer(w, c, r, end) ==
    /\ \/ /\ w \in waiting
          /\ Move(w, "answered")
          /\ req' = [req EXCEPT ![w] = [NoRequest EXCEPT !.found = r, !.end = end]]
          /\ code' = [code EXCEPT ![w] = c]
       \/ w \notin waiting /\ Done(w)
    /\ UNCHANGED waiting

Fail(w) == Answer(w, "error", 0, 0)

FirstPlace(op) ==
    CASE op = "register" -> "lock"
      [] op = "offer"    -> "offer"
      [] op \in Changes  -> "find"

\* A request arrives, and Flask starts a thread for it, whose answer the client waits
\* for, unless the connection has been given up.  A registration without a name is
\* refused before it gets to register, and is left out.
Receive(w, op, user, start, waits) ==
    /\ at[w] = "idle"
    /\ op = "register" => Len(book) < Capacity
    /\ op = "extend" => ExtraTime < Extensions
    /\ req' = [req EXCEPT ![w] = [NoRequest EXCEPT !.op = op, !.user = user, !.start = start]]
    /\ Move(w, FirstPlace(op))
    /\ waiting' = IF waits THEN waiting \cup {w} ELSE waiting
    /\ UNCHANGED <<book, lock, scanned, code, revived, shortened>>

\* Mutant: register without the lock.
LockUnguarded(w) ==
    /\ at[w] = "lock"
    /\ Move(w, "scan")
    /\ UNCHANGED <<book, lock, waiting, req, scanned, code, revived, shortened>>

Lock(w) ==
    /\ at[w] = "lock"
    /\ lock = Nobody
    /\ lock' = w
    /\ Move(w, "scan")
    /\ UNCHANGED <<book, waiting, req, scanned, code, revived, shortened>>

\* Thread w asks for the slot of reservation r.
Conflict(w, r) ==
    Live(r) /\ Overlap(req[w].start, req[w].start + Length, book[r].start, book[r].end)

Compare(w, r) ==
    /\ at[w] = "scan"
    /\ r \in DOMAIN book \ scanned[w]
    /\ First(r, DOMAIN book \ scanned[w])
    /\ ~Conflict(w, r)
    /\ scanned' = [scanned EXCEPT ![w] = @ \cup {r}]
    /\ UNCHANGED <<book, lock, at, waiting, req, code, revived, shortened>>

\* Mutant: the lock is taken without "with", and an early return keeps it.
RefuseKeepsLock(w, r) ==
    /\ at[w] = "scan"
    /\ r \in DOMAIN book \ scanned[w]
    /\ Conflict(w, r)
    /\ scanned' = [scanned EXCEPT ![w] = {}]
    /\ Fail(w)
    /\ UNCHANGED <<book, lock, revived, shortened>>

Refuse(w, r) ==
    /\ at[w] = "scan"
    /\ r \in DOMAIN book \ scanned[w]
    /\ First(r, DOMAIN book \ scanned[w])
    /\ Conflict(w, r)
    /\ lock' = Nobody
    /\ scanned' = [scanned EXCEPT ![w] = {}]
    /\ Fail(w)
    /\ UNCHANGED <<book, revived, shortened>>

\* The loop is over.
Compared(w) ==
    /\ at[w] = "scan"
    /\ DOMAIN book \subseteq scanned[w]
    /\ Move(w, "append")
    /\ UNCHANGED <<book, lock, waiting, req, scanned, code, revived, shortened>>

Insert(w) ==
    /\ at[w] = "append"
    /\ book' = Append(book, [user |-> req[w].user, start |-> req[w].start,
                             end |-> req[w].start + Length, status |-> "pending"])
    /\ scanned' = [scanned EXCEPT ![w] = {}]
    /\ Move(w, "sort")
    /\ UNCHANGED <<lock, waiting, req, code, revived, shortened>>

Sorted(w) ==
    /\ at[w] = "sort"
    /\ lock' = Nobody
    /\ Answer(w, "ok", 0, 0)
    /\ UNCHANGED <<book, scanned, revived, shortened>>

\* _find, and the read of end_time in "+=".
Find(w) ==
    /\ at[w] = "find"
    /\ LET mine == {r \in Listed : book[r].user = req[w].user /\ Live(r)} IN
       \/ mine = {} /\ Fail(w)
       \/ /\ \E r \in mine :
                 /\ First(r, mine)
                 /\ req' = [req EXCEPT ![w] =
                       [@ EXCEPT !.found = r, !.end = IF req[w].op = "extend" THEN book[r].end ELSE 0]]
          /\ Move(w, "act")
          /\ UNCHANGED <<waiting, code>>
    /\ UNCHANGED <<book, lock, scanned, revived, shortened>>

\* _next_pending, for GET /api/schedule.
Offer(w) ==
    /\ at[w] = "offer"
    /\ LET pending == {r \in Listed : book[r].status = "pending"} IN
       \/ pending = {} /\ Fail(w)
       \/ /\ \E r \in pending :
                 First(r, pending) /\ req' = [req EXCEPT ![w] = [@ EXCEPT !.found = r]]
          /\ Move(w, "quote")
          /\ UNCHANGED <<waiting, code>>
    /\ UNCHANGED <<book, lock, scanned, revived, shortened>>

\* to_firmware_json, of the reservation that was found, as it is by now.
Quote(w) ==
    /\ at[w] = "quote"
    /\ Answer(w, "ok", req[w].found, book[req[w].found].end)
    /\ UNCHANGED <<book, lock, scanned, revived, shortened>>

\* The change of the reservation that was found, whatever became of it since.
Set(w, ops, status) ==
    /\ at[w] = "act"
    /\ req[w].op \in ops
    /\ book' = [book EXCEPT ![req[w].found] = [@ EXCEPT !.status = status]]
    /\ Answer(w, "ok", req[w].found, 0)
    /\ UNCHANGED <<lock, scanned, shortened>>

Confirm(w) ==
    /\ Set(w, {"confirm"}, "active")
    /\ revived' = IF Live(req[w].found) THEN revived ELSE revived \cup {req[w].found}

\* Mutant: the reservation is told that it ended, and stays active.
EndForgotten(w) ==
    /\ Set(w, {"cancel", "end"}, "active")
    /\ revived' = revived \ {req[w].found}

\* cancel and end.
End(w) ==
    /\ Set(w, {"cancel", "end"}, "over")
    /\ revived' = revived \ {req[w].found}

\* Mutant: the extra time replaces the time that was registered.
ExtendReplaces(w) ==
    /\ at[w] = "act"
    /\ req[w].op = "extend"
    /\ book' = [book EXCEPT ![req[w].found] = [@ EXCEPT !.end = @ - Length + Extra]]
    /\ shortened' = shortened
    /\ Answer(w, "ok", req[w].found, 0)
    /\ UNCHANGED <<lock, scanned, revived>>

\* The end that was found is the one that is added to: another extend in between is lost.
Extend(w) ==
    /\ at[w] = "act"
    /\ req[w].op = "extend"
    /\ book' = [book EXCEPT ![req[w].found] = [@ EXCEPT !.end = req[w].end + Extra]]
    /\ shortened' = IF req[w].end + Extra < book[req[w].found].end
                       THEN shortened \cup {req[w].found} ELSE shortened
    /\ Answer(w, "ok", req[w].found, 0)
    /\ UNCHANGED <<lock, scanned, revived>>

\* The client has the answer, and the thread is done.
Finish(w) ==
    /\ at[w] = "answered"
    /\ Done(w)
    /\ waiting' = waiting \ {w}
    /\ UNCHANGED <<book, lock, scanned, revived, shortened>>

\* The client waits no longer: what the thread has to say gets lost.
Leave(w) ==
    /\ w \in waiting
    /\ waiting' = waiting \ {w}
    /\ IF at[w] = "answered" THEN Done(w) ELSE UNCHANGED <<at, req, code>>
    /\ UNCHANGED <<book, lock, scanned, revived, shortened>>

\* The store is in memory: a server that comes up again has no reservations.
ServerRestart ==
    /\ book' = <<>>
    /\ lock' = Nobody
    /\ at' = [w \in Workers |-> "idle"]
    /\ waiting' = {}
    /\ req' = [w \in Workers |-> NoRequest]
    /\ scanned' = [w \in Workers |-> {}]
    /\ code' = [w \in Workers |-> "none"]
    /\ revived' = {}
    /\ shortened' = {}

\* A thread on its way from a request to its answer.
Serve(w) ==
    \/ Lock(w)
    \/ \E r \in DOMAIN book : Compare(w, r) \/ Refuse(w, r)
    \/ Compared(w)
    \/ Insert(w)
    \/ Sorted(w)
    \/ Find(w)
    \/ Offer(w)
    \/ Quote(w)
    \/ Confirm(w)
    \/ End(w)
    \/ Extend(w)
-----------------------------------------------------------------------------
\* register is the one place where the lock is held, and at most one thread is in.
LockHeld == \A w \in Workers : at[w] \in {"scan", "append", "sort"} <=> lock = w

\* What a thread is about is what its request asks for.
RequestFits ==
    \A w \in Workers :
        /\ at[w] \in {"lock", "scan", "append"} => req[w].op = "register" /\ req[w].user \in Users
        /\ at[w] \in {"find", "act"} => req[w].op \in Changes

\* A thread acts on a reservation of the name in its request, and has read its end.
FoundFits ==
    \A w \in Workers :
        /\ at[w] = "act" =>
            /\ req[w].found \in DOMAIN book
            /\ book[req[w].found].user = req[w].user
            /\ req[w].op = "extend" => req[w].end >= Booked(req[w].found)
        /\ at[w] = "quote" => req[w].found \in DOMAIN book

\* A reservation has at least the time it was registered with.
TimeKept == \A r \in DOMAIN book : book[r].end >= Booked(r)

\* What register relies on: a reservation that takes its slot, and was neither extended
\* nor brought back.
Steady(r) == Live(r) /\ ~Extended(r) /\ r \notin revived

\* What a thread in register has compared does not conflict with what it is about
\* to insert, unless it was extended or brought back.
ScanHolds ==
    \A w \in Workers :
        /\ scanned[w] \subseteq DOMAIN book
        /\ at[w] \notin {"scan", "append"} => scanned[w] = {}
        /\ at[w] = "append" => DOMAIN book \subseteq scanned[w]
        /\ \A r \in scanned[w] : Steady(r) => ~Conflict(w, r)

(***************************************************************************)
(* Two reservations that are both pending or active overlap only if one of *)
(* them was extended, or was confirmed when it was already over: two       *)
(* registrations at once never both get a slot (app.py:25-42), and no      *)
(* other interleaving of the unlocked operations makes an overlap.         *)
(***************************************************************************)
OverlapExplained ==
    \A r, s \in DOMAIN book :
        (r # s /\ Steady(r) /\ Steady(s))
            => ~Overlap(book[r].start, book[r].end, book[s].start, book[s].end)

StoreInv ==
    StoreTypeOK /\ LockHeld /\ RequestFits /\ FoundFits /\ TimeKept /\ ScanHolds /\ OverlapExplained
=============================================================================
