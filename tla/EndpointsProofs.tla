-------------------------- MODULE EndpointsProofs --------------------------
(***************************************************************************)
(* The reservation server's book and the board's commands, for any number  *)
(* of threads, users, reservations and restarts: the invariant of the      *)
(* server under any request, and of the board that is composed with it.    *)
(***************************************************************************)
EXTENDS Endpoints, SequenceTheorems, TLAPS

\* A request that the server may get, from the board, the browser or anyone else.
AnyRequest ==
    \E w \in Workers, op \in Operations, user \in Users \cup {Anonymous}, start \in Nat,
       waits \in BOOLEAN :
           (op = "register" => user \in Users) /\ Receive(w, op, user, start, waits)

StoreStep ==
    \/ AnyRequest
    \/ \E w \in Workers : Serve(w) \/ Finish(w) \/ Leave(w)
    \/ ServerRestart
    \/ UNCHANGED storeVars

\* Every step of the composed system is one that the server allows for.
LEMMA StepsOfStore ==
    ASSUME TypeOK, [Next]_vars
    PROVE  StoreStep
<1>1. CASE Ask
    <2>1. PICK c \in Commands, op \in Changes \cup {"offer"}, user \in Users \cup {Anonymous},
               w \in Workers : Receive(w, op, user, 0, TRUE)
        BY <1>1 DEF Ask
    <2>2. op \in Operations /\ op # "register"
        BY DEF Operations, Changes
    <2> QED
        BY <2>1, <2>2 DEF StoreStep, AnyRequest
<1>2. CASE Run
    BY <1>2 DEF Run, Hear, GiveUp, StoreStep
<1>3. CASE Register
    <2>1. PICK w \in Workers, user \in Users, start \in Starts :
              Receive(w, "register", user, start, FALSE)
        BY <1>3 DEF Register
    <2>2. start \in Nat /\ "register" \in Operations
        BY StoreAssumption DEF Operations
    <2> QED
        BY <2>1, <2>2 DEF StoreStep, AnyRequest
<1>4. CASE Server
    BY <1>4 DEF Server, StoreStep
<1>5. CASE BoardRestart
    BY <1>5 DEF BoardRestart, StoreStep
<1>6. CASE ServerFails
    BY <1>6 DEF ServerFails, StoreStep
<1>7. CASE UNCHANGED vars
    BY <1>7 DEF vars, storeVars, StoreStep
<1> QED
    BY <1>1, <1>2, <1>3, <1>4, <1>5, <1>6, <1>7 DEF Next
-----------------------------------------------------------------------------
\* The record of no request is well formed.
LEMMA NoRequestType == NoRequest \in Requests
BY DEF NoRequest, Requests

\* A change of one reservation leaves the others, and the length of the book.
LEMMA ChangeOne ==
    ASSUME book \in Seq(Reservations), NEW r \in DOMAIN book, NEW rec \in Reservations,
           book' = [book EXCEPT ![r] = rec]
    PROVE  /\ book' \in Seq(Reservations)
           /\ DOMAIN book' = DOMAIN book
           /\ book'[r] = rec
           /\ \A q \in DOMAIN book : q # r => book'[q] = book[q]
<1>1. DOMAIN book = 1 .. Len(book)
    OBVIOUS
<1>2. book' \in Seq(Reservations) /\ Len(book') = Len(book)
    BY <1>1, ExceptSeq
<1>3. \A j \in 1 .. Len(book) : book'[j] = IF j = r THEN rec ELSE book[j]
    BY <1>1, ExceptSeq
<1> QED
    BY <1>1, <1>2, <1>3

LEMMA BookFacts ==
    ASSUME StoreTypeOK, NEW r \in DOMAIN book
    PROVE  /\ book[r] \in Reservations
           /\ book[r].start \in Nat /\ book[r].end \in Nat
           /\ book[r].user \in Users /\ book[r].status \in Statuses
           /\ r \in Nat \ {0}
<1>1. book \in Seq(Reservations)
    BY DEF StoreTypeOK
<1>2. DOMAIN book = 1 .. Len(book) /\ Len(book) \in Nat
    BY <1>1
<1>3. book[r] \in Reservations
    BY <1>1
<1> QED
    BY <1>2, <1>3 DEF Reservations

LEMMA RequestFacts ==
    ASSUME StoreTypeOK, NEW w \in Workers
    PROVE  /\ req[w] \in Requests
           /\ req[w].found \in Nat /\ req[w].end \in Nat /\ req[w].start \in Nat
           /\ req[w].user \in Users \cup {Anonymous}
BY DEF StoreTypeOK, Requests

\* The parts of the server's state that an answer changes.
Desk == <<at, waiting, req, code>>

DeskTypeOK ==
    /\ at \in [Workers -> Places]
    /\ waiting \subseteq Workers
    /\ req \in [Workers -> Requests]
    /\ code \in [Workers -> {"none", "ok", "error"}]

LEMMA DoneType ==
    ASSUME DeskTypeOK, NEW w \in Workers, Done(w)
    PROVE  /\ at' \in [Workers -> Places]
           /\ req' \in [Workers -> Requests]
           /\ code' \in [Workers -> {"none", "ok", "error"}]
           /\ at' = [at EXCEPT ![w] = "idle"]
           /\ \A v \in Workers \ {w} : at'[v] = at[v] /\ req'[v] = req[v] /\ code'[v] = code[v]
BY NoRequestType DEF DeskTypeOK, Done, Move, Places

\* What an answer does: the thread is at rest, and the others are where they were.
LEMMA AnswerType ==
    ASSUME DeskTypeOK, NEW w \in Workers, NEW c \in {"ok", "error"}, NEW r \in Nat, NEW end \in Nat,
           Answer(w, c, r, end)
    PROVE  /\ DeskTypeOK'
           /\ at'[w] \in {"idle", "answered"}
           /\ waiting' = waiting
           /\ \A v \in Workers \ {w} : at'[v] = at[v] /\ req'[v] = req[v] /\ code'[v] = code[v]
<1>1. [NoRequest EXCEPT !.found = r, !.end = end] \in Requests
    BY NoRequestType DEF Requests
<1>2. CASE w \notin waiting /\ Done(w)
    BY <1>2, DoneType DEF DeskTypeOK, Answer
<1>3. CASE w \in waiting
    BY <1>1, <1>3 DEF DeskTypeOK, Answer, Move, Places
<1> QED
    BY <1>2, <1>3 DEF Answer

LEMMA StoreTypeParts ==
    StoreTypeOK <=>
        /\ DeskTypeOK
        /\ book \in Seq(Reservations)
        /\ lock \in Workers \cup {Nobody}
        /\ scanned \in [Workers -> SUBSET Nat]
        /\ revived \subseteq DOMAIN book
        /\ shortened \subseteq DOMAIN book
BY DEF StoreTypeOK, DeskTypeOK
-----------------------------------------------------------------------------
(***************************************************************************)
(* Three kinds of step.  Quiet: the book, the lock and what was compared   *)
(* stay, and only thread w moves, not into or out of register.             *)
(***************************************************************************)
Quiet(w) ==
    /\ UNCHANGED <<book, lock, scanned, revived, shortened>>
    /\ DeskTypeOK'
    /\ at[w] \notin {"scan", "append", "sort"} /\ at'[w] \notin {"scan", "append", "sort"}
    /\ at'[w] \in {"lock"} => req'[w].op = "register" /\ req'[w].user \in Users
    /\ at'[w] \in {"find", "act"} => req'[w].op \in Changes
    /\ at'[w] = "act" =>
          /\ req'[w].found \in DOMAIN book
          /\ book[req'[w].found].user = req'[w].user
          /\ req'[w].op = "extend" => req'[w].end >= Booked(req'[w].found)
    /\ at'[w] = "quote" => req'[w].found \in DOMAIN book
    /\ \A v \in Workers \ {w} : at'[v] = at[v] /\ req'[v] = req[v]

LEMMA QuietInv ==
    ASSUME StoreInv, NEW w \in Workers, Quiet(w)
    PROVE  StoreInv'
<1>1. StoreTypeOK'
    BY StoreTypeParts DEF StoreInv, Quiet, StoreTypeOK, DeskTypeOK
<1>2. LockHeld'
    BY DEF StoreInv, Quiet, LockHeld
<1>3. RequestFits'
    BY DEF StoreInv, Quiet, RequestFits
<1>4. FoundFits'
    BY DEF StoreInv, Quiet, FoundFits, Booked
<1>5. TimeKept' /\ OverlapExplained'
    BY DEF StoreInv, Quiet, TimeKept, OverlapExplained, Booked, Steady, Live, Extended
<1>6. ScanHolds'
    BY DEF StoreInv, Quiet, ScanHolds, Conflict, Booked, Steady, Live, Extended
<1> QED
    BY <1>1, <1>2, <1>3, <1>4, <1>5, <1>6 DEF StoreInv

LEMMA ReceiveQuiet ==
    ASSUME StoreInv, NEW w \in Workers, NEW op \in Operations, NEW user \in Users \cup {Anonymous},
           NEW start \in Nat, NEW waits \in BOOLEAN, op = "register" => user \in Users,
           Receive(w, op, user, start, waits)
    PROVE  Quiet(w)
<1> DEFINE asks == [NoRequest EXCEPT !.op = op, !.user = user, !.start = start]
<1>1. asks \in Requests /\ asks.op = op /\ asks.user = user
    BY NoRequestType DEF Requests, Operations, NoRequest
<1>2. /\ op = "register" => FirstPlace(op) = "lock"
      /\ op = "offer" => FirstPlace(op) = "offer"
      /\ op \in Changes => FirstPlace(op) = "find"
      /\ op \in {"register", "offer"} \cup Changes
    BY DEF FirstPlace, Operations, Changes
<1>3. DeskTypeOK /\ at' = [at EXCEPT ![w] = FirstPlace(op)] /\ req' = [req EXCEPT ![w] = asks]
    BY DEF StoreInv, StoreTypeOK, DeskTypeOK, Receive, Move
<1>4. FirstPlace(op) \in {"lock", "offer", "find"}
    BY <1>2
<1>5. at'[w] = FirstPlace(op) /\ req'[w] = asks
    BY <1>3 DEF DeskTypeOK
<1>6. DeskTypeOK'
    BY <1>1, <1>3, <1>4 DEF DeskTypeOK, Receive, Places
<1>7. at[w] = "idle" /\ UNCHANGED <<book, lock, scanned, revived, shortened>>
    BY DEF Receive
<1>8. \A v \in Workers \ {w} : at'[v] = at[v] /\ req'[v] = req[v]
    BY <1>3 DEF DeskTypeOK
<1>9. at'[w] = "lock" => op = "register"
    BY <1>2, <1>5
<1>10. at'[w] = "find" => op \in Changes
    BY <1>2, <1>5
<1> QED
    BY <1>1, <1>4, <1>5, <1>6, <1>7, <1>8, <1>9, <1>10 DEF Quiet

LEMMA FindQuiet ==
    ASSUME StoreInv, NEW w \in Workers, Find(w)
    PROVE  Quiet(w)
<1>1. StoreTypeOK /\ DeskTypeOK
    BY StoreTypeParts DEF StoreInv
<1>2. at[w] = "find" /\ UNCHANGED <<book, lock, scanned, revived, shortened>>
    BY DEF Find
<1>3. CASE Fail(w)
    <2>1. /\ DeskTypeOK' /\ at'[w] \in {"idle", "answered"}
          /\ \A v \in Workers \ {w} : at'[v] = at[v] /\ req'[v] = req[v]
        BY <1>1, <1>3, AnswerType DEF Fail
    <2> QED
        BY <1>2, <2>1 DEF Quiet
<1>4. ASSUME NEW r \in DOMAIN book, book[r].user = req[w].user, Move(w, "act"),
             UNCHANGED <<waiting, code>>,
             req' = [req EXCEPT ![w] =
                 [@ EXCEPT !.found = r, !.end = IF req[w].op = "extend" THEN book[r].end ELSE 0]]
      PROVE  Quiet(w)
    <2> DEFINE end == IF req[w].op = "extend" THEN book[r].end ELSE 0
               holds == [req[w] EXCEPT !.found = r, !.end = end]
    <2>1. end \in Nat /\ r \in Nat
        BY <1>1, BookFacts
    <2>2. holds \in Requests /\ holds.found = r /\ holds.end = end
          /\ holds.op = req[w].op /\ holds.user = req[w].user
        BY <1>1, <2>1, RequestFacts DEF Requests
    <2>3. req' = [req EXCEPT ![w] = holds]
        BY <1>4
    <2>4. /\ req'[w] = holds /\ at'[w] = "act"
          /\ \A v \in Workers \ {w} : at'[v] = at[v] /\ req'[v] = req[v]
        BY <1>1, <1>4, <2>3 DEF DeskTypeOK, Move
    <2>5. DeskTypeOK'
        BY <1>1, <1>4, <2>2, <2>3 DEF DeskTypeOK, Move, Places
    <2>6. req[w].op \in Changes
        BY <1>2 DEF StoreInv, RequestFits
    <2>7. book[r].end >= Booked(r)
        BY DEF StoreInv, TimeKept
    <2> QED
        BY <1>2, <1>4, <2>2, <2>4, <2>5, <2>6, <2>7 DEF Quiet
<1> QED
    BY <1>3, <1>4, Zenon DEF Find, Listed

LEMMA OfferQuiet ==
    ASSUME StoreInv, NEW w \in Workers, Offer(w)
    PROVE  Quiet(w)
<1>1. StoreTypeOK /\ DeskTypeOK
    BY StoreTypeParts DEF StoreInv
<1>2. at[w] = "offer" /\ UNCHANGED <<book, lock, scanned, revived, shortened>>
    BY DEF Offer
<1>3. CASE Fail(w)
    <2>1. /\ DeskTypeOK' /\ at'[w] \in {"idle", "answered"}
          /\ \A v \in Workers \ {w} : at'[v] = at[v] /\ req'[v] = req[v]
        BY <1>1, <1>3, AnswerType DEF Fail
    <2> QED
        BY <1>2, <2>1 DEF Quiet
<1>4. ASSUME NEW r \in DOMAIN book, Move(w, "quote"), UNCHANGED <<waiting, code>>,
             req' = [req EXCEPT ![w] = [@ EXCEPT !.found = r]]
      PROVE  Quiet(w)
    <2> DEFINE holds == [req[w] EXCEPT !.found = r]
    <2>1. holds \in Requests /\ holds.found = r
        BY <1>1, BookFacts, RequestFacts DEF Requests
    <2>2. /\ req' = [req EXCEPT ![w] = holds] /\ req'[w] = holds /\ at'[w] = "quote"
          /\ \A v \in Workers \ {w} : at'[v] = at[v] /\ req'[v] = req[v]
        BY <1>1, <1>4 DEF DeskTypeOK, Move
    <2>3. DeskTypeOK'
        BY <1>1, <1>4, <2>1, <2>2 DEF DeskTypeOK, Move, Places
    <2> QED
        BY <1>2, <2>1, <2>2, <2>3 DEF Quiet
<1>5. Listed \subseteq DOMAIN book
    BY DEF Listed
<1> QED
    BY <1>3, <1>4, <1>5 DEF Offer

LEMMA QuoteQuiet ==
    ASSUME StoreInv, NEW w \in Workers, Quote(w)
    PROVE  Quiet(w)
<1>1. /\ StoreTypeOK /\ DeskTypeOK /\ at[w] = "quote"
      /\ UNCHANGED <<book, lock, scanned, revived, shortened>>
    BY StoreTypeParts DEF StoreInv, Quote
<1>2. req[w].found \in Nat /\ book[req[w].found].end \in Nat
    BY <1>1, RequestFacts, BookFacts DEF StoreInv, FoundFits
<1>3. /\ DeskTypeOK' /\ at'[w] \in {"idle", "answered"}
      /\ \A v \in Workers \ {w} : at'[v] = at[v] /\ req'[v] = req[v]
    BY <1>1, <1>2, AnswerType DEF Quote
<1> QED
    BY <1>1, <1>3 DEF Quiet

LEMMA EndQuiet ==
    ASSUME StoreInv, NEW w \in Workers, Finish(w) \/ Leave(w)
    PROVE  Quiet(w) \/ UNCHANGED <<book, lock, at, req, scanned, code, revived, shortened>>
<1>1. StoreTypeOK /\ DeskTypeOK
    BY StoreTypeParts DEF StoreInv
<1>2. CASE at[w] = "answered" /\ Done(w)
    BY <1>1, <1>2, DoneType DEF Finish, Leave, Quiet, DeskTypeOK
<1> QED
    BY <1>2 DEF Finish, Leave
LEMMA RestInv ==
    ASSUME StoreInv, waiting' \subseteq Workers,
           UNCHANGED <<book, lock, at, req, scanned, code, revived, shortened>>
    PROVE  StoreInv'
<1>1. StoreTypeOK' /\ LockHeld' /\ RequestFits'
    BY DEF StoreInv, StoreTypeOK, LockHeld, RequestFits
<1>2. FoundFits' /\ TimeKept' /\ OverlapExplained'
    BY DEF StoreInv, FoundFits, TimeKept, OverlapExplained, Booked, Steady, Live, Extended
<1>3. ScanHolds'
    BY DEF StoreInv, ScanHolds, Conflict, Booked, Steady, Live, Extended
<1> QED
    BY <1>1, <1>2, <1>3 DEF StoreInv

(***************************************************************************)
(* The steps of register, one thread at a time.                            *)
(***************************************************************************)
LEMMA LockInv ==
    ASSUME StoreInv, NEW w \in Workers, Lock(w)
    PROVE  StoreInv'
<1>1. StoreTypeOK /\ at[w] = "lock" /\ at' = [at EXCEPT ![w] = "scan"]
    BY DEF StoreInv, Lock, Move
<1>2. /\ lock = Nobody /\ lock' = w
      /\ UNCHANGED <<book, waiting, req, scanned, code, revived, shortened>>
    BY DEF Lock
<1>3. at'[w] = "scan" /\ \A v \in Workers \ {w} : at'[v] = at[v]
    BY <1>1 DEF StoreTypeOK
<1>4. StoreTypeOK'
    BY <1>1, <1>2 DEF StoreTypeOK, Places
<1>5. LockHeld'
    BY <1>2, <1>3, StoreAssumption DEF StoreInv, LockHeld
<1>6. RequestFits'
    BY <1>1, <1>2, <1>3 DEF StoreInv, RequestFits
<1>7. FoundFits'
    BY <1>2, <1>3 DEF StoreInv, FoundFits, Booked
<1>8. TimeKept' /\ OverlapExplained'
    BY <1>2 DEF StoreInv, TimeKept, OverlapExplained, Booked, Steady, Live, Extended
<1>9. ScanHolds'
    BY <1>1, <1>2, <1>3 DEF StoreInv, ScanHolds, Conflict, Booked, Steady, Live, Extended
<1> QED
    BY <1>4, <1>5, <1>6, <1>7, <1>8, <1>9 DEF StoreInv

LEMMA CompareInv ==
    ASSUME StoreInv, NEW w \in Workers, NEW r \in DOMAIN book, Compare(w, r)
    PROVE  StoreInv'
<1>1. /\ StoreTypeOK /\ at[w] = "scan" /\ ~Conflict(w, r)
      /\ scanned' = [scanned EXCEPT ![w] = scanned[w] \cup {r}]
      /\ UNCHANGED <<book, lock, at, waiting, req, code, revived, shortened>>
    BY DEF StoreInv, Compare
<1>2. /\ scanned'[w] = scanned[w] \cup {r}
      /\ \A v \in Workers \ {w} : scanned'[v] = scanned[v]
    BY <1>1 DEF StoreTypeOK
<1>3. r \in Nat
    BY <1>1, BookFacts
<1>4. StoreTypeOK' /\ LockHeld' /\ RequestFits'
    BY <1>1, <1>3 DEF StoreInv, StoreTypeOK, LockHeld, RequestFits
<1>5. FoundFits' /\ TimeKept' /\ OverlapExplained'
    BY <1>1 DEF StoreInv, FoundFits, TimeKept, OverlapExplained, Booked, Steady, Live, Extended
<1>6. ScanHolds'
    BY <1>1, <1>2 DEF StoreInv, ScanHolds, Conflict, Booked, Steady, Live, Extended
<1> QED
    BY <1>4, <1>5, <1>6 DEF StoreInv

\* The end of register, with or without a reservation: the lock is free again.
LEMMA ReleaseInv ==
    ASSUME StoreInv, NEW w \in Workers, NEW c \in {"ok", "error"}, at[w] \in {"scan", "sort"},
           Answer(w, c, 0, 0), lock' = Nobody, scanned' = [scanned EXCEPT ![w] = {}],
           UNCHANGED <<book, revived, shortened>>
    PROVE  StoreInv'
<1>1. StoreTypeOK /\ DeskTypeOK /\ lock = w
    BY StoreTypeParts DEF StoreInv, LockHeld
<1>2. /\ DeskTypeOK' /\ at'[w] \in {"idle", "answered"}
      /\ \A v \in Workers \ {w} : at'[v] = at[v] /\ req'[v] = req[v]
    BY <1>1, AnswerType
<1>3. scanned'[w] = {} /\ \A v \in Workers \ {w} : scanned'[v] = scanned[v]
    BY <1>1 DEF StoreTypeOK
<1>4. StoreTypeOK'
    BY <1>1, <1>2 DEF StoreTypeOK, DeskTypeOK
<1>5. LockHeld'
    BY <1>1, <1>2, StoreAssumption DEF StoreInv, LockHeld
<1>6. RequestFits'
    BY <1>2 DEF StoreInv, RequestFits
<1>7. FoundFits'
    BY <1>2 DEF StoreInv, FoundFits, Booked
<1>8. TimeKept' /\ OverlapExplained'
    BY DEF StoreInv, TimeKept, OverlapExplained, Booked, Steady, Live, Extended
<1>9. ScanHolds'
    BY <1>2, <1>3 DEF StoreInv, ScanHolds, Conflict, Booked, Steady, Live, Extended
<1> QED
    BY <1>4, <1>5, <1>6, <1>7, <1>8, <1>9 DEF StoreInv

LEMMA ComparedInv ==
    ASSUME StoreInv, NEW w \in Workers, Compared(w)
    PROVE  StoreInv'
<1>1. StoreTypeOK /\ at[w] = "scan" /\ at' = [at EXCEPT ![w] = "append"]
    BY DEF StoreInv, Compared, Move
<1>2. /\ DOMAIN book \subseteq scanned[w]
      /\ UNCHANGED <<book, lock, waiting, req, scanned, code, revived, shortened>>
    BY DEF Compared
<1>3. at'[w] = "append" /\ \A v \in Workers \ {w} : at'[v] = at[v]
    BY <1>1 DEF StoreTypeOK
<1>4. StoreTypeOK' /\ LockHeld' /\ RequestFits'
    BY <1>1, <1>2, <1>3 DEF StoreInv, StoreTypeOK, LockHeld, RequestFits, Places
<1>5. FoundFits' /\ TimeKept' /\ OverlapExplained'
    BY <1>2, <1>3
    DEF StoreInv, FoundFits, TimeKept, OverlapExplained, Booked, Steady, Live, Extended
<1>6. ScanHolds'
    BY <1>1, <1>2, <1>3 DEF StoreInv, ScanHolds, Conflict, Booked, Steady, Live, Extended
<1> QED
    BY <1>4, <1>5, <1>6 DEF StoreInv

LEMMA InsertInv ==
    ASSUME StoreInv, NEW w \in Workers, Insert(w)
    PROVE  StoreInv'
<1> DEFINE made == [user |-> req[w].user, start |-> req[w].start,
                    end |-> req[w].start + Length, status |-> "pending"]
           n == Len(book) + 1
<1>1. StoreTypeOK /\ at[w] = "append" /\ DOMAIN book \subseteq scanned[w] /\ lock = w
    BY DEF StoreInv, Insert, LockHeld, ScanHolds
<1>2. /\ book' = Append(book, made)
      /\ scanned' = [scanned EXCEPT ![w] = {}] /\ at' = [at EXCEPT ![w] = "sort"]
      /\ UNCHANGED <<lock, waiting, req, code, revived, shortened>>
    BY DEF Insert, Move
<1>3. made \in Reservations
    BY <1>1, RequestFacts, StoreAssumption DEF StoreInv, RequestFits, Reservations, Statuses
<1>4. /\ book' \in Seq(Reservations) /\ DOMAIN book = 1 .. Len(book) /\ Len(book) \in Nat
      /\ DOMAIN book' = DOMAIN book \cup {n} /\ n \notin DOMAIN book
      /\ book'[n] = made /\ \A r \in DOMAIN book : book'[r] = book[r]
    <2>1. book \in Seq(Reservations)
        BY <1>1 DEF StoreTypeOK
    <2>2. DOMAIN book = 1 .. Len(book) /\ Len(book) \in Nat
        BY <2>1
    <2>3. /\ Append(book, made) \in Seq(Reservations)
          /\ Len(Append(book, made)) = Len(book) + 1
          /\ \A i \in 1 .. Len(book) : Append(book, made)[i] = book[i]
          /\ Append(book, made)[Len(book) + 1] = made
        BY <1>3, <2>1, AppendProperties
    <2>4. DOMAIN book' = 1 .. Len(book) + 1
        BY <1>2, <2>3
    <2> QED
        BY <1>2, <2>2, <2>3, <2>4
<1>5. /\ at'[w] = "sort" /\ scanned'[w] = {}
      /\ \A v \in Workers \ {w} : at'[v] = at[v] /\ scanned'[v] = scanned[v]
    BY <1>1, <1>2 DEF StoreTypeOK
<1>6. StoreTypeOK'
    BY <1>1, <1>2, <1>4 DEF StoreTypeOK, Places
<1>7. LockHeld' /\ RequestFits'
    BY <1>1, <1>2, <1>5 DEF StoreInv, LockHeld, RequestFits
<1>8. FoundFits'
    BY <1>2, <1>4, <1>5 DEF StoreInv, FoundFits, Booked
<1>9. TimeKept'
    <2>1. made.end >= made.start + Length
        BY <1>1, RequestFacts, StoreAssumption
    <2> QED
        BY <1>4, <2>1 DEF StoreInv, TimeKept, Booked
<1>10. \A r \in DOMAIN book : Steady(r)' => Steady(r)
    BY <1>2, <1>4 DEF Steady, Live, Extended, Booked
<1>11. ScanHolds'
    <2>1. \A v \in Workers : scanned'[v] = {} /\ at'[v] # "append"
        BY <1>1, <1>5 DEF StoreInv, LockHeld, ScanHolds
    <2> QED
        BY <2>1 DEF ScanHolds
<1>12. ASSUME NEW r \in DOMAIN book, Steady(r)
       PROVE  /\ ~Overlap(made.start, made.end, book[r].start, book[r].end)
              /\ ~Overlap(book[r].start, book[r].end, made.start, made.end)
    <2>1. ~Conflict(w, r) /\ Live(r)
        BY <1>1, <1>12 DEF StoreInv, ScanHolds, Steady
    <2>2. ~Overlap(made.start, made.end, book[r].start, book[r].end)
        BY <2>1 DEF Conflict
    <2>3. /\ made.start \in Nat /\ made.end \in Nat
          /\ book[r].start \in Nat /\ book[r].end \in Nat
        BY <1>1, <1>3, BookFacts DEF Reservations
    <2> HIDE DEF made
    <2> QED
        BY <2>2, <2>3 DEF Overlap
<1>13. OverlapExplained'
    <2> HIDE DEF made, n
    <2> SUFFICES ASSUME NEW r \in DOMAIN book', NEW s \in DOMAIN book', r # s,
                        Steady(r)', Steady(s)'
                 PROVE  ~Overlap(book'[r].start, book'[r].end, book'[s].start, book'[s].end)
        BY DEF OverlapExplained
    <2>1. CASE r \in DOMAIN book /\ s \in DOMAIN book
        BY <1>4, <1>10, <2>1 DEF StoreInv, OverlapExplained
    <2>2. CASE r = n /\ s \in DOMAIN book
        BY <1>4, <1>10, <1>12, <2>2
    <2>3. CASE s = n /\ r \in DOMAIN book
        BY <1>4, <1>10, <1>12, <2>3
    <2> QED
        BY <1>4, <2>1, <2>2, <2>3
<1> QED
    BY <1>6, <1>7, <1>8, <1>9, <1>11, <1>13 DEF StoreInv
-----------------------------------------------------------------------------
(***************************************************************************)
(* A change of the reservation r that keeps its name and start, and leaves *)
(* it steady only if it was and kept its end.                              *)
(***************************************************************************)
LEMMA ChangeInv ==
    ASSUME StoreInv, NEW w \in Workers, at[w] = "act", NEW rec \in Reservations,
           NEW f \in DOMAIN book, book' = [book EXCEPT ![f] = rec],
           rec.user = book[f].user, rec.start = book[f].start, rec.end >= Booked(f),
           Steady(f)' => Steady(f) /\ rec.end = book[f].end,
           revived' \subseteq DOMAIN book, shortened' \subseteq DOMAIN book,
           \A r \in DOMAIN book \ {f} : r \in revived' <=> r \in revived,
           Answer(w, "ok", f, 0), UNCHANGED <<lock, scanned>>
    PROVE  StoreInv'
<1>1. StoreTypeOK /\ DeskTypeOK /\ f \in Nat
    BY StoreTypeParts, BookFacts DEF StoreInv
<1>2. /\ DeskTypeOK' /\ at'[w] \in {"idle", "answered"}
      /\ \A v \in Workers \ {w} : at'[v] = at[v] /\ req'[v] = req[v]
    BY <1>1, AnswerType
<1>3. /\ book' \in Seq(Reservations) /\ DOMAIN book' = DOMAIN book /\ book'[f] = rec
      /\ \A q \in DOMAIN book : q # f => book'[q] = book[q]
    BY <1>1, ChangeOne DEF StoreTypeOK
<1>4. \A r \in DOMAIN book : /\ book'[r].user = book[r].user /\ book'[r].start = book[r].start
                             /\ Booked(r)' = Booked(r)
    BY <1>3 DEF Booked
<1>5. \A r \in DOMAIN book : Steady(r)' => Steady(r) /\ book'[r].end = book[r].end
    BY <1>3, <1>4 DEF Steady, Live, Extended
<1>6. StoreTypeOK'
    BY <1>1, <1>2, <1>3 DEF StoreTypeOK, DeskTypeOK
<1>7. LockHeld' /\ RequestFits'
    BY <1>2 DEF StoreInv, LockHeld, RequestFits
<1>8. FoundFits'
    BY <1>2, <1>3, <1>4 DEF StoreInv, FoundFits
<1>9. TimeKept'
    BY <1>3, <1>4 DEF StoreInv, TimeKept
<1>10. ASSUME NEW v \in Workers, NEW r \in scanned[v], Steady(r)'
       PROVE  ~Conflict(v, r)'
    <2>1. r \in DOMAIN book /\ Steady(r) /\ at[v] \in {"scan", "append"} /\ v # w
        BY <1>5, <1>10 DEF StoreInv, ScanHolds
    <2>2. ~Conflict(v, r) /\ Live(r)
        BY <2>1 DEF StoreInv, ScanHolds, Steady
    <2> QED
        BY <1>2, <1>4, <1>5, <1>10, <2>1, <2>2 DEF Conflict
<1>11. ScanHolds'
    BY <1>1, <1>2, <1>3, <1>10 DEF StoreInv, ScanHolds
<1>12. OverlapExplained'
    BY <1>3, <1>4, <1>5 DEF StoreInv, OverlapExplained
<1> QED
    BY <1>6, <1>7, <1>8, <1>9, <1>11, <1>12 DEF StoreInv

LEMMA SetInv ==
    ASSUME StoreInv, NEW w \in Workers, Confirm(w) \/ End(w)
    PROVE  StoreInv'
<1> PICK f : f = req[w].found
    OBVIOUS
<1>1. PICK ops \in SUBSET Changes, status \in {"active", "over"} :
          /\ Set(w, ops, status)
          /\ status = "active" =>
                revived' = IF Live(f) THEN revived ELSE revived \cup {f}
          /\ status = "over" => revived' = revived \ {f}
    BY DEF Confirm, End, Changes
<1>2. StoreTypeOK /\ at[w] = "act" /\ f \in DOMAIN book
    BY <1>1 DEF StoreInv, Set, FoundFits
<1> DEFINE rec == [book[f] EXCEPT !.status = status]
<1>3. /\ book[f] \in Reservations /\ book[f].end >= Booked(f)
      /\ revived \subseteq DOMAIN book /\ shortened \subseteq DOMAIN book
    BY <1>2, BookFacts DEF StoreInv, TimeKept, StoreTypeOK
<1>4. /\ rec \in Reservations /\ rec.user = book[f].user /\ rec.start = book[f].start
      /\ rec.end = book[f].end /\ rec.status = status
    BY <1>3 DEF Reservations, Statuses
<1>5. /\ book' = [book EXCEPT ![f] = rec]
      /\ Answer(w, "ok", f, 0) /\ UNCHANGED <<lock, scanned, shortened>>
    BY <1>1 DEF Set
<1>6. book'[f] = rec
    BY <1>2, <1>4, <1>5, ChangeOne DEF StoreTypeOK
<1>7. Steady(f)' => Steady(f) /\ rec.end = book[f].end
    BY <1>1, <1>4, <1>6 DEF Steady, Live, Extended, Booked
<1>8. /\ revived' \subseteq DOMAIN book
      /\ \A r \in DOMAIN book \ {f} : r \in revived' <=> r \in revived
    BY <1>1, <1>2, <1>3
<1> HIDE DEF rec
<1> QED
    BY <1>2, <1>3, <1>4, <1>5, <1>7, <1>8, ChangeInv

LEMMA ExtendInv ==
    ASSUME StoreInv, NEW w \in Workers, Extend(w)
    PROVE  StoreInv'
<1> PICK f : f = req[w].found
    OBVIOUS
<1> DEFINE rec == [book[f] EXCEPT !.end = req[w].end + Extra]
<1>1. StoreTypeOK /\ at[w] = "act" /\ f \in DOMAIN book /\ req[w].end >= Booked(f)
    BY DEF StoreInv, Extend, FoundFits
<1>2. /\ book[f] \in Reservations /\ book[f].start \in Nat /\ req[w].end \in Nat
      /\ revived \subseteq DOMAIN book /\ shortened \subseteq DOMAIN book
    BY <1>1, BookFacts, RequestFacts DEF StoreTypeOK
<1>3. /\ rec \in Reservations /\ rec.user = book[f].user /\ rec.start = book[f].start
      /\ rec.end = req[w].end + Extra
    BY <1>2, StoreAssumption DEF Reservations
<1>4. /\ book' = [book EXCEPT ![f] = rec]
      /\ Answer(w, "ok", f, 0) /\ UNCHANGED <<lock, scanned, revived>>
      /\ shortened' \subseteq shortened \cup {f}
    BY DEF Extend
<1>5. book'[f] = rec
    BY <1>1, <1>3, <1>4, ChangeOne DEF StoreTypeOK
<1>6. rec.end > Booked(f)
    BY <1>1, <1>2, <1>3, StoreAssumption DEF Booked
<1>7. ~Steady(f)'
    BY <1>3, <1>5, <1>6 DEF Steady, Extended, Booked
<1>8. rec.end >= Booked(f)
    BY <1>1, <1>2, <1>3, StoreAssumption DEF Booked
<1> HIDE DEF rec
<1> QED
    BY <1>1, <1>2, <1>3, <1>4, <1>7, <1>8, ChangeInv

LEMMA EmptyInv ==
    ASSUME ServerRestart
    PROVE  StoreInv'
<1>1. book' = <<>> /\ DOMAIN book' = {} /\ book' \in Seq(Reservations)
    BY DEF ServerRestart
<1>2. StoreTypeOK'
    BY <1>1, NoRequestType DEF ServerRestart, StoreTypeOK, Places
<1>3. LockHeld' /\ RequestFits' /\ FoundFits' /\ ScanHolds'
    BY <1>1, StoreAssumption DEF ServerRestart, LockHeld, RequestFits, FoundFits, ScanHolds
<1>4. TimeKept' /\ OverlapExplained'
    BY <1>1 DEF TimeKept, OverlapExplained
<1> QED
    BY <1>2, <1>3, <1>4 DEF StoreInv

LEMMA InitInv == StoreInit => StoreInv
<1> SUFFICES ASSUME StoreInit PROVE StoreInv
    OBVIOUS
<1>1. book = <<>> /\ DOMAIN book = {} /\ book \in Seq(Reservations)
    BY DEF StoreInit
<1>2. StoreTypeOK
    BY <1>1, NoRequestType DEF StoreInit, StoreTypeOK, Places
<1>3. LockHeld /\ RequestFits /\ FoundFits /\ ScanHolds
    BY <1>1, StoreAssumption DEF StoreInit, LockHeld, RequestFits, FoundFits, ScanHolds
<1>4. TimeKept /\ OverlapExplained
    BY <1>1 DEF TimeKept, OverlapExplained
<1> QED
    BY <1>2, <1>3, <1>4 DEF StoreInv

LEMMA StoreStepInv ==
    ASSUME StoreInv, StoreStep
    PROVE  StoreInv'
<1>1. CASE AnyRequest
    BY <1>1, ReceiveQuiet, QuietInv DEF AnyRequest
<1>2. ASSUME NEW w \in Workers, Serve(w)
      PROVE  StoreInv'
    <2>1. CASE Lock(w)
        BY <2>1, LockInv
    <2>2. ASSUME NEW r \in DOMAIN book, Compare(w, r)
          PROVE  StoreInv'
        BY <2>2, CompareInv
    <2>3. ASSUME NEW r \in DOMAIN book, Refuse(w, r)
          PROVE  StoreInv'
        BY <2>3, ReleaseInv DEF Refuse, Fail
    <2>4. CASE Compared(w) \/ Insert(w)
        BY <2>4, ComparedInv, InsertInv
    <2>5. CASE Sorted(w)
        <3>1. scanned[w] = {} /\ scanned \in [Workers -> SUBSET Nat]
            BY <2>5 DEF Sorted, StoreInv, ScanHolds, StoreTypeOK
        <3>2. scanned' = [scanned EXCEPT ![w] = {}]
            BY <2>5, <3>1 DEF Sorted
        <3> QED
            BY <2>5, <3>2, ReleaseInv DEF Sorted
    <2>6. CASE Find(w) \/ Offer(w) \/ Quote(w)
        BY <2>6, FindQuiet, OfferQuiet, QuoteQuiet, QuietInv
    <2>7. CASE Confirm(w) \/ End(w)
        BY <2>7, SetInv
    <2>8. CASE Extend(w)
        BY <2>8, ExtendInv
    <2> QED
        BY <1>2, <2>1, <2>2, <2>3, <2>4, <2>5, <2>6, <2>7, <2>8 DEF Serve
<1>3. ASSUME NEW w \in Workers, Finish(w) \/ Leave(w)
      PROVE  StoreInv'
    <2>1. waiting' \subseteq Workers
        BY <1>3 DEF Finish, Leave, StoreInv, StoreTypeOK
    <2> QED
        BY <1>3, <2>1, EndQuiet, QuietInv, RestInv
<1>4. CASE ServerRestart
    BY <1>4, EmptyInv
<1>5. CASE UNCHANGED storeVars
    <2>1. waiting' \subseteq Workers
        BY <1>5 DEF storeVars, StoreInv, StoreTypeOK
    <2> QED
        BY <1>5, <2>1, RestInv DEF storeVars
<1> QED
    BY <1>1, <1>2, <1>3, <1>4, <1>5 DEF StoreStep
-----------------------------------------------------------------------------
(***************************************************************************)
(* What the book keeps while the server is up: names, starts, the end of   *)
(* what has ended, and, but for a lost extension, the time there is.       *)
(***************************************************************************)
Ended(r) == ~Live(r) \/ r \in revived

Within(r, until) == until <= book[r].end \/ r \in shortened

Grows ==
    /\ DOMAIN book \subseteq DOMAIN book'
    /\ shortened \subseteq shortened'
    /\ \A r \in DOMAIN book :
          /\ book'[r].user = book[r].user
          /\ book'[r].start = book[r].start
          /\ Ended(r) => Ended(r)'
          /\ book[r].end <= book'[r].end \/ r \in shortened'

LEMMA SameGrows ==
    ASSUME StoreTypeOK, UNCHANGED <<book, revived, shortened>>
    PROVE  Grows
<1>1. \A r \in DOMAIN book : book[r].end \in Nat
    BY BookFacts
<1> QED
    BY <1>1 DEF Grows, Ended, Live

LEMMA ServeGrows ==
    ASSUME StoreInv, NEW w \in Workers, Serve(w)
    PROVE  Grows
<1>1. StoreTypeOK /\ \A r \in DOMAIN book : book[r].end \in Nat
    BY BookFacts DEF StoreInv
<1>2. CASE Insert(w)
    <2>1. /\ book \in Seq(Reservations) /\ UNCHANGED <<revived, shortened>>
          /\ book' = Append(book, [user |-> req[w].user, start |-> req[w].start,
                                   end |-> req[w].start + Length, status |-> "pending"])
        BY <1>1, <1>2 DEF Insert, StoreTypeOK
    <2>2. /\ DOMAIN book \subseteq DOMAIN book'
          /\ \A r \in DOMAIN book : book'[r] = book[r]
        BY <2>1
    <2> QED
        BY <1>1, <2>1, <2>2 DEF Grows, Ended, Live
<1>3. ASSUME Confirm(w) \/ End(w) \/ Extend(w)
      PROVE  Grows
    <2>1. PICK f : f = req[w].found
        OBVIOUS
    <2>2. f \in DOMAIN book
        BY <1>3, <2>1 DEF Confirm, End, Extend, Set, StoreInv, FoundFits
    <2>3. PICK rec : /\ book' = [book EXCEPT ![f] = rec]
                     /\ rec.user = book[f].user /\ rec.start = book[f].start
                     /\ rec \in Reservations
                     /\ Confirm(w) \/ End(w) => rec.end = book[f].end
                     /\ Confirm(w) => rec.status = "active"
                     /\ End(w) => rec.status = "over"
                     /\ Extend(w) => rec.status = book[f].status /\ rec.end = req[w].end + Extra
        <3>1. CASE Confirm(w)
            <4> DEFINE rec == [book[f] EXCEPT !.status = "active"]
            <4>1. /\ book' = [book EXCEPT ![f] = rec] /\ req[w].op = "confirm"
                  /\ ~End(w) /\ ~Extend(w)
                BY <2>1, <3>1 DEF Confirm, Set, End, Extend
            <4>2. book[f] \in Reservations
                BY <1>1, <2>2, BookFacts
            <4>3. /\ rec \in Reservations /\ rec.end = book[f].end /\ rec.status = "active"
                  /\ rec.user = book[f].user /\ rec.start = book[f].start
                BY <4>2 DEF Reservations, Statuses
            <4> QED
                BY <4>1, <4>3
        <3>2. CASE End(w)
            <4> DEFINE rec == [book[f] EXCEPT !.status = "over"]
            <4>1. /\ book' = [book EXCEPT ![f] = rec] /\ req[w].op \in {"cancel", "end"}
                  /\ ~Confirm(w) /\ ~Extend(w)
                BY <2>1, <3>2 DEF Confirm, Set, End, Extend
            <4>2. book[f] \in Reservations
                BY <1>1, <2>2, BookFacts
            <4>3. /\ rec \in Reservations /\ rec.end = book[f].end /\ rec.status = "over"
                  /\ rec.user = book[f].user /\ rec.start = book[f].start
                BY <4>2 DEF Reservations, Statuses
            <4> QED
                BY <4>1, <4>3
        <3>3. CASE Extend(w)
            <4> DEFINE rec == [book[f] EXCEPT !.end = req[w].end + Extra]
            <4>1. /\ book' = [book EXCEPT ![f] = rec] /\ req[w].op = "extend"
                  /\ ~Confirm(w) /\ ~End(w)
                BY <2>1, <3>3 DEF Confirm, Set, End, Extend
            <4>2. book[f] \in Reservations /\ req[w].end \in Nat
                BY <1>1, <2>2, BookFacts, RequestFacts
            <4>3. /\ rec \in Reservations /\ rec.end = req[w].end + Extra
                  /\ rec.status = book[f].status
                  /\ rec.user = book[f].user /\ rec.start = book[f].start
                BY <4>2, StoreAssumption DEF Reservations
            <4> QED
                BY <4>1, <4>3
        <3> QED
            BY <1>3, <3>1, <3>2, <3>3
    <2>4. /\ DOMAIN book' = DOMAIN book /\ book'[f] = rec
          /\ \A q \in DOMAIN book : q # f => book'[q] = book[q]
        BY <1>1, <2>2, <2>3, ChangeOne DEF StoreTypeOK
    <2>5. Ended(f) => Ended(f)'
        BY <1>3, <2>1, <2>2, <2>3, <2>4 DEF Ended, Live, Confirm, End, Extend
    <2>6. \A q \in DOMAIN book : q # f => (Ended(q) => Ended(q)')
        BY <1>3, <2>1, <2>4 DEF Ended, Live, Confirm, End, Extend
    <2>7. shortened \subseteq shortened'
        BY <1>3 DEF Confirm, End, Extend, Set
    <2>8. book[f].end <= book'[f].end \/ f \in shortened'
        <3>1. req[w].end \in Nat
            BY <1>1, RequestFacts
        <3>2. CASE Confirm(w) \/ End(w)
            BY <1>1, <2>2, <2>3, <2>4, <3>2
        <3>3. CASE Extend(w)
            <4>1. /\ rec.end = req[w].end + Extra
                  /\ shortened' = IF req[w].end + Extra < book[f].end
                                     THEN shortened \cup {f} ELSE shortened
                BY <2>1, <2>3, <3>3 DEF Extend
            <4> QED
                BY <1>1, <2>2, <2>4, <3>1, <4>1, StoreAssumption
        <3> QED
            BY <1>3, <3>2, <3>3
    <2> QED
        BY <1>1, <2>3, <2>4, <2>5, <2>6, <2>7, <2>8 DEF Grows
<1>4. CASE UNCHANGED <<book, revived, shortened>>
    BY <1>1, <1>4, SameGrows
<1> QED
    BY <1>2, <1>3, <1>4 DEF Serve, Lock, Compare, Compared, Refuse, Sorted, Find, Offer, Quote

\* A thread's step leaves the others, and who waits.
LEMMA ServeLocal ==
    ASSUME StoreInv, NEW w \in Workers, Serve(w)
    PROVE  /\ waiting' = waiting
           /\ \A v \in Workers \ {w} : at'[v] = at[v] /\ req'[v] = req[v] /\ code'[v] = code[v]
<1>1. StoreTypeOK /\ DeskTypeOK
    BY StoreTypeParts DEF StoreInv
<1>2. ASSUME NEW c \in {"ok", "error"}, NEW r \in Nat, NEW end \in Nat, Answer(w, c, r, end)
      PROVE  /\ waiting' = waiting
             /\ \A v \in Workers \ {w} : at'[v] = at[v] /\ req'[v] = req[v] /\ code'[v] = code[v]
    BY <1>1, <1>2, AnswerType
<1>3. CASE Lock(w) \/ Compared(w) \/ Insert(w) \/ \E r \in DOMAIN book : Compare(w, r)
    BY <1>1, <1>3 DEF Lock, Insert, Compare, Compared, Move, DeskTypeOK
<1>4. CASE Sorted(w) \/ (\E r \in DOMAIN book : Refuse(w, r))
    BY <1>2, <1>4 DEF Sorted, Refuse, Fail
<1>5. CASE Find(w)
    <2>1. CASE Fail(w)
        BY <1>2, <2>1 DEF Fail
    <2>2. ASSUME NEW rec, req' = [req EXCEPT ![w] = rec], Move(w, "act"), UNCHANGED <<waiting, code>>
          PROVE  /\ waiting' = waiting
                 /\ \A v \in Workers \ {w} : at'[v] = at[v] /\ req'[v] = req[v] /\ code'[v] = code[v]
        BY <1>1, <2>2 DEF Move, DeskTypeOK
    <2> QED
        BY <1>5, <2>1, <2>2 DEF Find
<1>6. CASE Offer(w)
    <2>1. CASE Fail(w)
        BY <1>2, <2>1 DEF Fail
    <2>2. ASSUME NEW rec, req' = [req EXCEPT ![w] = rec], Move(w, "quote"), UNCHANGED <<waiting, code>>
          PROVE  /\ waiting' = waiting
                 /\ \A v \in Workers \ {w} : at'[v] = at[v] /\ req'[v] = req[v] /\ code'[v] = code[v]
        BY <1>1, <2>2 DEF Move, DeskTypeOK
    <2> QED
        BY <1>6, <2>1, <2>2 DEF Offer
<1>7. CASE Confirm(w) \/ End(w) \/ Extend(w)
    BY <1>1, <1>2, <1>7, RequestFacts DEF Confirm, End, Extend, Set
<1>8. CASE Quote(w)
    <2>1. req[w].found \in Nat /\ book[req[w].found].end \in Nat
        BY <1>1, <1>8, RequestFacts, BookFacts DEF StoreInv, FoundFits, Quote
    <2> QED
        BY <1>2, <1>8, <2>1 DEF Quote
<1> QED
    BY <1>3, <1>4, <1>5, <1>6, <1>7, <1>8 DEF Serve
-----------------------------------------------------------------------------
(***************************************************************************)
(* What the thread the shell waits for is about, and what its answer says. *)
(***************************************************************************)
Ends(w) ==
    \/ at[w] \in {"find", "act"} /\ req[w].op = "end"
    \/ /\ at[w] = "answered"
       /\ code[w] = "ok" => req[w].found \in DOMAIN book /\ Ended(req[w].found)

Offers(w) ==
    \/ at[w] \in {"offer", "quote"}
    \/ /\ at[w] = "answered"
       /\ code[w] = "ok" =>
             /\ req[w].found \in DOMAIN book
             /\ req[w].end \in Nat
             /\ Within(req[w].found, req[w].end)

Awaited ==
    \A w \in waiting :
        /\ cmd = "checkout" => Ends(w)
        /\ cmd = "fetch_schedule" => Offers(w)

BoardInv == EndpointsInv /\ Awaited /\ AckedEnded /\ HeldIsBooked

\* What an answer carries, when somebody waits for it.
LEMMA AnswerCarries ==
    ASSUME DeskTypeOK, NEW w \in waiting, NEW c \in {"ok", "error"}, NEW r \in Nat, NEW end \in Nat,
           Answer(w, c, r, end)
    PROVE  at'[w] = "answered" /\ code'[w] = c /\ req'[w].found = r /\ req'[w].end = end
<1>1. w \in Workers
    BY DEF DeskTypeOK
<1>2. /\ at' = [at EXCEPT ![w] = "answered"] /\ code' = [code EXCEPT ![w] = c]
      /\ req' = [req EXCEPT ![w] = [NoRequest EXCEPT !.found = r, !.end = end]]
    BY DEF Answer, Move
<1> QED
    BY <1>1, <1>2 DEF DeskTypeOK, NoRequest

LEMMA WithinKept ==
    ASSUME StoreTypeOK, StoreTypeOK', Grows, NEW r \in DOMAIN book, NEW n \in Nat, Within(r, n)
    PROVE  Within(r, n)'
<1>1. book[r].end \in Nat
    BY BookFacts
<1>2. r \in DOMAIN book' /\ (r \in DOMAIN book' => book'[r].end \in Nat)
    <2>1. r \in DOMAIN book'
        BY DEF Grows
    <2>2. book' \in Seq(Reservations)
        BY DEF StoreTypeOK
    <2>3. book'[r] \in Reservations
        BY <2>1, <2>2
    <2> QED
        BY <2>1, <2>3 DEF Reservations
<1> QED
    BY <1>1, <1>2 DEF Grows, Within

LEMMA EndsKept ==
    ASSUME StoreInv, Grows, NEW w \in Workers, Ends(w),
           UNCHANGED <<at[w], req[w], code[w]>>
    PROVE  Ends(w)'
<1>1. CASE at[w] \in {"find", "act"} /\ req[w].op = "end"
    BY <1>1 DEF Ends
<1>2. CASE /\ at[w] = "answered"
           /\ code[w] = "ok" => req[w].found \in DOMAIN book /\ Ended(req[w].found)
    <2>1. PICK r : r = req[w].found
        OBVIOUS
    <2>2. r \in DOMAIN book /\ Ended(r) => r \in DOMAIN book' /\ Ended(r)'
        BY DEF Grows
    <2>3. req'[w].found = r
        BY <2>1
    <2>4. Ended(r)' => Ended(req[w].found)'
        BY <2>3 DEF Ended, Live
    <2> QED
        BY <1>2, <2>1, <2>2, <2>3, <2>4 DEF Ends
<1> QED
    BY <1>1, <1>2 DEF Ends

LEMMA OffersKept ==
    ASSUME StoreTypeOK, StoreTypeOK', Grows, NEW w \in Workers, Offers(w),
           UNCHANGED <<at[w], req[w], code[w]>>
    PROVE  Offers(w)'
<1>1. CASE at[w] \in {"offer", "quote"}
    BY <1>1 DEF Offers
<1>2. CASE /\ at[w] = "answered"
           /\ code[w] = "ok" => /\ req[w].found \in DOMAIN book
                                /\ req[w].end \in Nat
                                /\ Within(req[w].found, req[w].end)
    <2>1. PICK r, n : r = req[w].found /\ n = req[w].end
        OBVIOUS
    <2>2. r \in DOMAIN book /\ n \in Nat /\ Within(r, n) => r \in DOMAIN book' /\ Within(r, n)'
        BY WithinKept DEF Grows
    <2>3. req'[w].found = r /\ req'[w].end = n
        BY <2>1
    <2>4. Within(r, n)' => Within(req[w].found, req[w].end)'
        BY <2>3 DEF Within
    <2> QED
        BY <1>2, <2>1, <2>2, <2>3, <2>4 DEF Offers
<1> QED
    BY <1>1, <1>2 DEF Offers

\* The step of the thread that a checkout waits for.
LEMMA EndsServe ==
    ASSUME StoreInv, NEW w \in waiting, Serve(w), Ends(w)
    PROVE  Ends(w)'
<1>1. StoreTypeOK /\ DeskTypeOK /\ w \in Workers
    BY StoreTypeParts DEF StoreInv, DeskTypeOK
<1>2. at[w] \in {"find", "act", "answered"} /\ (at[w] # "answered" => req[w].op = "end")
    BY DEF Ends
<1>3. CASE Find(w)
    <2>1. CASE Fail(w)
        <3>1. at'[w] = "answered" /\ code'[w] = "error"
            BY <1>1, <2>1, AnswerCarries DEF Fail
        <3> QED
            BY <3>1 DEF Ends
    <2>2. ASSUME NEW r, NEW end, Move(w, "act"),
                 req' = [req EXCEPT ![w] = [@ EXCEPT !.found = r, !.end = end]]
          PROVE  Ends(w)'
        <3>1. at'[w] = "act" /\ req[w].op = "end" /\ at[w] = "find"
            BY <1>1, <1>2, <1>3, <2>2 DEF Move, DeskTypeOK, Find
        <3>2. req'[w] = [req[w] EXCEPT !.found = r, !.end = end]
            BY <1>1, <2>2 DEF DeskTypeOK
        <3>3. req[w] \in Requests
            BY <1>1 DEF DeskTypeOK
        <3>4. req'[w].op = "end"
            BY <3>1, <3>2, <3>3 DEF Requests
        <3> QED
            BY <3>1, <3>4 DEF Ends
    <2> QED
        BY <1>3, <2>1, <2>2 DEF Find
<1>4. CASE End(w)
    <2>1. PICK f : f = req[w].found
        OBVIOUS
    <2>2. at[w] = "act" /\ f \in DOMAIN book /\ f \in Nat
        BY <1>1, <1>4, <2>1, BookFacts DEF End, Set, StoreInv, FoundFits
    <2>3. /\ Answer(w, "ok", f, 0)
          /\ book' = [book EXCEPT ![f] = [book[f] EXCEPT !.status = "over"]]
        BY <1>4, <2>1 DEF End, Set
    <2>4. book \in Seq(Reservations) /\ book[f] \in Reservations
        BY <1>1, <2>2, BookFacts DEF StoreTypeOK
    <2>5. [book[f] EXCEPT !.status = "over"] \in Reservations
        BY <2>4 DEF Reservations, Statuses
    <2>6. book'[f] = [book[f] EXCEPT !.status = "over"] /\ f \in DOMAIN book'
        BY <2>2, <2>3, <2>4, <2>5, ChangeOne
    <2>7. book'[f].status = "over"
        BY <2>4, <2>6 DEF Reservations
    <2>8. at'[w] = "answered" /\ req'[w].found = f
        BY <1>1, <2>2, <2>3, AnswerCarries
    <2>9. Ended(req[w].found)'
        BY <2>7, <2>8 DEF Ended, Live
    <2> QED
        BY <2>6, <2>8, <2>9 DEF Ends
<1> QED
    BY <1>2, <1>3, <1>4 DEF Serve, Lock, Compare, Compared, Refuse, Insert, Sorted, Offer, Quote, Confirm, Extend, Set

\* The step of the thread that a fetch waits for.
LEMMA OffersServe ==
    ASSUME StoreInv, NEW w \in waiting, Serve(w), Offers(w)
    PROVE  Offers(w)'
<1>1. StoreTypeOK /\ DeskTypeOK /\ w \in Workers
    BY StoreTypeParts DEF StoreInv, DeskTypeOK
<1>2. at[w] \in {"offer", "quote", "answered"}
    BY DEF Offers
<1>3. Offer(w) \/ Quote(w)
    BY <1>2 DEF Serve, Lock, Compare, Compared, Refuse, Insert, Sorted, Find, Confirm, End, Extend, Set
<1>4. CASE Fail(w)
    <2>1. at'[w] = "answered" /\ code'[w] = "error"
        BY <1>1, <1>4, AnswerCarries DEF Fail
    <2> QED
        BY <2>1 DEF Offers
<1>5. CASE Move(w, "quote")
    <2>1. at'[w] = "quote"
        BY <1>1, <1>5 DEF Move, DeskTypeOK
    <2> QED
        BY <2>1 DEF Offers
<1>6. CASE Quote(w)
    <2>1. PICK r : r = req[w].found
        OBVIOUS
    <2>2. /\ Answer(w, "ok", r, book[r].end) /\ r \in DOMAIN book
          /\ UNCHANGED <<book, shortened>>
        BY <1>6, <1>1, <2>1 DEF Quote, StoreInv, FoundFits
    <2>3. r \in Nat /\ book[r].end \in Nat
        BY <1>1, <2>2, BookFacts
    <2>4. at'[w] = "answered" /\ req'[w].found = r /\ req'[w].end = book[r].end
        BY <1>1, <2>2, <2>3, AnswerCarries
    <2> QED
        BY <2>2, <2>3, <2>4 DEF Offers, Within
<1> QED
    BY <1>3, <1>4, <1>5, <1>6 DEF Offer
-----------------------------------------------------------------------------
(***************************************************************************)
(* What the board holds, and what was acknowledged to it, as the book      *)
(* grows.                                                                  *)
(***************************************************************************)
LEMMA AckedKept ==
    ASSUME BoardInv, Grows, acked' = acked
    PROVE  acked' \subseteq DOMAIN book' /\ AckedEnded'
<1>1. \A r \in acked : r \in DOMAIN book /\ Ended(r)
    BY DEF BoardInv, EndpointsInv, TypeOK, BoardTypeOK, AckedEnded, Ended
<1>2. \A r \in acked : r \in DOMAIN book' /\ Ended(r)'
    BY <1>1 DEF Grows
<1> QED
    BY <1>2 DEF AckedEnded, Ended, Live

LEMMA HeldKept ==
    ASSUME BoardInv, StoreTypeOK', Grows, UNCHANGED service
    PROVE  origin' \in DOMAIN book' \cup {0} /\ HeldIsBooked'
<1>1. /\ StoreTypeOK /\ origin \in DOMAIN book \cup {0} /\ window.until \in Nat
    BY DEF BoardInv, EndpointsInv, TypeOK, BoardTypeOK
<1>2. UNCHANGED <<phase, holder, window, origin>>
    BY DEF service
<1>3. CASE origin = 0
    BY <1>2, <1>3 DEF HeldIsBooked
<1>4. CASE origin \in DOMAIN book /\ origin > 0
    <2>1. PICK r, n : r = origin /\ n = window.until
        OBVIOUS
    <2>2. r \in DOMAIN book /\ n \in Nat /\ Within(r, n)
        BY <1>1, <1>4, <2>1 DEF BoardInv, HeldIsBooked, Within
    <2>3. /\ r \in DOMAIN book' /\ Within(r, n)'
          /\ book'[r].user = book[r].user /\ book'[r].start = book[r].start
        BY <1>1, <2>2, WithinKept DEF Grows
    <2>4. /\ phase = "reserved" /\ holder = Kept[book[r].user] /\ window.from = book[r].start
        BY <1>4, <2>1 DEF BoardInv, HeldIsBooked
    <2> QED
        BY <1>2, <2>1, <2>3, <2>4 DEF HeldIsBooked, Within
<1> QED
    BY <1>1, <1>3, <1>4, BookFacts

\* The service's part of an answer to a fetch.
LEMMA LoadHeld ==
    ASSUME BoardInv, StoreTypeOK', NEW r \in DOMAIN book, NEW n \in Nat, Load(r, n), Within(r, n),
           UNCHANGED <<book, shortened, revived>>
    PROVE  /\ origin' \in DOMAIN book' \cup {0} /\ HeldIsBooked'
           /\ phase' \in {"free", "reserved"} /\ holder' \in Users \cup {Anonymous}
           /\ window' \in [from : Nat, until : Nat]
<1>1. StoreTypeOK /\ BoardTypeOK
    BY DEF BoardInv, EndpointsInv, TypeOK
<1>2. CASE UNCHANGED service
    BY <1>1, <1>2, SameGrows, HeldKept DEF service, BoardTypeOK
<1>3. CASE /\ holder' = Kept[book[r].user]
           /\ window' = [from |-> book[r].start, until |-> n]
           /\ Station!Reserve
           /\ origin' = r
    <2>1. phase' = "reserved"
        BY <1>3 DEF Station!Reserve
    <2>2. book[r].user \in Users /\ book[r].start \in Nat
        BY <1>1, BookFacts
    <2>3. window'.from = book[r].start /\ window'.until = n
        BY <1>3
    <2> QED
        BY <1>3, <2>1, <2>2, <2>3, EndpointsAssumption DEF HeldIsBooked, Within
<1> QED
    BY <1>2, <1>3 DEF Load

\* A command that is over, with nobody left to wait for.
LEMMA OverFits ==
    ASSUME shell' = "idle", cmd' = "none", waiting' = {}
    PROVE  ShellFits' /\ Awaited' /\ shell' \in {"idle", "wait"} /\ cmd' \in Commands \cup {"none"}
BY DEF ShellFits, Awaited

LEMMA BoardStep ==
    ASSUME BoardInv, [Next]_vars
    PROVE  BoardInv'
<1>1. /\ StoreInv /\ StoreTypeOK /\ DeskTypeOK /\ BoardTypeOK /\ ShellFits /\ TypeOK
      /\ waiting \subseteq Workers
    BY StoreTypeParts DEF BoardInv, EndpointsInv, TypeOK, DeskTypeOK
<1>2. StoreInv' /\ StoreTypeOK'
    BY <1>1, StepsOfStore, StoreStepInv DEF StoreInv
<1>3. SUFFICES BoardTypeOK' /\ ShellFits' /\ Awaited' /\ AckedEnded' /\ HeldIsBooked'
    BY <1>2 DEF BoardInv, EndpointsInv, TypeOK
<1>4. CASE Ask
    <2>1. /\ waiting = {} /\ shell' = "wait" /\ UNCHANGED service /\ acked' = acked
        BY <1>1, <1>4 DEF Ask, Goto, ShellFits
    <2>2. PICK c \in Commands, op \in Changes \cup {"offer"}, user \in Users \cup {Anonymous},
               w \in Workers :
              Sends(c, op, user) /\ cmd' = c /\ Receive(w, op, user, 0, TRUE)
        BY <1>4 DEF Ask
    <2>3. waiting' = {w} /\ UNCHANGED <<book, revived, shortened>>
        BY <2>1, <2>2 DEF Receive
    <2>4. at' = [at EXCEPT ![w] = FirstPlace(op)]
          /\ req' = [req EXCEPT ![w] = [NoRequest EXCEPT !.op = op, !.user = user, !.start = 0]]
        BY <2>2 DEF Receive, Move
    <2>5. at'[w] = FirstPlace(op) /\ req'[w].op = op
        BY <1>1, <2>4 DEF DeskTypeOK, NoRequest
    <2>6. c = "checkout" => op = "end" /\ op \in Changes
        BY <2>2 DEF Sends, Changes
    <2>7. c = "fetch_schedule" => op = "offer" /\ op \notin Changes
        BY <2>2 DEF Sends, Changes
    <2>8. Awaited'
        <3>1. c = "checkout" => at'[w] = "find" /\ req'[w].op = "end"
            BY <2>5, <2>6 DEF FirstPlace
        <3>2. c = "fetch_schedule" => at'[w] = "offer"
            BY <2>5, <2>7 DEF FirstPlace
        <3> QED
            BY <2>2, <2>3, <3>1, <3>2 DEF Awaited, Ends, Offers
    <2>9. ShellFits'
        BY <2>1, <2>3 DEF ShellFits
    <2>10. /\ AckedEnded' /\ HeldIsBooked' /\ acked' \subseteq DOMAIN book'
           /\ origin' \in DOMAIN book' \cup {0}
        BY <1>1, <1>2, <2>1, <2>3, SameGrows, AckedKept, HeldKept
    <2> QED
        BY <1>1, <2>1, <2>2, <2>8, <2>9, <2>10 DEF BoardTypeOK, service
<1>5. ASSUME NEW w \in Workers, Hear(w)
      PROVE  BoardTypeOK' /\ ShellFits' /\ Awaited' /\ AckedEnded' /\ HeldIsBooked'
    <2>1. /\ w \in waiting /\ shell = "wait" /\ shell' = "idle" /\ cmd' = "none"
          /\ at[w] = "answered" /\ waiting' = waiting \ {w}
          /\ UNCHANGED <<book, revived, shortened>>
        BY <1>5 DEF Hear, Return, Goto, Finish
    <2>2. waiting' = {}
        BY <1>1, <2>1 DEF ShellFits
    <2>3. ShellFits' /\ Awaited' /\ shell' \in {"idle", "wait"} /\ cmd' \in Commands \cup {"none"}
        BY <2>1, <2>2, OverFits
    <2>4. Grows
        BY <1>1, <2>1, SameGrows
    <2>5. acked' \subseteq DOMAIN book' /\ AckedEnded'
        <3>1. CASE cmd = "checkout" /\ code[w] = "ok"
            <4>1. req[w].found \in DOMAIN book /\ Ended(req[w].found)
                BY <2>1, <3>1 DEF BoardInv, Awaited, Ends
            <4>2. acked' = acked \cup {req[w].found}
                BY <1>5, <3>1 DEF Hear
            <4>3. acked \subseteq DOMAIN book /\ \A r \in acked : Ended(r)
                BY <1>1 DEF BoardInv, AckedEnded, Ended, BoardTypeOK
            <4> QED
                BY <2>1, <4>1, <4>2, <4>3 DEF AckedEnded, Ended, Live
        <3>2. CASE ~(cmd = "checkout" /\ code[w] = "ok")
            BY <1>5, <2>4, <3>2, AckedKept DEF Hear
        <3> QED
            BY <3>1, <3>2
    <2>6. /\ origin' \in DOMAIN book' \cup {0} /\ HeldIsBooked'
          /\ phase' \in {"free", "reserved"} /\ holder' \in Users \cup {Anonymous}
          /\ window' \in [from : Nat, until : Nat]
        <3>1. CASE cmd = "fetch_schedule" /\ code[w] = "ok"
            <4>1. PICK r, n : r = req[w].found /\ n = req[w].end
                OBVIOUS
            <4>2. r \in DOMAIN book /\ n \in Nat /\ Within(r, n)
                BY <2>1, <3>1, <4>1 DEF BoardInv, Awaited, Offers
            <4>3. Load(r, n)
                BY <1>5, <3>1, <4>1 DEF Hear
            <4> QED
                BY <1>2, <2>1, <4>2, <4>3, LoadHeld
        <3>2. CASE UNCHANGED service
            BY <1>1, <1>2, <2>4, <3>2, HeldKept DEF service, BoardTypeOK
        <3> QED
            BY <1>5, <3>1, <3>2 DEF Hear
    <2> QED
        BY <2>3, <2>5, <2>6 DEF BoardTypeOK
<1>6. ASSUME shell' = "idle", cmd' = "none", waiting' = {}, acked' = acked,
             UNCHANGED <<book, revived, shortened>>,
             UNCHANGED service \/ (origin' = 0 /\ phase' = "free" /\ holder' = Anonymous
                                     /\ window' = [from |-> 0, until |-> 0])
      PROVE  BoardTypeOK' /\ ShellFits' /\ Awaited' /\ AckedEnded' /\ HeldIsBooked'
    <2>1. Grows
        BY <1>1, <1>6, SameGrows
    <2>2. ShellFits' /\ Awaited' /\ shell' \in {"idle", "wait"} /\ cmd' \in Commands \cup {"none"}
        BY <1>6, OverFits
    <2>3. acked' \subseteq DOMAIN book' /\ AckedEnded'
        BY <1>6, <2>1, AckedKept
    <2>4. /\ origin' \in DOMAIN book' \cup {0} /\ HeldIsBooked'
          /\ phase' \in {"free", "reserved"} /\ holder' \in Users \cup {Anonymous}
          /\ window' \in [from : Nat, until : Nat]
        <3>1. CASE UNCHANGED service
            BY <1>1, <1>2, <2>1, <3>1, HeldKept DEF service, BoardTypeOK
        <3>2. CASE /\ origin' = 0 /\ phase' = "free" /\ holder' = Anonymous
                   /\ window' = [from |-> 0, until |-> 0]
            BY <3>2 DEF HeldIsBooked
        <3> QED
            BY <1>6, <3>1, <3>2
    <2> QED
        BY <2>2, <2>3, <2>4 DEF BoardTypeOK
<1>7. ASSUME NEW w \in Workers, GiveUp(w)
      PROVE  BoardTypeOK' /\ ShellFits' /\ Awaited' /\ AckedEnded' /\ HeldIsBooked'
    <2>1. /\ shell' = "idle" /\ cmd' = "none" /\ w \in waiting /\ shell = "wait"
          /\ waiting' = waiting \ {w} /\ acked' = acked /\ UNCHANGED service
          /\ UNCHANGED <<book, revived, shortened>>
        BY <1>7 DEF GiveUp, Return, Goto, Leave
    <2>2. waiting' = {}
        BY <1>1, <2>1 DEF ShellFits
    <2> QED
        BY <1>6, <2>1, <2>2
<1>8. CASE BoardRestart
    <2>1. /\ shell' = "idle" /\ cmd' = "none" /\ acked' = acked /\ origin' = 0
          /\ phase' = "free" /\ holder' = Anonymous /\ window' = [from |-> 0, until |-> 0]
          /\ UNCHANGED <<book, revived, shortened>>
        BY <1>8 DEF BoardRestart, Leave, storeVars
    <2>2. CASE waiting = {} /\ UNCHANGED storeVars
        <3>1. waiting' = {}
            BY <2>2 DEF storeVars
        <3> QED
            BY <1>6, <2>1, <3>1
    <2>3. ASSUME NEW w \in Workers, Leave(w)
          PROVE  BoardTypeOK' /\ ShellFits' /\ Awaited' /\ AckedEnded' /\ HeldIsBooked'
        <3>1. w \in waiting /\ waiting' = waiting \ {w}
            BY <2>3 DEF Leave
        <3>2. waiting' = {}
            BY <1>1, <3>1 DEF ShellFits, BoardTypeOK
        <3> QED
            BY <1>6, <2>1, <3>2
    <2> QED
        BY <1>8, <2>2, <2>3 DEF BoardRestart
<1>9. CASE Register
    <2>1. PICK w \in Workers, user \in Users, start \in Starts :
              Receive(w, "register", user, start, FALSE)
        BY <1>9 DEF Register
    <2>2. /\ UNCHANGED <<shell, cmd, phase, holder, window, origin, acked>>
          /\ UNCHANGED <<book, revived, shortened, code>> /\ waiting' = waiting
          /\ at[w] = "idle"
        BY <1>9, <2>1 DEF Register, boardVars, Receive
    <2>3. \A v \in Workers \ {w} : at'[v] = at[v] /\ req'[v] = req[v]
        BY <1>1, <2>1 DEF DeskTypeOK, Receive, Move
    <2>4. Grows
        BY <1>1, <2>2, SameGrows
    <2>5. Awaited'
        <3> SUFFICES ASSUME NEW v \in waiting
                     PROVE  /\ cmd = "checkout" => Ends(v)'
                            /\ cmd = "fetch_schedule" => Offers(v)'
            BY <2>2 DEF Awaited
        <3>1. v \in Workers /\ (Ends(v) \/ Offers(v) => v # w)
            BY <1>1, <2>2 DEF Ends, Offers
        <3>2. v # w => UNCHANGED <<at[v], req[v], code[v]>>
            BY <2>2, <2>3, <3>1
        <3>3. /\ cmd = "checkout" => Ends(v)
              /\ cmd = "fetch_schedule" => Offers(v)
            BY DEF BoardInv, Awaited
        <3> QED
            BY <1>1, <1>2, <2>4, <3>1, <3>2, <3>3, EndsKept, OffersKept
    <2>6. /\ AckedEnded' /\ HeldIsBooked' /\ acked' \subseteq DOMAIN book'
          /\ origin' \in DOMAIN book' \cup {0}
        BY <1>2, <2>2, <2>4, AckedKept, HeldKept DEF service
    <2>7. BoardTypeOK' /\ ShellFits'
        BY <1>1, <2>2, <2>6 DEF BoardTypeOK, ShellFits
    <2> QED
        BY <2>5, <2>6, <2>7
<1>10. CASE Server
    <2>1. PICK w \in Workers : Serve(w)
        BY <1>10 DEF Server
    <2>2. UNCHANGED <<shell, cmd, phase, holder, window, origin, acked>>
        BY <1>10 DEF Server, boardVars
    <2>3. Grows
        BY <1>1, <2>1, ServeGrows
    <2>4. /\ waiting' = waiting
          /\ \A v \in Workers \ {w} : at'[v] = at[v] /\ req'[v] = req[v] /\ code'[v] = code[v]
        BY <1>1, <2>1, ServeLocal
    <2>5. Awaited'
        <3> SUFFICES ASSUME NEW v \in waiting
                     PROVE  /\ cmd = "checkout" => Ends(v)'
                            /\ cmd = "fetch_schedule" => Offers(v)'
            BY <2>2, <2>4 DEF Awaited
        <3>1. /\ cmd = "checkout" => Ends(v)
              /\ cmd = "fetch_schedule" => Offers(v)
            BY DEF BoardInv, Awaited
        <3>2. CASE v = w
            BY <1>1, <2>1, <3>1, <3>2, EndsServe, OffersServe
        <3>3. CASE v # w
            BY <1>1, <1>2, <2>3, <2>4, <3>1, <3>3, EndsKept, OffersKept
        <3> QED
            BY <3>2, <3>3
    <2>6. /\ AckedEnded' /\ HeldIsBooked' /\ acked' \subseteq DOMAIN book'
          /\ origin' \in DOMAIN book' \cup {0}
        BY <1>2, <2>2, <2>3, AckedKept, HeldKept DEF service
    <2>7. BoardTypeOK' /\ ShellFits'
        BY <1>1, <2>2, <2>4, <2>6 DEF BoardTypeOK, ShellFits
    <2> QED
        BY <2>5, <2>6, <2>7
<1>11. CASE ServerFails
    <2>1. /\ shell' = "idle" /\ cmd' = "none" /\ waiting' = {} /\ origin' = 0 /\ acked' = {}
          /\ UNCHANGED <<phase, holder, window>>
        BY <1>11 DEF ServerFails, ServerRestart
    <2>2. ShellFits' /\ Awaited' /\ shell' \in {"idle", "wait"} /\ cmd' \in Commands \cup {"none"}
        BY <2>1, OverFits
    <2>3. AckedEnded' /\ HeldIsBooked' /\ BoardTypeOK'
        BY <1>1, <2>1, <2>2 DEF AckedEnded, HeldIsBooked, BoardTypeOK
    <2> QED
        BY <2>2, <2>3
<1>12. CASE UNCHANGED vars
    <2>1. /\ UNCHANGED <<shell, cmd, phase, holder, window, origin, acked>>
          /\ UNCHANGED <<book, revived, shortened, waiting, at, req, code>>
        BY <1>12 DEF vars
    <2>2. Grows
        BY <1>1, <2>1, SameGrows
    <2>3. Awaited'
        BY <1>1, <1>2, <2>1, <2>2, EndsKept, OffersKept DEF BoardInv, Awaited
    <2>4. /\ AckedEnded' /\ HeldIsBooked'
          /\ BoardTypeOK' /\ ShellFits'
        BY <1>1, <1>2, <2>1, <2>2, AckedKept, HeldKept DEF service, BoardTypeOK, ShellFits
    <2> QED
        BY <2>3, <2>4
<1> QED
    BY <1>4, <1>5, <1>7, <1>8, <1>9, <1>10, <1>11, <1>12 DEF Next, Run

LEMMA BoardInit == Init => BoardInv
<1> SUFFICES ASSUME Init PROVE BoardInv
    OBVIOUS
<1>1. StoreInv /\ waiting = {} /\ shell = "idle" /\ cmd = "none" /\ origin = 0 /\ acked = {}
    BY InitInv DEF Init, ShellIdle, StoreInit
<1>2. phase = "free" /\ holder = Anonymous /\ window = [from |-> 0, until |-> 0]
    BY DEF Init, Station!Init, Station!Free
<1>3. TypeOK
    BY <1>1, <1>2 DEF TypeOK, BoardTypeOK, StoreInv
<1> QED
    BY <1>1, <1>3 DEF BoardInv, EndpointsInv, ShellFits, Awaited, AckedEnded, HeldIsBooked

LEMMA BoardInvariance == Spec => []BoardInv
BY BoardInit, BoardStep, PTL DEF Spec
-----------------------------------------------------------------------------
(***************************************************************************)
(* The server's lock is held by the one thread that is in register, a      *)
(* thread acts on a reservation of the name it was asked about, and the    *)
(* shell waits for one thread at a time (app.py:25-70, endpoint_shell.c).  *)
(***************************************************************************)
THEOREM EndpointsInvariance == Spec => []EndpointsInv
BY BoardInvariance, PTL DEF BoardInv

(***************************************************************************)
(* For any number of threads and users no two reservations that take their *)
(* slots overlap, but those that were extended or brought back by a late   *)
(* confirm (app.py:25-70).                                                 *)
(***************************************************************************)
THEOREM OverlapExplainedHolds == Spec => []OverlapExplained
<1>1. BoardInv => OverlapExplained
    BY DEF BoardInv, EndpointsInv, StoreInv
<1> QED
    BY <1>1, BoardInvariance, PTL

(***************************************************************************)
(* What was acknowledged as ended is over, unless a late confirm brought   *)
(* it back, whatever answers are lost or late (checkout.c:70-85).          *)
(***************************************************************************)
THEOREM AckedEndedHolds == Spec => []AckedEnded
BY BoardInvariance, PTL DEF BoardInv

(***************************************************************************)
(* The board holds a reservation of the book, and for no longer than the   *)
(* server, unless an extension was lost (endpoints/schedule.c:111-118).    *)
(***************************************************************************)
THEOREM HeldIsBookedHolds == Spec => []HeldIsBooked
BY BoardInvariance, PTL DEF BoardInv

-----------------------------------------------------------------------------
\* What is steady for the book is steady for the server.
LEMMA SteadyBook ==
    ASSUME StoreInv, NEW r \in DOMAIN book, Book!Steady(r)
    PROVE  Steady(r)
<1>1. book[r].status \in Statuses /\ book[r].start \in Nat /\ book[r].end \in Nat
    BY BookFacts DEF StoreInv
<1> QED
    BY <1>1, StoreAssumption DEF Book!Steady, Book!Live, Book!Booked, Steady, Live, Extended, Booked, Statuses

\* The slot that a thread in register has compared is free when it takes it.
LEMMA InsertRegisters ==
    ASSUME StoreInv, NEW w \in Workers, Insert(w)
    PROVE  Book!Register
<1> DEFINE new == [user |-> req[w].user, start |-> req[w].start,
                   end |-> req[w].start + Length, status |-> "pending"]
<1>1. /\ book \in Seq(Reservations) /\ at[w] = "append"
      /\ book' = Append(book, new) /\ UNCHANGED revived
    BY DEF Insert, StoreInv, StoreTypeOK
<1>2. Len(book') = Len(book) + 1 /\ book'[Len(book) + 1] = new
    BY <1>1
<1>3. new.user \in Users /\ new.start \in Nat
    BY <1>1, RequestFacts DEF StoreInv, RequestFits
<1>4. Book!Free(new.start)
    <2> SUFFICES ASSUME NEW r \in DOMAIN book, Book!Steady(r)
                 PROVE  new.start >= book[r].end \/ new.start + Length <= book[r].start
        BY DEF Book!Free
    <2>1. ~Conflict(w, r)
        BY <1>1, SteadyBook DEF StoreInv, ScanHolds
    <2>2. Live(r)
        BY SteadyBook DEF Steady
    <2>3. book[r].start \in Nat /\ book[r].end \in Nat
        BY BookFacts DEF StoreInv
    <2> QED
        BY <1>3, <2>1, <2>2, <2>3, StoreAssumption DEF Conflict, Overlap
<1> QED
    BY <1>1, <1>2, <1>3, <1>4 DEF Book!Register

\* The change of a reservation that was found is one of the book's.
LEMMA SetChanges ==
    ASSUME StoreInv, NEW w \in Workers, Confirm(w) \/ End(w)
    PROVE  \E r \in DOMAIN book : Book!Confirm(r) \/ Book!Revive(r) \/ Book!End(r)
<1> DEFINE f == req[w].found
<1>1. f \in DOMAIN book /\ book[f].status \in Statuses
    BY BookFacts DEF Confirm, End, Set, StoreInv, FoundFits
<1>2. Live(f) <=> Book!Live(f)
    BY <1>1 DEF Live, Book!Live, Statuses
<1>3. CASE Confirm(w)
    BY <1>1, <1>2, <1>3 DEF Confirm, Set, Book!Confirm, Book!Revive
<1>4. CASE End(w)
    BY <1>1, <1>4 DEF End, Set, Book!End
<1> QED
    BY <1>3, <1>4

LEMMA ExtendChanges ==
    ASSUME StoreInv, NEW w \in Workers, Extend(w)
    PROVE  \E r \in DOMAIN book : Book!Extend(r)
<1> DEFINE f == req[w].found
           rec == [book[f] EXCEPT !.end = req[w].end + Extra]
<1>1. /\ f \in DOMAIN book /\ book' = [book EXCEPT ![f] = rec]
      /\ req[w].end >= Booked(f) /\ UNCHANGED revived
    BY DEF Extend, StoreInv, FoundFits
<1>2. book[f] \in Reservations /\ req[w].end \in Nat /\ book \in Seq(Reservations)
    BY <1>1, BookFacts, RequestFacts DEF StoreInv, StoreTypeOK
<1>3. req[w].end + Extra \in Nat /\ Booked(f) \in Nat /\ req[w].end + Extra > Booked(f)
  <2>1. book[f].start \in Nat /\ Booked(f) = book[f].start + Length
      BY <1>2 DEF Reservations, Booked
  <2> QED
      BY <1>1, <1>2, <2>1, StoreAssumption
<1>4. rec \in Reservations /\ rec.end = req[w].end + Extra
    BY <1>2, <1>3 DEF Reservations
<1>5. book'[f] = rec
    BY <1>1, <1>2, <1>4, ChangeOne
<1>6. Len(book') = Len(book)
    BY <1>1, <1>2, <1>4, ExceptSeq
<1>7. rec.end \in Nat /\ rec.end > Book!Booked(f)
    BY <1>4, <1>3 DEF Booked, Book!Booked
<1>8. Book!Extend(f)
    BY <1>1, <1>4, <1>5, <1>6, <1>7 DEF Book!Extend
<1> QED
    BY <1>1, <1>8

(***************************************************************************)
(* The server implements the book: for any number of threads, users and    *)
(* requests, every step changes the book by a whole operation, or leaves   *)
(* it as it is, and registers only what is free (app.py:25-70).            *)
(***************************************************************************)
THEOREM ImplementsBookings == Spec => BookingsSpec
<1>1. Init => Book!Init
    BY DEF Init, StoreInit, Book!Init
<1>2. ASSUME BoardInv, [Next]_vars
      PROVE  [Book!Next]_(Book!vars)
    <2>1. StoreInv /\ StoreStep
        BY <1>2, StepsOfStore DEF BoardInv, EndpointsInv
    <2>2. CASE AnyRequest \/ UNCHANGED storeVars
        BY <2>2 DEF AnyRequest, Receive, storeVars, Book!vars
    <2>3. ASSUME NEW w \in Workers, Finish(w) \/ Leave(w)
          PROVE  [Book!Next]_(Book!vars)
        BY <2>3 DEF Finish, Leave, Book!vars
    <2>4. CASE ServerRestart
        BY <2>4 DEF ServerRestart, Book!Next, Book!Forget
    <2>5. ASSUME NEW w \in Workers, Serve(w)
          PROVE  [Book!Next]_(Book!vars)
        <3>1. CASE Insert(w)
            BY <2>1, <3>1, InsertRegisters DEF Book!Next
        <3>2. CASE Confirm(w) \/ End(w)
            BY <2>1, <3>2, SetChanges DEF Book!Next
        <3>3. CASE Extend(w)
            BY <2>1, <3>3, ExtendChanges DEF Book!Next
        <3>4. CASE \/ Lock(w) \/ Compared(w) \/ Sorted(w) \/ Find(w) \/ Offer(w) \/ Quote(w)
                   \/ \E r \in DOMAIN book : Compare(w, r) \/ Refuse(w, r)
            BY <3>4 DEF Lock, Compared, Sorted, Find, Offer, Quote, Compare, Refuse, Book!vars
        <3> QED
            BY <2>5, <3>1, <3>2, <3>3, <3>4 DEF Serve
    <2> QED
        BY <2>1, <2>2, <2>3, <2>4, <2>5 DEF StoreStep
<1> QED
    BY <1>1, <1>2, BoardInvariance, PTL DEF Spec, BookingsSpec, Book!Spec
=============================================================================
