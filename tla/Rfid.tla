-------------------------------- MODULE Rfid --------------------------------
(***************************************************************************)
(* The RFID service (src/services/rfid.c) over the MFRC522 driver          *)
(* (src/drivers/mfrc522/mfrc522.c).  A read wakes the cards in the field,  *)
(* asks them for their ids and selects one, level by level, halts it, and  *)
(* publishes the first bytes of its id.  The cards are external: they      *)
(* follow ISO 14443-3.  With noise a command reaches no card, an answer is *)
(* not received, a stronger answer hides the others, or an access to a     *)
(* register fails; what is received is undamaged, for damage shows in      *)
(* REG_ERROR.                                                              *)
(***************************************************************************)
EXTENDS Integers, FiniteSets, Sequences

CONSTANTS
    Cards,
    Uid,    \* the id of each card, a sequence of 4, 7 or 10 bytes
    CT      \* PICC_CT, the byte that says that more of an id follows

\* How many levels a card's id is sent in.
Levels(c) == (Len(Uid[c]) - 1) \div 3

\* The part of its id a card sends at a level: three bytes after the cascade
\* tag, or the last four.
Part(c, level) ==
    IF level < Levels(c)
    THEN <<CT>> \o SubSeq(Uid[c], 3 * level - 2, 3 * level)
    ELSE SubSeq(Uid[c], 3 * level - 2, 3 * level + 1)

ASSUME RfidAssumption ==
    /\ CT \in Nat
    /\ \A c \in Cards :
        /\ Uid[c] \in Seq(Nat)
        /\ Len(Uid[c]) \in {4, 7, 10}
        /\ Part(c, Levels(c))[1] # CT

Quiet == 0    \* idle or halted; 1..3 is selected up to that level
Active == 4   \* selected

VARIABLES
    field,    \* the cards in the reader's field
    mode,     \* the state of each card
    halted,   \* the cards whose quiet state is halted
    noise,    \* whether there is noise
    at,       \* how far the service is
    cascade,  \* chip_read_uid's cascade, from 1
    rx,       \* the part of an id received last
    out,      \* out_uid, as long as out_len
    uid,      \* uid_bytes of the driver's data, as long as uid_len
    tag,      \* the message of rfid_tag_chan
    woken     \* history: the cards that this read's WUPA woke

cards == <<field, halted>>
read == <<cascade, rx, out>>
vars == <<field, mode, halted, noise, at, cascade, rx, out, uid, tag, woken>>

Places == {"poll", "anticoll", "crc", "select", "halt", "publish"}

Parts == UNION {{Part(c, level) : level \in 1..Levels(c)} : c \in Cards}

Beginnings == UNION {{SubSeq(Uid[c], 1, n) : n \in 0..Len(Uid[c])} : c \in Cards}

Tag(c) == SubSeq(Uid[c], 1, 4)

TypeOK ==
    /\ field \subseteq Cards
    /\ mode \in [Cards -> Quiet..Active]
    /\ halted \subseteq field
    /\ noise \in BOOLEAN
    /\ at \in Places
    /\ cascade \in 1..3
    /\ rx \in {<<>>} \cup Parts
    /\ out \in {<<>>} \cup Beginnings
    /\ uid \in {<<>>} \cup {Uid[c] : c \in Cards}
    /\ tag \in {<<>>} \cup {Tag(c) : c \in Cards}
    /\ woken \subseteq Cards

Init ==
    /\ field = {}
    /\ mode = [c \in Cards |-> Quiet]
    /\ halted = {}
    /\ noise = FALSE
    /\ at = "poll"
    /\ cascade = 1
    /\ rx = <<>>
    /\ out = <<>>
    /\ uid = <<>>
    /\ tag = <<>>
    /\ woken = {}
-----------------------------------------------------------------------------
\* People put cards before the reader and take them away, and a card that leaves
\* the field forgets everything.
Enter(c) ==
    /\ c \notin field
    /\ field' = field \cup {c}
    /\ UNCHANGED <<mode, halted, noise, at, read, uid, tag, woken>>

Leave(c) ==
    /\ c \in field
    /\ field' = field \ {c}
    /\ mode' = [mode EXCEPT ![c] = Quiet]
    /\ halted' = halted \ {c}
    /\ UNCHANGED <<noise, at, read, uid, tag, woken>>

Disturb ==
    /\ noise' = ~noise
    /\ UNCHANGED <<cards, mode, at, read, uid, tag, woken>>
-----------------------------------------------------------------------------
NoAnswer == <<>>

\* What transceive receives when cards answer: every error and timeout is
\* NoAnswer, and so is a collision of different answers.
Received(answers) ==
    IF noise THEN answers \cup {NoAnswer}
    ELSE IF Cardinality(answers) = 1 THEN answers
    ELSE {NoAnswer}

\* transceive of a command that the cards in listening obey: they go on to
\* another state and answer; a card that is not quiet and does not expect the
\* command takes it for an error and goes quiet.
Transceive(listening, next, answers, answer) ==
    \E sent \in {TRUE, ~noise} :
        /\ mode' = IF sent
                   THEN [c \in Cards |-> IF c \in listening THEN next[c] ELSE Quiet]
                   ELSE mode
        /\ answer \in Received(IF sent THEN answers ELSE {})

Go(from, to) == at = from /\ at' = to

\* The cards that the reader has selected up to the present level.
Selected == {c \in field : mode[c] = cascade}

\* Mutant: REQA, which a halted card does not answer.
NotHalted == {c \in field : mode[c] = Quiet /\ c \notin halted}

\* The cards that answer WUPA.
Wakeable == {c \in field : mode[c] = Quiet}

\* chip_card_present: they answer with the size of their ids ...
Present ==
    /\ \E answer \in {<<Levels(c)>> : c \in Wakeable} :
        Transceive(Wakeable, [c \in Cards |-> 1], {<<Levels(c)>> : c \in Wakeable}, answer)
    /\ Go("poll", "anticoll")
    /\ woken' = Wakeable
    /\ cascade' = 1
    /\ out' = <<>>
    /\ UNCHANGED <<cards, noise, rx, uid, tag>>

\* ... or there is no card.
Absent ==
    /\ Transceive(Wakeable, [c \in Cards |-> 1], {<<Levels(c)>> : c \in Wakeable}, NoAnswer)
    /\ Go("poll", "poll")
    /\ UNCHANGED <<cards, noise, read, uid, tag, woken>>

\* Mutant: rfid_thread_fn ignores what sensor_sample_fetch returns.
FailedPublishes(from) ==
    /\ Go(from, "publish")
    /\ UNCHANGED <<cards, noise, read, uid, tag, woken>>

\* chip_read_uid returns an error, and the service sleeps and polls again.
Failed(from) ==
    /\ Go(from, "poll")
    /\ UNCHANGED <<cards, noise, read, uid, tag, woken>>

\* Anticollision: the selected cards send the next part of their ids.
AnticollReply(answer) ==
    Transceive(Selected, mode, {Part(c, cascade) : c \in Selected}, answer)

Anticoll ==
    /\ rx' \in {Part(c, cascade) : c \in Selected}
    /\ AnticollReply(rx')
    /\ Go("anticoll", "crc")
    /\ UNCHANGED <<cards, noise, cascade, out, uid, tag, woken>>

NoAnticoll ==
    /\ AnticollReply(NoAnswer)
    /\ Failed("anticoll")

\* calc_crc, which the cards do not notice.
CalcCrc ==
    /\ Go("crc", "select")
    /\ UNCHANGED <<cards, mode, noise, read, uid, tag, woken>>

NoCrc ==
    /\ noise
    /\ UNCHANGED mode
    /\ Failed("crc")

\* SELECT: the cards whose part it names go on, and tell whether more follows.
Named == {c \in Selected : Part(c, cascade) = rx}

AfterSelect == [c \in Cards |-> IF cascade < Levels(c) THEN mode[c] + 1 ELSE Active]

SelectReply(answer) ==
    Transceive(Named, AfterSelect, {<<cascade < Levels(c)>> : c \in Named}, answer)

\* Mutant: the cascade tag is copied with the rest.
BytesWithTag == rx

\* What of the part received belongs to the id.
Bytes == IF rx[1] = CT THEN Tail(rx) ELSE rx

Select ==
    /\ \E more \in BOOLEAN :
        /\ SelectReply(<<more>>)
        /\ IF more /\ cascade < 3
           THEN Go("select", "anticoll") /\ cascade' = cascade + 1
           ELSE Go("select", "halt") /\ UNCHANGED cascade
    /\ out' = out \o Bytes
    /\ UNCHANGED <<cards, noise, rx, uid, tag, woken>>

NoSelect ==
    /\ SelectReply(NoAnswer)
    /\ Failed("select")

\* HLTA, which no card answers; the errors of both its calls are ignored.
Halt ==
    /\ \E sent \in {TRUE, ~noise} :
        IF sent
        THEN /\ mode' = [c \in Cards |-> Quiet]
             /\ halted' = halted \cup {c \in field : mode[c] = Active}
        ELSE UNCHANGED <<mode, halted>>
    /\ uid' = out
    /\ Go("halt", "publish")
    /\ UNCHANGED <<field, noise, read, tag, woken>>

\* rfid_thread_fn publishes the first four bytes; nobody else locks the channel.
Publish ==
    /\ tag' = SubSeq(uid, 1, IF Len(uid) < 4 THEN Len(uid) ELSE 4)
    /\ Go("publish", "poll")
    /\ UNCHANGED <<cards, mode, noise, read, uid, woken>>

Reader ==
    \/ Present
    \/ Absent
    \/ Anticoll
    \/ NoAnticoll
    \/ CalcCrc
    \/ NoCrc
    \/ Select
    \/ NoSelect
    \/ Halt
    \/ Publish

Next ==
    \/ \E c \in Cards : Enter(c) \/ Leave(c)
    \/ Disturb
    \/ Reader

\* The service polls for ever.
Spec == Init /\ [][Next]_vars /\ WF_vars(Reader)
-----------------------------------------------------------------------------
(***************************************************************************)
(* What has been put together so far is the beginning of the id of every   *)
(* card still selected, each woken by this read, and at the end it is a    *)
(* whole id, although cards come and go and share parts of their ids       *)
(* (mfrc522.c:281-365).                                                    *)
(***************************************************************************)
Assembled ==
    /\ at = "anticoll" =>
        \A c \in Selected : c \in woken /\ out = SubSeq(Uid[c], 1, 3 * (cascade - 1))
    /\ at \in {"crc", "select"} =>
        \A c \in Named : c \in woken /\ out = SubSeq(Uid[c], 1, 3 * (cascade - 1))
    /\ at = "halt" => \E c \in woken : out = Uid[c]
    /\ at = "publish" => \E c \in woken : uid = Uid[c]

\* No card is ahead of its id, and one that is away has no power.
CardsFit ==
    /\ \A c \in Cards : mode[c] \in Quiet..Levels(c) \cup {Active}
    /\ \A c \in Cards \ field : mode[c] = Quiet

RfidInv == TypeOK /\ Assembled /\ CardsFit

(***************************************************************************)
(* A tag that is published is that of one card, which this read has woken; *)
(* the id of an earlier read stays in the driver's data when a read fails, *)
(* and is not published again (mfrc522.c:368-380, rfid.c:29-72).           *)
(***************************************************************************)
TagOfWoken ==
    [][at = "publish" /\ at' # at => \E c \in woken : tag' = Tag(c)]_vars

(***************************************************************************)
(* A card that stays alone before the reader, without noise, is the tag    *)
(* published in the end, whatever state an interrupted read has left it in *)
(* and although it was read and halted before (mfrc522.c:272-279).         *)
(***************************************************************************)
LoneCardRead ==
    \A c \in Cards : <>[](field = {c} /\ ~noise) => <>[](tag = Tag(c))
=============================================================================
