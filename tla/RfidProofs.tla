----------------------------- MODULE RfidProofs -----------------------------
(***************************************************************************)
(* What the RFID service publishes is the tag of one card that the same    *)
(* read has woken, for any cards.                                          *)
(***************************************************************************)
EXTENDS Rfid, SequenceTheorems, TLAPS

LEMMA UidShape ==
    ASSUME NEW c \in Cards
    PROVE  /\ Uid[c] \in Seq(Nat)
           /\ Levels(c) \in 1..3
           /\ Len(Uid[c]) = 3 * Levels(c) + 1
<1>1. Uid[c] \in Seq(Nat) /\ Len(Uid[c]) \in {4, 7, 10}
    BY RfidAssumption
<1>2. (4 - 1) \div 3 = 1 /\ (7 - 1) \div 3 = 2 /\ (10 - 1) \div 3 = 3
    BY SMT
<1>3. CASE Len(Uid[c]) = 4
    BY <1>1, <1>2, <1>3 DEF Levels
<1>4. CASE Len(Uid[c]) = 7
    BY <1>1, <1>2, <1>4 DEF Levels
<1>5. CASE Len(Uid[c]) = 10
    BY <1>1, <1>2, <1>5 DEF Levels
<1> QED
    BY <1>1, <1>3, <1>4, <1>5

\* What a card sends at a level, without the cascade tag, continues its id.
LEMMA PartContinues ==
    ASSUME NEW c \in Cards, NEW level \in 1..Levels(c),
           rx = Part(c, level)
    PROVE  SubSeq(Uid[c], 1, 3 * (level - 1)) \o Bytes
             = IF level < Levels(c) THEN SubSeq(Uid[c], 1, 3 * level) ELSE Uid[c]
<1> DEFINE id == Uid[c]
<1>1. id \in Seq(Nat) /\ Levels(c) \in 1..3 /\ Len(id) = 3 * Levels(c) + 1
    BY UidShape
<1>2. level \in Int /\ Levels(c) \in Int /\ 1 <= level /\ level <= Levels(c)
    BY <1>1
<1> HIDE DEF id
<1>3. CASE level < Levels(c)
  <2> DEFINE s == SubSeq(id, 3 * level - 2, 3 * level)
  <2>1. \A i \in (3 * level - 2)..(3 * level) : id[i] \in Nat
      BY <1>1, <1>2, <1>3, ElementOfSeq
  <2>2. s \in Seq(Nat)
      BY <1>2, <2>1, SubSeqProperties, 3 * level - 2 \in Int, 3 * level \in Int
  <2>3. rx = <<CT>> \o s
      BY <1>3 DEF Part, id
  <2> HIDE DEF s
  <2>4. rx[1] = CT /\ Tail(rx) = s
      BY <2>2, <2>3, RfidAssumption
  <2>5. Bytes = s
      BY <2>4 DEF Bytes
  <2>6. SubSeq(id, 1, 3 * (level - 1)) \o SubSeq(id, 3 * (level - 1) + 1, 3 * level)
           = SubSeq(id, 1, 3 * level)
    <3>1. 1 \in 1..(Len(id) + 1) /\ 3 * (level - 1) \in (1 - 1)..Len(id)
          /\ 3 * level \in (3 * (level - 1))..Len(id)
        BY <1>1, <1>2, <1>3
    <3> QED
        BY <1>1, <3>1, ConcatAdjacentSubSeq
  <2>7. 3 * (level - 1) + 1 = 3 * level - 2
      BY <1>2
  <2> QED
      BY <1>3, <2>5, <2>6, <2>7 DEF s, id
<1>4. CASE level = Levels(c)
  <2> DEFINE s == SubSeq(id, 3 * level - 2, 3 * level + 1)
  <2>0. ~(level < Levels(c))
      BY <1>2, <1>4
  <2>1. rx = s
      BY <2>0 DEF Part, id
  <2>2. rx[1] # CT
      BY <1>4, RfidAssumption
  <2>3. Bytes = s
      BY <2>1, <2>2 DEF Bytes
  <2>4. SubSeq(id, 1, 3 * (level - 1)) \o SubSeq(id, 3 * (level - 1) + 1, Len(id))
           = SubSeq(id, 1, Len(id))
    <3>1. 1 \in 1..(Len(id) + 1) /\ 3 * (level - 1) \in (1 - 1)..Len(id)
          /\ Len(id) \in (3 * (level - 1))..Len(id)
        BY <1>1, <1>2, <1>4
    <3> QED
        BY <1>1, <3>1, ConcatAdjacentSubSeq
  <2>5. 3 * (level - 1) + 1 = 3 * level - 2 /\ Len(id) = 3 * level + 1
      BY <1>1, <1>2, <1>4
  <2>6. SubSeq(id, 1, Len(id)) = id
      BY <1>1, SubSeqFull
  <2> QED
      BY <2>0, <2>3, <2>4, <2>5, <2>6 DEF s, id
<1> QED
    BY <1>2, <1>3, <1>4

\* An answer that is received was given by a card that heard the command.
LEMMA Answered ==
    ASSUME NEW listening, NEW next, NEW answers, NEW answer,
           Transceive(listening, next, answers, answer), answer # NoAnswer
    PROVE  /\ answer \in answers
           /\ mode' = [c \in Cards |-> IF c \in listening THEN next[c] ELSE Quiet]
<1>1. PICK sent \in {TRUE, ~noise} :
        /\ mode' = IF sent
                   THEN [c \in Cards |-> IF c \in listening THEN next[c] ELSE Quiet]
                   ELSE mode
        /\ answer \in Received(IF sent THEN answers ELSE {})
    BY DEF Transceive
<1>2. sent
  <2> SUFFICES ASSUME ~sent PROVE FALSE
      OBVIOUS
  <2>1. answer \in Received({})
      BY <1>1
  <2>2. Received({}) = {NoAnswer}
    <3>1. CASE noise
        BY <3>1 DEF Received
    <3>2. CASE ~noise
        BY <1>1, <3>2
    <3> QED
        BY <3>1, <3>2
  <2> QED
      BY <2>1, <2>2
<1> QED
    BY <1>1, <1>2 DEF Received

\* Whatever the cards hear, each goes on or goes quiet or stays as it is.
LEMMA ModeStep ==
    ASSUME NEW listening, NEW next, NEW answers, NEW answer,
           Transceive(listening, next, answers, answer), CardsFit, TypeOK,
           listening \subseteq field, UNCHANGED field,
           \A c \in listening : next[c] \in Quiet..Levels(c) \cup {Active}
    PROVE  CardsFit' /\ mode' \in [Cards -> Quiet..Active]
<1>1. \/ mode' = [c \in Cards |-> IF c \in listening THEN next[c] ELSE Quiet]
      \/ mode' = mode
    BY DEF Transceive
<1>2. CASE mode' = mode
    BY <1>2 DEF CardsFit, TypeOK, Levels
<1>3. CASE mode' = [c \in Cards |-> IF c \in listening THEN next[c] ELSE Quiet]
  <2>1. \A c \in Cards : mode'[c] \in Quiet..Levels(c) \cup {Active}
      BY <1>3, UidShape DEF Quiet, Active
  <2>2. \A c \in Cards \ field' : mode'[c] = Quiet
      BY <1>3
  <2>3. \A c \in Cards : mode'[c] \in Quiet..Active
      BY <2>1, UidShape DEF Quiet, Active
  <2> QED
      BY <1>3, <2>1, <2>2, <2>3 DEF CardsFit, Levels
<1> QED
    BY <1>1, <1>2, <1>3

LEMMA PartInParts ==
    ASSUME NEW c \in Cards, NEW level \in 1..Levels(c)
    PROVE  Part(c, level) \in Parts
BY DEF Parts

\* A SELECT that is answered completes the id of a card this read has woken, or
\* continues those of the cards still selected.
LEMMA SelectStep ==
    ASSUME RfidInv, Select
    PROVE  /\ out' \in Beginnings
           /\ \/ /\ at' = "anticoll"
                 /\ cascade' \in 1..3
                 /\ \A c \in Selected' :
                        c \in woken /\ out' = SubSeq(Uid[c], 1, 3 * (cascade' - 1))
              \/ /\ at' = "halt"
                 /\ cascade' \in 1..3
                 /\ \E c \in woken : out' = Uid[c]
<1> DEFINE says == {<<cascade < Levels(c)>> : c \in Named}
<1>1. PICK more \in BOOLEAN :
        /\ Transceive(Named, AfterSelect, says, <<more>>)
        /\ IF more /\ cascade < 3
           THEN Go("select", "anticoll") /\ cascade' = cascade + 1
           ELSE Go("select", "halt") /\ UNCHANGED cascade
    BY DEF Select, SelectReply
<1>2. at = "select" /\ out' = out \o Bytes /\ field' = field
    BY DEF Select, Go, cards
<1>3. /\ <<more>> \in says
      /\ mode' = [c \in Cards |-> IF c \in Named THEN AfterSelect[c] ELSE Quiet]
  <2>1. <<more>> # NoAnswer
      BY DEF NoAnswer
  <2> QED
      BY <1>1, <2>1, Answered
<1>4. PICK c \in Named : more = (cascade < Levels(c))
    BY <1>3
<1>5. ASSUME NEW d \in Named
      PROVE  /\ d \in Cards /\ d \in woken
             /\ cascade \in 1..3 /\ Levels(d) \in 1..3 /\ cascade <= Levels(d)
             /\ out' = IF cascade < Levels(d) THEN SubSeq(Uid[d], 1, 3 * cascade)
                                              ELSE Uid[d]
  <2>1. d \in Cards /\ mode[d] = cascade /\ rx = Part(d, cascade) /\ cascade \in 1..3
      BY DEF Named, Selected, RfidInv, TypeOK
  <2>2. d \in woken /\ out = SubSeq(Uid[d], 1, 3 * (cascade - 1))
      BY <1>2 DEF RfidInv, Assembled
  <2>3. Levels(d) \in 1..3 /\ cascade \in 1..Levels(d)
      BY <2>1, UidShape DEF RfidInv, CardsFit, Quiet, Active
  <2> QED
      BY <1>2, <2>1, <2>2, <2>3, PartContinues
<1>6. out' \in Beginnings
  <2>1. Len(Uid[c]) = 3 * Levels(c) + 1 /\ Uid[c] \in Seq(Nat)
      BY <1>5, UidShape
  <2>2. \A n \in 0..Len(Uid[c]) : SubSeq(Uid[c], 1, n) \in Beginnings
      BY <1>5 DEF Beginnings
  <2>3. CASE cascade < Levels(c)
    <3>1. 3 * cascade \in 0..Len(Uid[c])
        BY <1>5, <2>1, <2>3
    <3> QED
        BY <1>5, <2>2, <2>3, <3>1
  <2>4. CASE ~(cascade < Levels(c))
    <3>1. SubSeq(Uid[c], 1, Len(Uid[c])) = Uid[c]
        BY <2>1, SubSeqFull
    <3>2. Len(Uid[c]) \in 0..Len(Uid[c])
        BY <2>1
    <3> QED
        BY <1>5, <2>2, <2>4, <3>1, <3>2
  <2> QED
      BY <2>3, <2>4
<1>7. CASE more
  <2>0. cascade < Levels(c)
      BY <1>4, <1>7
  <2>1. cascade < Levels(c) /\ cascade < 3
      BY <1>5, <2>0
  <2>2. at' = "anticoll" /\ cascade' = cascade + 1 /\ cascade' \in 1..3
      BY <1>1, <1>5, <1>7, <2>1 DEF Go
  <2>3. ASSUME NEW d \in Selected'
        PROVE  d \in woken /\ out' = SubSeq(Uid[d], 1, 3 * (cascade' - 1))
    <3>1. d \in Cards /\ mode'[d] = cascade + 1 /\ cascade + 1 \in 1..3
        BY <1>2, <2>2, <2>3 DEF Selected, RfidInv, TypeOK
    <3>2. d \in Named
        BY <1>3, <1>5, <3>1 DEF Quiet
    <3>3. AfterSelect[d] = cascade + 1
        BY <1>3, <3>1, <3>2
    <3>4. cascade < Levels(d)
        BY <3>1, <3>3 DEF AfterSelect, Active
    <3>5. cascade' - 1 = cascade
        BY <1>5, <2>2
    <3> QED
        BY <1>5, <3>2, <3>4, <3>5
  <2> QED
      BY <1>6, <2>2, <2>3
<1>8. CASE ~more
  <2>1. out' = Uid[c] /\ c \in woken
      BY <1>4, <1>5, <1>8
  <2>2. at' = "halt" /\ cascade' \in 1..3
      BY <1>1, <1>5, <1>8 DEF Go
  <2> QED
      BY <1>6, <2>1, <2>2
<1> QED
    BY <1>7, <1>8

LEMMA TagPublished ==
    ASSUME NEW c \in Cards, uid = Uid[c], Publish
    PROVE  tag' = Tag(c)
<1>1. ~(Len(uid) < 4)
    BY UidShape
<1>2. tag' = SubSeq(uid, 1, IF Len(uid) < 4 THEN Len(uid) ELSE 4)
    BY DEF Publish
<1> QED
    BY <1>1, <1>2 DEF Tag

\* The types, and the places of the cards.
LEMMA RfidTypeStep ==
    ASSUME RfidInv, [Next]_vars
    PROVE  (TypeOK /\ CardsFit)'
<1> USE DEF RfidInv, Go
<1>1. ASSUME NEW c \in Cards, Enter(c) PROVE (TypeOK /\ CardsFit)'
    BY <1>1 DEF Enter, TypeOK, CardsFit, read, Parts, Beginnings, Places
<1>2. ASSUME NEW c \in Cards, Leave(c) PROVE (TypeOK /\ CardsFit)'
  <2>1. mode' \in [Cards -> Quiet..Active]
      BY <1>2 DEF Leave, TypeOK, Quiet, Active
  <2>2. CardsFit'
    <3>1. \A d \in Cards : mode'[d] = mode[d] \/ mode'[d] = Quiet
        BY <1>2 DEF Leave, TypeOK
    <3>2. \A d \in Cards : Quiet \in Quiet..Levels(d)
        BY UidShape DEF Quiet
    <3> QED
        BY <1>2, <3>1, <3>2 DEF Leave, CardsFit, TypeOK, Levels
  <2> QED
      BY <1>2, <2>1, <2>2 DEF Leave, TypeOK, read, Parts, Beginnings, Places
<1>3. ASSUME Disturb PROVE (TypeOK /\ CardsFit)'
    BY <1>3 DEF Disturb, TypeOK, CardsFit, cards, read, Parts, Beginnings, Places
<1>4. ASSUME Present \/ Absent PROVE (TypeOK /\ CardsFit)'
  <2>1. \A c \in Wakeable : [d \in Cards |-> 1][c] \in Quiet..Levels(c) \cup {Active}
      BY UidShape DEF Wakeable, TypeOK, Quiet
  <2>2. PICK answer :
            Transceive(Wakeable, [c \in Cards |-> 1], {<<Levels(c)>> : c \in Wakeable}, answer)
      BY <1>4 DEF Present, Absent
  <2>3. UNCHANGED cards
      BY <1>4 DEF Present, Absent
  <2>4. CardsFit' /\ mode' \in [Cards -> Quiet..Active]
      BY <2>1, <2>2, <2>3, ModeStep DEF Wakeable, cards
  <2>5. CASE Present
      BY <2>4, <2>5 DEF Present, TypeOK, Wakeable, cards, Parts, Beginnings, Places
  <2>6. CASE Absent
      BY <2>4, <2>6 DEF Absent, TypeOK, cards, read, Parts, Beginnings, Places
  <2> QED
      BY <1>4, <2>4, <2>5, <2>6
<1>5. ASSUME Anticoll \/ NoAnticoll PROVE (TypeOK /\ CardsFit)'
  <2>1. \A c \in Selected : mode[c] \in Quiet..Levels(c) \cup {Active}
      BY DEF Selected, CardsFit, TypeOK
  <2>2. PICK answer :
            Transceive(Selected, mode, {Part(c, cascade) : c \in Selected}, answer)
      BY <1>5 DEF Anticoll, NoAnticoll, AnticollReply
  <2>3. UNCHANGED cards
      BY <1>5 DEF Anticoll, NoAnticoll, Failed
  <2>4. CardsFit' /\ mode' \in [Cards -> Quiet..Active]
      BY <2>1, <2>2, <2>3, ModeStep DEF Selected, cards
  <2>5. CASE Anticoll
    <3>1. rx' \in Parts
      <4>1. PICK c \in Selected : rx' = Part(c, cascade)
          BY <2>5 DEF Anticoll
      <4>2. c \in Cards /\ cascade \in 1..Levels(c)
          BY UidShape DEF Selected, TypeOK, CardsFit, Active, Quiet
      <4> QED
          BY <4>1, <4>2, PartInParts
    <3> QED
        BY <2>4, <2>5, <3>1 DEF Anticoll, TypeOK, cards, Parts, Beginnings, Places
  <2>6. CASE NoAnticoll
      BY <2>4, <2>6 DEF NoAnticoll, Failed, TypeOK, cards, read, Parts, Beginnings, Places
  <2> QED
      BY <1>5, <2>4, <2>5, <2>6
<1>6. ASSUME CalcCrc \/ NoCrc PROVE (TypeOK /\ CardsFit)'
    BY <1>6 DEF CalcCrc, NoCrc, Failed, TypeOK, CardsFit, cards, read, Parts, Beginnings,
        Places
<1>7. ASSUME Select \/ NoSelect PROVE (TypeOK /\ CardsFit)'
  <2>1. \A c \in Named : AfterSelect[c] \in Quiet..Levels(c) \cup {Active}
    <3> TAKE c \in Named
    <3>1. c \in Cards /\ mode[c] = cascade /\ cascade \in 1..3
        BY DEF Named, Selected, TypeOK
    <3> QED
        BY <3>1, UidShape DEF AfterSelect, Quiet
  <2>2. PICK answer :
            Transceive(Named, AfterSelect, {<<cascade < Levels(c)>> : c \in Named}, answer)
      BY <1>7 DEF Select, NoSelect, SelectReply
  <2>3. UNCHANGED cards
      BY <1>7 DEF Select, NoSelect, Failed
  <2>4. CardsFit' /\ mode' \in [Cards -> Quiet..Active]
      BY <2>1, <2>2, <2>3, ModeStep DEF Named, Selected, cards
  <2>5. CASE NoSelect
      BY <2>4, <2>5 DEF NoSelect, Failed, TypeOK, cards, read, Parts, Beginnings, Places
  <2>6. CASE Select
    <3>1. out' \in Beginnings /\ at' \in Places /\ cascade' \in 1..3
        BY <2>6, SelectStep DEF Places
    <3> QED
        BY <2>4, <2>6, <3>1 DEF Select, TypeOK, cards, Parts, Beginnings
  <2> QED
      BY <1>7, <2>4, <2>5, <2>6
<1>8. ASSUME Halt PROVE (TypeOK /\ CardsFit)'
  <2>1. mode' = mode \/ mode' = [c \in Cards |-> Quiet]
      BY <1>8 DEF Halt
  <2>2. halted' \subseteq field
      BY <1>8 DEF Halt, TypeOK
  <2>3. uid' \in {Uid[c] : c \in Cards}
      BY <1>8 DEF Halt, Assembled, TypeOK
  <2>4. mode' \in [Cards -> Quiet..Active] /\ CardsFit'
    <3>1. field' = field
        BY <1>8 DEF Halt
    <3>2. CASE mode' = mode
        BY <3>1, <3>2 DEF TypeOK, CardsFit, Levels
    <3>3. CASE mode' = [c \in Cards |-> Quiet]
      <4>1. \A c \in Cards : Quiet \in Quiet..Levels(c)
          BY UidShape DEF Quiet
      <4>2. Quiet \in Quiet..Active
          BY DEF Quiet, Active
      <4> QED
          BY <3>3, <4>1, <4>2, Zenon DEF CardsFit, Levels
    <3> QED
        BY <2>1, <3>2, <3>3
  <2> QED
      BY <1>8, <2>2, <2>3, <2>4 DEF Halt, TypeOK, read, Parts, Beginnings, Places
<1>9. ASSUME Publish PROVE (TypeOK /\ CardsFit)'
  <2>1. PICK c \in woken : uid = Uid[c]
      BY <1>9 DEF Publish, Assembled
  <2>2. c \in Cards
      BY <2>1 DEF TypeOK
  <2>3. tag' = Tag(c)
      BY <1>9, <2>1, <2>2, TagPublished
  <2> QED
      BY <1>9, <2>2, <2>3 DEF Publish, TypeOK, CardsFit, cards, read, Parts, Beginnings,
          Places
<1>10. ASSUME UNCHANGED vars PROVE (TypeOK /\ CardsFit)'
    BY <1>10 DEF vars, TypeOK, CardsFit
<1> QED
    BY <1>1, <1>2, <1>3, <1>4, <1>5, <1>6, <1>7, <1>8, <1>9, <1>10 DEF Next, Reader

\* What has been put together.
LEMMA AssembledStep ==
    ASSUME RfidInv, [Next]_vars
    PROVE  Assembled'
<1> USE DEF RfidInv, Assembled, Go
<1>1. ASSUME NEW c \in Cards, Enter(c) PROVE Assembled'
  <2>1. \A d \in Selected' : d \in Selected
      BY <1>1 DEF Enter, Selected, CardsFit, TypeOK, Quiet, read
  <2> QED
      BY <1>1, <2>1 DEF Enter, Named, read
<1>2. ASSUME NEW c \in Cards, Leave(c) PROVE Assembled'
  <2>1. \A d \in Selected' : d \in Selected
      BY <1>2 DEF Leave, Selected, TypeOK, Quiet, read
  <2> QED
      BY <1>2, <2>1 DEF Leave, Named, read
<1>3. ASSUME Disturb PROVE Assembled'
    BY <1>3 DEF Disturb, Named, Selected, cards, read
<1>4. ASSUME Present PROVE Assembled'
  <2>1. PICK answer \in {<<Levels(c)>> : c \in Wakeable} :
            Transceive(Wakeable, [c \in Cards |-> 1], {<<Levels(c)>> : c \in Wakeable}, answer)
      BY <1>4 DEF Present
  <2>2. mode' = [c \in Cards |-> IF c \in Wakeable THEN [d \in Cards |-> 1][c] ELSE Quiet]
    <3>1. answer # NoAnswer
        BY DEF NoAnswer
    <3> QED
        BY <2>1, <3>1, Answered
  <2>3. at' = "anticoll" /\ cascade' = 1 /\ woken' = Wakeable /\ out' = <<>> /\ field' = field
      BY <1>4 DEF Present, cards
  <2>4. \A c \in Selected' : c \in woken'
      BY <2>2, <2>3 DEF Selected, TypeOK, Quiet
  <2>5. \A c \in Cards : SubSeq(Uid[c], 1, 3 * (cascade' - 1)) = <<>>
    <3>1. 3 * (cascade' - 1) = 0
        BY <2>3
    <3> QED
        BY <3>1, SubSeqEmpty
  <2>6. \A c \in Selected' : c \in Cards
      BY <2>3 DEF Selected, TypeOK
  <2> QED
      BY <2>3, <2>4, <2>5, <2>6
<1>5. ASSUME Absent \/ NoAnticoll \/ NoCrc \/ NoSelect \/ Publish PROVE Assembled'
    BY <1>5 DEF Absent, NoAnticoll, NoCrc, NoSelect, Publish, Failed
<1>6. ASSUME Anticoll PROVE Assembled'
  <2>1. PICK answer \in {Part(c, cascade) : c \in Selected} : rx' = answer
      BY <1>6 DEF Anticoll
  <2>2. \A c \in Selected' : c \in Selected
    <3>1. \/ mode' = [c \in Cards |-> IF c \in Selected THEN mode[c] ELSE Quiet]
          \/ mode' = mode
        BY <1>6 DEF Anticoll, AnticollReply, Transceive
    <3> QED
        BY <1>6, <3>1 DEF Anticoll, Selected, TypeOK, Quiet, cards
  <2> QED
      BY <1>6, <2>2 DEF Anticoll, Named
<1>7. ASSUME CalcCrc PROVE Assembled'
    BY <1>7 DEF CalcCrc, Named, Selected, cards, read
<1>8. ASSUME Select PROVE Assembled'
    BY <1>8, SelectStep DEF Select
<1>9. ASSUME Halt PROVE Assembled'
    BY <1>9 DEF Halt
<1>10. ASSUME UNCHANGED vars PROVE Assembled'
    BY <1>10 DEF vars, Named, Selected
<1> QED
    BY <1>1, <1>2, <1>3, <1>4, <1>5, <1>6, <1>7, <1>8, <1>9, <1>10 DEF Next, Reader

(***************************************************************************)
(* The types, the places of the cards and what has been put together of an *)
(* id, for any cards.                                                      *)
(***************************************************************************)
THEOREM RfidInvariant == Spec => []RfidInv
<1>1. Init => RfidInv
  <2> SUFFICES ASSUME Init PROVE RfidInv
      OBVIOUS
  <2>1. TypeOK
    <3>1. mode \in [Cards -> Quiet..Active]
        BY DEF Init, Quiet, Active
    <3>2. cascade \in 1..3
        BY DEF Init
    <3> QED
        BY <3>1, <3>2, Zenon DEF Init, TypeOK, Places
  <2>2. Assembled
      BY DEF Init, Assembled
  <2>3. CardsFit
      BY UidShape DEF Init, CardsFit, Quiet
  <2> QED
      BY <2>1, <2>2, <2>3 DEF RfidInv
<1>2. RfidInv /\ [Next]_vars => RfidInv'
    BY RfidTypeStep, AssembledStep DEF RfidInv
<1> QED
    BY <1>1, <1>2, PTL DEF Spec

(***************************************************************************)
(* A tag that is published is that of a card which this read has woken.    *)
(***************************************************************************)
THEOREM TagIsOfWoken == Spec => TagOfWoken
<1>1. ASSUME RfidInv, [Next]_vars, at = "publish", at' # at
      PROVE  \E c \in woken : tag' = Tag(c)
  <2>1. Publish
      BY <1>1 DEF Next, Reader, Enter, Leave, Disturb, Present, Absent, Anticoll, NoAnticoll,
          CalcCrc, NoCrc, Select, NoSelect, Halt, Failed, Go, vars
  <2>2. PICK c \in woken : uid = Uid[c]
      BY <1>1 DEF RfidInv, Assembled
  <2>3. c \in Cards
      BY <1>1, <2>2 DEF RfidInv, TypeOK
  <2> QED
      BY <2>1, <2>2, <2>3, TagPublished
<1>2. RfidInv /\ [Next]_vars => (at = "publish" /\ at' # at => \E c \in woken : tag' = Tag(c))
    BY <1>1
<1> QED
    BY <1>2, RfidInvariant, PTL DEF Spec, TagOfWoken
-----------------------------------------------------------------------------
\* How many commands the read that runs can still take: three for each level.
StepsLeft ==
    CASE at = "anticoll" -> 3 * (4 - cascade) + 2
      [] at = "crc"      -> 3 * (4 - cascade) + 1
      [] at = "select"   -> 3 * (4 - cascade)
      [] at = "halt"     -> 2
      [] at = "publish"  -> 1
      [] at = "poll"     -> 0

(***************************************************************************)
(* The loop over the levels of an id ends: whatever cards answer that more *)
(* follows, and whichever come and go in between, each command of a read   *)
(* brings it nearer to the next poll, and one that begins has eleven at    *)
(* most (mfrc522.c:285-365).                                               *)
(***************************************************************************)
ReadRunsOut ==
    [][/\ Reader /\ at # "poll" => StepsLeft' < StepsLeft
       /\ StepsLeft' <= IF at = "poll" THEN 11 ELSE StepsLeft]_vars

LEMMA StepsLeftValue ==
    ASSUME TypeOK
    PROVE  /\ StepsLeft \in 0..11
           /\ at = "anticoll" => StepsLeft = 3 * (4 - cascade) + 2
           /\ at = "crc" => StepsLeft = 3 * (4 - cascade) + 1
           /\ at = "select" => StepsLeft = 3 * (4 - cascade)
           /\ at = "halt" => StepsLeft = 2
           /\ at = "publish" => StepsLeft = 1
           /\ at = "poll" => StepsLeft = 0
<1>1. at \in Places /\ cascade \in 1..3
    BY DEF TypeOK
<1>2. /\ at = "anticoll" => StepsLeft = 3 * (4 - cascade) + 2
      /\ at = "crc" => StepsLeft = 3 * (4 - cascade) + 1
      /\ at = "select" => StepsLeft = 3 * (4 - cascade)
      /\ at = "halt" => StepsLeft = 2
      /\ at = "publish" => StepsLeft = 1
      /\ at = "poll" => StepsLeft = 0
    BY DEF StepsLeft
<1> QED
    BY <1>1, <1>2 DEF Places

\* Where a command of a read leads.
LEMMA ReaderStep ==
    ASSUME TypeOK, Reader, at # "poll"
    PROVE  \/ at' = "poll"
           \/ at = "anticoll" /\ at' = "crc" /\ cascade' = cascade
           \/ at = "crc" /\ at' = "select" /\ cascade' = cascade
           \/ at = "select" /\ at' = "anticoll" /\ cascade' = cascade + 1
           \/ at = "select" /\ at' = "halt"
           \/ at = "halt" /\ at' = "publish"
<1>1. CASE Present \/ Absent
    BY <1>1 DEF Present, Absent, Go
<1>2. CASE Anticoll \/ NoAnticoll
    BY <1>2 DEF Anticoll, NoAnticoll, Failed, Go
<1>3. CASE CalcCrc \/ NoCrc
    BY <1>3 DEF CalcCrc, NoCrc, Failed, Go, read
<1>4. CASE Select \/ NoSelect
    BY <1>4 DEF Select, NoSelect, Failed, Go
<1>5. CASE Halt \/ Publish
    BY <1>5 DEF Halt, Publish, Go
<1> QED
    BY <1>1, <1>2, <1>3, <1>4, <1>5 DEF Reader

(***************************************************************************)
(* For any cards, a read ends after eleven commands at most.               *)
(***************************************************************************)
THEOREM ReadsAreBounded == Spec => ReadRunsOut
<1> DEFINE Spent == /\ Reader /\ at # "poll" => StepsLeft' < StepsLeft
                    /\ StepsLeft' <= IF at = "poll" THEN 11 ELSE StepsLeft
<1>1. ASSUME RfidInv, [Next]_vars PROVE Spent
  <2>1. TypeOK /\ TypeOK' /\ cascade \in 1..3 /\ cascade' \in 1..3
      BY <1>1, RfidTypeStep DEF RfidInv, TypeOK
  <2>2. StepsLeft \in 0..11
      BY <2>1, StepsLeftValue
  <2>3. /\ StepsLeft' \in 0..11
        /\ at' = "anticoll" => StepsLeft' = 3 * (4 - cascade') + 2
        /\ at' = "crc" => StepsLeft' = 3 * (4 - cascade') + 1
        /\ at' = "select" => StepsLeft' = 3 * (4 - cascade')
        /\ at' = "halt" => StepsLeft' = 2
        /\ at' = "publish" => StepsLeft' = 1
        /\ at' = "poll" => StepsLeft' = 0
    <3>1. /\ at' = "anticoll" => StepsLeft' = 3 * (4 - cascade') + 2
          /\ at' = "crc" => StepsLeft' = 3 * (4 - cascade') + 1
          /\ at' = "select" => StepsLeft' = 3 * (4 - cascade')
          /\ at' = "halt" => StepsLeft' = 2
          /\ at' = "publish" => StepsLeft' = 1
          /\ at' = "poll" => StepsLeft' = 0
        BY DEF StepsLeft
    <3> QED
        BY <2>1, <3>1 DEF TypeOK, Places
  <2>4. ASSUME Reader, at # "poll" PROVE StepsLeft' < StepsLeft
    <3>1. StepsLeft >= 1
        BY <2>1, <2>4, StepsLeftValue DEF TypeOK, Places
    <3>2. /\ at = "anticoll" => StepsLeft = 3 * (4 - cascade) + 2
          /\ at = "crc" => StepsLeft = 3 * (4 - cascade) + 1
          /\ at = "select" => StepsLeft = 3 * (4 - cascade)
          /\ at = "halt" => StepsLeft = 2
        BY <2>1, StepsLeftValue
    <3>3. CASE at' = "poll"
        BY <2>2, <2>3, <3>1, <3>3
    <3>4. CASE at = "anticoll" /\ at' = "crc" /\ cascade' = cascade
        BY <2>1, <2>3, <3>2, <3>4
    <3>5. CASE at = "crc" /\ at' = "select" /\ cascade' = cascade
        BY <2>1, <2>3, <3>2, <3>5
    <3>6. CASE at = "select" /\ at' = "anticoll" /\ cascade' = cascade + 1
        BY <2>1, <2>3, <3>2, <3>6
    <3>7. CASE at = "select" /\ at' = "halt"
        BY <2>1, <2>3, <3>2, <3>7
    <3>8. CASE at = "halt" /\ at' = "publish"
        BY <2>3, <3>2, <3>8
    <3> QED
        BY <2>1, <2>4, <3>3, <3>4, <3>5, <3>6, <3>7, <3>8, ReaderStep
  <2>5. ASSUME ~Reader, at # "poll" PROVE StepsLeft' = StepsLeft
    <3>1. at' = at /\ cascade' = cascade
        BY <1>1, <2>5 DEF Next, Enter, Leave, Disturb, read, vars
    <3> QED
        BY <3>1 DEF StepsLeft
  <2> QED
      BY <2>2, <2>3, <2>4, <2>5
<1>2. RfidInv /\ [Next]_vars => [Spent]_vars
    BY <1>1
<1> QED
    BY RfidInvariant, <1>2, PTL DEF Spec, ReadRunsOut
=============================================================================
