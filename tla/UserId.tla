------------------------------ MODULE UserId -------------------------------
(***************************************************************************)
(* The uint8_t user_id[CONFIG_MAX_ID_LENGTH] arrays that schedule messages *)
(* carry.  Two parts of an array matter to the code: the C string at its   *)
(* front (what %s prints and a first-byte test sees) and whether the bytes *)
(* after the string's NUL are all zero (what memcmp also sees).            *)
(***************************************************************************)
CONSTANTS
    Names,      \* the names users have
    LongNames,  \* those of CONFIG_MAX_ID_LENGTH - 2 bytes or more
    NoName      \* the empty string

ASSUME UserIdAssumption ==
    /\ LongNames \subseteq Names
    /\ NoName \notin Names

Images == [name : Names \cup {NoName}, rest : {"zero", "bytes"}]

\* uint8_t empty_id[CONFIG_MAX_ID_LENGTH] = {0}
EmptyId == [name |-> NoName, rest |-> "zero"]

\* A name copied into a zeroed array, as every client of the API sends it.
Padded(n) == [name |-> n, rest |-> "zero"]

(***************************************************************************)
(* A name as schedule_endpoint_fetch leaves it in a LOAD command: memcpy   *)
(* takes CONFIG_MAX_ID_LENGTH - 1 bytes of the parsed response, and the    *)
(* JSON text that follows the name comes along unless the name fills them. *)
(***************************************************************************)
Fetched(n) == [name |-> n, rest |-> IF n \in LongNames THEN "zero" ELSE "bytes"]

\* user_id[0] == 0
StartsEmpty(id) == id.name = NoName

\* The id of a response with no user name in it, followed by more JSON text.
Ghost == Fetched(NoName)
=============================================================================
