------------------------------- MODULE MCRfid -------------------------------
(***************************************************************************)
(* A bounded instance of Rfid: three cards, one of each size of id; the    *)
(* two longer ids have the part of their first level in common, and all    *)
(* three the first three bytes.                                            *)
(***************************************************************************)
EXTENDS Rfid

CONSTANTS classic, ultralight, long

MCCards == {classic, ultralight, long}

MCUid ==
    [c \in MCCards |->
        CASE c = classic -> <<1, 2, 3, 4>>
          [] c = ultralight -> <<1, 2, 3, 5, 5, 5, 5>>
          [] c = long -> <<1, 2, 3, 6, 6, 6, 7, 7, 7, 7>>]
=============================================================================
