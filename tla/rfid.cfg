SPECIFICATION Spec
CONSTANTS
    classic = classic
    ultralight = ultralight
    long = long
    Cards <- MCCards
    Uid <- MCUid
    CT = 9
INVARIANTS RfidInv
PROPERTIES TagOfWoken LoneCardRead
