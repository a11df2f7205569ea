------------------------------- MODULE MCLed -------------------------------
(***************************************************************************)
(* Bounded instances of Led: two colors and every pattern that differs in  *)
(* what the service does.                                                  *)
(***************************************************************************)
EXTENDS Led

TwoColors == [color : {"RED", "GREEN"}, pattern : {"OFF", "SOLID", "SLOW"}] \cup {NoLight}

(***************************************************************************)
(* led.h:43-44, "LED_CMD_BLINK_OFF ... No blinking" and                    *)
(* "LED_CMD_BLINK_SOLID ... Solid on": once such a command has been        *)
(* executed and neither the timer runs nor its work waits, OFF is dark and *)
(* SOLID is its color.                                                     *)
(***************************************************************************)
SteadyStaysSteady ==
    (at = "wait" /\ ~blinking /\ ~submitted)
        => lit = IF current.pattern = "SOLID" THEN {current.color} ELSE {}
=============================================================================
