------------------------------- MODULE HsmsSS --------------------------------
(***************************************************************************)
(* What the HSMS transport promises its user: a single-session (HSMS-SS)   *)
(* link.  There is never more than one session; it is selected only while  *)
(* it is connected; and once the transport is retired no session begins.   *)
(***************************************************************************)

VARIABLES
    link,   \* "NOT CONNECTED", "CONNECTED" or "SELECTED"
    open    \* may a session still begin?
vars == <<link, open>>

Init == link = "NOT CONNECTED" /\ open = TRUE

Connect == open /\ link = "NOT CONNECTED" /\ link' = "CONNECTED" /\ UNCHANGED open
Select == link = "CONNECTED" /\ link' = "SELECTED" /\ UNCHANGED open
Deselect == link = "SELECTED" /\ link' = "CONNECTED" /\ UNCHANGED open
Drop == link # "NOT CONNECTED" /\ link' = "NOT CONNECTED" /\ UNCHANGED open
Retire == open /\ open' = FALSE /\ link' = "NOT CONNECTED"

Next == Connect \/ Select \/ Deselect \/ Drop \/ Retire
Spec == Init /\ [][Next]_vars
=============================================================================
