---------------------------- MODULE RadioContract ---------------------------
(***************************************************************************)
(* What a radio promises the dispatcher (src/radio/radio.h, class Radio):  *)
(* it takes one packet at a time, only while it is ready, and ends each    *)
(* with exactly one tx_done call; and it does not stop being ready under a *)
(* transmission without that call.  The radio of module Dispatcher behaves *)
(* like this one.                                                          *)
(***************************************************************************)
EXTENDS Naturals

VARIABLES open,    \* begin() has run and shutdown() has not
          ready,   \* ready()
          busy,    \* tx_busy()
          owed     \* packets taken for which tx_done has not been called

vars == <<open, ready, busy, owed>>

Init == open = FALSE /\ ready = FALSE /\ busy = FALSE /\ owed = 0

Begin == ~open /\ open' = TRUE /\ ready' \in BOOLEAN /\ UNCHANGED <<busy, owed>>

Taken   == ready /\ ~busy /\ busy' = TRUE /\ owed' = owed + 1 /\ UNCHANGED <<open, ready>>
TxDone  == busy /\ busy' = FALSE /\ owed' = owed - 1 /\ ready' \in BOOLEAN /\ UNCHANGED open
GoDown  == ready /\ ~busy /\ ready' = FALSE /\ UNCHANGED <<open, busy, owed>>
ComeUp  == open /\ ~ready /\ ready' = TRUE /\ UNCHANGED <<open, busy, owed>>

(* Nobody is told of a packet that is on the air when the radio is closed. *)
Close == open /\ open' = FALSE /\ ready' = FALSE /\ busy' = FALSE /\ owed' = 0

Next == Begin \/ Taken \/ TxDone \/ GoDown \/ ComeUp \/ Close

Spec == Init /\ [][Next]_vars
=============================================================================
