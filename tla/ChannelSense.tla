---------------------------- MODULE ChannelSense ----------------------------
(***************************************************************************)
(* Listen before talk: Sx1262::channel_busy() of src/radio/sx1262.cpp, the *)
(* chip flags it reads, and the packets and noise that set them.  The      *)
(* radio is up and idle, and each call is the one pump() makes before it   *)
(* transmits: told that the channel is free, it keys up.                   *)
(*                                                                         *)
(* Time is discrete; rxSince is the age of rx_since_ms_, counted up to the *)
(* longest deadline and one more, which is all the code can tell apart.    *)
(***************************************************************************)
EXTENDS Integers

CONSTANTS PreambleTime,  \* symbols_ms(preamble and header): the longest preamble stage
          PacketTime,    \* airtime_ms(kMaxPayloadSize): the longest reception
          Noise,         \* whether preambles are also seen in noise, and signals fade
          BusFails       \* whether reading the flags can fail

ASSUME ChannelAssumption ==
  /\ PreambleTime \in Nat \ {0} /\ PacketTime \in Nat /\ PreambleTime < PacketTime
  /\ Noise \in BOOLEAN /\ BusFails \in BOOLEAN

VARIABLES flags,    \* kIrqPreambleDetected and kIrqHeaderValid, as latched by the chip
          rxSince,  \* age of rx_since_ms_, or Unset when that is 0
          air,      \* the reception in progress: its stage and age
          busy      \* the last answer of channel_busy()

vars == <<flags, rxSince, air, busy>>

Unset  == -1
Silent == [stage |-> "none", age |-> 0]
-----------------------------------------------------------------------------
(* The longest a reception may still be believed in.                       *)
MutReceptionDeadline == PacketTime + 1
ReceptionDeadline == IF "header" \in flags THEN PacketTime ELSE PreambleTime

Since == IF rxSince = Unset THEN 0 ELSE rxSince

(* The flags are up, and have been for longer than any reception takes.    *)
Stale == Since > ReceptionDeadline

(* The dispatcher transmits: send() stops the receiver and clears it.      *)
KeyUp == busy' = FALSE /\ flags' = {} /\ air' = Silent

(* channel_busy() when the chip does not answer, and when it does.         *)
FlagsUnread ==
  /\ BusFails
  /\ KeyUp
  /\ UNCHANGED rxSince

FlagsRead ==
  \/ /\ flags = {} \/ Stale
     /\ KeyUp
     /\ rxSince' = Unset
  \/ /\ flags # {} /\ ~Stale
     /\ busy' = TRUE
     /\ rxSince' = Since
     /\ UNCHANGED <<flags, air>>

ChannelBusy == FlagsUnread \/ FlagsRead
-----------------------------------------------------------------------------
(***************************************************************************)
(* The chip: a preamble is detected, its header validates, the packet      *)
(* arrives or is in error, and on_irq() clears every flag; or the signal   *)
(* fades and nothing ever clears them.                                     *)
(***************************************************************************)
PacketStarts ==
  /\ air = Silent
  /\ air' = [stage |-> "preamble", age |-> 0]
  /\ flags' = flags \cup {"preamble"}
  /\ UNCHANGED <<rxSince, busy>>

HeaderValidates ==
  /\ air.stage = "preamble" /\ flags # {}
  /\ air' = [air EXCEPT !.stage = "payload"]
  /\ flags' = flags \cup {"header"}
  /\ UNCHANGED <<rxSince, busy>>

ReceptionEnds ==
  /\ air # Silent /\ air.age > 0
  /\ air' = Silent
  /\ flags' = {}
  /\ UNCHANGED <<rxSince, busy>>

SignalFades ==
  /\ Noise /\ air # Silent
  /\ air' = Silent
  /\ UNCHANGED <<flags, rxSince, busy>>

NoisePreamble ==
  /\ Noise /\ air = Silent /\ flags = {}
  /\ flags' = {"preamble"}
  /\ UNCHANGED <<rxSince, air, busy>>

Tick ==
  /\ air.stage = "preamble" => air.age < PreambleTime
  /\ air.stage = "payload" => air.age < PacketTime
  /\ air' = IF air = Silent THEN air ELSE [air EXCEPT !.age = @ + 1]
  /\ rxSince' = IF rxSince = Unset \/ rxSince > PacketTime THEN rxSince ELSE rxSince + 1
  /\ UNCHANGED <<flags, busy>>
-----------------------------------------------------------------------------
Init == flags = {} /\ rxSince = Unset /\ air = Silent /\ busy = FALSE

Next ==
  \/ ChannelBusy
  \/ PacketStarts \/ HeaderValidates \/ ReceptionEnds \/ SignalFades \/ NoisePreamble
  \/ Tick

Spec == Init /\ [][Next]_vars

(* While a packet waits, pump() asks again and again, and time passes.     *)
Fairness == WF_vars(FlagsRead) /\ WF_vars(Tick)

FairSpec == Spec /\ Fairness
-----------------------------------------------------------------------------
(* Once nothing arrives any more, the channel is found free: a reception   *)
(* that never completes cannot latch it busy.                              *)
NeverLatched == <>[](air = Silent) => []<>(~busy)
=============================================================================
