----------------------------- MODULE DutyCycle ------------------------------
(***************************************************************************)
(* The sliding-window airtime account of src/radio/radio.cpp (DutyCycle).  *)
(*                                                                         *)
(* entries_ is a list of (at_ms, airtime_ms) pairs.  Here it is the        *)
(* histogram spent: spent[a] is the airtime recorded exactly a ticks ago.  *)
(* Entries of one age always leave the window together, so nothing the     *)
(* class computes tells the histogram from the list.  An entry older than  *)
(* the window has no age to sit at: prune() is the right end of the        *)
(* domain.                                                                 *)
(***************************************************************************)
EXTENDS Integers, FiniteSetsExt

CONSTANT Window     \* kWindowMs

ASSUME WindowAssumption == Window \in Nat \ {0}

(* percent_ <= 0 or >= 100 switches the limit off; any other percentage is *)
(* a budget of kWindowMs * percent_ / 100.                                 *)
Unlimited == -1

Ages == 0 .. Window

NothingSpent == [a \in Ages |-> 0]

(* The airtime at least a ticks old.                                       *)
SpentSince(spent, a) ==
  LET since[b \in 0 .. Window + 1] == IF b > Window THEN 0 ELSE spent[b] + since[b + 1]
  IN  since[a]

Total(spent) == SpentSince(spent, 0)

(* prune() as the clock advances one tick: an entry whose age would exceed *)
(* the window is erased.                                                   *)
Aged(spent) == [a \in Ages |-> IF a = 0 THEN 0 ELSE spent[a - 1]]

(* record()                                                                *)
Record(spent, airtime) == [spent EXCEPT ![0] = @ + airtime]

(* The waits after which the oldest entries, as many as the candidate      *)
(* needs, have reached the end of the window.                              *)
Releases(spent, excess) == {w \in Ages : SpentSince(spent, Window - w) >= excess}

MutWaitMs(spent, budget, airtime) ==
  IF budget = Unlimited \/ Total(spent) <= budget THEN 0 ELSE Window

(* wait_ms(): how long to hold a packet of the given airtime.              *)
WaitMs(spent, budget, airtime) ==
  IF budget = Unlimited THEN 0
  ELSE IF Total(spent) + airtime <= budget THEN 0
  ELSE IF airtime > budget THEN Window
  ELSE LET waits == Releases(spent, Total(spent) + airtime - budget)
       IN  IF waits = {} THEN Window ELSE Min(waits)
=============================================================================
