------------------------------- MODULE Sx1262 -------------------------------
(***************************************************************************)
(* The SX1262 driver of src/radio/sx1262.cpp: bring-up, supervision and    *)
(* recovery, retuning, transmission with its timeout, and interrupts, over *)
(* a chip whose power rail somebody else switches and whose bus may fail.  *)
(*                                                                         *)
(* Each callback of the event loop is one action; the commands it sends to *)
(* the chip are part of it, and each may fail.  No clock is needed: a      *)
(* timer that is armed may fire.  The deadline of a recovery is counted in *)
(* the polls it leaves room for.                                           *)
(***************************************************************************)
EXTENDS Integers, FiniteSets

CONSTANTS Params,       \* settings that carry a frequency
          NoFrequency,  \* the settings of a radio that was never given one
          Untuned,      \* a chip that is not, or only half, programmed
          MaxPolls      \* polls of a recovery before its deadline

ASSUME Sx1262Assumption ==
  /\ NoFrequency \notin Params /\ Untuned \notin Params /\ Untuned # NoFrequency
  /\ MaxPolls \in Nat

VARIABLES phase,          \* "new", "running" after begin(), "closed"
          supervised,     \* retry_interval_ms_ > 0
          params,         \* params_
          healthy,        \* healthy_
          recovering,     \* recovering_
          recoveryTimer,  \* recovery_timer_: what it will run, if armed
          polls,          \* what is left until recovery_deadline_ms_
          txBusy,         \* tx_busy_
          txTimeout,      \* tx_timeout_ is armed
          retunePending,  \* retune_pending_
          edge,           \* the interrupt line has an event to read
          chip,           \* the chip: its rail, its bus, its mode
          owed,           \* history: tx_done calls the driver still owes
          lapsed          \* history: the rail was cut since the chip was programmed

driver == <<phase, supervised, params, healthy, recovering, recoveryTimer, polls,
            txBusy, txTimeout, retunePending, owed>>
vars == <<driver, edge, chip, lapsed>>

Irqs  == {"TxDone", "RxDone", "RxError"}
Modes == {"standby", "rx", "tx"}
Chips == [power : BOOLEAN, flaky : BOOLEAN, mode : Modes, tuned : Params \cup {Untuned},
          irq : SUBSET Irqs]

-----------------------------------------------------------------------------
(***************************************************************************)
(* The chip as the driver finds it.  A command to a chip without power     *)
(* fails (command_status_ok()); one over a flaky bus may.                  *)
(***************************************************************************)
Works(c) == c.power
Fails(c) == ~c.power \/ c.flaky

Reset(c) == [c EXCEPT !.mode = "standby", !.tuned = Untuned, !.irq = {}]

(* configure() puts the chip in standby and programs it ...                *)
Configured(c, p) == [c EXCEPT !.mode = "standby", !.tuned = p]
(* ... and this may be left of the chip when one of the commands fails, or *)
(* one of the set_rx_mode() that follows.                                  *)
HalfDone(c, p) ==
  {c} \cup (IF c.power THEN {Configured(c, Untuned), Configured(c, p)} ELSE {})

(* set_rx_mode(): the flags are cleared and the chip receives.             *)
Receiving(c) == [c EXCEPT !.mode = "rx", !.irq = {}]
-----------------------------------------------------------------------------
(* The transmission in flight ends, and deliver_tx_done() says so.         *)
EndTx ==
  /\ txBusy' = FALSE
  /\ txTimeout' = FALSE
  /\ owed' = IF txBusy THEN owed - 1 ELSE owed

(* go_down()                                                               *)
MutGoDown ==
  /\ healthy' = FALSE /\ retunePending' = FALSE
  /\ txBusy' = FALSE /\ txTimeout' = FALSE
  /\ UNCHANGED owed
GoDown ==
  /\ healthy' = FALSE /\ retunePending' = FALSE
  /\ EndTx

(* retune(): the chip is reprogrammed and receives again, or the radio is  *)
(* down.                                                                   *)
Retune(p) ==
  /\ \/ /\ Works(chip)
        /\ chip' = Receiving(Configured(chip, p))
        /\ lapsed' = FALSE
        /\ UNCHANGED healthy
     \/ /\ Fails(chip)
        /\ chip' \in HalfDone(chip, p)
        /\ healthy' = FALSE
        /\ UNCHANGED lapsed
  /\ retunePending' = FALSE

(* after_tx(): back to receiving, retuned first if that was waiting.       *)
MutAfterTx ==
  /\ chip' = Receiving(chip)
  /\ retunePending' = FALSE
  /\ UNCHANGED <<healthy, lapsed>>
AfterTx ==
  \/ retunePending /\ Retune(params)
  \/ /\ ~retunePending
     /\ \/ Works(chip) /\ chip' = Receiving(chip) /\ UNCHANGED healthy
        \/ Fails(chip) /\ chip' \in {chip, [chip EXCEPT !.irq = {}]} /\ healthy' = FALSE
     /\ UNCHANGED <<retunePending, lapsed>>

(* start_recovery() asserts reset and arms the timer, unless the line      *)
(* fails; it does nothing when the radio is up, when a recovery is running *)
(* or when there is no frequency.                                          *)
StartRecovery(p) ==
  IF ~healthy /\ ~recovering /\ p # NoFrequency
  THEN \/ chip' = Reset(chip) /\ recovering' = TRUE /\ recoveryTimer' = "release"
       \/ chip.flaky /\ UNCHANGED <<chip, recovering, recoveryTimer>>
  ELSE UNCHANGED <<chip, recovering, recoveryTimer>>

(* bring_up(): all of a recovery in one go, without its timers.            *)
BringUp(p) ==
  \/ /\ Works(chip)
     /\ chip' = Receiving(Configured(Reset(chip), p))
     /\ healthy' = TRUE /\ lapsed' = FALSE
  \/ /\ Fails(chip)
     /\ chip' \in {chip} \cup HalfDone(Reset(chip), p)
     /\ UNCHANGED <<healthy, lapsed>>
-----------------------------------------------------------------------------
(* begin(): supervised, it succeeds whatever the chip does; otherwise the  *)
(* chip must come up now, if there is a frequency, or the daemon ends.     *)
Begin ==
  /\ phase = "new"
  /\ \/ /\ supervised
        /\ phase' = "running"
        /\ StartRecovery(params)
        /\ UNCHANGED <<healthy, lapsed>>
     \/ /\ ~supervised /\ params # NoFrequency
        /\ BringUp(params)
        /\ phase' = IF healthy' THEN "running" ELSE "closed"
        /\ UNCHANGED <<recovering, recoveryTimer>>
     \/ /\ ~supervised /\ params = NoFrequency
        /\ phase' = "running"
        /\ UNCHANGED <<chip, healthy, lapsed, recovering, recoveryTimer>>
  /\ UNCHANGED <<supervised, params, polls, txBusy, txTimeout, retunePending, owed, edge>>

(* recovery_failed()                                                       *)
MutRecoveryFailed == recoveryTimer' = "none" /\ UNCHANGED recovering
RecoveryFailed == recoveryTimer' = "none" /\ recovering' = FALSE

(* recovery_deadline_ms_, as polls                                         *)
Deadline == MaxPolls

(* release_reset()                                                         *)
ReleaseReset ==
  /\ recoveryTimer = "release"
  /\ \/ recoveryTimer' = "poll" /\ polls' = Deadline /\ UNCHANGED recovering
     \/ chip.flaky /\ RecoveryFailed /\ UNCHANGED polls
  /\ UNCHANGED <<phase, supervised, params, healthy, txBusy, txTimeout, retunePending, owed,
                 edge, chip, lapsed>>

(* poll_reset_busy(): look again until the deadline; then program the chip *)
(* and receive, or leave it to the next recovery.                          *)
PollResetBusy ==
  /\ recoveryTimer = "poll"
  /\ \/ /\ Fails(chip) /\ polls > 0
        /\ polls' = polls - 1
        /\ UNCHANGED <<chip, healthy, recovering, recoveryTimer, lapsed>>
     \/ /\ Fails(chip) /\ (polls = 0 \/ chip.flaky)
        /\ chip' \in HalfDone(chip, params)
        /\ RecoveryFailed
        /\ UNCHANGED <<healthy, polls, lapsed>>
     \/ /\ Works(chip)
        /\ chip' = Receiving(Configured(chip, params))
        /\ healthy' = TRUE /\ lapsed' = FALSE
        /\ recovering' = FALSE /\ recoveryTimer' = "none"
        /\ UNCHANGED polls
  /\ UNCHANGED <<phase, supervised, params, txBusy, txTimeout, retunePending, owed, edge>>

(* supervise(), on its repeating timer: a chip that is up and idle is      *)
(* probed, a radio that is down starts a recovery.                         *)
Supervise ==
  /\ phase = "running" /\ supervised /\ ~recovering
  /\ \/ /\ healthy /\ ~txBusy /\ Fails(chip)
        /\ GoDown
        /\ UNCHANGED <<chip, recovering, recoveryTimer>>
     \/ /\ ~healthy
        /\ StartRecovery(params)
        /\ UNCHANGED <<healthy, retunePending, txBusy, txTimeout, owed>>
  /\ UNCHANGED <<phase, supervised, params, polls, edge, lapsed>>

(* A retune waits for the packet on the air.                               *)
MutRetunesNow == TRUE
RetunesNow == ~txBusy

(* reconfigure() with other settings than the ones in use.                 *)
Reconfigure(p) ==
  /\ phase # "closed" /\ p # params
  /\ params' = p
  /\ \/ /\ phase = "new" \/ (~healthy /\ params # NoFrequency)
        /\ UNCHANGED <<healthy, retunePending, chip, lapsed, recovering, recoveryTimer>>
     \/ /\ healthy /\ ~RetunesNow
        /\ retunePending' = TRUE
        /\ UNCHANGED <<healthy, chip, lapsed, recovering, recoveryTimer>>
     \/ /\ healthy /\ RetunesNow
        /\ Retune(p)
        /\ UNCHANGED <<recovering, recoveryTimer>>
     \/ /\ phase = "running" /\ ~healthy /\ params = NoFrequency
        /\ \/ supervised /\ StartRecovery(p) /\ UNCHANGED <<healthy, lapsed>>
           \/ ~supervised /\ BringUp(p) /\ UNCHANGED <<recovering, recoveryTimer>>
        /\ UNCHANGED retunePending
  /\ UNCHANGED <<phase, supervised, polls, txBusy, txTimeout, owed, edge>>

MutSend ==
  /\ healthy /\ ~txBusy /\ Works(chip)
  /\ chip' = [chip EXCEPT !.mode = "tx", !.irq = {}]
  /\ txBusy' = TRUE /\ owed' = owed + 1
  /\ UNCHANGED <<phase, supervised, params, healthy, recovering, recoveryTimer, polls,
                 txTimeout, retunePending, edge, lapsed>>

(* send(): the chip is loaded and keyed and the timeout armed, or the      *)
(* radio goes down.  A radio that is down or transmitting refuses.         *)
Send ==
  /\ healthy /\ ~txBusy
  /\ \/ /\ Works(chip)
        /\ chip' = [chip EXCEPT !.mode = "tx", !.irq = {}]
        /\ txBusy' = TRUE /\ txTimeout' = TRUE
        /\ owed' = owed + 1
        /\ UNCHANGED <<healthy, retunePending>>
     \/ /\ Fails(chip)
        /\ chip' \in {chip} \cup (IF Works(chip) THEN {[chip EXCEPT !.mode = "standby"]} ELSE {})
        /\ GoDown
  /\ UNCHANGED <<phase, supervised, params, recovering, recoveryTimer, polls, edge, lapsed>>

(* The timeout of send() fires.                                            *)
TxTimeout ==
  /\ txTimeout
  /\ AfterTx
  /\ EndTx
  /\ UNCHANGED <<phase, supervised, params, recovering, recoveryTimer, polls, edge>>

(* handle_tx_done(): only a transmission in flight is ended.               *)
HandleTxDone ==
  IF txBusy
  THEN AfterTx /\ EndTx
  ELSE /\ chip' = [chip EXCEPT !.irq = {}]
       /\ UNCHANGED <<healthy, retunePending, txBusy, txTimeout, owed, lapsed>>

(* A reception, good or bad: handle_rx_done(), or deliver_rx_error().      *)
HandleRx ==
  /\ Works(chip)
  /\ chip' = Receiving(chip)
  /\ UNCHANGED <<healthy, retunePending, txBusy, txTimeout, owed, lapsed>>

(* on_irq(): the event is read; then nothing, if the radio is down or no   *)
(* flag is set; or a command fails; or the flags are handled.              *)
OnIrq ==
  /\ phase = "running" /\ edge
  /\ edge' = FALSE
  /\ \/ /\ ~healthy \/ (Works(chip) /\ chip.irq = {})
        /\ UNCHANGED <<chip, healthy, retunePending, txBusy, txTimeout, owed, lapsed>>
     \/ /\ healthy /\ Fails(chip)
        /\ chip' \in {chip, [chip EXCEPT !.irq = {}]}
        /\ GoDown
        /\ UNCHANGED lapsed
     \/ healthy /\ Works(chip) /\ "TxDone" \in chip.irq /\ HandleTxDone
     \/ healthy /\ chip.irq \cap {"RxDone", "RxError"} # {} /\ "TxDone" \notin chip.irq /\ HandleRx
  /\ UNCHANGED <<phase, supervised, params, recovering, recoveryTimer, polls>>

(* shutdown()                                                              *)
Shutdown ==
  /\ phase = "running"
  /\ phase' = "closed"
  /\ healthy' = FALSE /\ recovering' = FALSE /\ recoveryTimer' = "none"
  /\ txBusy' = FALSE /\ txTimeout' = FALSE /\ retunePending' = FALSE /\ owed' = 0
  /\ chip' \in {chip} \cup (IF healthy /\ Works(chip) THEN {[chip EXCEPT !.mode = "standby"]} ELSE {})
  /\ UNCHANGED <<supervised, params, polls, edge, lapsed>>
-----------------------------------------------------------------------------
(***************************************************************************)
(* The chip's own steps, and its rail and bus.                             *)
(***************************************************************************)
ChipFinishesTx ==
  /\ chip.power /\ chip.mode = "tx"
  /\ chip' = [chip EXCEPT !.mode = "standby", !.irq = @ \cup {"TxDone"}]
  /\ edge' = TRUE
  /\ UNCHANGED <<driver, lapsed>>

ChipReceives(flag) ==
  /\ chip.power /\ chip.mode = "rx" /\ flag \notin chip.irq
  /\ chip' = [chip EXCEPT !.irq = @ \cup {flag}]
  /\ edge' = TRUE
  /\ UNCHANGED <<driver, lapsed>>

PowerOff ==
  /\ chip.power
  /\ chip' = [Reset(chip) EXCEPT !.power = FALSE]
  /\ lapsed' = TRUE
  /\ edge' \in {edge, TRUE}      \* the line floats
  /\ UNCHANGED driver

PowerOn ==
  /\ ~chip.power
  /\ chip' = [chip EXCEPT !.power = TRUE]
  /\ UNCHANGED <<driver, edge, lapsed>>

BusChanges ==
  /\ chip' = [chip EXCEPT !.flaky = ~@]
  /\ UNCHANGED <<driver, edge, lapsed>>
-----------------------------------------------------------------------------
Init ==
  /\ phase = "new" /\ supervised \in BOOLEAN
  /\ params \in Params \cup {NoFrequency}
  /\ healthy = FALSE /\ recovering = FALSE /\ recoveryTimer = "none" /\ polls = 0
  /\ txBusy = FALSE /\ txTimeout = FALSE /\ retunePending = FALSE
  /\ edge = FALSE /\ owed = 0 /\ lapsed = FALSE
  /\ chip \in [power : BOOLEAN, flaky : BOOLEAN, mode : {"standby"}, tuned : {Untuned},
               irq : {{}}]

Environment ==
  \/ ChipFinishesTx
  \/ \E flag \in {"RxDone", "RxError"} : ChipReceives(flag)
  \/ PowerOff \/ PowerOn \/ BusChanges

Next ==
  \/ Begin \/ ReleaseReset \/ PollResetBusy \/ Supervise
  \/ \E p \in Params : Reconfigure(p)
  \/ Send \/ TxTimeout \/ OnIrq \/ Shutdown
  \/ Environment

Spec == Init /\ [][Next]_vars

(* The event loop runs timers that are due and descriptors that are        *)
(* readable.                                                               *)
Fairness ==
  WF_vars(ReleaseReset) /\ WF_vars(PollResetBusy) /\ WF_vars(Supervise)
  /\ WF_vars(TxTimeout) /\ WF_vars(OnIrq)

FairSpec == Spec /\ Fairness
-----------------------------------------------------------------------------
TypeOK ==
  /\ phase \in {"new", "running", "closed"}
  /\ supervised \in BOOLEAN /\ params \in Params \cup {NoFrequency}
  /\ healthy \in BOOLEAN /\ recovering \in BOOLEAN
  /\ recoveryTimer \in {"none", "release", "poll"} /\ polls \in 0 .. MaxPolls
  /\ txBusy \in BOOLEAN /\ txTimeout \in BOOLEAN /\ retunePending \in BOOLEAN
  /\ edge \in BOOLEAN /\ lapsed \in BOOLEAN /\ owed \in 0 .. 1
  /\ chip \in Chips

(* A radio that is up is programmed with the settings last given to        *)
(* reconfigure(), or will be when the packet on the air is done: whatever  *)
(* failed, and whenever the settings changed.  (Not if the rail was cut:   *)
(* see RailCutNoticed.)                                                    *)
SettingsApplied ==
  healthy /\ ~lapsed => (chip.tuned = params \/ (retunePending /\ txBusy))

(* A radio that is up and not transmitting is receiving: no path through a *)
(* transmission, a timeout, a retune or a bad packet leaves it deaf.       *)
ListensWhenIdle == healthy /\ ~txBusy /\ ~lapsed => chip.mode = "rx"

(* While the driver waits for a transmission to end, the chip is on the    *)
(* air, or its TxDone flag is set and the interrupt is still to be read:   *)
(* no retune, probe or stale interrupt cuts a packet short or swallows its *)
(* completion.                                                             *)
CompletionNotLost ==
  txBusy /\ ~lapsed => \/ chip.mode = "tx"
                       \/ "TxDone" \in chip.irq /\ edge

(* A recovery is running exactly while its timer is armed, and only while  *)
(* the radio is down: start_recovery() refuses when recovering_ is set, so *)
(* a flag without a timer would keep the radio down for good.              *)
RecoveryIsArmed ==
  /\ recovering <=> recoveryTimer # "none"
  /\ recovering => ~healthy /\ supervised

(* The driver keeps the promise the dispatcher relies on.                  *)
Contract == INSTANCE RadioContract
              WITH open <- phase = "running", ready <- healthy, busy <- txBusy

ImplementsRadio == Contract!Spec

(* Every transmission ends, on the chip's word, on the timeout, or because *)
(* the radio went down.                                                    *)
EveryTransmissionEnds == txBusy ~> ~txBusy

(* A supervised radio that has a frequency comes up for good once power    *)
(* and bus stay good.                                                      *)
ComesUp ==
  <>[](phase = "running" /\ supervised /\ params # NoFrequency /\ chip.power /\ ~chip.flaky)
    => <>[]healthy

(* The manual page says that the supervision check notices a rail switched *)
(* off while running and brings the radio back when power returns: a       *)
(* powered chip that lost its settings gets them back.                     *)
RailCutNoticed ==
  (supervised /\ healthy /\ lapsed /\ chip.power) ~> (~lapsed \/ ~healthy \/ ~chip.power)
=============================================================================
