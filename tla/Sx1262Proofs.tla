---------------------------- MODULE Sx1262Proofs ----------------------------
(***************************************************************************)
(* What module Sx1262 promises, for any set of settings and any number of  *)
(* polls.                                                                  *)
(***************************************************************************)
EXTENDS Sx1262, TLAPS

(***************************************************************************)
(* How the driver's flags go together.  owed is what makes every accepted  *)
(* packet end in one tx_done; the rest says which flags can be set at all  *)
(* in a radio that is down, closed or not transmitting.                    *)
(***************************************************************************)
Flags ==
  /\ owed = (IF txBusy THEN 1 ELSE 0)
  /\ txTimeout <=> txBusy
  /\ txBusy => healthy
  /\ retunePending => txBusy
  /\ healthy => phase = "running" /\ params # NoFrequency
  /\ recovering => phase = "running" /\ params # NoFrequency

(* Nothing is received during a transmission, so on_irq() does not take a  *)
(* reception for its end.                                                  *)
Deafened == txBusy => chip.mode # "rx" /\ chip.irq \subseteq {"TxDone"}

ChipOK == SettingsApplied /\ ListensWhenIdle /\ CompletionNotLost /\ Deafened

Inv == TypeOK /\ Flags /\ ChipOK /\ RecoveryIsArmed
-----------------------------------------------------------------------------
(* TypeOK in the parts the provers need apart.                             *)
BoolTypes ==
  /\ supervised \in BOOLEAN /\ healthy \in BOOLEAN /\ recovering \in BOOLEAN
  /\ txBusy \in BOOLEAN /\ txTimeout \in BOOLEAN /\ retunePending \in BOOLEAN
  /\ edge \in BOOLEAN /\ lapsed \in BOOLEAN
OtherTypes ==
  /\ phase \in {"new", "running", "closed"}
  /\ params \in Params \cup {NoFrequency}
  /\ recoveryTimer \in {"none", "release", "poll"} /\ polls \in 0 .. MaxPolls
  /\ owed \in 0 .. 1

(* Every command leaves a chip behind, and what it is programmed with.     *)
LEMMA ChipTypes ==
  ASSUME NEW c \in Chips, NEW p \in Params
  PROVE  /\ Reset(c) \in Chips /\ Receiving(c) \in Chips /\ Configured(c, p) \in Chips
         /\ HalfDone(c, p) \subseteq Chips
BY Zenon DEF Chips, Modes, Irqs, Reset, Receiving, Configured, HalfDone

LEMMA ChipUpdates ==
  ASSUME NEW c \in Chips, NEW m \in Modes, NEW i \in SUBSET Irqs, NEW b \in BOOLEAN
  PROVE  /\ [c EXCEPT !.irq = i] \in Chips /\ [c EXCEPT !.mode = m] \in Chips
         /\ [c EXCEPT !.mode = m, !.irq = i] \in Chips
         /\ [c EXCEPT !.power = b] \in Chips /\ [c EXCEPT !.flaky = b] \in Chips
BY Zenon DEF Chips, Modes, Irqs

LEMMA ChipFields ==
  ASSUME NEW c \in Chips, NEW p \in Params
  PROVE  /\ Receiving(c).mode = "rx" /\ Receiving(c).tuned = c.tuned
         /\ Receiving(Configured(c, p)).mode = "rx"
         /\ Receiving(Configured(c, p)).tuned = p
BY DEF Chips, Receiving, Configured

LEMMA InitInv == Init => Inv
<1> SUFFICES ASSUME Init PROVE Inv
  OBVIOUS
<1>1. chip \in Chips
  BY DEF Init, Chips, Modes, Irqs
<1>2. OtherTypes
  BY Sx1262Assumption DEF Init, OtherTypes
<1>3. BoolTypes
  BY Zenon DEF Init, BoolTypes
<1>4. Flags /\ RecoveryIsArmed
  BY DEF Init, Flags, RecoveryIsArmed
<1>5. ChipOK
  BY DEF Init, ChipOK, SettingsApplied, ListensWhenIdle, CompletionNotLost, Deafened
<1> QED
  BY <1>1, <1>2, <1>3, <1>4, <1>5 DEF Inv, TypeOK, BoolTypes, OtherTypes

(* A retune leaves a radio that receives on the new settings, or is down.  *)
LEMMA RetuneSound ==
  ASSUME TypeOK, healthy, NEW p \in Params, Retune(p)
  PROVE  /\ chip' \in Chips /\ lapsed' \in BOOLEAN /\ retunePending' = FALSE
         /\ \/ healthy' = FALSE
            \/ healthy' = TRUE /\ chip'.mode = "rx" /\ chip'.tuned = p
<1>1. chip \in Chips /\ healthy = TRUE /\ lapsed \in BOOLEAN
  BY DEF TypeOK
<1>2. retunePending' = FALSE
  BY DEF Retune
<1>3. CASE chip' = Receiving(Configured(chip, p)) /\ lapsed' = FALSE /\ healthy' = healthy
  BY <1>1, <1>2, <1>3, ChipTypes, ChipFields, Zenon
<1>4. CASE chip' \in HalfDone(chip, p) /\ healthy' = FALSE /\ lapsed' = lapsed
  BY <1>1, <1>2, <1>4, ChipTypes
<1> QED
  BY <1>3, <1>4, Zenon DEF Retune

(* So does the end of a transmission.                                      *)
LEMMA AfterTxSound ==
  ASSUME TypeOK, Flags, ChipOK, txBusy, AfterTx
  PROVE  /\ chip' \in Chips /\ lapsed' \in BOOLEAN /\ retunePending' = FALSE
         /\ \/ healthy' = FALSE
            \/ healthy' = TRUE /\ chip'.mode = "rx" /\ (chip'.tuned = params \/ lapsed')
<1>1. healthy /\ params \in Params
  BY DEF TypeOK, Flags
<1>2. CASE retunePending
  BY <1>1, <1>2, RetuneSound, Zenon DEF AfterTx
<1>3. CASE ~retunePending
  <2>1. chip \in Chips /\ healthy = TRUE /\ lapsed \in BOOLEAN /\ retunePending = FALSE
    BY <1>1, <1>3 DEF TypeOK
  <2>2. lapsed' = lapsed /\ retunePending' = retunePending
    BY <1>3 DEF AfterTx
  <2>3. lapsed \/ chip.tuned = params
    BY <1>1, <1>3 DEF ChipOK, SettingsApplied
  <2>4. CASE chip' = Receiving(chip) /\ healthy' = healthy
    BY <1>1, <2>1, <2>2, <2>3, <2>4, ChipTypes, ChipFields
  <2>5. CASE chip' \in {chip, [chip EXCEPT !.irq = {}]} /\ healthy' = FALSE
    BY <2>1, <2>2, <2>5, ChipUpdates, Zenon DEF Modes
  <2> QED
    BY <1>3, <2>4, <2>5, Zenon DEF AfterTx
<1> QED
  BY <1>2, <1>3, Zenon

LEMMA BeginInv ==
  ASSUME Inv, Begin PROVE Inv'
<1> USE Sx1262Assumption DEF Inv
<1>1. chip' \in Chips
  BY ChipTypes, ChipUpdates, Zenon DEF TypeOK, Flags, RecoveryIsArmed, Begin, StartRecovery, BringUp,
    Modes, Irqs
<1>2. OtherTypes'
  BY DEF TypeOK, OtherTypes, Flags, Begin, StartRecovery, BringUp
<1>3. BoolTypes'
  BY Zenon DEF TypeOK, BoolTypes, Flags, Begin, StartRecovery, BringUp
<1>4. Flags'
  BY DEF TypeOK, Flags, RecoveryIsArmed, Begin, StartRecovery, BringUp
<1>5. healthy' => chip'.mode = "rx" /\ chip'.tuned = params'
  <2>1. CASE ~supervised /\ params # NoFrequency
    <3>1. params \in Params /\ Reset(chip) \in Chips
      BY <2>1, ChipTypes DEF TypeOK
    <3>2. healthy' => chip' = Receiving(Configured(Reset(chip), params)) /\ params' = params
      BY <2>1, Zenon DEF Begin, BringUp, TypeOK, Flags
    <3> QED
      BY <3>1, <3>2, ChipFields
  <2>2. CASE supervised \/ params = NoFrequency
    BY <2>2, Zenon DEF Begin, TypeOK, Flags
  <2> QED
    BY <2>1, <2>2 DEF TypeOK
<1>6. ChipOK'
  BY <1>5, <1>4 DEF ChipOK, SettingsApplied, ListensWhenIdle, CompletionNotLost, Deafened,
    Begin, Flags
<1>7. RecoveryIsArmed'
  BY DEF TypeOK, Flags, RecoveryIsArmed, Begin, StartRecovery, BringUp
<1> QED
  BY <1>1, <1>2, <1>3, <1>4, <1>6, <1>7 DEF TypeOK, BoolTypes, OtherTypes

LEMMA ReleaseResetInv ==
  ASSUME Inv, ReleaseReset PROVE Inv'
<1> USE Sx1262Assumption DEF Inv
<1>1. chip' \in Chips
  BY ChipTypes, ChipUpdates, Zenon DEF TypeOK, Flags, RecoveryIsArmed, ReleaseReset, RecoveryFailed,
    Deadline, Modes, Irqs
<1>2. OtherTypes'
  BY DEF TypeOK, OtherTypes, Flags, ReleaseReset, RecoveryFailed, Deadline
<1>3. BoolTypes'
  BY Zenon DEF TypeOK, BoolTypes, Flags, ReleaseReset, RecoveryFailed, Deadline
<1>4. Flags'
  BY DEF TypeOK, Flags, RecoveryIsArmed, ReleaseReset, RecoveryFailed, Deadline
<1>5. ChipOK'
  BY DEF TypeOK, Flags, RecoveryIsArmed, Chips, ChipOK, SettingsApplied, ListensWhenIdle,
    CompletionNotLost, Deafened, Receiving, Configured, Reset, HalfDone, Works, Fails,
    ReleaseReset, RecoveryFailed, Deadline
<1>6. RecoveryIsArmed'
  BY Zenon DEF TypeOK, Flags, RecoveryIsArmed, ReleaseReset, RecoveryFailed, Deadline
<1> QED
  BY <1>1, <1>2, <1>3, <1>4, <1>5, <1>6 DEF TypeOK, BoolTypes, OtherTypes

LEMMA PollResetBusyInv ==
  ASSUME Inv, PollResetBusy PROVE Inv'
<1> USE Sx1262Assumption DEF Inv
<1>1. /\ phase' = phase /\ supervised' = supervised /\ params' = params
      /\ txBusy' = txBusy /\ txTimeout' = txTimeout /\ retunePending' = retunePending
      /\ owed' = owed /\ edge' = edge
  BY DEF PollResetBusy
<1>2. /\ recovering /\ ~healthy /\ supervised /\ params \in Params /\ phase = "running"
      /\ ~txBusy /\ chip \in Chips
  BY DEF PollResetBusy, RecoveryIsArmed, Flags, TypeOK
<1>3. chip' \in Chips
  BY <1>2, ChipTypes, Zenon DEF PollResetBusy
<1>4. OtherTypes'
  BY <1>1 DEF TypeOK, OtherTypes, PollResetBusy, RecoveryFailed
<1>5. BoolTypes'
  BY <1>1, Zenon DEF TypeOK, BoolTypes, PollResetBusy, RecoveryFailed
<1>6. /\ recovering' <=> recoveryTimer' # "none"
      /\ recovering' => ~healthy'
      /\ healthy' => chip'.mode = "rx" /\ chip'.tuned = params
  <2>1. CASE UNCHANGED <<chip, healthy, recovering, recoveryTimer, lapsed>>
    BY <1>2, <2>1 DEF PollResetBusy
  <2>2. CASE RecoveryFailed /\ UNCHANGED healthy
    BY <1>2, <2>2 DEF RecoveryFailed
  <2>3. CASE /\ chip' = Receiving(Configured(chip, params))
             /\ recovering' = FALSE /\ recoveryTimer' = "none"
    BY <1>2, <2>3, ChipFields
  <2> QED
    BY <2>1, <2>2, <2>3, Zenon DEF PollResetBusy
<1>7. Flags'
  BY <1>1, <1>2 DEF Flags
<1>8. ChipOK'
  BY <1>1, <1>2, <1>6 DEF ChipOK, SettingsApplied, ListensWhenIdle, CompletionNotLost, Deafened
<1>9. RecoveryIsArmed'
  BY <1>1, <1>2, <1>6 DEF RecoveryIsArmed
<1> QED
  BY <1>3, <1>4, <1>5, <1>7, <1>8, <1>9 DEF TypeOK, BoolTypes, OtherTypes

LEMMA SuperviseInv ==
  ASSUME Inv, Supervise PROVE Inv'
<1> USE Sx1262Assumption DEF Inv
<1>1. chip' \in Chips
  BY ChipTypes, ChipUpdates, Zenon DEF TypeOK, Flags, RecoveryIsArmed, Supervise, StartRecovery,
    GoDown, EndTx, Modes, Irqs
<1>2. OtherTypes'
  BY DEF TypeOK, OtherTypes, Flags, Supervise, StartRecovery, GoDown, EndTx
<1>3. BoolTypes'
  BY Zenon DEF TypeOK, BoolTypes, Flags, Supervise, StartRecovery, GoDown, EndTx
<1>4. Flags'
  BY DEF TypeOK, Flags, RecoveryIsArmed, Supervise, StartRecovery, GoDown, EndTx
<1>5. ChipOK'
  BY DEF TypeOK, Flags, RecoveryIsArmed, Chips, ChipOK, SettingsApplied, ListensWhenIdle,
    CompletionNotLost, Deafened, Receiving, Configured, Reset, HalfDone, Works, Fails,
    Supervise, StartRecovery, GoDown, EndTx
<1>6. RecoveryIsArmed'
  BY DEF TypeOK, Flags, RecoveryIsArmed, Supervise, StartRecovery, GoDown, EndTx
<1> QED
  BY <1>1, <1>2, <1>3, <1>4, <1>5, <1>6 DEF TypeOK, BoolTypes, OtherTypes

LEMMA ReconfigureInv ==
  ASSUME Inv, NEW p \in Params, Reconfigure(p) PROVE Inv'
<1> USE Sx1262Assumption DEF Inv
<1>1. chip' \in Chips
  BY ChipTypes DEF TypeOK, Flags, Reconfigure, StartRecovery, BringUp, Retune
<1>2. OtherTypes'
  BY DEF TypeOK, OtherTypes, Reconfigure, StartRecovery, Retune, BringUp
<1>3. BoolTypes'
  BY Zenon DEF TypeOK, BoolTypes, Reconfigure, StartRecovery, BringUp, Retune
<1>4. Flags' /\ RecoveryIsArmed'
  BY DEF TypeOK, Flags, RecoveryIsArmed, Reconfigure, StartRecovery, BringUp, Retune, RetunesNow
<1>5. ChipOK'
  <2> USE DEF ChipOK, SettingsApplied, ListensWhenIdle, CompletionNotLost, Deafened
  <2>1. params' = p /\ txBusy' = txBusy /\ edge' = edge
    BY DEF Reconfigure
  <2>2. chip \in Chips /\ Reset(chip) \in Chips
    BY ChipTypes DEF TypeOK
  <2>3. CASE ~healthy'
    BY <1>4, <2>3 DEF Flags
  <2>4. CASE healthy /\ ~RetunesNow /\ healthy'
    <3>1. txBusy /\ retunePending' /\ chip' = chip /\ lapsed' = lapsed
      BY <2>4 DEF Reconfigure, RetunesNow, Flags
    <3> QED
      BY <2>1, <3>1
  <2>5. CASE healthy /\ RetunesNow /\ healthy'
    <3>1. Retune(p) /\ ~txBusy
      BY <2>5 DEF Reconfigure, RetunesNow, Flags
    <3>2. chip'.mode = "rx" /\ chip'.tuned = p
      BY <2>5, <3>1, RetuneSound, Zenon
    <3> QED
      BY <2>1, <3>1, <3>2
  <2>6. CASE ~healthy /\ healthy'
    <3>1. chip' = Receiving(Configured(Reset(chip), p)) /\ ~txBusy
      BY <2>6, Zenon DEF Reconfigure, BringUp, Flags
    <3>2. chip'.mode = "rx" /\ chip'.tuned = p
      BY <2>2, <3>1, ChipFields
    <3> QED
      BY <2>1, <3>1, <3>2
  <2> QED
    BY <2>3, <2>4, <2>5, <2>6
<1> QED
  BY <1>1, <1>2, <1>3, <1>4, <1>5 DEF TypeOK, BoolTypes, OtherTypes

LEMMA SendInv ==
  ASSUME Inv, Send PROVE Inv'
<1> USE Sx1262Assumption DEF Inv
<1>1. chip' \in Chips
  BY ChipTypes, ChipUpdates, Zenon DEF TypeOK, Send, Modes, Irqs
<1>2. owed = 0
  BY DEF Send, Flags
<1>3. \/ /\ chip' = [chip EXCEPT !.mode = "tx", !.irq = {}]
         /\ txBusy' = TRUE /\ txTimeout' = TRUE /\ healthy' = healthy
         /\ retunePending' = retunePending /\ owed' = 1
      \/ /\ healthy' = FALSE /\ retunePending' = FALSE
         /\ txBusy' = FALSE /\ txTimeout' = FALSE /\ owed' = 0
  <2>1. CASE GoDown
    BY <2>1, <1>2 DEF Send, GoDown, EndTx
  <2>2. CASE /\ chip' = [chip EXCEPT !.mode = "tx", !.irq = {}]
             /\ txBusy' = TRUE /\ txTimeout' = TRUE /\ owed' = owed + 1
             /\ UNCHANGED <<healthy, retunePending>>
    BY <2>2, <1>2
  <2> QED
    BY <2>1, <2>2, Zenon DEF Send
<1>4. /\ phase' = phase /\ supervised' = supervised /\ params' = params /\ polls' = polls
      /\ recovering' = recovering /\ recoveryTimer' = recoveryTimer
      /\ edge' = edge /\ lapsed' = lapsed
  BY DEF Send
<1>5. OtherTypes'
  BY <1>3, <1>4 DEF TypeOK, OtherTypes
<1>6. BoolTypes'
  BY <1>3, <1>4, Zenon DEF TypeOK, BoolTypes
<1>7. Flags'
  BY <1>3, <1>4, Zenon DEF Flags, Send
<1>8. ChipOK'
  <2>1. lapsed \/ chip.tuned = params
    BY DEF ChipOK, SettingsApplied, Send
  <2>2. CASE txBusy' = FALSE /\ healthy' = FALSE
    BY <2>2 DEF ChipOK, SettingsApplied, ListensWhenIdle, CompletionNotLost, Deafened
  <2>3. CASE chip' = [chip EXCEPT !.mode = "tx", !.irq = {}] /\ txBusy' = TRUE
    <3>1. chip'.mode = "tx" /\ chip'.irq = {} /\ chip'.tuned = chip.tuned
      BY <2>3 DEF TypeOK, Chips
    <3> QED
      BY <1>4, <2>1, <2>3, <3>1 DEF ChipOK, SettingsApplied, ListensWhenIdle,
        CompletionNotLost, Deafened
  <2> QED
    BY <1>3, <2>2, <2>3, Zenon
<1>9. RecoveryIsArmed'
  BY <1>3, <1>4 DEF RecoveryIsArmed, Send
<1> QED
  BY <1>1, <1>5, <1>6, <1>7, <1>8, <1>9 DEF TypeOK, BoolTypes, OtherTypes

(* The invariant when a radio that was up ends a transmission, for         *)
(* whatever reason.                                                        *)
LEMMA AfterTransmission ==
  ASSUME Inv, healthy, phase = "running", params # NoFrequency,
         phase' = phase, supervised' = supervised, params' = params, polls' = polls,
         recovering' = recovering, recoveryTimer' = recoveryTimer, edge' \in BOOLEAN,
         txBusy' = FALSE, txTimeout' = FALSE, owed' = 0, retunePending' = FALSE,
         chip' \in Chips, lapsed' \in BOOLEAN,
         \/ healthy' = FALSE
         \/ healthy' = TRUE /\ chip'.mode = "rx" /\ (chip'.tuned = params \/ lapsed')
  PROVE  Inv'
<1>1. OtherTypes'
  BY DEF Inv, TypeOK, OtherTypes
<1>2. BoolTypes'
  BY Zenon DEF Inv, TypeOK, BoolTypes
<1>3. Flags' /\ RecoveryIsArmed'
  BY DEF Inv, Flags, RecoveryIsArmed
<1>4. ChipOK'
  BY DEF ChipOK, SettingsApplied, ListensWhenIdle, CompletionNotLost, Deafened
<1> QED
  BY <1>1, <1>2, <1>3, <1>4 DEF Inv, TypeOK, BoolTypes, OtherTypes

LEMMA TxTimeoutInv ==
  ASSUME Inv, TxTimeout PROVE Inv'
<1> USE Sx1262Assumption DEF Inv
<1>1. txBusy /\ healthy /\ owed = 1 /\ phase = "running" /\ params # NoFrequency
  BY DEF TxTimeout, Flags
<1>2. /\ txBusy' = FALSE /\ txTimeout' = FALSE /\ owed' = 0
  BY <1>1 DEF TxTimeout, EndTx
<1>3. /\ phase' = phase /\ supervised' = supervised /\ params' = params /\ polls' = polls
      /\ recovering' = recovering /\ recoveryTimer' = recoveryTimer /\ edge' = edge
  BY DEF TxTimeout
<1>4. /\ chip' \in Chips /\ lapsed' \in BOOLEAN /\ retunePending' = FALSE
      /\ \/ healthy' = FALSE
         \/ healthy' = TRUE /\ chip'.mode = "rx" /\ (chip'.tuned = params \/ lapsed')
  BY <1>1, AfterTxSound, Zenon DEF TxTimeout
<1> QED
  <2>1. edge' \in BOOLEAN
    BY <1>3 DEF TypeOK
  <2> QED
    BY <1>1, <1>2, <1>3, <1>4, <2>1, AfterTransmission, Zenon

LEMMA OnIrqInv ==
  ASSUME Inv, OnIrq PROVE Inv'
<1> USE Sx1262Assumption DEF Inv
<1>1. /\ phase' = phase /\ supervised' = supervised /\ params' = params /\ polls' = polls
      /\ recovering' = recovering /\ recoveryTimer' = recoveryTimer /\ edge' = FALSE
  BY DEF OnIrq
<1>2. chip \in Chips /\ lapsed \in BOOLEAN
  BY DEF TypeOK
<1>3. CASE UNCHANGED <<chip, healthy, retunePending, txBusy, txTimeout, owed, lapsed>>
           /\ (~healthy \/ (Works(chip) /\ chip.irq = {}))
  <2>1. /\ chip' = chip /\ healthy' = healthy /\ retunePending' = retunePending
        /\ txBusy' = txBusy /\ txTimeout' = txTimeout /\ owed' = owed /\ lapsed' = lapsed
    BY <1>3
  <2>2. OtherTypes'
    BY <1>1, <2>1 DEF TypeOK, OtherTypes
  <2>3. BoolTypes'
    BY <1>1, <2>1, Zenon DEF TypeOK, BoolTypes
  <2>4. Flags' /\ RecoveryIsArmed'
    BY <1>1, <2>1 DEF Flags, RecoveryIsArmed
  <2>5. ChipOK'
    BY <1>1, <2>1, <1>3 DEF Flags, ChipOK, SettingsApplied, ListensWhenIdle,
      CompletionNotLost, Deafened
  <2> QED
    BY <1>2, <2>1, <2>2, <2>3, <2>4, <2>5 DEF TypeOK, BoolTypes, OtherTypes
<1>4. CASE healthy /\ GoDown /\ UNCHANGED lapsed /\ chip' \in {chip, [chip EXCEPT !.irq = {}]}
  <2>1. /\ chip' \in Chips /\ lapsed' \in BOOLEAN /\ healthy' = FALSE /\ retunePending' = FALSE
    BY <1>2, <1>4, ChipUpdates, ZenonT(30) DEF GoDown, Modes
  <2>2. /\ txBusy' = FALSE /\ txTimeout' = FALSE /\ owed' = 0
    BY <1>4 DEF GoDown, EndTx, Flags
  <2>3. phase = "running" /\ params # NoFrequency
    BY <1>4 DEF Flags
  <2> QED
    BY <1>1, <1>4, <2>1, <2>2, <2>3, AfterTransmission, Zenon
<1>5. CASE healthy /\ txBusy /\ AfterTx /\ EndTx
  <2>1. txBusy' = FALSE /\ txTimeout' = FALSE /\ owed' = 0
    BY <1>5 DEF EndTx, Flags
  <2>2. /\ chip' \in Chips /\ lapsed' \in BOOLEAN /\ retunePending' = FALSE
        /\ \/ healthy' = FALSE
           \/ healthy' = TRUE /\ chip'.mode = "rx" /\ (chip'.tuned = params \/ lapsed')
    BY <1>5, AfterTxSound, Zenon
  <2>3. phase = "running" /\ params # NoFrequency
    BY <1>5 DEF Flags
  <2> QED
    BY <1>1, <1>5, <2>1, <2>2, <2>3, AfterTransmission, Zenon
<1>6. CASE /\ healthy /\ ~txBusy /\ chip' \in {Receiving(chip), [chip EXCEPT !.irq = {}]}
           /\ UNCHANGED <<healthy, retunePending, txBusy, txTimeout, owed, lapsed>>
  <2>1. /\ healthy = TRUE /\ healthy' = TRUE /\ retunePending' = FALSE
        /\ txBusy' = FALSE /\ txTimeout' = FALSE
    BY <1>6, Zenon DEF TypeOK, Flags
  <2>2. owed' = 0 /\ lapsed' = lapsed /\ params \in Params
    BY <1>6 DEF Flags, TypeOK
  <2>3. lapsed \/ (chip.tuned = params /\ chip.mode = "rx")
    BY <1>6 DEF ChipOK, SettingsApplied, ListensWhenIdle
  <2>4. /\ chip' \in Chips /\ chip'.tuned = chip.tuned
        /\ chip'.mode = "rx" \/ chip'.mode = chip.mode
    BY <1>2, <1>6, Zenon DEF Receiving, Chips, Modes
  <2>5. OtherTypes'
    BY <1>1, <2>2 DEF TypeOK, OtherTypes
  <2>6. BoolTypes'
    BY <1>1, <1>2, <2>1, <2>2, Zenon DEF TypeOK, BoolTypes
  <2>7. Flags' /\ RecoveryIsArmed'
    BY <1>1, <1>6, <2>1, <2>2 DEF Flags, RecoveryIsArmed
  <2>8. ChipOK'
    BY <1>1, <2>1, <2>2, <2>3, <2>4 DEF ChipOK, SettingsApplied, ListensWhenIdle,
      CompletionNotLost, Deafened
  <2> QED
    BY <2>4, <2>5, <2>6, <2>7, <2>8 DEF TypeOK, BoolTypes, OtherTypes
<1>7. txBusy => chip.irq \cap {"RxDone", "RxError"} = {}
  BY DEF ChipOK, Deafened
<1> QED
  BY <1>3, <1>4, <1>5, <1>6, <1>7 DEF OnIrq, HandleTxDone, HandleRx

LEMMA ShutdownInv ==
  ASSUME Inv, Shutdown PROVE Inv'
<1> USE Sx1262Assumption DEF Inv
<1>1. chip' \in Chips
  BY ChipTypes, ChipUpdates, Zenon DEF TypeOK, Flags, RecoveryIsArmed, Shutdown, Modes, Irqs
<1>2. OtherTypes'
  BY DEF TypeOK, OtherTypes, Flags, Shutdown
<1>3. BoolTypes'
  BY Zenon DEF TypeOK, BoolTypes, Flags, Shutdown
<1>4. Flags'
  BY DEF TypeOK, Flags, RecoveryIsArmed, Shutdown
<1>5. ChipOK'
  BY DEF TypeOK, Flags, RecoveryIsArmed, Chips, ChipOK, SettingsApplied, ListensWhenIdle,
    CompletionNotLost, Deafened, Receiving, Configured, Reset, HalfDone, Works, Fails,
    Shutdown
<1>6. RecoveryIsArmed'
  BY DEF TypeOK, Flags, RecoveryIsArmed, Shutdown
<1> QED
  BY <1>1, <1>2, <1>3, <1>4, <1>5, <1>6 DEF TypeOK, BoolTypes, OtherTypes

LEMMA EnvironmentInv ==
  ASSUME Inv, Environment PROVE Inv'
<1> USE Sx1262Assumption DEF Inv
<1>1. driver' = driver
  BY Zenon DEF Environment, ChipFinishesTx, ChipReceives, PowerOff, PowerOn, BusChanges
<1>2. /\ phase' = phase /\ supervised' = supervised /\ params' = params /\ polls' = polls
      /\ healthy' = healthy /\ recovering' = recovering /\ recoveryTimer' = recoveryTimer
      /\ txBusy' = txBusy /\ txTimeout' = txTimeout /\ retunePending' = retunePending
      /\ owed' = owed
  BY <1>1, Zenon DEF driver
<1>3. chip' \in Chips
  <2> USE DEF TypeOK
  <2>1. CASE ChipFinishesTx
    <3>1. chip.irq \cup {"TxDone"} \in SUBSET Irqs /\ "standby" \in Modes
      BY DEF Chips, Irqs, Modes
    <3> QED
      BY <2>1, <3>1, ChipUpdates, Zenon DEF ChipFinishesTx
  <2>2. CASE \E flag \in {"RxDone", "RxError"} : ChipReceives(flag)
    BY <2>2 DEF ChipReceives, Chips, Modes, Irqs
  <2>3. CASE PowerOff
    BY <2>3, Zenon DEF PowerOff, Reset, Chips, Modes, Irqs
  <2>4. CASE PowerOn \/ BusChanges
    BY <2>4, ZenonT(30) DEF PowerOn, BusChanges, Chips, Modes, Irqs
  <2> QED
    BY <2>1, <2>2, <2>3, <2>4 DEF Environment
<1>4. OtherTypes'
  BY <1>2 DEF TypeOK, OtherTypes
<1>5. BoolTypes'
  BY <1>2, Zenon DEF TypeOK, BoolTypes, Environment, ChipFinishesTx, ChipReceives, PowerOff,
    PowerOn, BusChanges
<1>6. Flags'
  BY <1>2 DEF Flags
<1>7. ChipOK'
  <2> USE <1>2 DEF TypeOK, Flags, ChipOK, SettingsApplied, ListensWhenIdle, CompletionNotLost, Deafened, Chips
  <2>1. CASE ChipFinishesTx
    <3>1. /\ chip'.mode = "standby" /\ chip'.irq = chip.irq \cup {"TxDone"}
          /\ chip'.tuned = chip.tuned /\ chip.mode = "tx"
      BY <2>1 DEF ChipFinishesTx
    <3>2. edge' /\ lapsed' = lapsed
      BY <2>1 DEF ChipFinishesTx
    <3> QED
      BY <3>1, <3>2
  <2>2. CASE \E flag \in {"RxDone", "RxError"} : ChipReceives(flag)
    BY <2>2 DEF ChipReceives
  <2>3. CASE PowerOff
    <3>1. lapsed' /\ chip'.mode = "standby" /\ chip'.irq = {}
      BY <2>3 DEF PowerOff, Reset
    <3> QED
      BY <3>1
  <2>4. CASE PowerOn \/ BusChanges
    BY <2>4 DEF PowerOn, BusChanges
  <2> QED
    BY <2>1, <2>2, <2>3, <2>4 DEF Environment
<1>8. RecoveryIsArmed'
  BY <1>2 DEF RecoveryIsArmed
<1> QED
  BY <1>3, <1>4, <1>5, <1>6, <1>7, <1>8 DEF TypeOK, BoolTypes, OtherTypes

LEMMA NextInv == Inv /\ [Next]_vars => Inv'
<1> SUFFICES ASSUME Inv, [Next]_vars PROVE Inv'
  OBVIOUS
<1>1. CASE UNCHANGED vars
  <2>1. /\ phase' = phase /\ supervised' = supervised /\ params' = params /\ polls' = polls
        /\ healthy' = healthy /\ recovering' = recovering /\ recoveryTimer' = recoveryTimer
        /\ txBusy' = txBusy /\ txTimeout' = txTimeout /\ retunePending' = retunePending
        /\ owed' = owed /\ edge' = edge /\ chip' = chip /\ lapsed' = lapsed
    BY <1>1, Zenon DEF vars, driver
  <2> QED
    BY <2>1, Zenon DEF Inv, TypeOK, Flags, RecoveryIsArmed, ChipOK, SettingsApplied,
      ListensWhenIdle, CompletionNotLost, Deafened
<1>2. CASE \E p \in Params : Reconfigure(p)
  BY <1>2, ReconfigureInv
<1> QED
  BY <1>1, <1>2, BeginInv, ReleaseResetInv, PollResetBusyInv, SuperviseInv, SendInv,
    TxTimeoutInv, OnIrqInv, ShutdownInv, EnvironmentInv DEF Next

LEMMA Invariance == Spec => []Inv
BY InitInv, NextInv, PTL DEF Spec
-----------------------------------------------------------------------------
(* The driver's state keeps its type: the flags, the one transmission that *)
(* can be owed a tx_done, the polls within the deadline.                   *)
THEOREM TypeCorrect == Spec => []TypeOK
<1>1. Inv => TypeOK
  BY DEF Inv
<1> QED
  BY <1>1, Invariance, PTL

(* For any settings, a radio that is up works with the latest ones given   *)
(* to reconfigure(), or will when the packet on the air is done.           *)
THEOREM AlwaysOnTheLatestSettings == Spec => []SettingsApplied
<1>1. Inv => SettingsApplied
  BY DEF Inv, ChipOK
<1> QED
  BY <1>1, Invariance, PTL

(* A radio that is up and idle is never left deaf.                         *)
THEOREM NeverDeaf == Spec => []ListensWhenIdle
<1>1. Inv => ListensWhenIdle
  BY DEF Inv, ChipOK
<1> QED
  BY <1>1, Invariance, PTL

(* The end of a transmission the driver waits for is still to come, or is  *)
(* latched with its interrupt pending.                                     *)
THEOREM CompletionComes == Spec => []CompletionNotLost
<1>1. Inv => CompletionNotLost
  BY DEF Inv, ChipOK
<1> QED
  BY <1>1, Invariance, PTL

(* recovering_ is never left set without the timer that would clear it.    *)
THEOREM RecoveryNeverWedged == Spec => []RecoveryIsArmed
<1>1. Inv => RecoveryIsArmed
  BY DEF Inv
<1> QED
  BY <1>1, Invariance, PTL

-----------------------------------------------------------------------------
(***************************************************************************)
(* The driver implements the contract: each of its steps takes, ends or    *)
(* abandons a packet, changes whether the radio is ready, or is none of    *)
(* the dispatcher's business.                                              *)
(***************************************************************************)
LEMMA StepRefines ==
  ASSUME Inv, [Next]_vars PROVE [Contract!Next]_(Contract!vars)
<1> USE DEF Contract!vars, Contract!Next
<1>1. /\ healthy \in BOOLEAN /\ txBusy \in BOOLEAN /\ owed = (IF txBusy THEN 1 ELSE 0)
      /\ txBusy => healthy
      /\ healthy => phase = "running"
  BY DEF Inv, TypeOK, Flags
<1>2. CASE UNCHANGED <<phase, healthy, txBusy, owed>>
  BY <1>2
<1>3. CASE Begin
  BY <1>1, <1>3, Zenon DEF Begin, StartRecovery, BringUp, Contract!Begin
<1>4. CASE PollResetBusy
  BY <1>1, <1>4, Zenon DEF PollResetBusy, Contract!ComeUp, Inv, RecoveryIsArmed, Flags
<1>5. CASE Supervise
  BY <1>1, <1>5, Zenon DEF Supervise, GoDown, EndTx, Contract!GoDown
<1>6. CASE Send
  BY <1>1, <1>6, Zenon DEF Send, GoDown, EndTx, Contract!Taken, Contract!GoDown
<1>7. CASE TxTimeout
  <2>1. txBusy
    BY <1>7 DEF TxTimeout, Inv, Flags
  <2>2. healthy' \in BOOLEAN
    BY <1>7, <2>1, AfterTxSound, Zenon DEF TxTimeout, Inv
  <2>3. phase' = phase /\ ~txBusy' /\ owed' = owed - 1
    BY <1>7, <2>1 DEF TxTimeout, EndTx
  <2>4. txBusy' = FALSE
    BY <1>7 DEF TxTimeout, EndTx
  <2> QED
    BY <2>1, <2>2, <2>3, <2>4, Zenon DEF Contract!TxDone
<1>8. CASE OnIrq
  BY <1>1, <1>8, Zenon DEF OnIrq, HandleTxDone, HandleRx, GoDown, AfterTx, Retune, EndTx,
    Contract!TxDone, Contract!GoDown
<1>9. CASE Shutdown
  BY <1>1, <1>9 DEF Shutdown, Contract!Close
<1>10. CASE \E p \in Params : Reconfigure(p)
  BY <1>1, <1>10 DEF Reconfigure, Retune, RetunesNow, StartRecovery, BringUp, Contract!GoDown,
    Contract!ComeUp
<1>11. CASE ReleaseReset \/ Environment \/ UNCHANGED vars
  BY <1>2, <1>11, Zenon DEF ReleaseReset, Environment, ChipFinishesTx, ChipReceives, PowerOff,
    PowerOn, BusChanges, driver, vars
<1> QED
  BY <1>3, <1>4, <1>5, <1>6, <1>7, <1>8, <1>9, <1>10, <1>11 DEF Next

(* The SX1262 driver keeps the promise of radio.h that the dispatcher      *)
(* builds on, whatever the chip, its rail and its bus do.                  *)
THEOREM DriverImplementsRadio == Spec => ImplementsRadio
<1>1. Init => Contract!Init
  BY DEF Init, Contract!Init
<1> QED
  BY <1>1, Invariance, StepRefines, PTL DEF Spec, ImplementsRadio, Contract!Spec

=============================================================================
