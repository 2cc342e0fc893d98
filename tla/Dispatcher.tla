----------------------------- MODULE Dispatcher -----------------------------
(***************************************************************************)
(* The packet dispatcher of src/mesh/dispatcher.cpp: the priority transmit *)
(* queue, the pump that feeds the radio from it, the pump timer, the       *)
(* duty-cycle account and the dedup table, above a radio that may go down, *)
(* refuse a packet, lose a transmission or hear somebody else.             *)
(*                                                                         *)
(* Every callback of the daemon runs to completion on one thread, so each  *)
(* is one action.  The millisecond clock is not a variable: the code reads *)
(* it only in differences, and every deadline is kept as the time that     *)
(* remains (0: reached).  Tick lets one unit pass, whether or not a timer  *)
(* is due, because poll() returns late.                                    *)
(***************************************************************************)
EXTENDS Integers, Sequences, DutyCycle

CONSTANTS QueueLimit,         \* queue_limit_
          ExpiryPerPriority,  \* kExpiryPerPriorityMs
          SeenTtl,            \* kSeenTtlMs
          Jitter,             \* kJitterMs
          BusyRetry,          \* kChannelBusyRetryMs
          BusyJitter,         \* kChannelBusyJitterMs
          BusyMax,            \* kChannelBusyMaxMs
          DownRecheck,        \* kRadioDownRecheckMs
          DutyRecheck,        \* the 30000 ms cap on a duty-cycle hold
          TxRetry,            \* the 20 ms retry after a refused packet
          Hashes,             \* dedup hashes
          Traffic,            \* what the callers of send() send
          Budgets,            \* duty-cycle budgets the app may configure
          MaxSends            \* bound: how many packets are ever queued

(* The table outlives the longest wait in the queue, and no delay is zero: *)
(* 60000 >= 10000 * 6 with the constants of the code.                      *)
ASSUME DispatcherAssumption ==
  /\ {QueueLimit, ExpiryPerPriority, SeenTtl, BusyRetry, BusyJitter, BusyMax,
      DownRecheck, DutyRecheck, TxRetry} \subseteq Nat \ {0}
  /\ {Jitter, MaxSends} \subseteq Nat
  /\ Traffic \subseteq [hash : Hashes, airtime : Nat, priority : Nat \ {0}, delay : Nat]
  /\ \A p \in Traffic : ExpiryPerPriority * p.priority <= SeenTtl
  /\ Budgets \subseteq Nat \cup {Unlimited}

VARIABLES queue,    \* queue_
          nextSeq,  \* next_seq_
          timer,    \* pump_timer_: time until it is due, or NoTimer
          busyFor,  \* time since busy_since_ms_ (at most BusyMax), or NotBusy
          seen,     \* seen_: time until each entry expires, or Unseen
          spent,    \* duty_: airtime by age
          budget,   \* duty_'s percentage, as a budget
          radio,    \* radio_: is it ready, tuned, hearing a packet?
          onAir,    \* the packet the radio is transmitting, if any
          results,  \* history: the on_result calls made for each packet
          refused   \* history: the radio has refused a packet

vars == <<queue, nextSeq, timer, busyFor, seen, spent, budget, radio, onAir, results, refused>>

NoTimer == -1
NotBusy == -1
Unseen  == -1

Ids == 0 .. MaxSends - 1

Entries == [hash : Hashes, airtime : Nat, priority : Nat \ {0},
            expiry : Nat, notBefore : Nat, seq : Ids]

Queued(q) == {q[i].seq : i \in DOMAIN q}

(* erase() and insert() of queue_.                                         *)
Erase(q, i)     == SubSeq(q, 1, i - 1) \o SubSeq(q, i + 1, Len(q))
Insert(q, i, e) == SubSeq(q, 1, i - 1) \o <<e>> \o SubSeq(q, i, Len(q))

Expired(e) == e.expiry = 0
Ready(e)   == e.notBefore = 0

(* tx_busy()                                                               *)
MutNeverBusy == FALSE
TxBusy == onAir # <<>>

(* Calls on_result(ok) for the packets of ids.                             *)
Tell(res, ids, ok) ==
  [s \in Ids |-> IF s \in ids THEN Append(res[s], ok) ELSE res[s]]

(* schedule_pump(): keeps a timer that wakes no later.                     *)
SchedulePump(t, delay) == IF t # NoTimer /\ delay >= t THEN t ELSE delay

(* check_and_mark_seen(): a duplicate is refreshed, anything else entered. *)
MarkSeen(hash) == [seen EXCEPT ![hash] = SeenTtl]
-----------------------------------------------------------------------------
(***************************************************************************)
(* pump(), from the state its caller has reached: the queue q, the answers *)
(* res given so far, the timer t, the radio r and the budget b.            *)
(***************************************************************************)
Rest(q, res, t, r) ==
  /\ queue' = q /\ results' = res /\ timer' = t /\ radio' = r

(* The expired packets at the front, n of them, are dropped.               *)
MutSweepOne(q, n)  == n = IF q # <<>> /\ Expired(q[1]) THEN 1 ELSE 0
MutSweepWhenUp(q, n) ==
  IF ~radio.ready /\ radio.hasFrequency THEN n = 0
  ELSE /\ \A i \in 1 .. n : Expired(q[i])
       /\ n < Len(q) => ~Expired(q[n + 1])
Swept(q, n) ==
  /\ \A i \in 1 .. n : Expired(q[i])
  /\ n < Len(q) => ~Expired(q[n + 1])

(* A packet the radio refused goes back to the front.                      *)
MutPutBack(q, i) == <<q[i]>> \o q
PutBack(q, i) == <<q[i]>> \o Erase(q, i)

(* The channel is busy and has not been for too long: look again shortly.  *)
Defer(q, res, t, r) ==
  LET since == IF busyFor = NotBusy THEN 0 ELSE busyFor
  IN  /\ r.hearing
      /\ since < BusyMax
      /\ busyFor' = since
      /\ \E d \in BusyRetry .. BusyRetry + BusyJitter - 1 :
           Rest(q, res, SchedulePump(t, d), r)
      /\ UNCHANGED <<onAir, refused>>

(* The channel is quiet, or has been busy for long enough: key up.  The    *)
(* radio takes the packet, or fails on the way and is marked down.         *)
Transmit(q, i, res, t, r) ==
  /\ r.hearing => busyFor >= BusyMax
  /\ busyFor' = NotBusy
  /\ \/ /\ onAir' = <<q[i]>>
        /\ Rest(Erase(q, i), Tell(res, {q[i].seq}, TRUE), t, r)
        /\ UNCHANGED refused
     \/ /\ Rest(PutBack(q, i), res, SchedulePump(t, TxRetry),
                [r EXCEPT !.ready = FALSE])
        /\ refused' = TRUE
        /\ UNCHANGED onAir

(* The first packet whose backoff is over, if the duty cycle has room.     *)
PumpReady(q, i, res, t, r, b) ==
  LET wait == WaitMs(spent, b, q[i].airtime)
  IN  \/ /\ wait > 0
         /\ Rest(q, res, SchedulePump(t, Min({wait, DutyRecheck})), r)
         /\ UNCHANGED <<busyFor, onAir, refused>>
      \/ wait = 0 /\ Defer(q, res, t, r)
      \/ wait = 0 /\ Transmit(q, i, res, t, r)

(* q is what is left once the expired packets at the front are dropped.    *)
PumpLive(q, res, t, r, b) ==
  \/ /\ q = <<>>
     /\ Rest(q, res, t, r)
     /\ UNCHANGED <<busyFor, onAir, refused>>
  \/ /\ q # <<>>
     /\ ~(r.ready /\ r.hasFrequency)
     /\ Rest(q, res, SchedulePump(t, DownRecheck), r)
     /\ UNCHANGED <<busyFor, onAir, refused>>
  \/ /\ r.ready /\ r.hasFrequency
     /\ \A i \in DOMAIN q : ~Ready(q[i])
     /\ \E soonest \in {q[i].notBefore : i \in DOMAIN q} :
          /\ \A i \in DOMAIN q : soonest <= q[i].notBefore
          /\ Rest(q, res, SchedulePump(t, soonest), r)
     /\ UNCHANGED <<busyFor, onAir, refused>>
  \/ /\ r.ready /\ r.hasFrequency
     /\ \E i \in DOMAIN q :
          /\ Ready(q[i])
          /\ \A j \in 1 .. i - 1 : ~Ready(q[j])
          /\ PumpReady(q, i, res, t, r, b)

Pump(q, res, t, r, b) ==
  \/ /\ q = <<>> \/ TxBusy
     /\ Rest(q, res, t, r)
     /\ UNCHANGED <<busyFor, onAir, refused>>
  \/ /\ q # <<>> /\ ~TxBusy
     /\ \E n \in 0 .. Len(q) :
          /\ Swept(q, n)
          /\ PumpLive(SubSeq(q, n + 1, Len(q)), Tell(res, Queued(SubSeq(q, 1, n)), FALSE),
                      t, r, b)
-----------------------------------------------------------------------------
(* The order of the queue: priority, then expiry, then arrival.            *)
MutPrecedes(a, b) == a.expiry < b.expiry \/ (a.expiry = b.expiry /\ a.seq < b.seq)
Precedes(a, b) ==
  \/ a.priority < b.priority
  \/ a.priority = b.priority /\ a.expiry < b.expiry
  \/ a.priority = b.priority /\ a.expiry = b.expiry /\ a.seq < b.seq

(* std::upper_bound(): where a bisection of the queue can end.  That is    *)
(* one place when the queue is sorted, and unspecified when a refused      *)
(* packet has been put back at the front.                                  *)
UpperBounds(q, e) ==
  {p \in 1 .. Len(q) + 1 : /\ p > 1 => ~Precedes(e, q[p - 1])
                           /\ p <= Len(q) => Precedes(e, q[p])}

Overflows(q) == Len(q) > QueueLimit

(* The oldest of the least urgent packets.                                 *)
IsVictim(q, v) ==
  \A i \in DOMAIN q : \/ q[i].priority < q[v].priority
                      \/ q[i].priority = q[v].priority /\ q[v].seq <= q[i].seq

(* send(), for a packet that is valid() (any other changes nothing).       *)
Send(p) ==
  LET e == [hash |-> p.hash, airtime |-> p.airtime, priority |-> p.priority,
            expiry |-> ExpiryPerPriority * p.priority, notBefore |-> p.delay,
            seq |-> nextSeq]
  IN  /\ nextSeq < MaxSends
      /\ nextSeq' = nextSeq + 1
      /\ seen' = MarkSeen(p.hash)
      /\ \E pos \in UpperBounds(queue, e) :
           LET q == Insert(queue, pos, e)
           IN  \/ /\ ~Overflows(q)
                  /\ Pump(q, results, timer, radio, budget)
               \/ /\ Overflows(q)
                  /\ \E v \in DOMAIN q :
                       /\ IsVictim(q, v)
                       /\ Pump(Erase(q, v), Tell(results, {q[v].seq}, FALSE),
                               timer, radio, budget)
      /\ UNCHANGED <<spent, budget>>

(* The pump timer's callback.                                              *)
PumpTimer ==
  /\ timer = 0
  /\ Pump(queue, results, NoTimer, radio, budget)
  /\ UNCHANGED <<nextSeq, seen, spent, budget>>

(* on_radio_rx() for a packet that decodes, new or not.                    *)
Receive(hash) ==
  /\ seen' = MarkSeen(hash)
  /\ UNCHANGED <<queue, nextSeq, timer, busyFor, spent, budget, radio, onAir, results, refused>>

(* expire_seen()                                                           *)
ExpireSeen ==
  /\ seen' = [h \in Hashes |-> IF seen[h] = 0 THEN Unseen ELSE seen[h]]
  /\ UNCHANGED <<queue, nextSeq, timer, busyFor, spent, budget, radio, onAir, results, refused>>

(* reconfigure(): the budget, then the radio (see Reconfigured), then the  *)
(* pump.                                                                   *)
Reconfigured(r) ==
  IF TxBusy THEN {r}
  ELSE IF r.ready THEN {r, [r EXCEPT !.ready = FALSE]}
  ELSE IF r.hasFrequency THEN {r}
  ELSE {[r EXCEPT !.hasFrequency = TRUE],
        [r EXCEPT !.hasFrequency = TRUE, !.ready = TRUE]}

Reconfigure(b) ==
  /\ budget' = b
  /\ \E r \in Reconfigured(radio) : Pump(queue, results, timer, r, b)
  /\ UNCHANGED <<nextSeq, seen, spent>>
-----------------------------------------------------------------------------
(***************************************************************************)
(* The radio underneath (src/radio/sx1262.cpp), and the clock.             *)
(***************************************************************************)
(* on_radio_tx_done(): accounts for the airtime and spreads out the next   *)
(* transmission.  The radio may have failed on its way back to receiving.  *)
TxDone(airtime) ==
  /\ onAir # <<>>
  /\ onAir' = <<>>
  /\ spent' = Record(spent, airtime)
  /\ \E d \in 1 .. 1 + Jitter : timer' = SchedulePump(timer, d)
  /\ \E up \in BOOLEAN : radio' = [radio EXCEPT !.ready = @ /\ up]
  /\ UNCHANGED <<queue, nextSeq, busyFor, seen, budget, results, refused>>

(* The transmission ends, and the driver reports the time it took.         *)
Transmitted == \E i \in DOMAIN onAir : TxDone(onAir[i].airtime)

(* The transmission is lost to a timeout or an I/O failure, and the driver *)
(* reports no airtime.                                                     *)
TransmitLost == TxDone(0)

RadioDown ==
  /\ radio.ready /\ onAir = <<>>
  /\ radio' = [radio EXCEPT !.ready = FALSE]
  /\ UNCHANGED <<queue, nextSeq, timer, busyFor, seen, spent, budget, onAir, results, refused>>

RadioUp ==
  /\ ~radio.ready /\ radio.hasFrequency
  /\ radio' = [radio EXCEPT !.ready = TRUE]
  /\ UNCHANGED <<queue, nextSeq, timer, busyFor, seen, spent, budget, onAir, results, refused>>

ChannelChanges ==
  /\ radio' = [radio EXCEPT !.hearing = ~@]
  /\ UNCHANGED <<queue, nextSeq, timer, busyFor, seen, spent, budget, onAir, results, refused>>

Less(n) == IF n > 0 THEN n - 1 ELSE n

Tick ==
  /\ queue' = [i \in DOMAIN queue |->
                 [queue[i] EXCEPT !.expiry = Less(@), !.notBefore = Less(@)]]
  /\ timer' = Less(timer)
  /\ busyFor' = IF busyFor = NotBusy \/ busyFor = BusyMax THEN busyFor ELSE busyFor + 1
  /\ seen' = [h \in Hashes |-> Less(seen[h])]
  /\ spent' = Aged(spent)
  /\ UNCHANGED <<nextSeq, budget, radio, onAir, results, refused>>
-----------------------------------------------------------------------------
Init ==
  /\ queue = <<>> /\ nextSeq = 0 /\ onAir = <<>>
  /\ timer = NoTimer
  /\ busyFor = NotBusy
  /\ seen = [h \in Hashes |-> Unseen]
  /\ spent = NothingSpent
  /\ budget \in Budgets
  /\ \E freq \in BOOLEAN : radio = [ready |-> FALSE, hasFrequency |-> freq, hearing |-> FALSE]
  /\ results = [s \in Ids |-> <<>>]
  /\ refused = FALSE

Step ==
  \/ \E p \in Traffic : Send(p)
  \/ PumpTimer
  \/ \E h \in Hashes : Receive(h)
  \/ ExpireSeen
  \/ \E b \in Budgets : Reconfigure(b)
  \/ Transmitted
  \/ TransmitLost
  \/ RadioDown
  \/ RadioUp
  \/ ChannelChanges

Next == Step \/ Tick

Spec == Init /\ [][Next]_vars

(* The event loop runs a timer that is due, time passes, and the driver's  *)
(* own timeout ends every transmission.  Nothing is assumed of the radio   *)
(* coming back, of the channel going quiet or of the callers.              *)
Fairness ==
  /\ WF_vars(Tick)
  /\ WF_vars(PumpTimer)
  /\ WF_vars(Transmitted \/ TransmitLost)

FairSpec == Spec /\ Fairness
-----------------------------------------------------------------------------
(***************************************************************************)
(* Properties                                                              *)
(***************************************************************************)
TypeOK ==
  /\ queue \in Seq(Entries) /\ Len(queue) <= QueueLimit
  /\ nextSeq \in 0 .. MaxSends
  /\ timer \in Nat \cup {NoTimer}
  /\ busyFor \in 0 .. BusyMax \cup {NotBusy}
  /\ seen \in [Hashes -> Nat \cup {Unseen}]
  /\ spent \in [Ages -> Nat]
  /\ budget \in Budgets
  /\ radio \in [ready : BOOLEAN, hasFrequency : BOOLEAN, hearing : BOOLEAN]
  /\ onAir \in Seq(Entries) /\ Len(onAir) <= 1
  /\ results \in [Ids -> Seq(BOOLEAN)]
  /\ refused \in BOOLEAN

(* on_result is called exactly once for a queued packet (dispatcher.h,     *)
(* TxResultHandler): not at all while the packet waits, and once and for   *)
(* all by the step that takes it out of the queue, whatever that step is.  *)
ExactlyOnce ==
  /\ \A s \in Ids :
       Len(results[s]) = IF s < nextSeq /\ s \notin Queued(queue) THEN 1 ELSE 0
  /\ \A i, j \in DOMAIN queue : queue[i].seq = queue[j].seq => i = j

(* pump() leaves no packet behind without something that will call it      *)
(* again: the end of the transmission on the air, or the pump timer.       *)
NoStall == queue # <<>> => onAir # <<>> \/ timer # NoTimer

(* While a packet of ours waits in the queue and has not expired, hearing  *)
(* a copy of it is hearing a duplicate: the dedup entry send() made lasts  *)
(* at least as long as the packet.                                         *)
QueuedIsSeen ==
  \A i \in DOMAIN queue : ~Expired(queue[i]) => seen[queue[i].hash] >= queue[i].expiry

(* A transmission starts.                                                  *)
KeysUp == onAir = <<>> /\ onAir' # <<>>

(* As long as the radio has refused no packet, the packet handed to it is  *)
(* at least as urgent as every packet left whose backoff is over.          *)
UrgentFirstStep ==
  KeysUp /\ ~refused =>
    \A i \in DOMAIN queue' : Ready(queue'[i]) => onAir'[1].priority <= queue'[i].priority

(* Overflow sacrifices the least urgent, oldest first: a packet answered   *)
(* false before it expired is no more urgent than any packet kept, and is  *)
(* older than those of its own priority.                                   *)
EvictionStep ==
  \A i \in DOMAIN queue :
    LET e == queue[i]
    IN  ~Expired(e) /\ results[e.seq] = <<>> /\ results'[e.seq] = <<FALSE>> =>
          \A j \in DOMAIN queue' : \/ queue'[j].priority < e.priority
                                   \/ queue'[j].priority = e.priority /\ e.seq < queue'[j].seq

(* A priority transmit queue: urgency decides which packet is sent and     *)
(* which is sacrificed, through every refill, retry and expiry (send() and *)
(* pump()).                                                                *)
UrgencyKept == [][UrgentFirstStep /\ EvictionStep]_vars

(* A packet that has expired is transmitted only when a packet in front of *)
(* it is still backing off, which hides it from the sweep of pump().       *)
StaleOnlyBehindBackoffStep ==
  KeysUp /\ Expired(onAir'[1]) =>
    \E i \in DOMAIN queue' : ~Expired(queue'[i]) /\ ~Ready(queue'[i])

StaleOnlyBehindBackoff == [][StaleOnlyBehindBackoffStep]_vars

(* The airtime recorded in the last Window ticks, with the packet on the   *)
(* air, stays within a budget that does not change.                        *)
WithinBudget ==
  budget # Unlimited /\ Budgets = {budget} =>
    SpentSince(spent, 0) - spent[Window] + (IF onAir = <<>> THEN 0 ELSE onAir[1].airtime) <= budget

(* Every packet send() accepts is answered in the end: transmitted, or     *)
(* dropped, whatever the radio and the channel do.                         *)
EveryPacketAnswered == \A s \in Ids : s \in Queued(queue) ~> s \notin Queued(queue)

(* The dispatcher implements the promise of TxQueue.                       *)
Answered(ok) == {s \in Ids : \E i \in DOMAIN results[s] : results[s][i] = ok}

Promise == INSTANCE TxQueue WITH
  accepted <- nextSeq, waiting <- Queued(queue),
  sent <- Answered(TRUE), dropped <- Answered(FALSE), busy <- onAir # <<>>

ImplementsTxQueue == Promise!Spec
=============================================================================
