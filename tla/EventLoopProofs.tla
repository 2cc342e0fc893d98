-------------------------- MODULE EventLoopProofs ---------------------------
(***************************************************************************)
(* Proofs about EventLoop: nothing that is over is called, no timer runs   *)
(* early, a watch gets its own events only, and poll() does not sleep past *)
(* a timer, for any clock, timers and descriptors and any callbacks.       *)
(***************************************************************************)
EXTENDS EventLoop, WellFoundedInduction, TLAPS

(***************************************************************************)
(* The invariant.  OnTime is the heart of it: when delays are short, what  *)
(* the wrapped clock makes of a live timer is the real time left to it,    *)
(* which stays within half of the clock's range.                           *)
(***************************************************************************)
Clock == 0 .. Modulus - 1
Timer == [due : Clock, dead : BOOLEAN, interval : Nat]
Watch == [fd : Fds, dead : BOOLEAN]

Typed ==
  /\ now \in Clock /\ read \in Clock
  /\ nextTimer \in 1 .. MaxTimers + 1 /\ nextWatch \in 1 .. MaxWatches + 1
  /\ timers \in [DOMAIN timers -> Timer] /\ DOMAIN timers \subseteq 1 .. nextTimer - 1
  /\ watches \in [DOMAIN watches -> Watch] /\ DOMAIN watches \subseteq 1 .. nextWatch - 1
  /\ polled \in [DOMAIN polled -> Fds] /\ DOMAIN polled \subseteq WatchIds
  /\ due \subseteq 1 .. nextTimer - 1
  /\ left \in [TimerIds -> Int]
  /\ sleep \in Forever .. MaxSleep

Over ==
  /\ \A id : <<"timer", id>> \in gone \/ id \in fired =>
       id \in 1 .. nextTimer - 1 /\ id \notin Live(timers)
  /\ \A id : <<"watch", id>> \in gone => id \in 1 .. nextWatch - 1 /\ id \notin Live(watches)
  /\ Nobody \notin gone

Keeps(timer, rest, clock) ==
  /\ 0 - Half < rest /\ rest < Half /\ timer.interval < Half
  /\ timer.due = (clock + rest) % Modulus

OnTime == ShortDelays => \A id \in Live(timers) : Keeps(timers[id], left[id], now)

(* What a round found due had no time left when it read the clock.         *)
Overdue ==
  ShortDelays => \A id \in due \cap Live(timers) : left[id] + ((now - read) % Modulus) <= 0

Awake == \A id \in Live(timers) : sleep \in Nat /\ (sleep = 0 \/ sleep <= left[id])

Polling == /\ ShortDelays /\ pc = "poll" => Awake
           /\ running # Nobody => pc \in {"fds", "timers"}

Inv == Typed /\ Over /\ OnTime /\ Overdue /\ Polling
-----------------------------------------------------------------------------
LEMMA Constants ==
  /\ Modulus \in Nat /\ Modulus > 2 /\ Half \in Nat /\ 2 * Half = Modulus
  /\ MaxTimers \in Nat \ {0} /\ MaxWatches \in Nat \ {0} /\ MaxOps \in Nat /\ MaxSleep \in Nat
  /\ \A d \in Delays : d \in Nat /\ (ShortDelays => d < Half)
  BY LoopAssumption DEF Half, ShortDelays

(* Numbers within one turn of the clock.                                   *)
LEMMA Mod ==
  ASSUME NEW a \in Int, NEW m \in Nat, m > 0
  PROVE  /\ 0 <= a /\ a < m => a % m = a
         /\ m <= a /\ a < 2 * m => a % m = a - m
         /\ 0 - m <= a /\ a < 0 => a % m = a + m
  OBVIOUS

LEMMA InClock == \A a \in Int : a % Modulus \in Clock
  BY Constants DEF Clock

LEMMA Least ==
  ASSUME NEW T, T \subseteq Nat, T # {}
  PROVE  \E x \in T : \A y \in T : x <= y
<1> DEFINE R == {p \in Nat \X Nat : p[1] < p[2]}
<1>1. IsWellFoundedOn(R, Nat)
  BY NatLessThanWellFounded, Zenon DEF OpToRel
<1> HIDE DEF R
<1>2. PICK x \in T : \A y \in T : ~ (<<y, x>> \in R)
  BY <1>1, WFMin, Zenon
<1>3. ASSUME NEW y \in T, y < x PROVE FALSE
  <2>1. <<y, x>> \in R
    BY <1>3 DEF R
  <2> QED  BY <1>2, <2>1
<1> QED  BY <1>3

(* The signed distance undoes the wrap, within half of the clock's range.  *)
LEMMA UntilIsLeft ==
  ASSUME NEW clock \in Clock, NEW r \in Int, 0 - Half < r, r < Half
  PROVE  /\ (clock + r) % Modulus \in Clock
         /\ Until((clock + r) % Modulus, clock) = r
<1> DEFINE t == (clock + r) % Modulus
<1>1. /\ t \in Clock
      /\ t = clock + r \/ t = clock + r - Modulus \/ t = clock + r + Modulus
  BY Constants, Mod DEF Clock
<1> HIDE DEF t
<1>2. (t - clock) % Modulus = IF r >= 0 THEN r ELSE r + Modulus
  BY <1>1, Constants, Mod DEF Clock
<1> QED  BY <1>1, <1>2, Constants DEF Until, t

LEMMA OneOn ==
  ASSUME NEW clock \in Clock
  PROVE  /\ (clock + 1) % Modulus \in Clock
         /\ (clock + 1) % Modulus = IF clock = Modulus - 1 THEN 0 ELSE clock + 1
<1>1. CASE clock = Modulus - 1
  BY <1>1, Constants, Mod DEF Clock
<1>2. CASE clock # Modulus - 1
  BY <1>2, Constants, Mod DEF Clock
<1> QED  BY <1>1, <1>2

LEMMA UntilInHalf ==
  ASSUME NEW t \in Clock, NEW clock \in Clock
  PROVE  Until(t, clock) \in Int /\ Until(t, clock) + Half \in Nat
<1>1. (t - clock) % Modulus \in Clock
  BY InClock DEF Clock
<1> QED  BY <1>1, Constants DEF Until, Clock

(* Time passes: the clock one on, the time left one less.                  *)
LEMMA TickMod ==
  ASSUME NEW clock \in Clock, NEW r \in Int, 0 - Half < r, r < Half
  PROVE  /\ (clock + 1) % Modulus \in Clock
         /\ (((clock + 1) % Modulus) + (r - 1)) % Modulus = (clock + r) % Modulus
<1> DEFINE t == (clock + 1) % Modulus
<1>1. t \in Clock /\ t = IF clock = Modulus - 1 THEN 0 ELSE clock + 1
  BY OneOn
<1> HIDE DEF t
<1>2. (t + (r - 1)) % Modulus = (clock + r) % Modulus
  BY <1>1, Constants, Mod DEF Clock
<1> QED  BY <1>1, <1>2 DEF t

LEMMA Elapsed ==
  ASSUME NEW clock \in Clock, NEW from \in Clock, NEW e, e = (clock - from) % Modulus
  PROVE  /\ e \in Clock
         /\ e + 1 < Modulus => (((clock + 1) % Modulus) - from) % Modulus = e + 1
         /\ \A i \in Nat : i < Half /\ e < Half =>
              (clock + (i - e)) % Modulus = (from + i) % Modulus
<1> DEFINE t == (clock + 1) % Modulus
<1>1. e \in Clock /\ e = IF clock >= from THEN clock - from ELSE clock - from + Modulus
  BY Constants, Mod DEF Clock
<1>2. t \in Clock /\ t = IF clock = Modulus - 1 THEN 0 ELSE clock + 1
  BY OneOn
<1> HIDE DEF t
<1>3. e + 1 < Modulus => (t - from) % Modulus = e + 1
  BY <1>1, <1>2, Constants, Mod DEF Clock
<1>4. ASSUME NEW i \in Nat, i < Half, e < Half
      PROVE  (clock + (i - e)) % Modulus = (from + i) % Modulus
  BY <1>1, <1>4, Constants, Mod DEF Clock
<1> QED  BY <1>1, <1>3, <1>4 DEF t
-----------------------------------------------------------------------------
LEMMA LiveFacts ==
  ASSUME Typed
  PROVE  /\ Live(timers) \subseteq TimerIds /\ Live(timers) \subseteq 1 .. nextTimer - 1
         /\ \A id \in Live(timers) : timers[id] \in Timer /\ ~timers[id].dead /\ left[id] \in Int
         /\ Live(watches) \subseteq WatchIds /\ Live(watches) \subseteq 1 .. nextWatch - 1
<1>1. Live(timers) \subseteq 1 .. nextTimer - 1 /\ 1 .. nextTimer - 1 \subseteq TimerIds
  BY Constants, SMTT(30) DEF Typed, Live, TimerIds
<1>2. Live(watches) \subseteq 1 .. nextWatch - 1 /\ 1 .. nextWatch - 1 \subseteq WatchIds
  BY Constants DEF Typed, Live, WatchIds
<1>3. \A id \in Live(timers) : timers[id] \in Timer /\ ~timers[id].dead
  BY DEF Typed, Live
<1> QED  BY <1>1, <1>2, <1>3 DEF Typed

LEMMA Kinds ==
  \A i, j : <<"timer", i>> # <<"watch", j>> /\ <<"timer", i>> # Nobody /\ <<"watch", i>> # Nobody
  BY DEF Nobody

LEMMA InitInv == Init => Inv
<1> SUFFICES ASSUME Init PROVE Inv
  OBVIOUS
<1> USE Constants
<1>1. PICK d \in Delays :
        /\ timers = [id \in {1} |-> [due |-> (now + d) % Modulus, dead |-> FALSE, interval |-> d]]
        /\ left = [id \in TimerIds |-> IF id = 1 THEN d ELSE 0]
  BY Zenon DEF Init
<1>2. now \in Clock /\ (now + d) % Modulus \in Clock
  <2>1. now \in Clock
    BY DEF Init, Clock
  <2> QED  BY <2>1, InClock DEF Clock
<1>3. PICK fd \in Fds : watches = [id \in {1} |-> [fd |-> fd, dead |-> FALSE]]
  BY LoopAssumption, Zenon DEF Init
<1>4. /\ Live(timers) = {1} /\ timers[1].due = (now + d) % Modulus
      /\ timers[1].interval = d /\ left[1] = d
  BY <1>1 DEF Live, TimerIds
<1>5. polled = <<>> /\ DOMAIN polled = {} /\ polled \in [{} -> Fds]
  BY DEF Init
<1>6. timers \in [{1} -> Timer] /\ watches \in [{1} -> Watch]
  BY <1>1, <1>2, <1>3 DEF Timer, Watch
<1>7. Typed
  BY <1>1, <1>2, <1>3, <1>5, <1>6 DEF Init, Typed, Clock, WatchIds, TimerIds, Forever
<1>8. Over
  BY DEF Init, Over
<1>9. OnTime
  BY <1>4 DEF OnTime, Keeps
<1> QED  BY <1>7, <1>8, <1>9 DEF Inv, Init, Overdue, Polling
-----------------------------------------------------------------------------
(* The steps.                                                              *)
LEMMA RestrictLive ==
  ASSUME Typed
  PROVE  /\ Restrict(timers, Live(timers)) \in [Live(timers) -> Timer]
         /\ \A id \in Live(timers) : Restrict(timers, Live(timers))[id] = timers[id]
         /\ Live(Restrict(timers, Live(timers))) = Live(timers)
         /\ Restrict(watches, Live(watches)) \in [Live(watches) -> Watch]
         /\ Live(Restrict(watches, Live(watches))) = Live(watches)
  BY DEF Typed, Live, Restrict

(* next_timeout_ms() is no longer than any live timer has left.            *)
LEMMA TimeoutFits ==
  ASSUME Typed, OnTime
  PROVE  /\ NextTimeout \in Forever .. MaxSleep
         /\ ShortDelays => \A id \in Live(timers) :
                             NextTimeout \in Nat /\ (NextTimeout = 0 \/ NextTimeout <= left[id])
<1> DEFINE until(id) == Until(timers[id].due, now)
<1>1. CASE Live(timers) = {}
  BY <1>1, Constants DEF NextTimeout, Forever
<1>2. CASE Live(timers) # {}
  <2>1. \A id \in Live(timers) : until(id) \in Int /\ until(id) + Half \in Nat
    BY LiveFacts, UntilInHalf DEF Typed, Timer
  <2>2. ASSUME ShortDelays, NEW id \in Live(timers) PROVE until(id) = left[id]
    BY <2>2, LiveFacts, UntilIsLeft DEF OnTime, Keeps, Typed
  <2> DEFINE T == {until(id) + Half : id \in Live(timers)}
             S == {until(id) : id \in Live(timers)}
             Is(r) == \A id \in Live(timers) : r <= until(id)
             soonest == CHOOSE r \in S : Is(r)
  <2>3. NextTimeout = IF soonest < 0 THEN 0 ELSE IF soonest < MaxSleep THEN soonest ELSE MaxSleep
    BY <1>2, Zenon DEF NextTimeout
  <2> HIDE DEF until
  <2>4. T \subseteq Nat /\ T # {}
    BY <1>2, <2>1
  <2>5. PICK x \in T : \A y \in T : x <= y
    <3> HIDE DEF T
    <3> QED  BY <2>4, Least, Zenon
  <2>6. PICK least \in Live(timers) : x = until(least) + Half
    BY <2>5
  <2>7. until(least) \in S /\ Is(until(least))
    <3> SUFFICES ASSUME NEW id \in Live(timers) PROVE until(least) <= until(id)
      OBVIOUS
    <3>1. until(id) + Half \in T
      OBVIOUS
    <3>2. until(least) + Half <= until(id) + Half
      BY <2>5, <2>6, <3>1
    <3> QED  BY <2>1, <3>2, Constants
  <2>8. soonest \in S /\ Is(soonest)
    <3> HIDE DEF S, Is
    <3> QED  BY <2>7
  <2>9. soonest \in Int /\ \A id \in Live(timers) : soonest <= until(id)
    BY <2>1, <2>8, Zenon
  <2> HIDE DEF soonest
  <2>10. NextTimeout \in 0 .. MaxSleep /\ (NextTimeout = 0 \/ NextTimeout <= soonest)
    BY <2>3, <2>9, Constants
  <2>11. ASSUME ShortDelays, NEW id \in Live(timers)
         PROVE  NextTimeout = 0 \/ NextTimeout <= left[id]
    <3>1. soonest <= left[id] /\ left[id] \in Int
      BY <2>1, <2>2, <2>9, <2>11
    <3> QED  BY <2>9, <2>10, <3>1
  <2> QED  BY <2>10, <2>11, Constants DEF Forever
<1> QED  BY <1>1, <1>2

LEMMA TopInv == ASSUME Inv, Top PROVE Inv'
<1> USE DEF Inv
<1>1. /\ timers' = Restrict(timers, Live(timers)) /\ watches' = Restrict(watches, Live(watches))
      /\ Live(timers') = Live(timers) /\ Live(watches') = Live(watches)
      /\ \A id \in Live(timers) : timers'[id] = timers[id]
  BY RestrictLive DEF Top
<1>2. polled' \in [Live(watches) -> Fds]
  BY LiveFacts DEF Top, Typed, Watch, Live
<1>3. Typed'
  BY <1>1, <1>2, RestrictLive, LiveFacts, TimeoutFits DEF Top, Typed
<1>4. Over'
  BY <1>1 DEF Top, Over
<1>5. OnTime' /\ Overdue'
  BY <1>1 DEF Top, OnTime, Keeps, Overdue
<1>6. Polling'
  BY <1>1, TimeoutFits DEF Top, Polling, Awake
<1> QED  BY <1>3, <1>4, <1>5, <1>6

(* Steps that leave the tables and the clock alone.                        *)
LEMMA PassiveInv ==
  ASSUME Inv, UNCHANGED <<regVars, now, left, gone, fired>>,
         due' \subseteq due, due' = {} \/ read' = read, read' \in Clock,
         polled' \in [DOMAIN polled' -> Fds], DOMAIN polled' \subseteq DOMAIN polled,
         sleep' \in Forever .. MaxSleep, Polling'
  PROVE  Inv'
<1>1. Typed'
  BY DEF Inv, Typed, regVars
<1>2. Over' /\ OnTime' /\ Overdue'
  BY DEF Inv, Over, OnTime, Keeps, Overdue, regVars
<1> QED  BY <1>1, <1>2 DEF Inv

LEMMA PollReturnsInv ==
  ASSUME Inv, NEW ready \in SUBSET DOMAIN polled, PollReturns(ready) PROVE Inv'
<1>1. polled' \in [ready -> Fds]
  BY DEF PollReturns, Restrict, Inv, Typed
<1> QED  BY <1>1, PassiveInv, Constants DEF PollReturns, Inv, Typed, Polling, Forever

LEMMA InterruptedInv == ASSUME Inv, Interrupted PROVE Inv'
<1>1. polled' \in [{} -> Fds] /\ DOMAIN polled' = {}
  BY DEF Interrupted
<1>2. Polling'
  BY DEF Interrupted, Inv, Polling
<1>3. UNCHANGED <<regVars, now, left, gone, fired, due, read>> /\ sleep' = Forever
  BY DEF Interrupted
<1>4. sleep' \in Forever .. MaxSleep /\ read' \in Clock
  BY <1>3, Constants DEF Inv, Typed, Forever
<1> QED  BY <1>1, <1>2, <1>3, <1>4, PassiveInv

LEMMA DispatchFdInv == ASSUME Inv, DispatchFd PROVE Inv'
<1>1. PICK id : polled' = Restrict(polled, DOMAIN polled \ {id})
  BY Zenon DEF DispatchFd
<1>2. polled' \in [DOMAIN polled \ {id} -> Fds]
  BY <1>1 DEF Restrict, Inv, Typed
<1>3. Polling'
  BY DEF DispatchFd, Inv, Polling
<1>4. UNCHANGED <<regVars, now, left, gone, fired, due, read, sleep>>
  BY DEF DispatchFd
<1> QED  BY <1>2, <1>3, <1>4, PassiveInv DEF Inv, Typed

LEMMA RoundDoneInv == ASSUME Inv, RoundDone PROVE Inv'
<1>1. read' \in Clock
  BY Constants DEF RoundDone, Clock
<1> QED  BY <1>1, PassiveInv, Constants DEF RoundDone, Inv, Typed, Polling

LEMMA FdsDoneInv == ASSUME Inv, FdsDone PROVE Inv'
<1>1. polled' \in [{} -> Fds] /\ DOMAIN polled' = {}
  BY DEF FdsDone
<1>2. CASE stop
  <2>1. UNCHANGED <<regVars, now, left, gone, fired, due, read, sleep>> /\ Polling'
    BY <1>2 DEF FdsDone, Inv, Polling
  <2> QED  BY <1>1, <2>1, PassiveInv DEF Inv, Typed
<1>3. CASE ~stop
  <2>1. /\ UNCHANGED <<regVars, now, left, gone, fired, sleep, running>>
        /\ due' = {id \in Live(timers) : IsDue(id)} /\ read' = now /\ pc' = "timers"
    BY <1>3 DEF FdsDone
  <2>2. Typed' /\ Over' /\ OnTime' /\ Polling'
    BY <1>1, <2>1, LiveFacts DEF Inv, Typed, Over, OnTime, Keeps, Polling, regVars
  <2>3. ASSUME ShortDelays, NEW id \in Live(timers), IsDue(id) PROVE left[id] <= 0
    BY <2>3, LiveFacts, UntilIsLeft DEF IsDue, Inv, OnTime, Keeps, Typed
  <2>4. (now - now) % Modulus = 0
    BY Constants, Mod DEF Inv, Typed, Clock
  <2>5. Overdue'
    BY <2>1, <2>3, <2>4, LiveFacts DEF Overdue, regVars, Inv
  <2> QED  BY <2>2, <2>5 DEF Inv
<1> QED  BY <1>2, <1>3

(* What is due first, and what is ready first.                             *)
LEMMA FirstDue ==
  ASSUME Typed, due # {}
  PROVE  (CHOOSE i \in due : \A j \in due : i <= j) \in due
<1>1. due \subseteq Nat
  BY DEF Typed
<1>2. \E x \in due : \A y \in due : x <= y
  BY <1>1, Least, Zenon
<1> QED  BY <1>2

LEMMA DispatchTimerInv == ASSUME Inv, DispatchTimer PROVE Inv'
<1> DEFINE id == CHOOSE i \in due : \A j \in due : i <= j
<1>1. id \in due /\ due' = due \ {id}
  BY FirstDue DEF DispatchTimer, Inv
<1>2. UNCHANGED <<pc, stop, polled, sleep, read, watches, nextTimer, nextWatch, now, gone>>
  BY DEF DispatchTimer
<1>3. CASE ~StillDue(id)
  <2>1. UNCHANGED <<timers, running, left, fired>>
    BY <1>3 DEF DispatchTimer
  <2> HIDE DEF id
  <2>2. Polling'
    BY <1>2, <2>1 DEF Inv, Polling, Awake
  <2> QED  BY <1>1, <1>2, <2>1, <2>2, PassiveInv DEF Inv, Typed, regVars
<1>4. CASE StillDue(id)
  <2>1. /\ timers' = Rearmed(id) /\ pc = "timers"
        /\ left' = [left EXCEPT ![id] = IF timers[id].interval > 0
                                        THEN timers[id].interval - ((now - read) % Modulus) ELSE @]
        /\ fired' = IF timers[id].interval > 0 THEN fired ELSE fired \cup {id}
    BY <1>4 DEF DispatchTimer
  <2> HIDE DEF id
  <2>2. id \in Live(timers) /\ id \in TimerIds /\ id \in 1 .. nextTimer - 1
    BY <1>4, LiveFacts DEF StillDue, Inv, Typed
  <2>3. PICK e : e = (now - read) % Modulus
    OBVIOUS
  <2>4. /\ e \in Clock
        /\ \A i \in Nat : i < Half /\ e < Half => (now + (i - e)) % Modulus = (read + i) % Modulus
    BY <2>3, Elapsed DEF Inv, Typed
  <2>5. ShortDelays => e < Half
    BY <1>1, <2>2, <2>3, <2>4, LiveFacts, Constants DEF Inv, Overdue, OnTime, Keeps, Clock
  <2>6. timers[id].interval \in Nat /\ (ShortDelays => timers[id].interval < Half)
    BY <2>2, LiveFacts DEF Timer, Inv, OnTime, Keeps
  <2>7. (read + timers[id].interval) % Modulus \in Clock
    BY <2>6, InClock DEF Inv, Typed, Clock
  <2>8. timers' \in [DOMAIN timers -> Timer]
    BY <2>1, <2>2, <2>7, Zenon DEF Rearmed, Inv, Typed, Timer, Live
  <2>9. /\ \A j \in DOMAIN timers : j # id => timers'[j] = timers[j]
        /\ timers[id].interval > 0 => timers'[id].due = (read + timers[id].interval) % Modulus
        /\ timers[id].interval > 0 => Live(timers') = Live(timers)
        /\ timers'[id].interval = timers[id].interval
        /\ ~ (timers[id].interval > 0) => Live(timers') = Live(timers) \ {id}
    BY <2>1, <2>2 DEF Rearmed, Inv, Typed, Timer, Live
  <2>10. /\ left' \in [TimerIds -> Int]
         /\ \A j \in TimerIds : j # id => left'[j] = left[j]
         /\ timers[id].interval > 0 => left'[id] = timers[id].interval - e
    BY <2>1, <2>2, <2>3, <2>4, <2>6 DEF Inv, Typed, Clock
  <2>11. Typed'
    BY <1>1, <1>2, <2>8, <2>10 DEF Inv, Typed
  <2>12. Over'
    BY <1>2, <2>1, <2>2, <2>9 DEF Inv, Over
  <2>13. OnTime'
    <3> SUFFICES ASSUME ShortDelays
                 PROVE  \A j \in Live(timers') : Keeps(timers'[j], left'[j], now')
      BY DEF OnTime
    <3>1. ASSUME NEW j \in Live(timers'), j # id
          PROVE  Keeps(timers'[j], left'[j], now')
      BY <1>2, <2>9, <2>10, <3>1, LiveFacts DEF Inv, OnTime, Keeps, Live
    <3>2. ASSUME id \in Live(timers')
          PROVE  Keeps(timers'[id], left'[id], now')
      <4>1. timers[id].interval > 0
        BY <2>9, <3>2
      <4>2. 0 - Half < left'[id] /\ left'[id] < Half
        BY <2>4, <2>5, <2>6, <2>10, <4>1, Constants DEF Clock
      <4> QED  BY <1>2, <2>4, <2>5, <2>6, <2>9, <2>10, <4>1, <4>2 DEF Keeps
    <3> QED  BY <3>1, <3>2
  <2>14. Overdue'
    BY <1>1, <1>2, <2>9, <2>10, LiveFacts DEF Inv, Overdue, Live
  <2>15. Polling'
    BY <1>2, <2>1 DEF Inv, Polling
  <2> QED  BY <2>11, <2>12, <2>13, <2>14, <2>15 DEF Inv
<1> QED  BY <1>3, <1>4
-----------------------------------------------------------------------------
(* What a callback does.                                                   *)
LEMMA StopInv == ASSUME Inv, Stop PROVE Inv'
<1>1. Polling' /\ UNCHANGED <<regVars, now, left, gone, fired, due, read, polled, sleep>>
  BY DEF Stop, Inv, Polling, Awake, regVars
<1> QED  BY <1>1, PassiveInv DEF Inv, Typed

LEMMA ReturnInv == ASSUME Inv, Return PROVE Inv'
<1>1. Polling' /\ UNCHANGED <<regVars, now, left, gone, fired, due, read, polled, sleep>>
  BY DEF Return, Inv, Polling, Awake, regVars, loopVars
<1> QED  BY <1>1, PassiveInv DEF Inv, Typed

LEMMA ArmsInv ==
  ASSUME Inv, NEW delay \in Nat, NEW interval \in Nat,
         ShortDelays => delay < Half /\ interval < Half, Arms(delay, interval)
  PROVE  Inv'
<1>1. /\ nextTimer \in TimerIds /\ nextTimer' = nextTimer + 1
      /\ timers' = With(timers, nextTimer, [due |-> DueIn(delay), dead |-> FALSE,
                                            interval |-> interval])
      /\ left' = [left EXCEPT ![nextTimer] = delay]
      /\ UNCHANGED <<loopVars, watches, nextWatch, now, running, gone, fired>>
      /\ pc \in {"fds", "timers"}
  BY Constants DEF Arms, Op, Inv, Typed, Polling, TimerIds
<1>2. DueIn(delay) \in Clock
  BY InClock DEF DueIn, Inv, Typed, Clock
<1>3. /\ DOMAIN timers' = DOMAIN timers \cup {nextTimer}
      /\ timers'[nextTimer] = [due |-> DueIn(delay), dead |-> FALSE, interval |-> interval]
      /\ \A j \in DOMAIN timers : timers'[j] = timers[j]
      /\ timers' = [j \in DOMAIN timers' |-> timers'[j]]
      /\ nextTimer \notin DOMAIN timers
  BY <1>1 DEF With, Inv, Typed
<1>4. Live(timers') = Live(timers) \cup {nextTimer} /\ nextTimer \notin Live(timers)
  BY <1>3 DEF Live
<1>5. timers' \in [DOMAIN timers' -> Timer]
  <2>1. timers'[nextTimer] \in Timer
    BY <1>2, <1>3 DEF Timer
  <2>2. \A j \in DOMAIN timers : timers'[j] \in Timer
    BY <1>3 DEF Inv, Typed
  <2> QED  BY <1>3, <2>1, <2>2, Zenon
<1>6. /\ left' \in [TimerIds -> Int] /\ left'[nextTimer] = delay
      /\ \A j \in TimerIds : j # nextTimer => left'[j] = left[j]
  BY <1>1 DEF Inv, Typed
<1>7. Typed'
  <2>1. /\ nextTimer' \in 1 .. MaxTimers + 1 /\ nextTimer \in 1 .. nextTimer' - 1
        /\ 1 .. nextTimer - 1 \subseteq 1 .. nextTimer' - 1
    BY <1>1, Constants DEF TimerIds
  <2>2. DOMAIN timers' \subseteq 1 .. nextTimer' - 1 /\ due' \subseteq 1 .. nextTimer' - 1
    BY <1>1, <1>3, <2>1 DEF Inv, Typed, loopVars
  <2> QED  BY <1>1, <1>5, <1>6, <2>1, <2>2, Zenon DEF Inv, Typed, loopVars
<1>8. Over'
  <2>1. ASSUME NEW id, <<"timer", id>> \in gone \/ id \in fired
        PROVE  id \in 1 .. nextTimer' - 1 /\ id \notin Live(timers')
    <3>1. id \in 1 .. nextTimer - 1 /\ id \notin Live(timers)
      BY <2>1 DEF Inv, Over
    <3>2. id # nextTimer /\ id \in 1 .. nextTimer' - 1
      BY <1>1, <3>1, Constants DEF TimerIds
    <3> QED  BY <1>4, <3>1, <3>2
  <2> QED  BY <1>1, <2>1, Zenon DEF Inv, Over
<1>9. OnTime'
  <2> SUFFICES ASSUME ShortDelays
               PROVE  \A id \in Live(timers') : Keeps(timers'[id], left'[id], now')
    BY DEF OnTime
  <2>1. ASSUME NEW id \in Live(timers)
        PROVE  Keeps(timers'[id], left'[id], now')
    BY <1>1, <1>3, <1>4, <1>6, LiveFacts, Zenon DEF Inv, OnTime, Keeps, Live
  <2>2. Keeps(timers'[nextTimer], left'[nextTimer], now')
    BY <1>1, <1>3, <1>6, Constants DEF DueIn, Keeps
  <2> QED  BY <1>4, <2>1, <2>2
<1>10. Overdue'
  <2>1. nextTimer \notin due
    BY DEF Inv, Typed
  <2> QED  BY <1>1, <1>4, <1>6, <2>1, LiveFacts, Zenon DEF Inv, Overdue, loopVars
<1>11. Polling'
  BY <1>1 DEF Polling, loopVars
<1> QED  BY <1>7, <1>8, <1>9, <1>10, <1>11 DEF Inv

LEMMA ResetTimerInv == ASSUME Inv, NEW id \in TimerIds, ResetTimer(id) PROVE Inv'
<1>1. /\ id \in 1 .. nextTimer - 1 /\ gone' = gone \cup {<<"timer", id>>}
      /\ timers' = IF id \in DOMAIN timers THEN [timers EXCEPT ![id].dead = TRUE] ELSE timers
      /\ UNCHANGED <<loopVars, watches, nextTimer, nextWatch, now, running, left, fired>>
      /\ pc \in {"fds", "timers"}
  BY DEF ResetTimer, CancelTimer, Op, Inv, Polling, Typed, TimerIds
<1>2. /\ timers' \in [DOMAIN timers -> Timer]
      /\ Live(timers') = Live(timers) \ {id}
      /\ \A j \in Live(timers) \ {id} : timers'[j] = timers[j]
  BY <1>1, Zenon DEF Inv, Typed, Timer, Live
<1>3. Typed'
  BY <1>1, <1>2 DEF Inv, Typed, loopVars
<1>4. Over'
  <2>1. \A j : <<"timer", j>> \in gone' => j = id \/ <<"timer", j>> \in gone
    BY <1>1
  <2>2. /\ \A j : <<"watch", j>> \in gone' => <<"watch", j>> \in gone
        /\ Nobody \in gone' => Nobody \in gone
    BY <1>1, Kinds
  <2> QED  BY <1>1, <1>2, <2>1, <2>2, Zenon DEF Inv, Over
<1>5. OnTime' /\ Overdue' /\ Polling'
  BY <1>1, <1>2, Zenon DEF Inv, OnTime, Keeps, Overdue, Polling, loopVars
<1> QED  BY <1>3, <1>4, <1>5 DEF Inv

LEMMA AddFdInv == ASSUME Inv, NEW fd \in Fds, AddFd(fd) PROVE Inv'
<1>1. /\ nextWatch \in WatchIds /\ nextWatch' = nextWatch + 1
      /\ watches' = With(watches, nextWatch, [fd |-> fd, dead |-> FALSE])
      /\ UNCHANGED <<loopVars, timers, nextTimer, now, running, left, gone, fired>>
      /\ pc \in {"fds", "timers"}
  BY Constants DEF AddFd, Op, Inv, Typed, Polling, WatchIds
<1>2. /\ DOMAIN watches' = DOMAIN watches \cup {nextWatch}
      /\ watches'[nextWatch] = [fd |-> fd, dead |-> FALSE]
      /\ \A j \in DOMAIN watches : watches'[j] = watches[j]
      /\ watches' = [j \in DOMAIN watches' |-> watches'[j]]
  BY <1>1 DEF With, Inv, Typed
<1>3. watches' \in [DOMAIN watches' -> Watch] /\ Live(watches') = Live(watches) \cup {nextWatch}
  <2>1. watches'[nextWatch] \in Watch
    BY <1>2 DEF Watch
  <2>2. \A j \in DOMAIN watches : watches'[j] \in Watch
    BY <1>2 DEF Inv, Typed
  <2>3. watches' \in [DOMAIN watches' -> Watch]
    BY <1>2, <2>1, <2>2, Zenon
  <2> QED  BY <1>2, <2>3 DEF Live
<1>4. Typed'
  <2>1. nextWatch' \in 1 .. MaxWatches + 1 /\ DOMAIN watches' \subseteq 1 .. nextWatch' - 1
    BY <1>1, <1>2, Constants DEF Inv, Typed, WatchIds
  <2> QED  BY <1>1, <1>3, <2>1, Zenon DEF Inv, Typed, loopVars
<1>5. Over'
  <2>1. ASSUME NEW id, <<"watch", id>> \in gone
        PROVE  id \in 1 .. nextWatch' - 1 /\ id \notin Live(watches')
    <3>1. id \in 1 .. nextWatch - 1 /\ id \notin Live(watches)
      BY <2>1 DEF Inv, Over
    <3>2. id # nextWatch /\ id \in 1 .. nextWatch' - 1
      BY <1>1, <3>1, Constants DEF WatchIds
    <3> QED  BY <1>3, <3>1, <3>2
  <2> QED  BY <1>1, <2>1, Zenon DEF Inv, Over
<1>6. OnTime' /\ Overdue' /\ Polling'
  BY <1>1 DEF Inv, OnTime, Keeps, Overdue, Polling, loopVars
<1> QED  BY <1>4, <1>5, <1>6 DEF Inv

LEMMA ResetWatchInv == ASSUME Inv, NEW id \in WatchIds, ResetWatch(id) PROVE Inv'
<1>1. /\ id \in 1 .. nextWatch - 1 /\ gone' = gone \cup {<<"watch", id>>}
      /\ watches' = IF id \in DOMAIN watches THEN [watches EXCEPT ![id].dead = TRUE] ELSE watches
      /\ UNCHANGED <<loopVars, timers, nextTimer, nextWatch, now, running, left, fired>>
      /\ pc \in {"fds", "timers"}
  BY DEF ResetWatch, Op, Inv, Polling, Typed, WatchIds
<1>2. watches' \in [DOMAIN watches -> Watch] /\ Live(watches') = Live(watches) \ {id}
  BY <1>1, Zenon DEF Inv, Typed, Watch, Live
<1>3. Typed'
  BY <1>1, <1>2 DEF Inv, Typed, loopVars
<1>4. Over'
  <2>1. \A j : <<"watch", j>> \in gone' => j = id \/ <<"watch", j>> \in gone
    BY <1>1
  <2>2. /\ \A j : <<"timer", j>> \in gone' => <<"timer", j>> \in gone
        /\ Nobody \in gone' => Nobody \in gone
    BY <1>1, Kinds
  <2> QED  BY <1>1, <1>2, <2>1, <2>2, Zenon DEF Inv, Over
<1>5. OnTime' /\ Overdue' /\ Polling'
  BY <1>1 DEF Inv, OnTime, Keeps, Overdue, Polling, loopVars
<1> QED  BY <1>3, <1>4, <1>5 DEF Inv

LEMMA TickInv == ASSUME Inv, Tick PROVE Inv'
<1>1. /\ now' = (now + 1) % Modulus
      /\ left' = [id \in TimerIds |-> IF id \in Live(timers) THEN left[id] - 1 ELSE 0]
      /\ \A id \in Live(timers) : left[id] > 1 - Half
      /\ sleep' = IF pc = "poll" /\ sleep > 0 THEN sleep - 1 ELSE sleep
      /\ UNCHANGED <<pc, stop, polled, due, read, regVars, running, ops, gone, fired>>
  BY DEF Tick
<1>2. \A id \in Live(timers) : left[id] \in Int /\ left'[id] = left[id] - 1
  BY <1>1, LiveFacts DEF Inv
<1>3. now' \in Clock /\ left' \in [TimerIds -> Int] /\ sleep' \in Forever .. MaxSleep
  BY <1>1, OneOn, LiveFacts, Constants DEF Inv, Typed, Forever
<1>4. Typed' /\ Over'
  BY <1>1, <1>3 DEF Inv, Typed, Over, regVars
<1>5. OnTime'
  <2>1. ASSUME ShortDelays, NEW id \in Live(timers)
        PROVE  Keeps(timers[id], left'[id], now')
    <3>1. /\ 0 - Half < left[id] /\ left[id] < Half /\ timers[id].interval < Half
          /\ timers[id].due = (now + left[id]) % Modulus
      BY <2>1 DEF Inv, OnTime, Keeps
    <3>2. (now' + (left[id] - 1)) % Modulus = (now + left[id]) % Modulus
      BY <1>1, <1>2, <3>1, TickMod DEF Inv, Typed
    <3> QED  BY <1>1, <1>2, <3>1, <3>2, Constants DEF Keeps
  <2> QED  BY <1>1, <2>1 DEF OnTime, Keeps, regVars
<1>6. Overdue'
  <2>1. ASSUME ShortDelays, NEW id \in due \cap Live(timers)
        PROVE  left'[id] + ((now' - read) % Modulus) <= 0
    <3>1. PICK e : e = (now - read) % Modulus
      OBVIOUS
    <3>2. e \in Clock /\ (e + 1 < Modulus => (now' - read) % Modulus = e + 1)
      BY <1>1, <3>1, Elapsed DEF Inv, Typed
    <3>3. left[id] + e <= 0 /\ left[id] > 1 - Half
      BY <1>1, <2>1, <3>1 DEF Inv, Overdue
    <3> QED  BY <1>2, <3>2, <3>3, Constants DEF Clock
  <2> QED  BY <1>1, <2>1 DEF Overdue, regVars
<1>7. Polling'
  <2>1. ASSUME ShortDelays, pc = "poll", NEW id \in Live(timers)
        PROVE  sleep' \in Nat /\ (sleep' = 0 \/ sleep' <= left'[id])
    BY <1>1, <1>2, <2>1 DEF Inv, Polling, Awake
  <2> QED  BY <1>1, <2>1, Zenon DEF Inv, Polling, Awake, regVars
<1> QED  BY <1>4, <1>5, <1>6, <1>7 DEF Inv

LEMMA NextInv == Inv /\ [Next]_vars => Inv'
<1> SUFFICES ASSUME Inv, [Next]_vars PROVE Inv'
  OBVIOUS
<1>1. CASE Top
  BY <1>1, TopInv
<1>2. CASE TimedOut
  BY <1>2, PollReturnsInv DEF TimedOut
<1>3. CASE DispatchFd
  BY <1>3, DispatchFdInv
<1>4. CASE FdsDone
  BY <1>4, FdsDoneInv
<1>5. CASE DispatchTimer
  BY <1>5, DispatchTimerInv
<1>6. CASE RoundDone
  BY <1>6, RoundDoneInv
<1>7. CASE Return
  BY <1>7, ReturnInv
<1>8. CASE Ready
  BY <1>8, PollReturnsInv DEF Ready
<1>9. CASE Interrupted
  BY <1>9, InterruptedInv
<1>10. ASSUME NEW d \in Delays, AddTimer(d) PROVE Inv'
  BY <1>10, ArmsInv, Constants DEF AddTimer
<1>11. ASSUME NEW d \in Delays, AddRepeating(d) PROVE Inv'
  <2>1. PICK every \in Nat : (ShortDelays => every < Half) /\ Arms(every, every)
    BY <1>11, Constants DEF AddRepeating
  <2> QED  BY <2>1, ArmsInv
<1>12. ASSUME NEW id \in TimerIds, ResetTimer(id) PROVE Inv'
  BY <1>12, ResetTimerInv
<1>13. ASSUME NEW fd \in Fds, AddFd(fd) PROVE Inv'
  BY <1>13, AddFdInv
<1>14. ASSUME NEW id \in WatchIds, ResetWatch(id) PROVE Inv'
  BY <1>14, ResetWatchInv
<1>15. CASE Stop
  BY <1>15, StopInv
<1>16. CASE Tick
  BY <1>16, TickInv
<1>17. CASE UNCHANGED vars
  <2>1. /\ UNCHANGED <<regVars, now, left, gone, fired, due, read, polled, sleep>>
        /\ UNCHANGED <<pc, running>>
    BY <1>17 DEF vars, loopVars
  <2>2. Polling'
    BY <2>1 DEF Inv, Polling, Awake, regVars
  <2> QED  BY <2>1, <2>2, PassiveInv DEF Inv, Typed
<1> QED  BY <1>1, <1>2, <1>3, <1>4, <1>5, <1>6, <1>7, <1>8, <1>9, <1>10, <1>11, <1>12, <1>13,
            <1>14, <1>15, <1>16, <1>17 DEF Next, Loop, Callback, Done

LEMMA Invariance == Spec => []Inv
  BY InitInv, NextInv, PTL DEF Spec
-----------------------------------------------------------------------------
(* A callback starts only for a live registration: a watch that is ready   *)
(* or a timer that is due.                                                 *)
LEMMA WhatStarts ==
  ASSUME Inv, [Next]_vars, running = Nobody, running' # Nobody
  PROVE  \/ \E id \in Live(watches) : running' = <<"watch", id>> /\ id \in DOMAIN polled
         \/ \E id \in Live(timers) : running' = <<"timer", id>> /\ id \in due
<1>1. CASE DispatchFd
  <2> DEFINE id == CHOOSE i \in DOMAIN polled : \A j \in DOMAIN polled : i <= j
  <2>1. DOMAIN polled \subseteq Nat /\ DOMAIN polled # {}
    <3>1. <<>> \in [{} -> Fds]
      OBVIOUS
    <3>2. polled \in [DOMAIN polled -> Fds] /\ polled # <<>>
      BY <1>1 DEF DispatchFd, Inv, Typed
    <3>3. \A f, g \in [{} -> Fds] : f = g
      OBVIOUS
    <3>4. DOMAIN polled # {}
      BY <3>1, <3>2, <3>3
    <3> QED  BY <3>4 DEF Inv, Typed, WatchIds
  <2>2. \E x \in DOMAIN polled : \A y \in DOMAIN polled : x <= y
    BY <2>1, Least
  <2>3. id \in DOMAIN polled
    BY <2>2
  <2>4. PICK w \in WatchToRun(id) : running' = <<"watch", w>>
    BY <1>1 DEF DispatchFd, Runs
  <2> HIDE DEF id
  <2> QED  BY <2>3, <2>4 DEF WatchToRun
<1>2. CASE DispatchTimer
  <2> DEFINE id == CHOOSE i \in due : \A j \in due : i <= j
  <2>1. id \in due
    BY <1>2, FirstDue DEF DispatchTimer, Inv
  <2>2. StillDue(id) /\ running' = <<"timer", id>>
    BY <1>2 DEF DispatchTimer, Runs
  <2> HIDE DEF id
  <2> QED  BY <2>1, <2>2 DEF StillDue
<1>3. ASSUME ~DispatchFd, ~DispatchTimer PROVE FALSE
  BY <1>3 DEF Next, Loop, Callback, Done, Top, TimedOut, Ready, PollReturns, FdsDone, RoundDone,
     Return, Interrupted, AddTimer, AddRepeating, Arms, ResetTimer, AddFd, ResetWatch, Stop, Op,
     Tick, vars
<1> QED  BY <1>1, <1>2, <1>3

(* What the invariant leaves out of TypeOK.                                *)
Control ==
  /\ pc \in {"top", "poll", "fds", "timers", "stopped"} /\ stop \in BOOLEAN
  /\ running \in Registrations \cup {Nobody} /\ ops \in 0 .. MaxOps

LEMMA ControlStep == Inv /\ Control /\ [Next]_vars => Control'
<1> SUFFICES ASSUME Inv, Control, [Next]_vars PROVE Control'
  OBVIOUS
<1>1. pc' \in {"top", "poll", "fds", "timers", "stopped"} /\ stop' \in BOOLEAN
  BY DEF Control, Next, Loop, Callback, Done, Top, TimedOut, Ready, PollReturns, FdsDone, RoundDone,
     DispatchFd, DispatchTimer, Return, Interrupted, AddTimer, AddRepeating, Arms, ResetTimer,
     AddFd, ResetWatch, Stop, Op, Tick, vars, loopVars
<1>2. running' \in {running, Nobody} \/ running = Nobody
  BY DEF Next, Loop, Callback, Done, Top, TimedOut, Ready, PollReturns, FdsDone, RoundDone,
     DispatchFd, DispatchTimer, Return, Interrupted, AddTimer, AddRepeating, Arms, ResetTimer,
     AddFd, ResetWatch, Stop, Op, Tick, vars
<1>3. running' \in Registrations \cup {Nobody}
  <2>1. CASE running = Nobody /\ running' # Nobody
    BY <2>1, WhatStarts, LiveFacts DEF Registrations, Inv
  <2> QED  BY <1>2, <2>1 DEF Control
<1>4. ops' \in {ops, 0, MaxOps} \/ (ops > 0 /\ ops' = ops - 1)
  BY DEF Next, Loop, Callback, Done, Top, TimedOut, Ready, PollReturns, FdsDone,
     RoundDone, DispatchFd, DispatchTimer, Return, Interrupted, AddTimer, AddRepeating, Arms,
     ResetTimer, AddFd, ResetWatch, Stop, Op, Tick, Runs, vars
<1>5. ops' \in 0 .. MaxOps
  BY <1>4, Constants DEF Control
<1> QED  BY <1>1, <1>3, <1>5 DEF Control

(* The loop's state has its type, whatever callbacks do: the clock and the *)
(* tables stay in range, and only registrations run (eventloop.h).         *)
THEOREM TypeCorrect == Spec => []TypeOK
<1>1. Init => Control
  <2>1. 0 \in 0 .. MaxOps
    BY Constants
  <2> QED  BY <2>1, Zenon DEF Init, Control
<1>2. Inv /\ Control => TypeOK
  <2> SUFFICES ASSUME Inv, Control PROVE TypeOK
    OBVIOUS
  <2>1. /\ DOMAIN timers \subseteq TimerIds /\ DOMAIN watches \subseteq WatchIds
        /\ due \subseteq TimerIds
    BY Constants, SMTT(30) DEF Inv, Typed, TimerIds, WatchIds
  <2>2. \A id \in DOMAIN timers : timers[id].due \in 0 .. Modulus - 1
    BY DEF Inv, Typed, Timer, Clock
  <2> QED  BY <2>1, <2>2 DEF Inv, Typed, Control, TypeOK, Clock
<1> QED  BY <1>1, <1>2, InitInv, NextInv, ControlStep, PTL DEF Spec

(* NeverOnceOver, for any clock, timers, descriptors and callbacks: a      *)
(* registration whose handle was reset, and a one-shot timer that has run, *)
(* is never called again (Registration::reset, run_due_timers).            *)
THEOREM WhatIsOverIsNotCalled == Spec => NeverOnceOver
<1> DEFINE Step == \A who \in gone \cup ({"timer"} \X fired) : ~(running = Nobody /\ running' = who)
<1>1. ASSUME Inv, [Next]_vars, NEW who \in gone \cup ({"timer"} \X fired),
             running = Nobody, running' = who
      PROVE  FALSE
  <2>1. who \in gone \/ \E id \in fired : who = <<"timer", id>>
    BY <1>1
  <2>2. running' # Nobody
    BY <1>1, <2>1, Kinds DEF Inv, Over
  <2>3. ASSUME NEW id \in Live(watches), running' = <<"watch", id>> PROVE FALSE
    BY <1>1, <2>1, <2>3, Kinds DEF Inv, Over
  <2>4. ASSUME NEW id \in Live(timers), running' = <<"timer", id>> PROVE FALSE
    <3>1. <<"timer", id>> \in gone \/ id \in fired
      BY <1>1, <2>1, <2>4
    <3> QED  BY <1>1, <2>4, <3>1 DEF Inv, Over
  <2> QED  BY <1>1, <2>2, <2>3, <2>4, WhatStarts
<1>2. Inv /\ [Next]_vars => Step
  BY <1>1
<1>3. Spec => [][Step]_vars
  BY <1>2, InitInv, NextInv, PTL DEF Spec
<1> QED  BY <1>3 DEF NeverOnceOver

(* NeverEarly, for any delays below half of the clock's range: wherever    *)
(* the clock wraps, and however many callbacks run between, no timer runs  *)
(* before its time (next_due_ms, run_due_timers).                          *)
THEOREM NoTimerRunsEarly == ASSUME ShortDelays PROVE Spec => NeverEarly
<1> DEFINE Step == \A id \in TimerIds : Starts("timer", id) => left[id] <= 0
<1>1. ASSUME Inv, [Next]_vars, NEW id \in TimerIds, Starts("timer", id)
      PROVE  left[id] <= 0
  <2>1. running = Nobody /\ running' = <<"timer", id>> /\ running' # Nobody
    BY <1>1, Kinds DEF Starts
  <2>2. id \in Live(timers) /\ id \in due
    BY <1>1, <2>1, WhatStarts, Kinds
  <2>3. PICK e : e = (now - read) % Modulus
    OBVIOUS
  <2>4. e \in Clock
    BY <1>1, <2>3, Elapsed DEF Inv, Typed
  <2>5. left[id] \in Int /\ left[id] + e <= 0
    BY <1>1, <2>2, <2>3 DEF Inv, Overdue, Typed
  <2> QED  BY <2>4, <2>5, Constants DEF Clock
<1>2. Inv /\ [Next]_vars => Step
  BY <1>1
<1>3. Spec => [][Step]_vars
  BY <1>2, InitInv, NextInv, PTL DEF Spec
<1> QED  BY <1>3 DEF NeverEarly

(* OwnEvents: a watch's callback runs only for what poll() reported of the *)
(* watch itself in this round (the pass over pfds in run()).               *)
THEOREM WatchesGetTheirOwnEvents == Spec => OwnEvents
<1> DEFINE Step == \A id \in WatchIds : Starts("watch", id) => id \in DOMAIN polled
<1>1. ASSUME Inv, [Next]_vars, NEW id \in WatchIds, Starts("watch", id)
      PROVE  id \in DOMAIN polled
  <2>1. running = Nobody /\ running' = <<"watch", id>> /\ running' # Nobody
    BY <1>1, Kinds DEF Starts
  <2> QED  BY <1>1, <2>1, WhatStarts, Kinds
<1>2. Inv /\ [Next]_vars => Step
  BY <1>1
<1>3. Spec => [][Step]_vars
  BY <1>2, InitInv, NextInv, PTL DEF Spec
<1> QED  BY <1>3 DEF OwnEvents

(* While poll() waits, its timeout ends no later than any live timer's     *)
(* moment, or at once when that has passed (next_timeout_ms).              *)
WakesInTime ==
  pc = "poll" => \A id \in Live(timers) : sleep # Forever /\ (sleep = 0 \/ sleep <= left[id])

(* poll() never sleeps past a timer, for any delays below half of the      *)
(* clock's range (next_timeout_ms, run).                                   *)
THEOREM NeverOversleeps == ASSUME ShortDelays PROVE Spec => []WakesInTime
<1>1. Inv => WakesInTime
  BY DEF Inv, Polling, Awake, WakesInTime, Forever
<1> QED  BY <1>1, Invariance, PTL
=============================================================================
