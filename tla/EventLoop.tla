------------------------------ MODULE EventLoop ------------------------------
(***************************************************************************)
(* The poll() loop every other part runs on (src/daemon/eventloop.cpp) and *)
(* the handles that own what is registered with it (eventloop.h).          *)
(*                                                                         *)
(* Callbacks are arbitrary: while one runs it may arm and cancel timers,   *)
(* drop watches and close their descriptors, open others under the same    *)
(* numbers, and stop the loop.  Time passes while poll() sleeps and while  *)
(* a callback runs.  The clock wraps at Modulus, as millis() does at 2^32. *)
(* The virtual clock that tests hand to the loop is left out.              *)
(***************************************************************************)
EXTENDS Integers, FiniteSets, Functions

CONSTANTS Modulus,    \* where the clock wraps: 2^32
          Delays,     \* the delays and intervals timers are given
          MaxSleep,   \* the longest poll() timeout, 60000
          Fds,        \* descriptor numbers
          MaxTimers,  \* bound: how many timers are ever armed
          MaxWatches, \* bound: how many watches are ever added
          MaxOps      \* bound: how much one callback does

ASSUME LoopAssumption ==
  /\ Modulus \in Nat /\ Modulus > 2 /\ Modulus % 2 = 0 /\ MaxSleep \in Nat
  /\ \A d \in Delays : d \in Nat /\ d < Modulus
  /\ MaxTimers \in Nat \ {0} /\ MaxWatches \in Nat \ {0} /\ MaxOps \in Nat /\ Fds # {}

VARIABLES pc,         \* "top", "poll", "fds", "timers" or "stopped"
          stop,       \* stop_
          now,        \* the clock
          timers,     \* timers_, by id
          watches,    \* watches_, by id
          nextTimer, nextWatch,
          polled,     \* the pass over pfds: watch id -> descriptor, those left
          sleep,      \* what is left of poll()'s timeout; Forever if it has none
          due, read,  \* run_due_timers(): the ids left, and the clock it read
          running,    \* the registration whose callback runs, or Nobody
          ops,        \* how much more that callback may do
          left,       \* history: real time until each timer's moment
          gone,       \* history: the registrations whose handle was reset
          fired       \* history: the one-shot timers that have run

loopVars == <<pc, stop, polled, sleep, due, read>>
regVars  == <<timers, watches, nextTimer, nextWatch>>
vars == <<loopVars, regVars, now, running, ops, left, gone, fired>>

TimerIds == 1 .. MaxTimers
WatchIds == 1 .. MaxWatches
Nobody   == <<"nobody", 0>>
Forever  == -1
Half     == Modulus \div 2

(* A delay of half the clock's range or more reads as already past.        *)
ShortDelays == \A d \in Delays : 2 * d < Modulus

Live(table) == {id \in DOMAIN table : ~table[id].dead}
With(f, x, v) == [y \in DOMAIN f \cup {x} |-> IF y = x THEN v ELSE f[y]]
-----------------------------------------------------------------------------
(* static_cast<int32_t>(due - now): the signed distance on the wrapped     *)
(* clock.                                                                  *)
Until(t, clock) ==
  LET d == (t - clock) % Modulus IN IF d >= Half THEN d - Modulus ELSE d

(* next_timeout_ms(): until the soonest timer, and no longer than MaxSleep.*)
NextTimeout ==
  IF Live(timers) = {} THEN Forever
  ELSE LET soonest == CHOOSE r \in {Until(timers[id].due, now) : id \in Live(timers)} :
                        \A id \in Live(timers) : r <= Until(timers[id].due, now)
       IN  IF soonest < 0 THEN 0 ELSE IF soonest < MaxSleep THEN soonest ELSE MaxSleep

(* run(), from the top: dead entries go, and what is watched is polled.    *)
Top ==
  /\ pc = "top" /\ ~stop
  /\ timers' = Restrict(timers, Live(timers))
  /\ watches' = Restrict(watches, Live(watches))
  /\ polled' = [id \in Live(watches) |-> watches[id].fd]
  /\ sleep' = NextTimeout
  /\ pc' = IF Live(watches) = {} /\ sleep' = Forever THEN "stopped" ELSE "poll"
  /\ UNCHANGED <<stop, due, read, nextTimer, nextWatch, now, running, ops, left, gone, fired>>

(* poll() returns: descriptors are ready, or the timeout is over.          *)
PollReturns(ready) ==
  /\ pc = "poll" /\ pc' = "fds" /\ sleep' = Forever /\ polled' = Restrict(polled, ready)
  /\ UNCHANGED <<stop, due, read, regVars, now, running, ops, left, gone, fired>>

Ready    == \E ready \in SUBSET DOMAIN polled : ready # {} /\ PollReturns(ready)
TimedOut == sleep = 0 /\ PollReturns({})

(* A signal: the interrupt check stops the loop, before poll() or after it *)
(* fails with EINTR, or the loop starts over.  Any other error stops it.   *)
Interrupted ==
  /\ \/ pc = "top" /\ ~stop /\ pc' = "stopped"
     \/ pc = "poll" /\ pc' \in {"top", "stopped"}
  /\ polled' = <<>> /\ sleep' = Forever
  /\ UNCHANGED <<stop, due, read, regVars, now, running, ops, left, gone, fired>>

Runs(who) == running' = who /\ ops' = MaxOps

(* The callbacks of ready descriptors, in the order of their ids; a watch  *)
(* dropped since poll() is passed over.                                    *)
MutWatchToRun(id) ==
  {w \in Live(watches) : watches[w].fd = polled[id]}
WatchToRun(id) == {id} \cap Live(watches)

DispatchFd ==
  /\ pc = "fds" /\ running = Nobody /\ ~stop /\ polled # <<>>
  /\ LET id == CHOOSE i \in DOMAIN polled : \A j \in DOMAIN polled : i <= j
     IN  /\ polled' = Restrict(polled, DOMAIN polled \ {id})
         /\ IF WatchToRun(id) = {} THEN UNCHANGED <<running, ops>>
            ELSE \E w \in WatchToRun(id) : Runs(<<"watch", w>>)
  /\ UNCHANGED <<pc, stop, sleep, due, read, regVars, now, left, gone, fired>>

(* run_due_timers(): the clock is read once, and the timers due by it are  *)
(* run unless one of them cancels another.                                 *)
MutIsDueNaive(id) == timers[id].due <= now
MutIsDueExact(id) == Until(timers[id].due, now) = 0
IsDue(id) == Until(timers[id].due, now) <= 0

FdsDone ==
  /\ pc = "fds" /\ running = Nobody
  /\ IF stop THEN pc' = "stopped" /\ UNCHANGED <<due, read>>
     ELSE /\ polled = <<>> /\ pc' = "timers" /\ read' = now
          /\ due' = {id \in Live(timers) : IsDue(id)}
  /\ polled' = <<>>
  /\ UNCHANGED <<stop, sleep, regVars, now, running, ops, left, gone, fired>>

MutStillDue(id) == TRUE
StillDue(id) == id \in Live(timers)

(* A repeating timer is set again, a one-shot one is dead, before it runs. *)
Rearmed(id) ==
  IF timers[id].interval > 0
  THEN [timers EXCEPT ![id].due = (read + timers[id].interval) % Modulus]
  ELSE [timers EXCEPT ![id].dead = TRUE]

DispatchTimer ==
  /\ pc = "timers" /\ running = Nobody /\ due # {}
  /\ LET id == CHOOSE i \in due : \A j \in due : i <= j
         again == timers[id].interval > 0
     IN  /\ due' = due \ {id}
         /\ IF ~StillDue(id) THEN UNCHANGED <<timers, running, ops, left, fired>>
            ELSE /\ Runs(<<"timer", id>>) /\ timers' = Rearmed(id)
                 /\ left' = [left EXCEPT ![id] =
                               IF again THEN timers[id].interval - ((now - read) % Modulus) ELSE @]
                 /\ fired' = IF again THEN fired ELSE fired \cup {id}
  /\ UNCHANGED <<pc, stop, polled, sleep, read, watches, nextTimer, nextWatch, now, gone>>

RoundDone ==
  /\ pc = "timers" /\ running = Nobody /\ due = {}
  /\ pc' = IF stop THEN "stopped" ELSE "top"
  /\ read' = 0
  /\ UNCHANGED <<stop, polled, sleep, due, regVars, now, running, ops, left, gone, fired>>
-----------------------------------------------------------------------------
(* What a callback may do.  Before the first round the owners of the       *)
(* program's registrations do the same.                                    *)
Op == running # Nobody /\ ops > 0 /\ ops' = ops - 1

DueIn(delay) == (now + delay) % Modulus

Arms(delay, interval) ==
  /\ Op /\ nextTimer <= MaxTimers /\ nextTimer' = nextTimer + 1
  /\ timers' = With(timers, nextTimer, [due |-> DueIn(delay), dead |-> FALSE,
                                        interval |-> interval])
  /\ left' = [left EXCEPT ![nextTimer] = delay]
  /\ UNCHANGED <<loopVars, watches, nextWatch, now, running, gone, fired>>

AddTimer(delay) == Arms(delay, 0)
AddRepeating(interval) ==
  LET every == IF interval = 0 THEN 1 ELSE interval IN Arms(every, every)

CancelTimer(id) ==
  timers' = IF id \in DOMAIN timers THEN [timers EXCEPT ![id].dead = TRUE] ELSE timers

ResetTimer(id) ==
  /\ Op /\ id < nextTimer /\ <<"timer", id>> \notin gone
  /\ CancelTimer(id) /\ gone' = gone \cup {<<"timer", id>>}
  /\ UNCHANGED <<loopVars, watches, nextTimer, nextWatch, now, running, left, fired>>

AddFd(fd) ==
  /\ Op /\ nextWatch <= MaxWatches
  /\ \A id \in Live(watches) : watches[id].fd # fd
  /\ watches' = With(watches, nextWatch, [fd |-> fd, dead |-> FALSE])
  /\ nextWatch' = nextWatch + 1
  /\ UNCHANGED <<loopVars, timers, nextTimer, now, running, left, gone, fired>>

ResetWatch(id) ==
  /\ Op /\ id < nextWatch /\ <<"watch", id>> \notin gone
  /\ watches' = IF id \in DOMAIN watches THEN [watches EXCEPT ![id].dead = TRUE] ELSE watches
  /\ gone' = gone \cup {<<"watch", id>>}
  /\ UNCHANGED <<loopVars, timers, nextTimer, nextWatch, now, running, left, fired>>

Stop ==
  /\ Op /\ stop' = TRUE
  /\ UNCHANGED <<pc, polled, sleep, due, read, regVars, now, running, left, gone, fired>>

Return ==
  /\ running # Nobody /\ running' = Nobody /\ ops' = 0
  /\ UNCHANGED <<loopVars, regVars, now, left, gone, fired>>

Callback ==
  \/ \E d \in Delays : AddTimer(d) \/ AddRepeating(d)
  \/ \E id \in TimerIds : ResetTimer(id)
  \/ \E fd \in Fds : AddFd(fd)
  \/ \E id \in WatchIds : ResetWatch(id)
  \/ Stop

(* A millisecond passes, asleep or in a callback.  Nothing keeps the       *)
(* thread from running for half of the clock's range.                      *)
Tick ==
  /\ pc = "poll" \/ running # Nobody
  /\ \A id \in Live(timers) : left[id] > 1 - Half
  /\ now' = (now + 1) % Modulus
  /\ left' = [id \in TimerIds |-> IF id \in Live(timers) THEN left[id] - 1 ELSE 0]
  /\ sleep' = IF pc = "poll" /\ sleep > 0 THEN sleep - 1 ELSE sleep
  /\ UNCHANGED <<pc, stop, polled, due, read, regVars, running, ops, gone, fired>>

Init ==
  /\ pc = "top" /\ stop = FALSE /\ now = Modulus - 1
  /\ \E d \in Delays : timers = [id \in {1} |-> [due |-> (now + d) % Modulus, dead |-> FALSE,
                                                 interval |-> d]]
                       /\ left = [id \in TimerIds |-> IF id = 1 THEN d ELSE 0]
  /\ LET fd == CHOOSE fd \in Fds : TRUE IN watches = [id \in {1} |-> [fd |-> fd, dead |-> FALSE]]
  /\ nextTimer = 2 /\ nextWatch = 2
  /\ polled = <<>> /\ sleep = Forever /\ due = {} /\ read = 0
  /\ running = Nobody /\ ops = 0 /\ gone = {} /\ fired = {}

Loop == Top \/ TimedOut \/ DispatchFd \/ FdsDone \/ DispatchTimer \/ RoundDone \/ Return

Done == pc = "stopped" /\ UNCHANGED vars

Next == Loop \/ Ready \/ Interrupted \/ Callback \/ Tick \/ Done

Spec == Init /\ [][Next]_vars

(* The loop goes on, callbacks return and time passes; whether data comes  *)
(* is open, and signals do not interrupt every poll().                     *)
FairSpec == Spec /\ WF_vars(Loop) /\ SF_vars(TimedOut) /\ SF_vars(Tick)
-----------------------------------------------------------------------------
Registrations == {"timer"} \X TimerIds \cup {"watch"} \X WatchIds

TypeOK ==
  /\ pc \in {"top", "poll", "fds", "timers", "stopped"} /\ stop \in BOOLEAN
  /\ now \in 0 .. Modulus - 1 /\ read \in 0 .. Modulus - 1
  /\ DOMAIN timers \subseteq TimerIds /\ DOMAIN watches \subseteq WatchIds
  /\ \A id \in DOMAIN timers : timers[id].due \in 0 .. Modulus - 1
  /\ nextTimer \in 1 .. MaxTimers + 1 /\ nextWatch \in 1 .. MaxWatches + 1
  /\ DOMAIN polled \subseteq WatchIds /\ sleep \in Forever .. MaxSleep
  /\ due \subseteq TimerIds /\ running \in Registrations \cup {Nobody} /\ ops \in 0 .. MaxOps

Starts(kind, id) == running = Nobody /\ running' = <<kind, id>>

(* What is over is never called, although the round may have found it due  *)
(* or ready before: a registration whose handle was reset, and a one-shot  *)
(* timer that has run (Registration::reset, run_due_timers).               *)
NeverOnceOver ==
  [][\A who \in gone \cup ({"timer"} \X fired) : ~(running = Nobody /\ running' = who)]_vars

(* No timer runs before its time, whenever the clock wraps (the signed     *)
(* differences of next_due_ms and run_due_timers).                         *)
NeverEarly == [][\A id \in TimerIds : Starts("timer", id) => left[id] <= 0]_vars

(* A watch is told of events on the descriptor it was polled with, never   *)
(* of those of another that had the same number earlier in the round.      *)
OwnEvents == [][\A id \in WatchIds : Starts("watch", id) => id \in DOMAIN polled]_vars

(* An armed timer is run or cancelled in the end, the loop not being       *)
(* stopped: poll() never sleeps past the soonest of them.                  *)
EveryTimerRuns ==
  \A id \in TimerIds :
    id \in Live(timers) ~> id \notin Live(timers) \/ running = <<"timer", id>> \/ pc = "stopped"
=============================================================================
