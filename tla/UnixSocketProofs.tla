-------------------------- MODULE UnixSocketProofs --------------------------
(***************************************************************************)
(* The Unix socket for any number of daemons, each started any number of   *)
(* times: proofs of the invariants of UnixSocket.                          *)
(*                                                                         *)
(* None of them is inductive by itself.  Whoever has got past the lock     *)
(* holds it, so what it last saw or did at the path is still true: the     *)
(* conjuncts of Holder say what that is, place by place.                   *)
(***************************************************************************)
EXTENDS UnixSocket, TLAPS

Opening == {"locked", "stale", "clear", "bound", "ready", "listening"}
Holding == {"bound", "ready", "listening", "closing", "removing"}

\* What daemon d knows while it runs.
Holder(d) ==
  /\ pc[d] # "off" => lock = d
  /\ pc[d] \in Opening => exit[d] = "running"
  /\ pc[d] = "clear" => path = Nothing
  /\ pc[d] \in Holding => path = Mine(d)
  /\ pc[d] \in {"ready", "listening"} => recorded[d] = Mine(d)
  /\ pc[d] \in {"closing", "removing"} /\ exit[d] = "stopped" => recorded[d] = Mine(d)
  /\ pc[d] = "unlocking" /\ exit[d] = "stopped" => path = Nothing

\* What it has left behind once it is off.
Left(d) == pc[d] = "off" /\ exit[d] = "stopped" => \A n \in 0..MaxStarts : path # Socket(d, n)

IInv ==
  /\ TypeOK
  /\ lock # NoDaemon => pc[lock] # "off"
  /\ \A d \in Daemons : Holder(d) /\ Left(d)
-----------------------------------------------------------------------------
(* The daemons start off, whatever is at the path.                         *)
LEMMA InitIInv == Init => IInv
<1> SUFFICES ASSUME Init PROVE IInv
  OBVIOUS
<1>1. TypeOK
  BY SocketAssumption DEF Init, TypeOK, Places, Sockets, Socket, Nothing, File
<1>2. lock # NoDaemon => pc[lock] # "off"
  BY DEF Init
<1>3. \A d \in Daemons : Holder(d) /\ Left(d)
  BY DEF Init, Holder, Left, Opening, Holding
<1> QED
  BY <1>1, <1>2, <1>3 DEF IInv

(* Only the holder of the lock is past it: the others are off.             *)
LEMMA OthersAreOff ==
  ASSUME IInv, NEW d \in Daemons, NEW e \in Daemons, e # d, pc[d] # "off"
  PROVE  pc[e] = "off"
  BY DEF IInv, Holder

(* Every step of a daemon keeps the types.                                 *)
LEMMA StepTypeOK ==
  ASSUME IInv, NEW d \in Daemons, Step(d)
  PROVE  TypeOK'
<1> USE SocketAssumption DEF IInv, TypeOK, Places, At, Ends
<1>1. Mine(d) \in Sockets
  BY DEF Mine, Socket, Sockets
<1>2. CASE TakeLock(d)
  BY <1>2 DEF TakeLock
<1>3. CASE Inspect(d)
  BY <1>3 DEF Inspect, GivesUp
<1>4. CASE RemoveStale(d)
  BY <1>4 DEF RemoveStale, GivesUp
<1>5. CASE Bind(d)
  BY <1>1, <1>5 DEF Bind, GivesUp
<1>6. CASE InspectBound(d)
  BY <1>6 DEF InspectBound
<1>7. CASE Listen(d)
  BY <1>7 DEF Listen
<1>8. CASE Shutdown(d)
  BY <1>8 DEF Shutdown
<1>9. CASE CleanupUnixPath(d)
  BY <1>9 DEF CleanupUnixPath
<1>10. CASE Unlink(d)
  BY <1>10 DEF Unlink
<1>11. CASE Unlock(d)
  BY <1>11 DEF Unlock
<1>12. CASE Crash(d)
  BY <1>12 DEF Crash
<1> QED
  BY <1>2, <1>3, <1>4, <1>5, <1>6, <1>7, <1>8, <1>9, <1>10, <1>11, <1>12 DEF Step

(* What a step does to the other daemons: their own state is theirs, and   *)
(* the lock and the path change only under one that runs, while the others *)
(* are off.                                                                *)
LEMMA StepOthers ==
  ASSUME IInv, NEW d \in Daemons, Step(d), NEW e \in Daemons, e # d
  PROVE  /\ pc'[e] = pc[e] /\ exit'[e] = exit[e] /\ starts'[e] = starts[e]
         /\ recorded'[e] = recorded[e]
         /\ pc[e] # "off" => lock' = lock /\ path' = path
         /\ path' \in {path, Nothing, Mine(d)}
<1>1. pc[e] # "off" => pc[d] = "off" /\ lock = e /\ lock # NoDaemon
  BY OthersAreOff, SocketAssumption DEF IInv, Holder
<1> USE DEF IInv, TypeOK, At, Ends
<1>2. CASE TakeLock(d)
  BY <1>1, <1>2 DEF TakeLock
<1>3. CASE Inspect(d)
  BY <1>1, <1>3 DEF Inspect, GivesUp
<1>4. CASE RemoveStale(d)
  BY <1>1, <1>4 DEF RemoveStale, GivesUp
<1>5. CASE Bind(d)
  BY <1>1, <1>5 DEF Bind, GivesUp
<1>6. CASE InspectBound(d)
  BY <1>1, <1>6 DEF InspectBound
<1>7. CASE Listen(d)
  BY <1>1, <1>7 DEF Listen
<1>8. CASE Shutdown(d)
  BY <1>1, <1>8 DEF Shutdown
<1>9. CASE CleanupUnixPath(d)
  BY <1>1, <1>9 DEF CleanupUnixPath
<1>10. CASE Unlink(d)
  BY <1>1, <1>10 DEF Unlink
<1>11. CASE Unlock(d)
  BY <1>1, <1>11 DEF Unlock
<1>12. CASE Crash(d)
  BY <1>1, <1>12 DEF Crash
<1> QED
  BY <1>2, <1>3, <1>4, <1>5, <1>6, <1>7, <1>8, <1>9, <1>10, <1>11, <1>12 DEF Step

(* A daemon's own steps keep what it knows, and the lock with the living.  *)
LEMMA StepOwn ==
  ASSUME IInv, NEW d \in Daemons, Step(d)
  PROVE  /\ Holder(d)' /\ Left(d)'
         /\ lock' # NoDaemon => pc'[lock'] # "off"
<1> USE SocketAssumption DEF IInv, TypeOK, At, Ends, Holder, Left, Opening, Holding, Mine
<1>1. Nothing # Mine(d) /\ \A n \in 0..MaxStarts : Nothing # Socket(d, n)
  BY DEF Nothing, Socket
<1>2. CASE TakeLock(d)
  BY <1>2 DEF TakeLock
<1>3. CASE Inspect(d)
  BY <1>3 DEF Inspect, GivesUp
<1>4. CASE RemoveStale(d)
  BY <1>4 DEF RemoveStale, GivesUp
<1>5. CASE Bind(d)
  BY <1>5 DEF Bind, GivesUp
<1>6. CASE InspectBound(d)
  BY <1>6 DEF InspectBound
<1>7. CASE Listen(d)
  BY <1>7 DEF Listen
<1>8. CASE Shutdown(d)
  BY <1>8 DEF Shutdown
<1>9. CASE CleanupUnixPath(d)
  BY <1>1, <1>9 DEF CleanupUnixPath, IsOwn
<1>10. CASE Unlink(d)
  BY <1>10 DEF Unlink
<1>11. CASE Unlock(d)
  BY <1>1, <1>11 DEF Unlock
<1>12. CASE Crash(d)
  BY <1>12 DEF Crash
<1> QED
  BY <1>2, <1>3, <1>4, <1>5, <1>6, <1>7, <1>8, <1>9, <1>10, <1>11, <1>12 DEF Step

(* The invariant is inductive.                                             *)
LEMMA NextIInv == IInv /\ [Next]_vars => IInv'
<1> SUFFICES ASSUME IInv, [Next]_vars PROVE IInv'
  OBVIOUS
<1>1. CASE UNCHANGED vars
  BY <1>1 DEF IInv, TypeOK, Holder, Left, Mine, vars
<1>2. ASSUME NEW d \in Daemons, Step(d) PROVE IInv'
  <2>1. TypeOK'
    BY <1>2, StepTypeOK
  <2>2. Holder(d)' /\ Left(d)' /\ (lock' # NoDaemon => pc'[lock'] # "off")
    BY <1>2, StepOwn
  <2>3. ASSUME NEW e \in Daemons, e # d PROVE Holder(e)' /\ Left(e)'
    <3>1. Mine(d) # Nothing /\ \A n \in 0..MaxStarts : /\ Socket(e, n) # Mine(d)
                                                       /\ Socket(e, n) # Nothing
      BY <2>3 DEF Mine, Socket, Nothing
    <3> QED
      BY <1>2, <2>3, <3>1, StepOthers DEF IInv, Holder, Left, Mine, Opening, Holding
  <2> QED
    BY <2>1, <2>2, <2>3 DEF IInv
<1> QED
  BY <1>1, <1>2 DEF Next

(* IInv holds in every reachable state.                                    *)
THEOREM Invariance == Spec => []IInv
  BY InitIInv, NextIInv, PTL DEF Spec

(* A daemon that listens is the one the path leads to, for any number of   *)
(* daemons started, stopped and killed at any system call of start_unix()  *)
(* and shutdown().                                                         *)
THEOREM Reachability == Spec => []LiveIsReachable
<1>1. IInv => LiveIsReachable
  BY DEF IInv, Holder, Holding, LiveIsReachable
<1> QED
  BY <1>1, Invariance, PTL

(* Only a running daemon keeps another from starting: nothing a crash of   *)
(* the server left behind does (start_unix()).                             *)
THEOREM RefusedOnlyByTheLiving == Spec => []OnlyTheLivingRefuse
<1>1. IInv => OnlyTheLivingRefuse
  BY DEF IInv, Holder, OnlyTheLivingRefuse
<1> QED
  BY <1>1, Invariance, PTL

(* A daemon that was stopped leaves no socket behind (shutdown()).         *)
THEOREM StopsCleanly == Spec => []StoppedLeavesNothing
<1>1. IInv => StoppedLeavesNothing
  BY DEF IInv, Left, StoppedLeavesNothing
<1> QED
  BY <1>1, Invariance, PTL
=============================================================================
