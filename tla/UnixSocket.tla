----------------------------- MODULE UnixSocket -----------------------------
(***************************************************************************)
(* The companion server's Unix socket (src/companion/server.cpp): daemons  *)
(* that start, stop and crash around one path.  A lock file beside it      *)
(* tells a socket that a crash left behind from one that is in use.        *)
(*                                                                         *)
(* Daemons are processes, so every system call that another one can see    *)
(* the effect of is a step.  Any of them may fail.  A socket is the start  *)
(* it was bound in: [of |-> d, nr |-> n].                                  *)
(***************************************************************************)
EXTENDS Naturals

CONSTANTS Daemons,    \* processes given the same socket_path
          NoDaemon,   \* nobody holds the lock
          MaxStarts   \* bound: how often each of them is started

ASSUME SocketAssumption == NoDaemon \notin Daemons /\ MaxStarts \in Nat

VARIABLES pc,        \* how far a daemon's start or shutdown has come
          lock,      \* who holds the lock file
          path,      \* what is at socket_path
          recorded,  \* unix_path_dev_ and unix_path_ino_
          starts,    \* how often each daemon has been started
          exit       \* history: how each daemon last ended

vars == <<pc, lock, path, recorded, starts, exit>>

Nothing == [is |-> "nothing"]
File    == [is |-> "file"]
Socket(d, n) == [is |-> "socket", of |-> d, nr |-> n]
Mine(d) == Socket(d, starts[d])
Sockets == [is : {"socket"}, of : Daemons, nr : Nat]

At(d, here, there) == pc[d] = here /\ pc' = [pc EXCEPT ![d] = there]
Ends(d, how) == exit' = [exit EXCEPT ![d] = how]

(* An early return of start_unix() before the socket is bound.             *)
GivesUp(d, how) ==
  /\ pc' = [pc EXCEPT ![d] = "off"] /\ lock' = NoDaemon
  /\ Ends(d, how)
  /\ UNCHANGED <<path, recorded, starts>>
-----------------------------------------------------------------------------
(* start_unix(): the lock is taken, or start() fails.                      *)
TakeLock(d) ==
  /\ pc[d] = "off" /\ starts[d] < MaxStarts
  /\ starts' = [starts EXCEPT ![d] = @ + 1]
  /\ \/ /\ lock = NoDaemon /\ lock' = d
        /\ At(d, "off", "locked")
        /\ Ends(d, "running")
     \/ /\ lock # NoDaemon
        /\ Ends(d, "refused")
        /\ UNCHANGED <<pc, lock>>
     \/ /\ Ends(d, "failed")
        /\ UNCHANGED <<pc, lock>>
  /\ UNCHANGED <<path, recorded>>

(* lstat(): what is at the path; anything but a socket is left alone.      *)
Inspect(d) ==
  /\ pc[d] = "locked"
  /\ \/ /\ path = Nothing /\ At(d, "locked", "clear")
        /\ UNCHANGED <<lock, path, recorded, starts, exit>>
     \/ /\ path \notin {Nothing, File} /\ At(d, "locked", "stale")
        /\ UNCHANGED <<lock, path, recorded, starts, exit>>
     \/ path = File /\ GivesUp(d, "refused")
     \/ GivesUp(d, "failed")

RemoveStale(d) ==
  /\ pc[d] = "stale"
  /\ \/ /\ path' = Nothing /\ At(d, "stale", "clear")
        /\ UNCHANGED <<lock, recorded, starts, exit>>
     \/ GivesUp(d, "failed")

Bind(d) ==
  /\ pc[d] = "clear"
  /\ \/ /\ path = Nothing /\ path' = Mine(d) /\ At(d, "clear", "bound")
        /\ UNCHANGED <<lock, recorded, starts, exit>>
     \/ path # Nothing /\ GivesUp(d, "refused")
     \/ GivesUp(d, "failed")

(* lstat() of what was bound; without it, cleanup will not know it.        *)
MutInspectBound(d) ==
  /\ \/ At(d, "bound", "ready") /\ UNCHANGED exit
     \/ At(d, "bound", "closing") /\ Ends(d, "failed")
  /\ UNCHANGED <<lock, path, recorded, starts>>
InspectBound(d) ==
  /\ \/ /\ At(d, "bound", "ready")
        /\ recorded' = [recorded EXCEPT ![d] = path]
        /\ UNCHANGED exit
     \/ /\ At(d, "bound", "closing")
        /\ Ends(d, "failed")
        /\ UNCHANGED recorded
  /\ UNCHANGED <<lock, path, starts>>

(* chown(), chmod(), listen() and fcntl().                                 *)
Listen(d) ==
  /\ \/ At(d, "ready", "listening") /\ UNCHANGED exit
     \/ At(d, "ready", "closing") /\ Ends(d, "failed")
  /\ UNCHANGED <<lock, path, recorded, starts>>

(* shutdown(): the listening socket is closed first, and the lock given    *)
(* back last.                                                              *)
MutShutdown(d) ==
  /\ At(d, "listening", "closing")
  /\ lock' = NoDaemon
  /\ Ends(d, "stopped")
  /\ UNCHANGED <<path, recorded, starts>>
Shutdown(d) ==
  /\ At(d, "listening", "closing")
  /\ Ends(d, "stopped")
  /\ UNCHANGED <<lock, path, recorded, starts>>

(* cleanup_unix_path(): lstat() and unlink(), of its own socket only.  An  *)
(* lstat() that fails leaves the socket, and nothing is said of it.        *)
IsOwn(d) == path # Nothing /\ path = recorded[d]
CleanupUnixPath(d) ==
  /\ \/ IsOwn(d) /\ At(d, "closing", "removing") /\ UNCHANGED exit
     \/ ~IsOwn(d) /\ At(d, "closing", "unlocking") /\ UNCHANGED exit
     \/ recorded[d] # Nothing /\ At(d, "closing", "unlocking") /\ Ends(d, "failed")
  /\ UNCHANGED <<lock, path, recorded, starts>>

(* A failing unlink() is logged.                                           *)
Unlink(d) ==
  /\ At(d, "removing", "unlocking")
  /\ \/ path' = Nothing /\ UNCHANGED exit
     \/ Ends(d, "failed") /\ UNCHANGED path
  /\ UNCHANGED <<lock, recorded, starts>>

Unlock(d) ==
  /\ At(d, "unlocking", "off")
  /\ lock' = IF lock = d THEN NoDaemon ELSE lock
  /\ recorded' = [recorded EXCEPT ![d] = Nothing]
  /\ UNCHANGED <<path, starts, exit>>

(* The kernel closes what a process that dies had open, and so gives its   *)
(* lock back; the path stays.                                              *)
Crash(d) ==
  /\ pc[d] # "off" /\ pc' = [pc EXCEPT ![d] = "off"]
  /\ lock' = IF lock = d THEN NoDaemon ELSE lock
  /\ recorded' = [recorded EXCEPT ![d] = Nothing]
  /\ Ends(d, "crashed")
  /\ UNCHANGED <<path, starts>>
-----------------------------------------------------------------------------
Init ==
  /\ pc = [d \in Daemons |-> "off"] /\ lock = NoDaemon
  /\ path \in {Nothing, File} \cup {Socket(d, 0) : d \in Daemons}
  /\ recorded = [d \in Daemons |-> Nothing]
  /\ starts = [d \in Daemons |-> 0]
  /\ exit = [d \in Daemons |-> "crashed"]

Step(d) ==
  \/ TakeLock(d) \/ Inspect(d) \/ RemoveStale(d) \/ Bind(d) \/ InspectBound(d) \/ Listen(d)
  \/ Shutdown(d) \/ CleanupUnixPath(d) \/ Unlink(d) \/ Unlock(d) \/ Crash(d)

Next == \E d \in Daemons : Step(d)
Spec == Init /\ [][Next]_vars
-----------------------------------------------------------------------------
Places == {"off", "locked", "stale", "clear", "bound", "ready", "listening", "closing",
           "removing", "unlocking"}

TypeOK ==
  /\ pc \in [Daemons -> Places]
  /\ lock \in Daemons \cup {NoDaemon}
  /\ path \in {Nothing, File} \cup Sockets
  /\ recorded \in [Daemons -> {Nothing, File} \cup Sockets]
  /\ starts \in [Daemons -> 0..MaxStarts]
  /\ exit \in [Daemons -> {"running", "refused", "failed", "stopped", "crashed"}]

(* A daemon that listens is the one the path leads to, so no two of them   *)
(* listen: "Blindly unlinking the latter would let two servers run while   *)
(* only the newer one remained reachable by path" (start_unix() and        *)
(* shutdown(), at whatever system call the others start, stop or die).     *)
LiveIsReachable == \A d \in Daemons : pc[d] = "listening" => path = Mine(d)

(* What crashed daemons leave behind does not keep another from starting:  *)
(* the lock is held by one that runs, and where bind() is called there is  *)
(* nothing in its way (start_unix()).                                      *)
OnlyTheLivingRefuse ==
  /\ lock # NoDaemon => pc[lock] # "off"
  /\ \A d \in Daemons : pc[d] = "clear" => path = Nothing

(* A daemon that was stopped, and whose lstat() and unlink() did not fail, *)
(* has left no socket behind (shutdown() and cleanup_unix_path()).         *)
StoppedLeavesNothing ==
  \A d \in Daemons : pc[d] = "off" /\ exit[d] = "stopped" => \A n \in 0..MaxStarts : path # Socket(d, n)
=============================================================================
