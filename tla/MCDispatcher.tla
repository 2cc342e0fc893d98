---------------------------- MODULE MCDispatcher ----------------------------
(***************************************************************************)
(* Instances of Dispatcher for TLC.                                        *)
(***************************************************************************)
EXTENDS Dispatcher

CONSTANT h1

Packet(priority, delay, airtime) ==
  [hash |-> h1, airtime |-> airtime, priority |-> priority, delay |-> delay]

(* A delayed and an immediate packet of the most urgent priority, and a    *)
(* longer one that is less urgent.                                         *)
SizedTraffic == {Packet(1, 0, 1), Packet(1, 2, 1), Packet(2, 0, 2)}
=============================================================================
