------------------------------- MODULE TxQueue ------------------------------
(***************************************************************************)
(* What the transmit queue promises its callers (src/mesh/dispatcher.h,    *)
(* TxResultHandler): a packet that send() accepts is answered exactly      *)
(* once, true when the radio takes it, false when it is dropped first; and *)
(* at most one packet is on the air.                                       *)
(*                                                                         *)
(* Packets are named by the order in which send() accepted them.  One call *)
(* of send() or one timer may accept a packet, drop several and hand one   *)
(* to the radio, so a step of this specification does all three at once.   *)
(***************************************************************************)
EXTENDS Naturals

CONSTANT MaxSends     \* bound: how many packets are ever accepted

VARIABLES accepted,   \* how many packets send() has accepted (next_seq_)
          waiting,    \* accepted, not answered
          sent,       \* answered true
          dropped,    \* answered false
          busy        \* a packet is on the air

vars == <<accepted, waiting, sent, dropped, busy>>

Ids == 0 .. MaxSends - 1

Init ==
  /\ accepted = 0
  /\ waiting = {} /\ sent = {} /\ dropped = {}
  /\ busy = FALSE

(* Of the packets in pool, lost are dropped and tx is handed to the radio. *)
Settle(pool, lost, tx) ==
  /\ lost \subseteq pool
  /\ tx \subseteq pool \ lost
  /\ \/ tx = {} /\ UNCHANGED busy
     \/ \E s \in tx : tx = {s} /\ ~busy /\ busy' = TRUE
  /\ waiting' = pool \ (lost \cup tx)
  /\ sent' = sent \cup tx
  /\ dropped' = dropped \cup lost

Accept(lost, tx) ==
  /\ accepted < MaxSends
  /\ accepted' = accepted + 1
  /\ Settle(waiting \cup {accepted}, lost, tx)

Service(lost, tx) ==
  /\ Settle(waiting, lost, tx)
  /\ UNCHANGED accepted

TxDone ==
  /\ busy' = FALSE
  /\ UNCHANGED <<accepted, waiting, sent, dropped>>

Next ==
  \/ \E lost, tx \in SUBSET Ids : Accept(lost, tx) \/ Service(lost, tx)
  \/ TxDone

Spec == Init /\ [][Next]_vars
=============================================================================
