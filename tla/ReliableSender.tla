--------------------------- MODULE ReliableSender ---------------------------
(***************************************************************************)
(* Direct messages retried until acknowledged (src/mesh/sender.cpp), above *)
(* a transmit queue known only by its promise (module TxQueue, which the   *)
(* Dispatcher implements) and beside a contact list that changes under it. *)
(*                                                                         *)
(* The queue calls on_tx_result() from inside the step that answers a      *)
(* packet, so a step of the queue and what it makes the sender do are one  *)
(* step here.  Deadlines are kept as the time that remains.  The shape of  *)
(* a message is left out: two sends are the same message when they agree   *)
(* on contact, text, type and timestamp.                                   *)
(***************************************************************************)
EXTENDS Integers, FiniteSets, Sequences

CONSTANTS Contacts,      \* public keys
          Messages,      \* what the app may send: records with a field to
          Unsealable,    \* the messages with no shared secret or too long
          MaxAttempts,   \* kMaxAttempts
          RetryDelay,    \* kRetryDelayMs
          AdvanceDelay,  \* the 1 ms to the next attempt after a drop
          PendingLimit,  \* pending_limit_
          Hashes,        \* ack hashes, short enough to collide
          AckHash(_, _), \* message_ack_hash() of a message and an attempt
          MaxOps,        \* bound: how many operations are ever registered
          MaxOthers,     \* bound: how many other packets are ever queued
          MaxSends       \* bound: how many packets are ever queued

ASSUME SenderAssumption ==
  /\ MaxAttempts \in Nat \ {0} /\ AdvanceDelay \in Nat /\ PendingLimit \in Nat
  /\ RetryDelay \in Seq(Nat) /\ RetryDelay # <<>>
  /\ MaxOps \in Nat /\ MaxOthers \in Nat /\ MaxSends \in Nat
  /\ Messages \subseteq [to : Contacts, text : STRING] /\ Unsealable \subseteq Messages
  /\ \A m \in Messages, a \in 0 .. MaxAttempts - 1 : AckHash(m, a) \in Hashes

VARIABLES pending,    \* pending_, by id; vector order is id order
          nextId,     \* next_id_
          contacts,   \* contacts_: which are there, and with a known path
          accepted, waiting, sent, dropped, busy,  \* the transmit queue
          carrier,    \* the operation and attempt each packet is for
          holdoff,    \* history: time left of the retry delay of each operation
          confirmed   \* history: the hashes reported acknowledged to the app

queueVars == <<accepted, waiting, sent, dropped, busy>>
vars == <<pending, nextId, contacts, queueVars, carrier, holdoff, confirmed>>

Queue == INSTANCE TxQueue

NoTimer == -1
NoOp    == 0          \* the id of a packet without retry state
OpIds   == 1 .. MaxOps
Packets == 0 .. MaxSends - 1

Routes == {"absent", "pathless", "routed"}

Carriers == [op : OpIds, msg : Messages, attempt : 0 .. MaxAttempts - 1, flood : BOOLEAN]
Other    == [op |-> NoOp]
-----------------------------------------------------------------------------
(* The wait after attempt number a: the last delay serves for the rest.    *)
DelayAfter(a) == RetryDelay[IF a < Len(RetryDelay) THEN a + 1 ELSE Len(RetryDelay)]

(* on_tx_result() for the packets of an operation still pending: the retry *)
(* timer starts when a packet goes on the air; a dropped one is followed   *)
(* at once by the next attempt.                                            *)
MutOnTxResult(op, onAir, lost) ==
  [op EXCEPT !.timer = IF onAir THEN DelayAfter(op.attempt) ELSE @]
MutAdvancesAtOnce(op, onAir, lost) ==
  [op EXCEPT !.timer = IF onAir \/ lost THEN AdvanceDelay ELSE @]
OnTxResult(op, onAir, lost) ==
  [op EXCEPT !.timer = IF onAir THEN DelayAfter(op.attempt)
                       ELSE IF lost THEN AdvanceDelay ELSE @]

(* The queue hands packets tx to the radio and drops packets lost.         *)
Answers(ops, lost, tx) ==
  LET Of(S, id) == \E s \in S : carrier'[s].op = id
  IN  /\ pending' = [id \in DOMAIN ops |-> OnTxResult(ops[id], Of(tx, id), Of(lost, id))]
      /\ holdoff' = [id \in OpIds |-> IF id \in DOMAIN ops /\ Of(tx, id)
                                      THEN DelayAfter(ops[id].attempt) ELSE holdoff[id]]

(* Dispatcher::send() of a packet described by c.                          *)
Enqueue(ops, c) ==
  /\ carrier' = [carrier EXCEPT ![accepted] = c]
  /\ \E lost, tx \in SUBSET (waiting \cup {accepted}) :
       /\ Queue!Accept(lost, tx)
       /\ Answers(ops, lost, tx)

(* send_attempt() and route_to(), for a message that can be sealed.        *)
Accepts(op) == op.accepts \cup {AckHash(op.msg, op.attempt)}

SendAttempt(ops, id, forceFlood) ==
  LET op == [ops[id] EXCEPT !.accepts = Accepts(ops[id])]
  IN  Enqueue([ops EXCEPT ![id] = op],
              [op |-> id, msg |-> op.msg, attempt |-> op.attempt,
               flood |-> forceFlood \/ contacts[op.msg.to] # "routed"])

Erase(ops, ids) == [id \in DOMAIN ops \ ids |-> ops[id]]
-----------------------------------------------------------------------------
(* send() of a message that expects an ack.  A duplicate joins the         *)
(* operation that is pending.                                              *)
IsDuplicate(m) == \E id \in DOMAIN pending : pending[id].msg = m

Send(m) ==
  /\ contacts[m.to] # "absent"
  /\ ~IsDuplicate(m)
  /\ Cardinality(DOMAIN pending) < PendingLimit
  /\ nextId <= MaxOps
  /\ nextId' = nextId + 1
  /\ \/ /\ m \in Unsealable
        /\ UNCHANGED <<pending, queueVars, carrier, holdoff>>
     \/ /\ m \notin Unsealable
        /\ SendAttempt([id \in DOMAIN pending \cup {nextId} |->
                          IF id = nextId
                          THEN [msg |-> m, ackHash |-> AckHash(m, 0), attempt |-> 0,
                                accepts |-> {}, timer |-> NoTimer]
                          ELSE pending[id]],
                       nextId, FALSE)
  /\ UNCHANGED <<contacts, confirmed>>

(* send() of CLI data, and what the rest of the node gives the queue: no   *)
(* retry state and no result.                                              *)
SendOther ==
  /\ Cardinality({s \in 0 .. accepted - 1 : carrier[s].op = NoOp}) < MaxOthers
  /\ Enqueue(pending, Other)
  /\ UNCHANGED <<nextId, contacts, confirmed>>

(* The queue answers packets of its own accord (a pump timer, a reply).    *)
QueueServes(lost, tx) ==
  /\ lost \cup tx # {}
  /\ Queue!Service(lost, tx)
  /\ UNCHANGED carrier
  /\ Answers(pending, lost, tx)
  /\ UNCHANGED <<nextId, contacts, confirmed>>

QueueTxDone ==
  /\ busy /\ Queue!TxDone
  /\ UNCHANGED <<pending, nextId, contacts, carrier, holdoff, confirmed>>

(* on_retry()                                                              *)
Exhausted(attempt) == attempt >= MaxAttempts

NextAttempt(attempt) == attempt + 1

MutIsLast(attempt) == FALSE
IsLast(attempt) == attempt = MaxAttempts - 1

MutOnRetry(id) ==
  /\ id \in DOMAIN pending /\ pending[id].timer = 0
  /\ LET op == [pending[id] EXCEPT !.attempt = NextAttempt(@), !.timer = NoTimer]
     IN  \/ /\ contacts[op.msg.to] = "absent"
            /\ pending' = [pending EXCEPT ![id].timer = AdvanceDelay]
            /\ UNCHANGED <<queueVars, carrier, holdoff>>
         \/ /\ Exhausted(op.attempt) /\ contacts[op.msg.to] # "absent"
            /\ pending' = Erase(pending, {id})
            /\ UNCHANGED <<queueVars, carrier, holdoff>>
         \/ /\ ~Exhausted(op.attempt) /\ contacts[op.msg.to] # "absent"
            /\ SendAttempt([pending EXCEPT ![id] = op], id, IsLast(op.attempt))
  /\ UNCHANGED <<nextId, contacts, confirmed>>
OnRetry(id) ==
  /\ id \in DOMAIN pending /\ pending[id].timer = 0
  /\ LET op == [pending[id] EXCEPT !.attempt = NextAttempt(@), !.timer = NoTimer]
     IN  \/ /\ Exhausted(op.attempt) \/ contacts[op.msg.to] = "absent"
            /\ pending' = Erase(pending, {id})
            /\ UNCHANGED <<queueVars, carrier, holdoff>>
         \/ /\ ~Exhausted(op.attempt) /\ contacts[op.msg.to] # "absent"
            /\ SendAttempt([pending EXCEPT ![id] = op], id, IsLast(op.attempt))
  /\ UNCHANGED <<nextId, contacts, confirmed>>

(* complete(), from Node::complete_ack(): the first operation that accepts *)
(* the hash ends, and the app is told the hash it was given for it.        *)
MutCompletionHash(op, hash) == hash
CompletionHash(op, hash) == op.ackHash

Matches(hash) == {id \in DOMAIN pending : hash \in pending[id].accepts}

Complete(hash) ==
  /\ \E id \in Matches(hash) :
       /\ \A other \in Matches(hash) : id <= other
       /\ pending' = Erase(pending, {id})
       /\ confirmed' = confirmed \cup {CompletionHash(pending[id], hash)}
  /\ UNCHANGED <<nextId, contacts, queueVars, carrier, holdoff>>

(* An ack, from a peer that heard an attempt: once, repeatedly, or late.   *)
OnAck ==
  \E s \in sent : carrier[s].op # NoOp /\ Complete(AckHash(carrier[s].msg, carrier[s].attempt))

(* upsert(), set_path(), clear_path() and remove() of the contact list.    *)
ContactChanges(c, route) ==
  /\ route # contacts[c]
  /\ contacts' = [contacts EXCEPT ![c] = route]
  /\ UNCHANGED <<pending, nextId, queueVars, carrier, holdoff, confirmed>>

Less(n) == IF n > 0 THEN n - 1 ELSE n

Tick ==
  /\ pending' = [id \in DOMAIN pending |-> [pending[id] EXCEPT !.timer = Less(@)]]
  /\ holdoff' = [id \in OpIds |-> Less(holdoff[id])]
  /\ UNCHANGED <<nextId, contacts, queueVars, carrier, confirmed>>
-----------------------------------------------------------------------------
Init ==
  /\ pending = [id \in {} |-> Other]
  /\ nextId = 1
  /\ contacts \in [Contacts -> Routes]
  /\ Queue!Init
  /\ carrier = [s \in Packets |-> Other]
  /\ holdoff = [id \in OpIds |-> 0]
  /\ confirmed = {}

Next ==
  \/ \E m \in Messages : Send(m)
  \/ SendOther
  \/ \E lost, tx \in SUBSET waiting : QueueServes(lost, tx)
  \/ QueueTxDone
  \/ \E id \in OpIds : OnRetry(id)
  \/ OnAck
  \/ \E c \in Contacts, route \in Routes : ContactChanges(c, route)
  \/ Tick

Spec == Init /\ [][Next]_vars

(* A due timer runs, time passes, the transmission on the air ends, and    *)
(* the queue answers every packet (EveryPacketAnswered of Dispatcher).     *)
(* Nothing is assumed of the peer.                                         *)
Fairness ==
  /\ WF_vars(Tick)
  /\ WF_vars(QueueTxDone)
  /\ \A id \in OpIds : WF_vars(OnRetry(id))
  /\ \A s \in Packets :
       WF_vars(\E lost, tx \in SUBSET waiting : s \in lost \cup tx /\ QueueServes(lost, tx))

FairSpec == Spec /\ Fairness
-----------------------------------------------------------------------------
(***************************************************************************)
(* Properties                                                              *)
(***************************************************************************)
Ops == [msg : Messages, ackHash : Hashes, attempt : 0 .. MaxAttempts - 1,
        accepts : SUBSET Hashes, timer : Nat \cup {NoTimer}]

TypeOK ==
  /\ DOMAIN pending \subseteq OpIds /\ Cardinality(DOMAIN pending) <= PendingLimit
  /\ \A id \in DOMAIN pending : pending[id] \in Ops
  /\ nextId \in 1 .. MaxOps + 1
  /\ contacts \in [Contacts -> Routes]
  /\ accepted \in 0 .. MaxSends
  /\ waiting \subseteq Packets /\ sent \subseteq Packets /\ dropped \subseteq Packets
  /\ busy \in BOOLEAN
  /\ carrier \in [Packets -> Carriers \cup {Other}]
  /\ holdoff \in [OpIds -> Nat]
  /\ confirmed \subseteq Hashes

WaitingFor(id) == {s \in waiting : carrier[s].op = id}

(* Every pending operation is driven by exactly one thing: a packet in the *)
(* transmit queue, whose result will arm the timer, or an armed timer,     *)
(* whose callback will queue a packet or end the operation.  With neither  *)
(* it would hold its slot for ever; with both it would send twice.         *)
Driven ==
  \A id \in DOMAIN pending :
    \/ pending[id].timer = NoTimer /\ \E s \in waiting : WaitingFor(id) = {s}
    \/ pending[id].timer # NoTimer /\ WaitingFor(id) = {}

(* "keep all transmitted hashes so a late or bundled ack for any attempt   *)
(* can complete the original send": the hash of every packet sent for a    *)
(* pending operation is one it accepts.                                    *)
AnyAttemptAcks ==
  \A s \in sent : carrier[s].op \in DOMAIN pending =>
    AckHash(carrier[s].msg, carrier[s].attempt) \in pending[carrier[s].op].accepts

(* Each attempt of an operation is a different packet on the wire: a peer  *)
(* would drop a second copy as a duplicate.                                *)
AttemptsDiffer ==
  \A s, t \in 0 .. accepted - 1 :
    s # t /\ carrier[s].op = carrier[t].op /\ carrier[s].op # NoOp =>
      carrier[s].attempt # carrier[t].attempt

(* As long as no two hashes collide, a hash reported acknowledged to the   *)
(* app is one it was given by send(), for a message that was transmitted.  *)
ConfirmedWasSent ==
  (\A m, n \in Messages, a, b \in 0 .. MaxAttempts - 1 :
     AckHash(m, a) = AckHash(n, b) => m = n /\ a = b) =>
    \A hash \in confirmed :
      \E s \in sent : carrier[s].op # NoOp /\ AckHash(carrier[s].msg, 0) = hash

(* "The retry delay begins only once this attempt is genuinely on air":    *)
(* an attempt goes on the air no sooner than the delay after the previous  *)
(* one that did.                                                           *)
SpacedApart ==
  [][\A s \in sent' \ sent :
       carrier'[s].op \in DOMAIN pending' => holdoff[carrier'[s].op] = 0]_vars

(* "the last one escalates to flood routing": an operation that is given   *)
(* up while its contact is still there has had a flood attempt leave the   *)
(* queue, whatever became of the path in the meantime.                     *)
GivesUpAfterFlood ==
  [][\A id \in DOMAIN pending :
       OnRetry(id) /\ id \notin DOMAIN pending' /\ contacts[pending[id].msg.to] # "absent" =>
         \E s \in sent \cup dropped : carrier[s].op = id /\ carrier[s].flood]_vars

(* Every operation ends: acknowledged, given up, or its contact removed.   *)
EverySendEnds == \A id \in OpIds : id \in DOMAIN pending ~> id \notin DOMAIN pending
=============================================================================
