------------------------ MODULE ReliableSenderProofs ------------------------
(***************************************************************************)
(* Proofs about ReliableSender: every pending operation always has exactly *)
(* one thing that will move it on, any attempt's ack ends it, and no two   *)
(* attempts look alike on the wire, for any number of messages, attempts   *)
(* and colliding hashes.  Then: what is confirmed was sent, when no two    *)
(* hashes collide; retries keep their distance; and a flood is tried       *)
(* before a message is given up.                                           *)
(***************************************************************************)
EXTENDS ReliableSender, FiniteSetTheorems, TLAPS

(***************************************************************************)
(* The invariant, of a table ops of operations, the packets pool that wait *)
(* for an answer, the packets car has named so far (n of them) and the     *)
(* next id.                                                                *)
(***************************************************************************)
Carried(pool, car, id) == {s \in pool : car[s].op = id}

OneDriver(ops, pool, car) ==
  \A id \in DOMAIN ops :
    \/ ops[id].timer = NoTimer /\ \E s \in pool : Carried(pool, car, id) = {s}
    \/ ops[id].timer # NoTimer /\ Carried(pool, car, id) = {}

Table(ops, id) ==
  /\ DOMAIN ops \subseteq OpIds
  /\ Cardinality(DOMAIN ops) <= PendingLimit
  /\ \A i \in DOMAIN ops : ops[i] \in Ops /\ i < id

(* A packet of a pending operation is one of its attempts so far.          *)
IsAttempt(op, c) ==
  /\ c.msg = op.msg
  /\ c.attempt <= op.attempt
  /\ AckHash(c.msg, c.attempt) \in op.accepts

Traced(ops, car, n, id) ==
  /\ car \in [Packets -> Carriers \cup {Other}]
  /\ \A s \in Packets : s < n => car[s].op < id
  /\ \A s \in Packets : s < n /\ car[s].op \in DOMAIN ops => IsAttempt(ops[car[s].op], car[s])

Differ(car, n) ==
  \A s, t \in 0 .. n - 1 :
    s # t /\ car[s].op = car[t].op /\ car[s].op # NoOp => car[s].attempt # car[t].attempt

QueueOK ==
  /\ accepted \in 0 .. MaxSends
  /\ waiting \subseteq 0 .. accepted - 1 /\ sent \subseteq 0 .. accepted - 1
  /\ dropped \subseteq 0 .. accepted - 1
  /\ busy \in BOOLEAN

Inv ==
  /\ Table(pending, nextId) /\ OneDriver(pending, waiting, carrier)
  /\ Traced(pending, carrier, accepted, nextId) /\ Differ(carrier, accepted)
  /\ QueueOK
  /\ nextId \in 1 .. MaxOps + 1
  /\ contacts \in [Contacts -> Routes]
  /\ holdoff \in [OpIds -> Nat]
  /\ confirmed \subseteq Hashes

LEMMA Constants ==
  /\ MaxAttempts \in Nat \ {0} /\ AdvanceDelay \in Nat /\ PendingLimit \in Nat
  /\ MaxOps \in Nat /\ MaxSends \in Nat
  BY SenderAssumption, Zenon

LEMMA DelayNat == \A a \in Nat : DelayAfter(a) \in Nat
<1> TAKE a \in Nat
<1>1. RetryDelay \in Seq(Nat) /\ RetryDelay # <<>>
  BY SenderAssumption, Zenon
<1>2. Len(RetryDelay) \in Nat /\ Len(RetryDelay) # 0
  BY <1>1
<1>3. (IF a < Len(RetryDelay) THEN a + 1 ELSE Len(RetryDelay)) \in 1 .. Len(RetryDelay)
  BY <1>2
<1> QED  BY <1>1, <1>3 DEF DelayAfter

LEMMA InvImplies == Inv => TypeOK /\ Driven /\ AnyAttemptAcks /\ AttemptsDiffer
<1> SUFFICES ASSUME Inv PROVE TypeOK /\ Driven /\ AnyAttemptAcks /\ AttemptsDiffer
  BY Zenon
<1>1. waiting \subseteq Packets /\ sent \subseteq Packets /\ dropped \subseteq Packets
  BY Constants DEF Inv, QueueOK, Packets
<1>2. TypeOK
  BY <1>1, Zenon DEF Inv, Table, Traced, QueueOK, TypeOK
<1>3. Driven
  BY Zenon DEF Inv, OneDriver, Carried, Driven, WaitingFor
<1>4. AnyAttemptAcks
  BY <1>1 DEF Inv, Traced, IsAttempt, AnyAttemptAcks, QueueOK
<1>5. AttemptsDiffer
  BY Zenon DEF Inv, Differ, AttemptsDiffer
<1> QED  BY <1>2, <1>3, <1>4, <1>5, Zenon

(***************************************************************************)
(* The queue answers packets.                                              *)
(***************************************************************************)
LEMMA OnTxResultOp ==
  ASSUME NEW op \in Ops, NEW onAir \in BOOLEAN, NEW lost \in BOOLEAN
  PROVE  /\ OnTxResult(op, onAir, lost) \in Ops
         /\ OnTxResult(op, onAir, lost).msg = op.msg
         /\ OnTxResult(op, onAir, lost).attempt = op.attempt
         /\ OnTxResult(op, onAir, lost).accepts = op.accepts
         /\ onAir \/ lost => OnTxResult(op, onAir, lost).timer # NoTimer
         /\ ~onAir /\ ~lost => OnTxResult(op, onAir, lost).timer = op.timer
<1>1. op.attempt \in Nat /\ op.timer \in Nat \cup {NoTimer}
  BY Constants DEF Ops
<1>2. DelayAfter(op.attempt) \in Nat /\ AdvanceDelay \in Nat
  BY <1>1, DelayNat, Constants, Zenon
<1> QED  BY <1>1, <1>2 DEF Ops, OnTxResult, NoTimer

LEMMA AnswersSound ==
  ASSUME NEW ops, NEW pool, NEW lost, NEW tx, NEW n, NEW id \in Nat,
         Table(ops, id), OneDriver(ops, pool, carrier'), Traced(ops, carrier', n, id),
         lost \subseteq pool, tx \subseteq pool \ lost,
         waiting' = pool \ (lost \cup tx),
         holdoff \in [OpIds -> Nat],
         Answers(ops, lost, tx)
  PROVE  /\ Table(pending', id) /\ OneDriver(pending', waiting', carrier')
         /\ Traced(pending', carrier', n, id)
         /\ holdoff' \in [OpIds -> Nat]
<1> DEFINE Of(S, i) == \E s \in S : carrier'[s].op = i
<1>1. /\ DOMAIN pending' = DOMAIN ops
      /\ \A i \in DOMAIN ops : pending'[i] = OnTxResult(ops[i], Of(tx, i), Of(lost, i))
  BY Zenon DEF Answers
<1>2. \A i \in DOMAIN ops : ops[i] \in Ops
  BY Zenon DEF Table
<1>3. \A i \in DOMAIN ops :
        /\ pending'[i] \in Ops
        /\ pending'[i].msg = ops[i].msg /\ pending'[i].attempt = ops[i].attempt
        /\ pending'[i].accepts = ops[i].accepts
        /\ Of(tx, i) \/ Of(lost, i) => pending'[i].timer # NoTimer
        /\ ~Of(tx, i) /\ ~Of(lost, i) => pending'[i].timer = ops[i].timer
  <2> TAKE i \in DOMAIN ops
  <2>1. Of(tx, i) \in BOOLEAN /\ Of(lost, i) \in BOOLEAN
    BY Zenon
  <2> HIDE DEF Of
  <2> QED  BY <1>1, <1>2, <2>1, OnTxResultOp
<1>4. Table(pending', id)
  BY <1>1, <1>3, Zenon DEF Table
<1>5. OneDriver(pending', waiting', carrier')
  <2> SUFFICES ASSUME NEW i \in DOMAIN ops
               PROVE  \/ /\ pending'[i].timer = NoTimer
                         /\ \E s \in waiting' : Carried(waiting', carrier', i) = {s}
                      \/ pending'[i].timer # NoTimer /\ Carried(waiting', carrier', i) = {}
    BY <1>1, Zenon DEF OneDriver
  <2>1. CASE Of(tx, i) \/ Of(lost, i)
    <3>1. PICK s \in lost \cup tx : carrier'[s].op = i
      BY <2>1, Zenon
    <3>2. s \in Carried(pool, carrier', i)
      BY <3>1, Zenon DEF Carried
    <3>3. Carried(pool, carrier', i) = {s}
      BY <3>2, Zenon DEF OneDriver
    <3>4. Carried(waiting', carrier', i) = {}
      BY <3>1, <3>3, Zenon DEF Carried
    <3> QED  BY <1>3, <2>1, <3>4, Zenon
  <2>2. CASE ~Of(tx, i) /\ ~Of(lost, i)
    <3>1. Carried(waiting', carrier', i) = Carried(pool, carrier', i)
      BY <2>2, Zenon DEF Carried
    <3>2. pending'[i].timer = ops[i].timer
      BY <1>3, <2>2, Zenon
    <3>3. \A s : Carried(waiting', carrier', i) = {s} => s \in waiting'
      BY Zenon DEF Carried
    <3> QED  BY <3>1, <3>2, <3>3, Zenon DEF OneDriver
  <2> QED  BY <2>1, <2>2, Zenon
<1>6. Traced(pending', carrier', n, id)
  BY <1>1, <1>3 DEF Traced, IsAttempt
<1>7. holdoff' \in [OpIds -> Nat]
  <2>1. \A i \in DOMAIN ops : ops[i].attempt \in Nat
    BY <1>2, Constants DEF Ops
  <2> QED  BY <2>1, DelayNat, Zenon DEF Answers
<1> QED  BY <1>4, <1>5, <1>6, <1>7, Zenon

(***************************************************************************)
(* A packet enters the queue.                                              *)
(***************************************************************************)
LEMMA EnqueueSound ==
  ASSUME NEW ops, NEW c \in Carriers \cup {Other}, NEW id \in Nat, id <= MaxOps + 1,
         QueueOK, holdoff \in [OpIds -> Nat], Differ(carrier, accepted),
         Table(ops, id), Traced(ops, carrier, accepted, id), c.op < id,
         \A i \in DOMAIN ops \ {c.op} :
           \/ /\ ops[i].timer = NoTimer
              /\ \E s \in waiting : Carried(waiting, carrier, i) = {s}
           \/ ops[i].timer # NoTimer /\ Carried(waiting, carrier, i) = {},
         c.op \in DOMAIN ops =>
           /\ ops[c.op].timer = NoTimer /\ Carried(waiting, carrier, c.op) = {}
           /\ IsAttempt(ops[c.op], c),
         \A s \in 0 .. accepted - 1 :
           carrier[s].op = c.op /\ c.op # NoOp => carrier[s].attempt # c.attempt,
         Enqueue(ops, c)
  PROVE  /\ Table(pending', id) /\ OneDriver(pending', waiting', carrier')
         /\ Traced(pending', carrier', accepted', id) /\ Differ(carrier', accepted')
         /\ QueueOK'
         /\ holdoff' \in [OpIds -> Nat]
<1> DEFINE pool == waiting \cup {accepted}
<1>1. PICK lost, tx \in SUBSET pool : Queue!Accept(lost, tx) /\ Answers(ops, lost, tx)
  BY Zenon DEF Enqueue
<1>2. /\ accepted \in Packets /\ accepted' = accepted + 1 /\ accepted \in Nat
      /\ lost \subseteq pool /\ tx \subseteq pool \ lost /\ waiting' = pool \ (lost \cup tx)
      /\ sent' = sent \cup tx /\ dropped' = dropped \cup lost
  BY <1>1, Constants DEF Queue!Accept, Queue!Settle, Packets, QueueOK
<1>3. busy' \in BOOLEAN
  BY <1>1, Zenon DEF Queue!Accept, Queue!Settle, QueueOK
<1>4. QueueOK'
  BY <1>2, <1>3, Constants DEF QueueOK, Packets
<1>5. /\ carrier \in [Packets -> Carriers \cup {Other}]
      /\ carrier' \in [Packets -> Carriers \cup {Other}]
      /\ carrier'[accepted] = c /\ \A s \in Packets \ {accepted} : carrier'[s] = carrier[s]
  BY <1>2, Zenon DEF Enqueue, Traced
<1>6. waiting \subseteq Packets /\ accepted \notin waiting
  BY <1>2, Constants DEF QueueOK, Packets
<1>7. /\ \A i : i # c.op => Carried(pool, carrier', i) = Carried(waiting, carrier, i)
      /\ Carried(pool, carrier', c.op) = Carried(waiting, carrier, c.op) \cup {accepted}
  BY <1>5, <1>6 DEF Carried
<1>8. OneDriver(ops, pool, carrier')
  <2> SUFFICES ASSUME NEW i \in DOMAIN ops
               PROVE  \/ ops[i].timer = NoTimer /\ \E s \in pool : Carried(pool, carrier', i) = {s}
                      \/ ops[i].timer # NoTimer /\ Carried(pool, carrier', i) = {}
    BY Zenon DEF OneDriver
  <2>1. CASE i = c.op
    BY <1>7, <2>1, Zenon
  <2>2. CASE i # c.op
    BY <1>7, <2>2, Zenon
  <2> QED  BY <2>1, <2>2, Zenon
<1>9. Traced(ops, carrier', accepted', id)
  <2>1. \A s \in Packets : s < accepted' => s < accepted \/ s = accepted
    BY <1>2 DEF Packets
  <2>2. \A s \in Packets : s < accepted => carrier'[s] = carrier[s]
    BY <1>2, <1>5 DEF Packets
  <2> QED  BY <1>5, <2>1, <2>2, Zenon DEF Traced
<1>10. Differ(carrier', accepted')
  <2> SUFFICES ASSUME NEW s \in 0 .. accepted' - 1, NEW t \in 0 .. accepted' - 1, s # t,
                      carrier'[s].op = carrier'[t].op, carrier'[s].op # NoOp
               PROVE  carrier'[s].attempt # carrier'[t].attempt
    BY Zenon DEF Differ
  <2>1. \A u \in 0 .. accepted - 1 : u \in Packets \ {accepted} /\ carrier'[u] = carrier[u]
    BY <1>2, <1>5, Constants DEF Packets
  <2>2. /\ s \in 0 .. accepted - 1 \/ s = accepted
        /\ t \in 0 .. accepted - 1 \/ t = accepted
    BY <1>2
  <2> QED  BY <1>5, <2>1, <2>2 DEF Differ
<1> HIDE DEF pool
<1> QED  BY <1>1, <1>2, <1>4, <1>8, <1>9, <1>10, AnswersSound, Zenon

LEMMA CarrierRecord ==
  ASSUME NEW id \in OpIds, NEW m \in Messages, NEW a \in 0 .. MaxAttempts - 1, NEW f \in BOOLEAN
  PROVE  [op |-> id, msg |-> m, attempt |-> a, flood |-> f] \in Carriers
  BY Zenon DEF Carriers

(* send_attempt(), for an operation whose attempt number is new and which  *)
(* nothing else drives.                                                    *)
LEMMA SendAttemptSound ==
  ASSUME NEW ops, NEW id, NEW i \in DOMAIN ops, NEW force \in BOOLEAN,
         id \in 1 .. MaxOps + 1, QueueOK, holdoff \in [OpIds -> Nat], Differ(carrier, accepted),
         Table(ops, id), Traced(ops, carrier, accepted, id),
         \A j \in DOMAIN ops \ {i} :
           \/ /\ ops[j].timer = NoTimer
              /\ \E s \in waiting : Carried(waiting, carrier, j) = {s}
           \/ ops[j].timer # NoTimer /\ Carried(waiting, carrier, j) = {},
         ops[i].timer = NoTimer, Carried(waiting, carrier, i) = {},
         \A s \in 0 .. accepted - 1 :
           carrier[s].op = i => carrier[s].attempt < ops[i].attempt,
         SendAttempt(ops, i, force)
  PROVE  /\ Table(pending', id) /\ OneDriver(pending', waiting', carrier')
         /\ Traced(pending', carrier', accepted', id) /\ Differ(carrier', accepted')
         /\ QueueOK'
         /\ holdoff' \in [OpIds -> Nat]
<1> DEFINE op == [ops[i] EXCEPT !.accepts = Accepts(ops[i])]
           new == [ops EXCEPT ![i] = op]
           c == [op |-> i, msg |-> op.msg, attempt |-> op.attempt,
                 flood |-> force \/ contacts[op.msg.to] # "routed"]
<1>1. ops[i] \in Ops /\ i \in OpIds /\ i < id /\ id \in Nat
  BY Constants DEF Table
<1>2. AckHash(ops[i].msg, ops[i].attempt) \in Hashes
  BY <1>1, SenderAssumption, Zenon DEF Ops
<1>3. /\ op \in Ops
      /\ op.timer = NoTimer /\ op.msg = ops[i].msg /\ op.attempt = ops[i].attempt
      /\ op.accepts = ops[i].accepts \cup {AckHash(ops[i].msg, ops[i].attempt)}
  BY <1>1, <1>2, Zenon DEF Ops, Accepts
<1>4. /\ c.op = i /\ c.msg = ops[i].msg /\ c.attempt = ops[i].attempt
  BY <1>3, Zenon
<1>5. c \in Carriers
  <2>1. op.msg \in Messages /\ op.attempt \in 0 .. MaxAttempts - 1
    BY <1>3, Zenon DEF Ops
  <2>2. (force \/ contacts[op.msg.to] # "routed") \in BOOLEAN
    BY Zenon
  <2> HIDE DEF op
  <2> QED  BY <1>1, <2>1, <2>2, CarrierRecord, Zenon
<1>6. Enqueue(new, c)
  BY Zenon DEF SendAttempt
<1> HIDE DEF op, c
<1>7. DOMAIN new = DOMAIN ops /\ new[i] = op /\ \A j \in DOMAIN ops \ {i} : new[j] = ops[j]
  BY Zenon
<1> HIDE DEF new
<1>8. Table(new, id)
  BY <1>3, <1>7, Zenon DEF Table
<1>9. ops[i].attempt \in Nat
  BY <1>1, Constants DEF Ops
<1>10. IsAttempt(new[i], c)
  BY <1>3, <1>4, <1>7, <1>9 DEF IsAttempt
<1>11. Traced(new, carrier, accepted, id)
  <2> SUFFICES ASSUME NEW s \in Packets, s < accepted, carrier[s].op \in DOMAIN ops
               PROVE  IsAttempt(new[carrier[s].op], carrier[s])
    BY <1>7, Zenon DEF Traced
  <2>1. IsAttempt(ops[carrier[s].op], carrier[s])
    BY Zenon DEF Traced
  <2> QED  BY <1>3, <1>7, <2>1, Zenon DEF IsAttempt
<1>12. \A s \in 0 .. accepted - 1 :
         carrier[s].op = c.op /\ c.op # NoOp => carrier[s].attempt # c.attempt
  BY <1>4, <1>9
<1> QED
  BY <1>1, <1>3, <1>4, <1>5, <1>6, <1>7, <1>8, <1>10, <1>11, <1>12, EnqueueSound, SMTT(30)
-----------------------------------------------------------------------------
(***************************************************************************)
(* The actions                                                             *)
(***************************************************************************)
LEMMA InitInv == Init => Inv
<1> SUFFICES ASSUME Init PROVE Inv
  BY Zenon
<1>1. DOMAIN pending = {} /\ nextId = 1 /\ accepted = 0
  BY Zenon DEF Init, Queue!Init
<1>2. Cardinality(DOMAIN pending) = 0
  BY <1>1, FS_EmptySet, Zenon
<1>3. Table(pending, nextId)
  BY <1>1, <1>2, Constants DEF Table
<1>4. OneDriver(pending, waiting, carrier)
  BY <1>1, Zenon DEF OneDriver
<1>5. Traced(pending, carrier, accepted, nextId) /\ Differ(carrier, accepted)
  <2>1. carrier \in [Packets -> Carriers \cup {Other}]
    BY Zenon DEF Init
  <2> QED  BY <1>1, <2>1 DEF Traced, Differ, Packets
<1>6. QueueOK
  <2>1. accepted = 0 /\ waiting = {} /\ sent = {} /\ dropped = {}
    BY Zenon DEF Init, Queue!Init
  <2>2. busy \in BOOLEAN
    BY Zenon DEF Init, Queue!Init
  <2> QED  BY <2>1, <2>2, Constants DEF QueueOK
<1>7. nextId \in 1 .. MaxOps + 1 /\ contacts \in [Contacts -> Routes]
  BY <1>1, Constants DEF Init
<1>8. holdoff \in [OpIds -> Nat] /\ confirmed \subseteq Hashes
  BY Zenon DEF Init
<1> QED  BY <1>3, <1>4, <1>5, <1>6, <1>7, <1>8, Zenon DEF Inv

LEMMA TableFinite ==
  ASSUME NEW ops, NEW id, Table(ops, id)
  PROVE  IsFiniteSet(DOMAIN ops) /\ Cardinality(DOMAIN ops) \in Nat
<1>1. IsFiniteSet(OpIds)
  BY Constants, FS_Interval DEF OpIds
<1> QED  BY <1>1, FS_Subset, FS_CardinalityType, Zenon DEF Table

LEMMA SendInv ==
  ASSUME Inv, NEW m \in Messages, Send(m)
  PROVE  Inv'
<1> DEFINE op == [msg |-> m, ackHash |-> AckHash(m, 0), attempt |-> 0,
                  accepts |-> {}, timer |-> NoTimer]
           ops == [id \in DOMAIN pending \cup {nextId} |-> IF id = nextId THEN op ELSE pending[id]]
<1>1. nextId \in 1 .. MaxOps + 1 /\ nextId <= MaxOps /\ nextId' = nextId + 1
  BY Zenon DEF Send, Inv
<1>2. /\ nextId \in OpIds /\ nextId' = nextId + 1 /\ nextId' \in 1 .. MaxOps + 1
      /\ UNCHANGED <<contacts, confirmed>>
  BY <1>1, Constants, SMTT(30) DEF Send, OpIds
<1>3. /\ Table(pending, nextId) /\ OneDriver(pending, waiting, carrier)
      /\ Traced(pending, carrier, accepted, nextId) /\ Differ(carrier, accepted)
      /\ QueueOK /\ holdoff \in [OpIds -> Nat]
  BY Zenon DEF Inv
<1>4. CASE UNCHANGED <<pending, queueVars, carrier, holdoff>>
  <2>1. Table(pending, nextId')
    BY <1>2, <1>3 DEF Table, OpIds
  <2>2. Traced(pending, carrier, accepted, nextId')
    <3>1. \A s \in Packets : carrier[s].op \in Int
      BY <1>3 DEF Traced, Carriers, Other, NoOp, OpIds
    <3> QED  BY <1>2, <1>3, <3>1 DEF Traced, OpIds
  <2> QED  BY <1>2, <1>3, <1>4, <2>1, <2>2, Zenon DEF Inv, queueVars, QueueOK
<1>5. CASE SendAttempt(ops, nextId, FALSE)
  <2>1. op \in Ops
    <3>1. AckHash(m, 0) \in Hashes
      BY SenderAssumption, Constants
    <3> QED  BY <3>1, Constants DEF Ops
  <2>2. op.timer = NoTimer /\ op.attempt = 0
    BY Zenon
  <2> HIDE DEF op
  <2>3. /\ DOMAIN ops = DOMAIN pending \cup {nextId} /\ ops[nextId] = op
        /\ nextId \notin DOMAIN pending
        /\ \A j \in DOMAIN pending : ops[j] = pending[j]
    BY <1>2, <1>3 DEF Table, OpIds
  <2> HIDE DEF ops
  <2>4. Cardinality(DOMAIN ops) <= PendingLimit
    <3>1. Cardinality(DOMAIN ops) = Cardinality(DOMAIN pending) + 1
      BY <1>3, <2>3, TableFinite, FS_AddElement, ZenonT(30)
    <3>2. Cardinality(DOMAIN pending) < PendingLimit
      BY Zenon DEF Send
    <3>3. Cardinality(DOMAIN pending) \in Nat
      BY <1>3, TableFinite, Zenon
    <3> QED  BY <3>1, <3>2, <3>3, Constants
  <2>5. Table(ops, nextId')
    BY <1>2, <1>3, <2>1, <2>3, <2>4 DEF Table, OpIds
  <2>6. \A s \in Packets : carrier[s].op \in Int
    BY <1>3 DEF Traced, Carriers, Other, NoOp, OpIds
  <2>7. \A s \in Packets : s < accepted => carrier[s].op < nextId /\ carrier[s].op # nextId
    BY <1>2, <1>3, <2>6 DEF Traced, OpIds
  <2>8. Traced(ops, carrier, accepted, nextId')
    BY <1>2, <1>3, <2>3, <2>6, <2>7 DEF Traced, OpIds
  <2>9. \A s \in 0 .. accepted - 1 : s \in Packets /\ s < accepted
    BY <1>3, Constants DEF QueueOK, Packets
  <2>10. Carried(waiting, carrier, nextId) = {}
    BY <1>3, <2>7, <2>9, Zenon DEF Carried, QueueOK
  <2>11. \A s \in 0 .. accepted - 1 :
           carrier[s].op = nextId => carrier[s].attempt < ops[nextId].attempt
    BY <2>7, <2>9, Zenon
  <2>12. \A j \in DOMAIN ops \ {nextId} :
           \/ /\ ops[j].timer = NoTimer
              /\ \E s \in waiting : Carried(waiting, carrier, j) = {s}
           \/ ops[j].timer # NoTimer /\ Carried(waiting, carrier, j) = {}
    BY <1>3, <2>3, Zenon DEF OneDriver
  <2>13. nextId \in DOMAIN ops /\ ops[nextId].timer = NoTimer
    BY <2>2, <2>3, Zenon
  <2>14. /\ Table(pending', nextId') /\ OneDriver(pending', waiting', carrier')
         /\ Traced(pending', carrier', accepted', nextId') /\ Differ(carrier', accepted')
         /\ QueueOK'
         /\ holdoff' \in [OpIds -> Nat]
    BY <1>2, <1>3, <1>5, <2>5, <2>8, <2>10, <2>11, <2>12, <2>13, SendAttemptSound, Zenon
  <2> QED  BY <1>2, <2>14, Zenon DEF Inv
<1> QED  BY <1>4, <1>5, Zenon DEF Send

(* An operation taken out of the table takes nothing else with it.         *)
LEMMA EraseInv ==
  ASSUME Inv, NEW ids, pending' = Erase(pending, ids), confirmed' \subseteq Hashes,
         UNCHANGED <<nextId, contacts, queueVars, carrier, holdoff>>
  PROVE  Inv'
<1>1. /\ DOMAIN pending' = DOMAIN pending \ ids
      /\ \A id \in DOMAIN pending' : pending'[id] = pending[id]
  BY Zenon DEF Erase
<1>2. Table(pending, nextId)
  BY Zenon DEF Inv
<1>3. Cardinality(DOMAIN pending') <= Cardinality(DOMAIN pending) /\ IsFiniteSet(DOMAIN pending')
  BY <1>1, <1>2, TableFinite, FS_Subset, Zenon
<1>4. Cardinality(DOMAIN pending') <= PendingLimit
  BY <1>2, <1>3, TableFinite, FS_CardinalityType, Constants DEF Table
<1>5. Table(pending', nextId')
  BY <1>1, <1>2, <1>4, Zenon DEF Table
<1>6. OneDriver(pending', waiting', carrier')
  BY <1>1 DEF OneDriver, Inv, queueVars, Carried
<1>7. Traced(pending', carrier', accepted', nextId') /\ Differ(carrier', accepted')
  BY <1>1, Zenon DEF Traced, Differ, Inv, queueVars
<1>8. QueueOK' /\ nextId' \in 1 .. MaxOps + 1 /\ contacts' \in [Contacts -> Routes]
  BY Zenon DEF Inv, QueueOK, queueVars
<1> QED  BY <1>5, <1>6, <1>7, <1>8, Zenon DEF Inv

LEMMA OnRetryInv ==
  ASSUME Inv, NEW id \in OpIds, OnRetry(id)
  PROVE  Inv'
<1> DEFINE op == [pending[id] EXCEPT !.attempt = NextAttempt(@), !.timer = NoTimer]
           ops == [pending EXCEPT ![id] = op]
<1>1. /\ id \in DOMAIN pending /\ pending[id].timer = 0
      /\ UNCHANGED <<nextId, contacts, confirmed>>
  BY Zenon DEF OnRetry
<1>2. /\ Table(pending, nextId) /\ OneDriver(pending, waiting, carrier)
      /\ Traced(pending, carrier, accepted, nextId) /\ Differ(carrier, accepted)
      /\ QueueOK /\ holdoff \in [OpIds -> Nat] /\ nextId \in 1 .. MaxOps + 1
  BY Zenon DEF Inv
<1>3. CASE pending' = Erase(pending, {id}) /\ UNCHANGED <<queueVars, carrier, holdoff>>
  BY <1>1, <1>3, EraseInv, Zenon DEF Inv
<1>4. CASE ~Exhausted(op.attempt) /\ SendAttempt(ops, id, IsLast(op.attempt))
  <2>1. pending[id] \in Ops
    BY <1>1, <1>2, Zenon DEF Table
  <2>2. /\ op.attempt = pending[id].attempt + 1 /\ op.timer = NoTimer
        /\ op.msg = pending[id].msg /\ op.accepts = pending[id].accepts
    BY <2>1, Zenon DEF Ops, NextAttempt
  <2>3. pending[id].attempt \in Nat /\ op.attempt \in 0 .. MaxAttempts - 1
    BY <1>4, <2>1, <2>2, Constants DEF Ops, Exhausted
  <2>4. op \in Ops
    BY <2>1, <2>2, <2>3, Zenon DEF Ops
  <2> HIDE DEF op
  <2>5. /\ DOMAIN ops = DOMAIN pending /\ ops[id] = op
        /\ \A j \in DOMAIN pending \ {id} : ops[j] = pending[j]
    BY <1>1, Zenon
  <2> HIDE DEF ops
  <2>6. Table(ops, nextId)
    BY <1>2, <2>4, <2>5, Zenon DEF Table
  <2>7. \A s \in Packets : carrier[s].op = id => carrier[s] \in Carriers
    BY <1>2 DEF Traced, Other, NoOp, OpIds
  <2>8. \A s \in Packets : s < accepted /\ carrier[s].op = id =>
          /\ carrier[s].attempt \in Nat /\ carrier[s].attempt <= pending[id].attempt
          /\ IsAttempt(pending[id], carrier[s])
    BY <1>1, <1>2, <2>7, Constants DEF Traced, IsAttempt, Carriers
  <2>9. Traced(ops, carrier, accepted, nextId)
    <3> SUFFICES ASSUME NEW s \in Packets, s < accepted, carrier[s].op \in DOMAIN pending
                 PROVE  IsAttempt(ops[carrier[s].op], carrier[s])
      BY <1>2, <2>5, Zenon DEF Traced
    <3>1. CASE carrier[s].op = id
      BY <2>2, <2>3, <2>5, <2>8, <3>1 DEF IsAttempt
    <3>2. CASE carrier[s].op # id
      BY <1>2, <2>5, <3>2, Zenon DEF Traced
    <3> QED  BY <3>1, <3>2, Zenon
  <2>10. Carried(waiting, carrier, id) = {}
    BY <1>1, <1>2 DEF OneDriver, NoTimer
  <2>11. \A s \in 0 .. accepted - 1 : carrier[s].op = id => carrier[s].attempt < ops[id].attempt
    <3>1. \A s \in 0 .. accepted - 1 : s \in Packets /\ s < accepted
      BY <1>2, Constants DEF QueueOK, Packets
    <3> QED  BY <2>2, <2>3, <2>5, <2>8, <3>1
  <2>12. \A j \in DOMAIN ops \ {id} :
           \/ /\ ops[j].timer = NoTimer
              /\ \E s \in waiting : Carried(waiting, carrier, j) = {s}
           \/ ops[j].timer # NoTimer /\ Carried(waiting, carrier, j) = {}
    BY <1>2, <2>5, Zenon DEF OneDriver
  <2>13. id \in DOMAIN ops /\ ops[id].timer = NoTimer /\ IsLast(op.attempt) \in BOOLEAN
    BY <1>1, <2>2, <2>5, Zenon DEF IsLast
  <2>14. /\ Table(pending', nextId) /\ OneDriver(pending', waiting', carrier')
         /\ Traced(pending', carrier', accepted', nextId) /\ Differ(carrier', accepted')
         /\ QueueOK'
         /\ holdoff' \in [OpIds -> Nat]
    BY <1>2, <1>4, <2>6, <2>9, <2>10, <2>11, <2>12, <2>13, SendAttemptSound, Zenon
  <2> QED  BY <1>1, <2>14, Zenon DEF Inv
<1> QED  BY <1>3, <1>4, Zenon DEF OnRetry

LEMMA SendOtherInv ==
  ASSUME Inv, SendOther
  PROVE  Inv'
<1>1. Enqueue(pending, Other) /\ UNCHANGED <<nextId, contacts, confirmed>>
  BY Zenon DEF SendOther
<1>2. Other.op = NoOp /\ NoOp \notin DOMAIN pending
  BY DEF Inv, Table, OpIds, Other, NoOp
<1>3. nextId \in Nat /\ nextId <= MaxOps + 1 /\ Other.op < nextId
  BY <1>2, Constants, SMTT(20) DEF Inv, NoOp
<1>4. /\ Table(pending', nextId) /\ OneDriver(pending', waiting', carrier')
      /\ Traced(pending', carrier', accepted', nextId) /\ Differ(carrier', accepted')
      /\ QueueOK'
      /\ holdoff' \in [OpIds -> Nat]
  BY <1>1, <1>2, <1>3, EnqueueSound, Zenon DEF Inv, OneDriver
<1> QED  BY <1>1, <1>4, Zenon DEF Inv

LEMMA QueueServesInv ==
  ASSUME Inv, NEW lost, NEW tx, QueueServes(lost, tx)
  PROVE  Inv'
<1>1. /\ UNCHANGED carrier /\ UNCHANGED <<nextId, contacts, confirmed>>
      /\ Answers(pending, lost, tx)
  BY Zenon DEF QueueServes
<1>2. /\ lost \subseteq waiting /\ tx \subseteq waiting \ lost /\ waiting' = waiting \ (lost \cup tx)
      /\ sent' = sent \cup tx /\ dropped' = dropped \cup lost /\ accepted' = accepted
  BY Zenon DEF QueueServes, Queue!Service, Queue!Settle
<1>3. busy' \in BOOLEAN
  BY Zenon DEF QueueServes, Queue!Service, Queue!Settle, Inv, QueueOK
<1>4. QueueOK'
  BY <1>2, <1>3, Zenon DEF Inv, QueueOK
<1>5. nextId \in Nat
  BY Constants DEF Inv
<1>6. OneDriver(pending, waiting, carrier') /\ Traced(pending, carrier', accepted, nextId)
  BY <1>1, Zenon DEF Inv, OneDriver, Carried, Traced
<1>7. /\ Table(pending', nextId) /\ OneDriver(pending', waiting', carrier')
      /\ Traced(pending', carrier', accepted, nextId)
      /\ holdoff' \in [OpIds -> Nat]
  BY <1>1, <1>2, <1>5, <1>6, AnswersSound, Zenon DEF Inv
<1> QED  BY <1>1, <1>2, <1>4, <1>7, Zenon DEF Inv, Differ

LEMMA OnAckInv ==
  ASSUME Inv, OnAck
  PROVE  Inv'
<1>1. PICK hash : Complete(hash)
  BY Zenon DEF OnAck
<1>2. PICK id \in DOMAIN pending :
        /\ pending' = Erase(pending, {id})
        /\ confirmed' = confirmed \cup {CompletionHash(pending[id], hash)}
  BY <1>1, Zenon DEF Complete, Matches
<1>3. pending[id].ackHash \in Hashes
  BY Zenon DEF Inv, Table, Ops
<1>4. confirmed' \subseteq Hashes
  BY <1>2, <1>3, Zenon DEF Inv, CompletionHash
<1>5. UNCHANGED <<nextId, contacts, queueVars, carrier, holdoff>>
  BY <1>1, Zenon DEF Complete
<1> QED  BY <1>2, <1>4, <1>5, EraseInv, Zenon

LEMMA TickInv ==
  ASSUME Inv, Tick
  PROVE  Inv'
<1>1. /\ DOMAIN pending' = DOMAIN pending
      /\ \A id \in DOMAIN pending : pending'[id] = [pending[id] EXCEPT !.timer = Less(@)]
  BY Zenon DEF Tick
<1>2. /\ holdoff' = [id \in OpIds |-> Less(holdoff[id])]
      /\ UNCHANGED <<nextId, contacts, queueVars, carrier, confirmed>>
  BY Zenon DEF Tick
<1>3. \A n \in Nat \cup {NoTimer} :
        /\ Less(n) \in Nat \cup {NoTimer} /\ (Less(n) = NoTimer <=> n = NoTimer)
        /\ n \in Nat => Less(n) \in Nat
  BY DEF Less, NoTimer
<1>4. \A id \in DOMAIN pending :
        /\ pending'[id] \in Ops /\ pending'[id].msg = pending[id].msg
        /\ pending'[id].attempt = pending[id].attempt /\ pending'[id].accepts = pending[id].accepts
        /\ pending'[id].timer = NoTimer <=> pending[id].timer = NoTimer
  <2> TAKE id \in DOMAIN pending
  <2>1. pending[id] \in Ops
    BY Zenon DEF Inv, Table
  <2>2. Less(pending[id].timer) \in Nat \cup {NoTimer}
    BY <1>3, <2>1, Zenon DEF Ops
  <2> QED  BY <1>1, <1>3, <2>1, <2>2, Zenon DEF Ops
<1>5. Table(pending', nextId')
  BY <1>1, <1>2, <1>4, Zenon DEF Inv, Table
<1>6. OneDriver(pending', waiting', carrier')
  BY <1>1, <1>2, <1>4 DEF Inv, OneDriver, Carried, queueVars
<1>7. Traced(pending', carrier', accepted', nextId') /\ Differ(carrier', accepted')
  BY <1>1, <1>2, <1>4 DEF Inv, Traced, IsAttempt, Differ, queueVars
<1>8. holdoff' \in [OpIds -> Nat]
  BY <1>2, <1>3, Zenon DEF Inv
<1> QED  BY <1>2, <1>5, <1>6, <1>7, <1>8, Zenon DEF Inv, QueueOK, queueVars

(* Steps that touch neither the operations nor the packets.                *)
LEMMA ElsewhereInv ==
  ASSUME Inv, UNCHANGED <<pending, nextId, carrier, holdoff, confirmed, accepted, waiting, sent, dropped>>,
         busy' \in BOOLEAN, contacts' \in [Contacts -> Routes]
  PROVE  Inv'
  BY Zenon DEF Inv, QueueOK, OneDriver, Carried
-----------------------------------------------------------------------------
LEMMA NextInv == Inv /\ [Next]_vars => Inv'
<1> SUFFICES ASSUME Inv, [Next]_vars PROVE Inv'
  BY Zenon
<1>1. ASSUME NEW m \in Messages, Send(m) PROVE Inv'
  BY <1>1, SendInv, Zenon
<1>2. CASE SendOther
  BY <1>2, SendOtherInv, Zenon
<1>3. ASSUME NEW lost, NEW tx, QueueServes(lost, tx) PROVE Inv'
  BY <1>3, QueueServesInv, Zenon
<1>4. CASE QueueTxDone
  <2>1. /\ UNCHANGED <<pending, nextId, contacts, carrier, holdoff, confirmed>>
        /\ UNCHANGED <<accepted, waiting, sent, dropped>> /\ busy' = FALSE
    BY <1>4, Zenon DEF QueueTxDone, Queue!TxDone
  <2>2. busy' \in BOOLEAN /\ contacts' \in [Contacts -> Routes]
    BY <2>1, Zenon DEF Inv
  <2> QED  BY <2>1, <2>2, ElsewhereInv, Zenon
<1>5. ASSUME NEW id \in OpIds, OnRetry(id) PROVE Inv'
  BY <1>5, OnRetryInv, Zenon
<1>6. CASE OnAck
  BY <1>6, OnAckInv, Zenon
<1>7. ASSUME NEW c \in Contacts, NEW route \in Routes, ContactChanges(c, route) PROVE Inv'
  <2>1. contacts' \in [Contacts -> Routes] /\ busy' \in BOOLEAN
    BY <1>7, Zenon DEF ContactChanges, Inv, QueueOK, queueVars
  <2> QED  BY <1>7, <2>1, ElsewhereInv, Zenon DEF ContactChanges, queueVars
<1>8. CASE Tick
  BY <1>8, TickInv, Zenon
<1>9. CASE UNCHANGED vars
  <2>1. busy' \in BOOLEAN /\ contacts' \in [Contacts -> Routes]
    BY <1>9, Zenon DEF vars, queueVars, Inv, QueueOK
  <2> QED  BY <1>9, <2>1, ElsewhereInv, Zenon DEF vars, queueVars
<1> QED  BY <1>1, <1>2, <1>3, <1>4, <1>5, <1>6, <1>7, <1>8, <1>9, Zenon DEF Next

LEMMA Invariance == Spec => []Inv
  BY InitInv, NextInv, PTL DEF Spec

(* Type correctness: among the rest, never more than pending_limit_        *)
(* operations, and no attempt number beyond the two bits of the wire.      *)
THEOREM TypeCorrect == Spec => []TypeOK
  BY Invariance, InvImplies, PTL

(* Every pending operation has exactly one of a queued packet and an armed *)
(* timer: it can neither be forgotten nor be sent twice at once.           *)
THEOREM AlwaysDriven == Spec => []Driven
  BY Invariance, InvImplies, PTL

(* An ack for any attempt that went on the air is one the pending          *)
(* operation accepts.                                                      *)
THEOREM AnyAttemptCompletes == Spec => []AnyAttemptAcks
  BY Invariance, InvImplies, PTL

(* No two packets of an operation carry the same attempt number.           *)
THEOREM EveryAttemptDiffers == Spec => []AttemptsDiffer
  BY Invariance, InvImplies, PTL
-----------------------------------------------------------------------------
(***************************************************************************)
(* What is confirmed.  An operation accepts only hashes of its own         *)
(* message, and is reported by the hash of its first attempt.              *)
(***************************************************************************)
OwnHash(op) ==
  /\ op.ackHash = AckHash(op.msg, 0)
  /\ \A hash \in op.accepts : \E a \in 0 .. MaxAttempts - 1 : hash = AckHash(op.msg, a)

OwnHashes(ops) == \A id \in DOMAIN ops : OwnHash(ops[id])

CInv == Inv /\ OwnHashes(pending) /\ ConfirmedWasSent

LEMMA OwnAnswers ==
  ASSUME NEW ops, NEW lost, NEW tx, \A id \in DOMAIN ops : ops[id] \in Ops,
         OwnHashes(ops), Answers(ops, lost, tx)
  PROVE  OwnHashes(pending')
<1> SUFFICES ASSUME NEW id \in DOMAIN ops, NEW onAir, NEW dropt,
                    pending'[id] = OnTxResult(ops[id], onAir, dropt)
             PROVE  OwnHash(pending'[id])
  BY Zenon DEF Answers, OwnHashes
<1>1. /\ pending'[id].msg = ops[id].msg /\ pending'[id].ackHash = ops[id].ackHash
      /\ pending'[id].accepts = ops[id].accepts
  BY Zenon DEF OnTxResult, Ops
<1> QED  BY <1>1 DEF OwnHashes, OwnHash

LEMMA OwnAttempt ==
  ASSUME NEW ops, NEW i \in DOMAIN ops, NEW force, \A id \in DOMAIN ops : ops[id] \in Ops,
         OwnHashes(ops), SendAttempt(ops, i, force)
  PROVE  OwnHashes(pending')
<1> DEFINE op == [ops[i] EXCEPT !.accepts = Accepts(ops[i])]
           new == [ops EXCEPT ![i] = op]
<1>1. ops[i] \in Ops /\ OwnHash(ops[i])
  BY Zenon DEF OwnHashes
<1>2. AckHash(ops[i].msg, ops[i].attempt) \in Hashes /\ ops[i].attempt \in 0 .. MaxAttempts - 1
  BY <1>1, SenderAssumption, Zenon DEF Ops
<1>3. /\ op \in Ops /\ op.msg = ops[i].msg /\ op.ackHash = ops[i].ackHash
      /\ op.accepts = ops[i].accepts \cup {AckHash(ops[i].msg, ops[i].attempt)}
  BY <1>1, <1>2, Zenon DEF Ops, Accepts
<1>4. OwnHash(op)
  BY <1>1, <1>2, <1>3, Zenon DEF OwnHash
<1>5. PICK lost, tx : Answers(new, lost, tx)
  BY Zenon DEF SendAttempt, Enqueue
<1> HIDE DEF op
<1>6. (\A id \in DOMAIN new : new[id] \in Ops) /\ OwnHashes(new)
  BY <1>3, <1>4, Zenon DEF OwnHashes
<1> HIDE DEF new
<1> QED  BY <1>5, <1>6, OwnAnswers, Zenon

(* A packet that was sent stays sent, and what it carried is not changed.  *)
LEMMA SentStays ==
  ASSUME Inv, [Next]_vars
  PROVE  \A s \in sent : s \in sent' /\ carrier'[s] = carrier[s]
<1>1. ASSUME NEW ops, NEW c, Enqueue(ops, c)
      PROVE  \A s \in sent : s \in sent' /\ carrier'[s] = carrier[s]
  <2>1. PICK lost, tx : Queue!Accept(lost, tx)
    BY <1>1, Zenon DEF Enqueue
  <2>2. sent' = sent \cup tx
    BY <2>1, Zenon DEF Queue!Accept, Queue!Settle
  <2>3. \A s \in sent : s \in Packets /\ s # accepted
    BY Constants DEF Inv, QueueOK, Packets
  <2>4. carrier' = [carrier EXCEPT ![accepted] = c]
    BY <1>1, Zenon DEF Enqueue
  <2> QED  BY <2>2, <2>3, <2>4, Zenon DEF Inv, Traced
<1>2. CASE UNCHANGED <<sent, carrier>>
  BY <1>2, Zenon
<1>3. ASSUME NEW m \in Messages, Send(m)
      PROVE  \A s \in sent : s \in sent' /\ carrier'[s] = carrier[s]
  BY <1>1, <1>2, <1>3, Zenon DEF Send, SendAttempt, queueVars
<1>4. ASSUME NEW id \in OpIds, OnRetry(id)
      PROVE  \A s \in sent : s \in sent' /\ carrier'[s] = carrier[s]
  BY <1>1, <1>2, <1>4, Zenon DEF OnRetry, SendAttempt, queueVars
<1>5. CASE SendOther
  BY <1>1, <1>5, Zenon DEF SendOther
<1>6. ASSUME NEW lost, NEW tx, QueueServes(lost, tx)
      PROVE  \A s \in sent : s \in sent' /\ carrier'[s] = carrier[s]
  BY <1>6, Zenon DEF QueueServes, Queue!Service, Queue!Settle
<1>7. CASE QueueTxDone
  BY <1>2, <1>7, Zenon DEF QueueTxDone, Queue!TxDone
<1>8. CASE OnAck
  BY <1>2, <1>8, Zenon DEF OnAck, Complete, queueVars
<1>9. ASSUME NEW c \in Contacts, NEW route \in Routes, ContactChanges(c, route)
      PROVE  \A s \in sent : s \in sent' /\ carrier'[s] = carrier[s]
  BY <1>2, <1>9, Zenon DEF ContactChanges, queueVars
<1>10. CASE Tick
  BY <1>2, <1>10, Zenon DEF Tick, queueVars
<1>11. CASE UNCHANGED vars
  BY <1>2, <1>11, Zenon DEF vars, queueVars
<1> QED  BY <1>3, <1>4, <1>5, <1>6, <1>7, <1>8, <1>9, <1>10, <1>11, Zenon DEF Next

LEMMA NextOwn ==
  ASSUME Inv, OwnHashes(pending), [Next]_vars
  PROVE  OwnHashes(pending')
<1>1. \A id \in DOMAIN pending : pending[id] \in Ops
  BY Zenon DEF Inv, Table
<1>2. CASE UNCHANGED pending
  BY <1>2, Zenon
<1>3. ASSUME NEW ids, pending' = Erase(pending, ids) PROVE OwnHashes(pending')
  BY <1>3, Zenon DEF Erase, OwnHashes
<1>4. ASSUME NEW m \in Messages, Send(m) PROVE OwnHashes(pending')
  <2> DEFINE op == [msg |-> m, ackHash |-> AckHash(m, 0), attempt |-> 0,
                    accepts |-> {}, timer |-> NoTimer]
             ops == [id \in DOMAIN pending \cup {nextId} |-> IF id = nextId THEN op ELSE pending[id]]
  <2>1. UNCHANGED pending \/ SendAttempt(ops, nextId, FALSE)
    BY <1>4, Zenon DEF Send
  <2>2. op \in Ops
    <3>1. AckHash(m, 0) \in Hashes
      BY SenderAssumption, Constants
    <3> QED  BY <3>1, Constants, SMTT(30) DEF Ops
  <2>3. OwnHash(op)
    BY Zenon DEF OwnHash
  <2> HIDE DEF op
  <2>4. /\ nextId \in DOMAIN ops /\ \A id \in DOMAIN ops : ops[id] \in Ops
        /\ OwnHashes(ops)
    BY <1>1, <2>2, <2>3, Zenon DEF OwnHashes
  <2> HIDE DEF ops
  <2> QED  BY <1>2, <2>1, <2>4, OwnAttempt, Zenon
<1>5. ASSUME NEW id \in OpIds, OnRetry(id) PROVE OwnHashes(pending')
  <2> DEFINE op == [pending[id] EXCEPT !.attempt = NextAttempt(@), !.timer = NoTimer]
             ops == [pending EXCEPT ![id] = op]
  <2>1. \/ pending' = Erase(pending, {id})
        \/ ~Exhausted(op.attempt) /\ SendAttempt(ops, id, IsLast(op.attempt))
    BY <1>5, Zenon DEF OnRetry
  <2>2. CASE ~Exhausted(op.attempt) /\ SendAttempt(ops, id, IsLast(op.attempt))
    <3>1. id \in DOMAIN pending /\ pending[id] \in Ops /\ OwnHash(pending[id])
      BY <1>1, <1>5, Zenon DEF OnRetry, OwnHashes
    <3>2. /\ op.attempt = pending[id].attempt + 1 /\ op.msg = pending[id].msg
          /\ op.accepts = pending[id].accepts /\ op.ackHash = pending[id].ackHash
      BY <3>1, Zenon DEF Ops, NextAttempt
    <3>3. op \in Ops
      <4>1. op.attempt \in 0 .. MaxAttempts - 1
        BY <2>2, <3>1, <3>2, Constants DEF Ops, Exhausted
      <4> QED  BY <3>1, <3>2, <4>1, Zenon DEF Ops
    <3>4. OwnHash(op)
      BY <3>1, <3>2, Zenon DEF OwnHash
    <3> HIDE DEF op
    <3>5. /\ id \in DOMAIN ops /\ \A i \in DOMAIN ops : ops[i] \in Ops
          /\ OwnHashes(ops)
      BY <1>1, <3>1, <3>3, <3>4, Zenon DEF OwnHashes
    <3> HIDE DEF ops
    <3> QED  BY <2>2, <3>5, OwnAttempt, Zenon
  <2> QED  BY <1>3, <2>1, <2>2, Zenon
<1>6. CASE SendOther
  <2>1. PICK lost, tx : Answers(pending, lost, tx)
    BY <1>6, Zenon DEF SendOther, Enqueue
  <2> QED  BY <1>1, <2>1, OwnAnswers, Zenon
<1>7. ASSUME NEW lost, NEW tx, QueueServes(lost, tx) PROVE OwnHashes(pending')
  BY <1>1, <1>7, OwnAnswers, Zenon DEF QueueServes
<1>8. CASE OnAck
  BY <1>3, <1>8, Zenon DEF OnAck, Complete
<1>9. CASE Tick
  <2> SUFFICES ASSUME NEW id \in DOMAIN pending,
                      pending'[id] = [pending[id] EXCEPT !.timer = Less(@)]
               PROVE  OwnHash(pending'[id])
    BY <1>9, Zenon DEF Tick, OwnHashes
  <2>1. /\ pending'[id].msg = pending[id].msg /\ pending'[id].ackHash = pending[id].ackHash
        /\ pending'[id].accepts = pending[id].accepts
    BY <1>1, Zenon DEF Ops
  <2> QED  BY <2>1 DEF OwnHashes, OwnHash
<1>10. CASE QueueTxDone \/ UNCHANGED vars \/ \E c \in Contacts, route \in Routes : ContactChanges(c, route)
  BY <1>2, <1>10, Zenon DEF QueueTxDone, vars, ContactChanges
<1> QED  BY <1>4, <1>5, <1>6, <1>7, <1>8, <1>9, <1>10, Zenon DEF Next

(* Only an ack confirms, for the operation whose message it is.            *)
LEMMA NextConfirmed ==
  ASSUME CInv, [Next]_vars
  PROVE  ConfirmedWasSent'
<1> SUFFICES ASSUME \A m, n \in Messages, a, b \in 0 .. MaxAttempts - 1 :
                      AckHash(m, a) = AckHash(n, b) => m = n /\ a = b,
                    NEW hash \in confirmed'
             PROVE  \E s \in sent' : carrier'[s].op # NoOp /\ AckHash(carrier'[s].msg, 0) = hash
  BY Zenon DEF ConfirmedWasSent
<1>1. \A s \in sent : s \in sent' /\ carrier'[s] = carrier[s]
  BY SentStays, Zenon DEF CInv
<1>2. SUFFICES \E s \in sent : carrier[s].op # NoOp /\ AckHash(carrier[s].msg, 0) = hash
  BY <1>1, Zenon
<1>3. CASE hash \in confirmed
  BY <1>3, Zenon DEF CInv, ConfirmedWasSent
<1>4. CASE hash \notin confirmed
  <2>1. OnAck
    BY <1>4, Zenon DEF Next, Send, SendOther, QueueServes, QueueTxDone, OnRetry, ContactChanges, Tick, vars
  <2>2. PICK s \in sent : /\ carrier[s].op # NoOp
                          /\ Complete(AckHash(carrier[s].msg, carrier[s].attempt))
    BY <2>1, Zenon DEF OnAck
  <2>3. PICK id \in DOMAIN pending :
          /\ AckHash(carrier[s].msg, carrier[s].attempt) \in pending[id].accepts
          /\ confirmed' = confirmed \cup {pending[id].ackHash}
    BY <2>2, Zenon DEF Complete, Matches, CompletionHash
  <2>4. pending[id] \in Ops /\ OwnHash(pending[id])
    BY Zenon DEF CInv, Inv, Table, OwnHashes
  <2>5. carrier[s] \in Carriers
    <3>1. s \in Packets
      BY Constants DEF CInv, Inv, QueueOK, Packets
    <3> QED  BY <2>2, <3>1, SMTT(30) DEF CInv, Inv, Traced, Other
  <2>6. carrier[s].msg = pending[id].msg
    BY <2>3, <2>4, <2>5, SMTT(30) DEF OwnHash, Ops, Carriers
  <2> QED  BY <1>4, <2>2, <2>3, <2>4, <2>6, Zenon DEF OwnHash
<1> QED  BY <1>3, <1>4, Zenon

(* When no two hashes collide, the app is told of an acknowledgement only  *)
(* by a hash send() gave it, for a message that went on the air, whichever *)
(* attempt the ack was for and however late it came.                       *)
THEOREM ConfirmsOnlyTheSent == Spec => []ConfirmedWasSent
<1>1. Init => CInv
  BY InitInv, Zenon DEF CInv, OwnHashes, ConfirmedWasSent, Init
<1>2. CInv /\ [Next]_vars => CInv'
  BY NextInv, NextOwn, NextConfirmed, Zenon DEF CInv
<1>3. CInv => ConfirmedWasSent
  BY Zenon DEF CInv
<1> QED  BY <1>1, <1>2, <1>3, PTL DEF Spec
-----------------------------------------------------------------------------
(***************************************************************************)
(* When attempts are sent.  The retry timer covers the delay that is still *)
(* to be kept (Held, and Fresh for ids to come), and an operation at its   *)
(* last attempt has had a flood packet queued (Escalated), which the queue *)
(* has answered unless it still waits (Settled).                           *)
(***************************************************************************)
Held(ops, hold) ==
  \A id \in DOMAIN ops :
    IF ops[id].timer = NoTimer THEN hold[id] = 0 ELSE hold[id] <= ops[id].timer

Fresh(id, hold) == \A i \in OpIds : i >= id => hold[i] = 0

Escalated(ops, car, n) ==
  \A id \in DOMAIN ops : IsLast(ops[id].attempt) =>
    \E s \in 0 .. n - 1 : car[s].op = id /\ car[s].flood

Settled == 0 .. accepted - 1 \subseteq waiting \cup sent \cup dropped

SInv ==
  /\ Inv /\ Held(pending, holdoff) /\ Fresh(nextId, holdoff)
  /\ Settled /\ Escalated(pending, carrier, accepted)

SpacedStep ==
  \A s \in sent' \ sent : carrier'[s].op \in DOMAIN pending' => holdoff[carrier'[s].op] = 0

LEMMA HeldAnswers ==
  ASSUME NEW ops, NEW pool, NEW lost, NEW tx, NEW id \in Nat, Table(ops, id),
         holdoff \in [OpIds -> Nat], Held(ops, holdoff), Fresh(id, holdoff),
         \A s \in pool : carrier'[s].op \in DOMAIN ops => ops[carrier'[s].op].timer = NoTimer,
         lost \subseteq pool, tx \subseteq pool, sent' = sent \cup tx,
         Answers(ops, lost, tx)
  PROVE  /\ Held(pending', holdoff') /\ Fresh(id, holdoff') /\ SpacedStep
         /\ DOMAIN pending' = DOMAIN ops
         /\ \A i \in DOMAIN ops : pending'[i].attempt = ops[i].attempt
<1> DEFINE Of(S, i) == \E s \in S : carrier'[s].op = i
<1>1. /\ DOMAIN pending' = DOMAIN ops
      /\ \A i \in DOMAIN ops : pending'[i] = OnTxResult(ops[i], Of(tx, i), Of(lost, i))
      /\ holdoff' = [i \in OpIds |-> IF i \in DOMAIN ops /\ Of(tx, i)
                                     THEN DelayAfter(ops[i].attempt) ELSE holdoff[i]]
  BY Zenon DEF Answers
<1>2. \A i \in DOMAIN ops : ops[i] \in Ops /\ i \in OpIds /\ i < id
  BY Zenon DEF Table
<1>3. \A i \in DOMAIN ops : Of(tx, i) \/ Of(lost, i) => ops[i].timer = NoTimer
  BY Zenon
<1> HIDE DEF Of
<1>4. \A i \in DOMAIN ops :
        /\ pending'[i].attempt = ops[i].attempt
        /\ pending'[i].timer = IF Of(tx, i) THEN DelayAfter(ops[i].attempt)
                               ELSE IF Of(lost, i) THEN AdvanceDelay ELSE ops[i].timer
  BY <1>1, <1>2, Zenon DEF OnTxResult, Ops
<1>5. Held(pending', holdoff')
  <2> SUFFICES ASSUME NEW i \in DOMAIN ops
               PROVE  IF pending'[i].timer = NoTimer THEN holdoff'[i] = 0
                                                     ELSE holdoff'[i] <= pending'[i].timer
    BY <1>1, Zenon DEF Held
  <2>0. \A n \in Nat : n # NoTimer /\ n <= n /\ 0 <= n
    BY DEF NoTimer
  <2>1. /\ DelayAfter(ops[i].attempt) \in Nat /\ AdvanceDelay \in Nat /\ i \in OpIds
        /\ holdoff[i] \in Nat /\ ops[i].timer \in Nat \cup {NoTimer}
    <3>1. ops[i].attempt \in Nat
      BY <1>2, Constants, SMTT(20) DEF Ops
    <3> QED  BY <1>2, <3>1, DelayNat, Constants, Zenon DEF Ops
  <2>2. CASE Of(tx, i)
    <3>1. pending'[i].timer = DelayAfter(ops[i].attempt) /\ holdoff'[i] = DelayAfter(ops[i].attempt)
      BY <1>1, <1>4, <2>1, <2>2, Zenon
    <3> QED  BY <2>0, <2>1, <3>1, Zenon
  <2>3. CASE ~Of(tx, i) /\ Of(lost, i)
    <3>1. pending'[i].timer = AdvanceDelay /\ holdoff'[i] = holdoff[i]
      BY <1>1, <1>4, <2>1, <2>3, Zenon
    <3>2. holdoff[i] = 0
      BY <1>3, <2>3, Zenon DEF Held
    <3> QED  BY <2>0, <2>1, <3>1, <3>2, Zenon
  <2>4. CASE ~Of(tx, i) /\ ~Of(lost, i)
    <3>1. pending'[i].timer = ops[i].timer /\ holdoff'[i] = holdoff[i]
      BY <1>1, <1>4, <2>1, <2>4, Zenon
    <3> QED  BY <3>1, Zenon DEF Held
  <2> QED  BY <2>2, <2>3, <2>4, Zenon
<1>6. Fresh(id, holdoff')
  <2> SUFFICES ASSUME NEW i \in OpIds, i >= id PROVE holdoff'[i] = 0
    BY Zenon DEF Fresh
  <2>1. i \notin DOMAIN ops
    BY <1>2 DEF OpIds
  <2> QED  BY <1>1, <2>1, Zenon DEF Fresh
<1>7. SpacedStep
  BY <1>1, Zenon DEF SpacedStep, Held
<1> QED  BY <1>1, <1>4, <1>5, <1>6, <1>7, Zenon

LEMMA HeldEnqueue ==
  ASSUME SInv, NEW ops, NEW c, NEW id \in Nat, Table(ops, id),
         Held(ops, holdoff), Fresh(id, holdoff),
         \A i \in DOMAIN ops \ {c.op} :
           /\ i \in DOMAIN pending
           /\ ops[i].timer = pending[i].timer /\ ops[i].attempt = pending[i].attempt,
         c.op \in DOMAIN ops =>
           ops[c.op].timer = NoTimer /\ (IsLast(ops[c.op].attempt) => c.flood),
         Enqueue(ops, c)
  PROVE  /\ Held(pending', holdoff') /\ Fresh(id, holdoff') /\ SpacedStep
         /\ Settled' /\ Escalated(pending', carrier', accepted')
<1> DEFINE pool == waiting \cup {accepted}
<1>1. PICK lost, tx \in SUBSET pool : Queue!Accept(lost, tx) /\ Answers(ops, lost, tx)
  BY Zenon DEF Enqueue
<1>2. /\ accepted \in Packets /\ accepted' = accepted + 1 /\ accepted \in Nat
      /\ lost \subseteq pool /\ tx \subseteq pool /\ waiting' = pool \ (lost \cup tx)
      /\ sent' = sent \cup tx /\ dropped' = dropped \cup lost
  <2>1. accepted < MaxSends /\ accepted' = accepted + 1
    BY <1>1, Zenon DEF Queue!Accept
  <2>2. accepted \in 0 .. MaxSends
    BY Zenon DEF SInv, Inv, QueueOK
  <2>3. /\ lost \subseteq pool /\ tx \subseteq pool /\ waiting' = pool \ (lost \cup tx)
        /\ sent' = sent \cup tx /\ dropped' = dropped \cup lost
    BY <1>1, Zenon DEF Queue!Accept, Queue!Settle
  <2> QED  BY <2>1, <2>2, <2>3, Constants, SMTT(30) DEF Packets
<1>3. Settled'
  BY <1>2, SMTT(30) DEF SInv, Settled
<1>4. /\ carrier'[accepted] = c
      /\ \A s \in 0 .. accepted - 1 : s # accepted /\ carrier'[s] = carrier[s]
  BY <1>2, Constants, SMTT(30) DEF Enqueue, SInv, Inv, Traced, Packets
<1>5. \A s \in pool : carrier'[s].op \in DOMAIN ops => ops[carrier'[s].op].timer = NoTimer
  <2> SUFFICES ASSUME NEW s \in waiting, carrier'[s].op \in DOMAIN ops, carrier'[s].op # c.op
               PROVE  ops[carrier'[s].op].timer = NoTimer
    BY <1>4, Zenon
  <2>1. carrier'[s] = carrier[s]
    <3>1. s \in 0 .. accepted - 1
      BY Zenon DEF SInv, Inv, QueueOK
    <3> QED  BY <1>4, <3>1, Zenon
  <2>2. carrier[s].op \in DOMAIN pending /\ ops[carrier[s].op].timer = pending[carrier[s].op].timer
    BY <2>1, Zenon
  <2>3. s \in Carried(waiting, carrier, carrier[s].op)
    BY Zenon DEF Carried
  <2> QED  BY <2>1, <2>2, <2>3, Zenon DEF SInv, Inv, OneDriver
<1> HIDE DEF pool
<1>6. /\ Held(pending', holdoff') /\ Fresh(id, holdoff') /\ SpacedStep
      /\ DOMAIN pending' = DOMAIN ops
      /\ \A i \in DOMAIN ops : pending'[i].attempt = ops[i].attempt
  BY <1>1, <1>2, <1>5, HeldAnswers, Zenon DEF SInv, Inv
<1>7. Escalated(pending', carrier', accepted')
  <2> SUFFICES ASSUME NEW i \in DOMAIN ops, IsLast(ops[i].attempt)
               PROVE  \E s \in 0 .. accepted' - 1 : carrier'[s].op = i /\ carrier'[s].flood
    BY <1>6, Zenon DEF Escalated
  <2>1. CASE i = c.op
    BY <1>2, <1>4, <2>1, SMTT(30)
  <2>2. CASE i # c.op
    <3>1. PICK s \in 0 .. accepted - 1 : carrier[s].op = i /\ carrier[s].flood
      BY <2>2, Zenon DEF SInv, Escalated
    <3>2. s \in 0 .. accepted' - 1
      BY <1>2, SMTT(20)
    <3> QED  BY <1>4, <3>1, <3>2, Zenon
  <2> QED  BY <2>1, <2>2, Zenon
<1> QED  BY <1>3, <1>6, <1>7, Zenon

(* send_attempt(): the last attempt must be one that floods.               *)
LEMMA HeldAttempt ==
  ASSUME SInv, NEW ops, NEW i \in DOMAIN ops, NEW force \in BOOLEAN, NEW id \in Nat, Table(ops, id),
         Held(ops, holdoff), Fresh(id, holdoff),
         \A j \in DOMAIN ops \ {i} : j \in DOMAIN pending /\ ops[j] = pending[j],
         ops[i].timer = NoTimer, IsLast(ops[i].attempt) => force,
         SendAttempt(ops, i, force)
  PROVE  /\ Held(pending', holdoff') /\ Fresh(id, holdoff') /\ SpacedStep
         /\ Settled' /\ Escalated(pending', carrier', accepted')
<1> DEFINE op == [ops[i] EXCEPT !.accepts = Accepts(ops[i])]
           new == [ops EXCEPT ![i] = op]
           c == [op |-> i, msg |-> op.msg, attempt |-> op.attempt,
                 flood |-> force \/ contacts[op.msg.to] # "routed"]
<1>1. ops[i] \in Ops
  BY Zenon DEF Table
<1>2. AckHash(ops[i].msg, ops[i].attempt) \in Hashes
  BY <1>1, SenderAssumption, Zenon DEF Ops
<1>3. op \in Ops /\ op.timer = NoTimer /\ op.attempt = ops[i].attempt
  BY <1>1, <1>2, Zenon DEF Ops, Accepts
<1>4. c.op = i /\ (force => c.flood)
  BY Zenon
<1>5. Enqueue(new, c)
  BY Zenon DEF SendAttempt
<1> HIDE DEF op, c
<1>6. DOMAIN new = DOMAIN ops /\ new[i] = op /\ \A j \in DOMAIN ops \ {i} : new[j] = ops[j]
  BY Zenon
<1> HIDE DEF new
<1>7. Table(new, id)
  BY <1>3, <1>6, Zenon DEF Table
<1>8. Held(new, holdoff)
  BY <1>3, <1>6, Zenon DEF Held
<1> QED  BY <1>3, <1>4, <1>5, <1>6, <1>7, <1>8, HeldEnqueue, Zenon

LEMMA HeldErase ==
  ASSUME SInv, NEW ids, pending' = Erase(pending, ids), UNCHANGED <<nextId, queueVars, carrier, holdoff>>
  PROVE  /\ Held(pending', holdoff') /\ Fresh(nextId', holdoff') /\ SpacedStep
         /\ Settled' /\ Escalated(pending', carrier', accepted')
  BY Zenon DEF SInv, Erase, Held, Fresh, Escalated, Settled, SpacedStep, queueVars

LEMMA HeldSend ==
  ASSUME MaxAttempts # 1, SInv, NEW m \in Messages, Send(m)
  PROVE  /\ Held(pending', holdoff') /\ Fresh(nextId', holdoff') /\ SpacedStep
         /\ Settled' /\ Escalated(pending', carrier', accepted')
<1> DEFINE op == [msg |-> m, ackHash |-> AckHash(m, 0), attempt |-> 0,
                  accepts |-> {}, timer |-> NoTimer]
           ops == [id \in DOMAIN pending \cup {nextId} |-> IF id = nextId THEN op ELSE pending[id]]
<1>1. /\ nextId \in OpIds /\ nextId' = nextId + 1 /\ nextId' \in Nat
      /\ Table(pending, nextId) /\ holdoff \in [OpIds -> Nat]
  <2>1. nextId <= MaxOps /\ nextId' = nextId + 1
    BY Zenon DEF Send
  <2>2. /\ nextId \in 1 .. MaxOps + 1 /\ Table(pending, nextId)
        /\ holdoff \in [OpIds -> Nat]
    BY Zenon DEF SInv, Inv
  <2> QED  BY <2>1, <2>2, Constants DEF OpIds
<1>2. Fresh(nextId', holdoff)
  BY <1>1 DEF SInv, Fresh, OpIds
<1>3. CASE UNCHANGED <<pending, queueVars, carrier, holdoff>>
  BY <1>2, <1>3, Zenon DEF SInv, Settled, SpacedStep, queueVars
<1>4. CASE SendAttempt(ops, nextId, FALSE)
  <2>1. op \in Ops
    <3>1. AckHash(m, 0) \in Hashes
      BY SenderAssumption, Constants
    <3> QED  BY <3>1, Constants DEF Ops
  <2>2. op.timer = NoTimer /\ op.attempt = 0
    BY Zenon
  <2> HIDE DEF op
  <2>3. /\ DOMAIN ops = DOMAIN pending \cup {nextId} /\ ops[nextId] = op
        /\ nextId \notin DOMAIN pending
        /\ \A j \in DOMAIN pending : ops[j] = pending[j]
    BY <1>1 DEF Table, OpIds
  <2> HIDE DEF ops
  <2>4. Cardinality(DOMAIN ops) <= PendingLimit
    <3>1. Cardinality(DOMAIN ops) = Cardinality(DOMAIN pending) + 1
      BY <1>1, <2>3, TableFinite, FS_AddElement, Zenon
    <3>2. Cardinality(DOMAIN pending) < PendingLimit
      BY Zenon DEF Send
    <3>3. Cardinality(DOMAIN pending) \in Nat
      BY <1>1, TableFinite, Zenon
    <3> QED  BY <3>1, <3>2, <3>3, Constants
  <2>5. Table(ops, nextId')
    BY <1>1, <2>1, <2>3, <2>4 DEF Table, OpIds
  <2>6. holdoff[nextId] = 0
    BY <1>1 DEF SInv, Fresh, OpIds
  <2>7. Held(ops, holdoff)
    BY <2>2, <2>3, <2>6, Zenon DEF SInv, Held
  <2>8. ~IsLast(ops[nextId].attempt)
    BY <2>2, <2>3, Constants DEF IsLast
  <2> QED  BY <1>1, <1>2, <1>4, <2>2, <2>3, <2>5, <2>7, <2>8, HeldAttempt, Zenon
<1> QED  BY <1>3, <1>4, Zenon DEF Send

LEMMA HeldRetry ==
  ASSUME SInv, NEW id \in OpIds, OnRetry(id)
  PROVE  /\ Held(pending', holdoff') /\ Fresh(nextId', holdoff') /\ SpacedStep
         /\ Settled' /\ Escalated(pending', carrier', accepted')
<1> DEFINE op == [pending[id] EXCEPT !.attempt = NextAttempt(@), !.timer = NoTimer]
           ops == [pending EXCEPT ![id] = op]
<1>1. /\ id \in DOMAIN pending /\ pending[id].timer = 0 /\ nextId' = nextId
      /\ Table(pending, nextId) /\ holdoff \in [OpIds -> Nat] /\ nextId \in Nat
  BY Constants DEF OnRetry, SInv, Inv
<1>2. CASE pending' = Erase(pending, {id}) /\ UNCHANGED <<queueVars, carrier, holdoff>>
  BY <1>1, <1>2, HeldErase, Zenon
<1>3. CASE ~Exhausted(op.attempt) /\ SendAttempt(ops, id, IsLast(op.attempt))
  <2>1. pending[id] \in Ops
    BY <1>1, Zenon DEF Table
  <2>2. /\ op.attempt = pending[id].attempt + 1 /\ op.timer = NoTimer
        /\ op.msg = pending[id].msg /\ op.accepts = pending[id].accepts
    BY <2>1, Zenon DEF Ops, NextAttempt
  <2>3. op.attempt \in 0 .. MaxAttempts - 1
    BY <1>3, <2>1, <2>2, Constants DEF Ops, Exhausted
  <2>4. op \in Ops
    BY <2>1, <2>2, <2>3, Zenon DEF Ops
  <2> HIDE DEF op
  <2>5. /\ DOMAIN ops = DOMAIN pending /\ ops[id] = op
        /\ \A j \in DOMAIN pending \ {id} : ops[j] = pending[j]
    BY <1>1, Zenon
  <2> HIDE DEF ops
  <2>6. Table(ops, nextId)
    BY <1>1, <2>4, <2>5, Zenon DEF Table
  <2>7. holdoff[id] = 0
    <3>1. pending[id].timer = 0 /\ pending[id].timer # NoTimer /\ holdoff[id] \in Nat
      BY <1>1 DEF NoTimer
    <3>2. Held(pending, holdoff) /\ id \in DOMAIN pending
      BY <1>1, Zenon DEF SInv
    <3>3. holdoff[id] <= 0
      BY <3>1, <3>2, Zenon DEF Held
    <3> QED  BY <3>1, <3>3
  <2>8. Held(ops, holdoff)
    BY <2>2, <2>5, <2>7, Zenon DEF SInv, Held
  <2>9. IsLast(op.attempt) \in BOOLEAN
    BY Zenon DEF IsLast
  <2> QED  BY <1>1, <1>3, <2>2, <2>5, <2>6, <2>8, <2>9, HeldAttempt, Zenon DEF SInv
<1> QED  BY <1>2, <1>3, Zenon DEF OnRetry

LEMMA HeldServes ==
  ASSUME SInv, NEW lost, NEW tx, QueueServes(lost, tx)
  PROVE  /\ Held(pending', holdoff') /\ Fresh(nextId', holdoff') /\ SpacedStep
         /\ Settled' /\ Escalated(pending', carrier', accepted')
<1>1. /\ UNCHANGED <<carrier, nextId>> /\ Answers(pending, lost, tx)
      /\ nextId \in Nat /\ Table(pending, nextId) /\ holdoff \in [OpIds -> Nat]
  BY Constants DEF QueueServes, SInv, Inv
<1>2. /\ lost \subseteq waiting /\ tx \subseteq waiting /\ waiting' = waiting \ (lost \cup tx)
      /\ sent' = sent \cup tx /\ dropped' = dropped \cup lost /\ accepted' = accepted
  BY Zenon DEF QueueServes, Queue!Service, Queue!Settle
<1>3. \A s \in waiting : carrier'[s].op \in DOMAIN pending => pending[carrier'[s].op].timer = NoTimer
  <2> SUFFICES ASSUME NEW s \in waiting, carrier[s].op \in DOMAIN pending
               PROVE  pending[carrier[s].op].timer = NoTimer
    BY <1>1, Zenon
  <2>1. s \in Carried(waiting, carrier, carrier[s].op)
    BY Zenon DEF Carried
  <2> QED  BY <2>1, Zenon DEF SInv, Inv, OneDriver
<1>4. /\ Held(pending', holdoff') /\ Fresh(nextId, holdoff') /\ SpacedStep
      /\ DOMAIN pending' = DOMAIN pending
      /\ \A i \in DOMAIN pending : pending'[i].attempt = pending[i].attempt
  BY <1>1, <1>2, <1>3, HeldAnswers, Zenon DEF SInv
<1> QED  BY <1>1, <1>2, <1>4, Zenon DEF SInv, Settled, Escalated

LEMMA HeldTick ==
  ASSUME SInv, Tick
  PROVE  /\ Held(pending', holdoff') /\ Fresh(nextId', holdoff') /\ SpacedStep
         /\ Settled' /\ Escalated(pending', carrier', accepted')
<1>1. /\ DOMAIN pending' = DOMAIN pending
      /\ \A id \in DOMAIN pending : pending'[id] = [pending[id] EXCEPT !.timer = Less(@)]
      /\ holdoff' = [id \in OpIds |-> Less(holdoff[id])]
      /\ UNCHANGED <<nextId, accepted, waiting, sent, dropped, carrier>>
  BY Zenon DEF Tick, queueVars
<1>2. \A id \in DOMAIN pending :
        /\ pending[id].timer \in Nat \cup {NoTimer} /\ id \in OpIds
        /\ pending'[id].timer = Less(pending[id].timer) /\ pending'[id].attempt = pending[id].attempt
  BY <1>1, Zenon DEF SInv, Inv, Table, Ops
<1>3. holdoff \in [OpIds -> Nat]
  BY Zenon DEF SInv, Inv
<1>4. Held(pending', holdoff')
  <2> SUFFICES ASSUME NEW id \in DOMAIN pending
               PROVE  IF pending'[id].timer = NoTimer THEN holdoff'[id] = 0
                                                      ELSE holdoff'[id] <= pending'[id].timer
    BY <1>1, Zenon DEF Held
  <2>1. IF pending[id].timer = NoTimer THEN holdoff[id] = 0 ELSE holdoff[id] <= pending[id].timer
    BY Zenon DEF SInv, Held
  <2>2. holdoff'[id] = Less(holdoff[id]) /\ holdoff[id] \in Nat
    BY <1>1, <1>2, <1>3, Zenon
  <2> QED  BY <1>2, <2>1, <2>2 DEF Less, NoTimer
<1>5. Fresh(nextId', holdoff')
  BY <1>1 DEF SInv, Fresh, Less
<1>6. Settled' /\ Escalated(pending', carrier', accepted') /\ SpacedStep
  BY <1>1, <1>2, Zenon DEF SInv, Settled, Escalated, SpacedStep
<1> QED  BY <1>4, <1>5, <1>6, Zenon

LEMMA NextHeld ==
  ASSUME MaxAttempts # 1, SInv, [Next]_vars
  PROVE  SInv' /\ SpacedStep
<1>1. SUFFICES /\ Held(pending', holdoff') /\ Fresh(nextId', holdoff') /\ SpacedStep
               /\ Settled' /\ Escalated(pending', carrier', accepted')
  BY NextInv, Zenon DEF SInv
<1>2. ASSUME UNCHANGED <<pending, nextId, carrier, holdoff, accepted, waiting, sent, dropped>>
      PROVE  /\ Held(pending', holdoff') /\ Fresh(nextId', holdoff') /\ SpacedStep
             /\ Settled' /\ Escalated(pending', carrier', accepted')
  BY <1>2, Zenon DEF SInv, Settled, SpacedStep
<1>3. CASE \E m \in Messages : Send(m)
  BY <1>3, HeldSend, Zenon
<1>4. CASE SendOther
  <2>1. Enqueue(pending, Other) /\ UNCHANGED nextId
    BY <1>4, Zenon DEF SendOther
  <2>2. Other.op \notin DOMAIN pending /\ nextId \in Nat /\ Table(pending, nextId)
    BY Constants DEF SInv, Inv, Table, OpIds, Other, NoOp
  <2> QED  BY <2>1, <2>2, HeldEnqueue, Zenon DEF SInv
<1>5. CASE \E lost, tx \in SUBSET waiting : QueueServes(lost, tx)
  BY <1>5, HeldServes, Zenon
<1>6. CASE \E id \in OpIds : OnRetry(id)
  BY <1>6, HeldRetry, Zenon
<1>7. CASE OnAck
  <2>1. PICK id : pending' = Erase(pending, {id})
    BY <1>7, Zenon DEF OnAck, Complete
  <2>2. UNCHANGED <<nextId, queueVars, carrier, holdoff>>
    BY <1>7, Zenon DEF OnAck, Complete
  <2> QED  BY <2>1, <2>2, HeldErase, Zenon
<1>8. CASE QueueTxDone
  BY <1>2, <1>8, Zenon DEF QueueTxDone, Queue!TxDone
<1>9. CASE \E c \in Contacts, route \in Routes : ContactChanges(c, route)
  BY <1>2, <1>9, Zenon DEF ContactChanges, queueVars
<1>10. CASE Tick
  BY <1>10, HeldTick, Zenon
<1>11. CASE UNCHANGED vars
  BY <1>2, <1>11, Zenon DEF vars, queueVars
<1> QED  BY <1>3, <1>4, <1>5, <1>6, <1>7, <1>8, <1>9, <1>10, <1>11, Zenon DEF Next

LEMMA InitHeld == Init => SInv
<1> SUFFICES ASSUME Init PROVE SInv
  BY Zenon
<1>1. DOMAIN pending = {} /\ accepted = 0 /\ holdoff = [id \in OpIds |-> 0]
  BY Zenon DEF Init, Queue!Init
<1> QED  BY <1>1, InitInv DEF SInv, Held, Fresh, Settled, Escalated

(* An operation that is given up although its contact is there has had its *)
(* flood attempt, which no longer waits.                                   *)
LEMMA GivenUpStep ==
  ASSUME SInv, NEW id \in DOMAIN pending, OnRetry(id), id \notin DOMAIN pending',
         contacts[pending[id].msg.to] # "absent"
  PROVE  \E s \in sent \cup dropped : carrier[s].op = id /\ carrier[s].flood
<1> DEFINE op == [pending[id] EXCEPT !.attempt = NextAttempt(@), !.timer = NoTimer]
<1>1. pending[id] \in Ops /\ pending[id].timer = 0 /\ id \in OpIds
  BY Zenon DEF OnRetry, SInv, Inv, Table
<1>2. op.attempt = pending[id].attempt + 1 /\ op.msg = pending[id].msg
  BY <1>1, Zenon DEF Ops, NextAttempt
<1>3. Exhausted(op.attempt)
  <2> SUFFICES ASSUME SendAttempt([pending EXCEPT ![id] = op], id, IsLast(op.attempt)) PROVE FALSE
    BY <1>2, Zenon DEF OnRetry
  <2>1. DOMAIN pending' = DOMAIN pending
    BY Zenon DEF SendAttempt, Enqueue, Answers
  <2> QED  BY <2>1, Zenon
<1>4. IsLast(pending[id].attempt)
  BY <1>1, <1>2, <1>3, Constants DEF Exhausted, IsLast, Ops
<1>5. PICK s \in 0 .. accepted - 1 : carrier[s].op = id /\ carrier[s].flood
  BY <1>4, Zenon DEF SInv, Escalated
<1>6. Carried(waiting, carrier, id) = {}
  <2>1. pending[id].timer # NoTimer
    BY <1>1 DEF NoTimer
  <2> QED  BY <2>1, Zenon DEF SInv, Inv, OneDriver
<1>7. s \notin waiting
  BY <1>5, <1>6, Zenon DEF Carried
<1> QED  BY <1>5, <1>7, Zenon DEF SInv, Settled

(* With more than one attempt (the code has four): an attempt goes on the  *)
(* air no sooner than the retry delay after the one before it, whatever    *)
(* the queue drops or holds back in between.                               *)
THEOREM AttemptsKeepDistance == ASSUME MaxAttempts # 1 PROVE Spec => SpacedApart
<1>1. SInv /\ [Next]_vars => SInv' /\ [SpacedStep]_vars
  BY NextHeld, Zenon
<1>2. Spec => [][SpacedStep]_vars
  BY <1>1, InitHeld, PTL DEF Spec
<1> QED  BY <1>2, Zenon DEF SpacedApart, SpacedStep

(* With more than one attempt, an operation is given up, its contact still *)
(* there, only after a flood attempt has left the queue.                   *)
THEOREM FloodsBeforeGivingUp == ASSUME MaxAttempts # 1 PROVE Spec => GivesUpAfterFlood
<1> DEFINE Step == \A id \in DOMAIN pending :
       OnRetry(id) /\ id \notin DOMAIN pending' /\ contacts[pending[id].msg.to] # "absent" =>
         \E s \in sent \cup dropped : carrier[s].op = id /\ carrier[s].flood
<1>1. SInv /\ [Next]_vars => SInv'
  BY NextHeld, Zenon
<1>2. SInv => Step
  BY GivenUpStep, Zenon
<1>3. Spec => [][Step]_vars
  BY <1>1, <1>2, InitHeld, PTL DEF Spec
<1> QED  BY <1>3, Zenon DEF GivesUpAfterFlood
=============================================================================
