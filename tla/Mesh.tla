-------------------------------- MODULE Mesh --------------------------------
(***************************************************************************)
(* Several nodes and the air between them: what each does with a packet    *)
(* it hears (src/mesh/node.cpp), over the packet's route and duplicate     *)
(* hash (src/proto/packet.cpp), the contacts' routes and the retries.      *)
(*                                                                         *)
(* A transmission reaches the nodes that Links lets hear it, all at once,  *)
(* except those that lose it; each runs check_and_mark_seen() and          *)
(* on_packet() to the end.  A node's handler works on its own state only,  *)
(* so it is an operator from the node's state to the next.  The dispatcher *)
(* is reduced to a set of packets sent in any order (its queue, expiry and *)
(* pacing are the module Dispatcher), a payload to what its reader gets    *)
(* out of it, and hop hashes are one byte wide.                            *)
(***************************************************************************)
EXTENDS Naturals, Sequences, FiniteSets, Functions

CONSTANTS Nodes,
          Id,           \* the first byte of each node's key
          Links,        \* <<n, m>>: m hears what n transmits
          Repeats,      \* the nodes with [node] repeat on
          MaxHops,      \* [node] max_hops
          MaxAttempts,  \* kMaxAttempts
          MaxContacts,  \* max_contacts_
          Reading,      \* the SNR byte a node writes into a trace
          Workloads     \* what the nodes set out to do, and what may go wrong

ASSUME MeshAssumption ==
  /\ IsFiniteSet(Nodes)
  /\ Id \in [Nodes -> Nat] /\ Reading \in [Nodes -> Nat]
  /\ Links \subseteq Nodes \X Nodes /\ Repeats \subseteq Nodes
  /\ MaxHops \in 0..63 /\ MaxAttempts \in Nat \ {0} /\ MaxContacts \in Nat

VARIABLES limit,    \* what may go wrong: breaks, faults and forgets of the workload
          todo,     \* what each node has still to be asked for
          node,     \* the state of each node
          up,       \* the nodes that are running
          faults,   \* receptions lost and relays switched off
          forgets   \* tables expired

vars == <<limit, todo, node, up, faults, forgets>>

NoPath == [known |-> FALSE, path |-> <<>>]
-----------------------------------------------------------------------------
(* A packet and its path (packet.cpp).                                     *)
Packet(type, payload, route, path) ==
  [type |-> type, payload |-> payload, route |-> route, path |-> path]
IsFlood(p)  == p.route = "flood"
IsDirect(p) == p.route = "direct"

FirstHop(p) == Head(p.path)
PopHop(p)   == [p EXCEPT !.path = Tail(@)]
PushHop(p, id) == [p EXCEPT !.path = Append(@, id)]

(* dedup_hash(): the type and the payload, and for a trace how far it is.  *)
MutDedupHash(p) == <<p.type, p.payload, 0>>
DedupHash(p) == <<p.type, p.payload, IF p.type = "trace" THEN Len(p.path) ELSE 0>>
-----------------------------------------------------------------------------
(***************************************************************************)
(* A workload has: knows, the contacts each node starts with; does, what   *)
(* each node's app and timers ask for, in order; sends, what nodes of      *)
(* other kinds transmit; breaks, the relays that may go off; faults, how   *)
(* many receptions or relays may fail; forgets, how often a table of       *)
(* packets seen may expire.                                                *)
(***************************************************************************)
Acts     == UNION {Range(w.does[n]) : w \in Workloads, n \in Nodes}
Messages == [from : Nodes, to : Nodes, kind : STRING]

(* The hops of path lead from n to c.                                      *)
IsRoute(n, path, c) ==
  \E hop \in [1..Len(path) -> Nodes] :
    LET stop == <<n>> \o hop \o <<c>>
    IN  /\ \A i \in DOMAIN hop : Id[hop[i]] = path[i]
        /\ \A i \in 1..Len(stop) - 1 : <<stop[i], stop[i + 1]>> \in Links

(* The routes the nodes start with are real.  Texts, acks, path returns    *)
(* and channel texts, which only the holder of a key can make, come from   *)
(* the nodes' own apps, and a channel text is for the holders of a key.    *)
ASSUME WorkloadAssumption ==
  /\ \A w \in Workloads :
       /\ DOMAIN w = {"knows", "does", "sends", "breaks", "faults", "forgets"}
       /\ w.does \in [Nodes -> Seq(Acts)]
       /\ \A n \in Nodes :
            /\ \A c \in DOMAIN w.knows[n] :
                 w.knows[n][c].known => IsRoute(n, w.knows[n][c].path, c)
            /\ \A p \in w.sends[n] :
                 /\ p = Packet(p.type, p.payload, p.route, p.path)
                 /\ p.type \notin {"text", "ack", "path", "group"}
                 /\ IsFlood(p) => p.path = <<>>
  /\ \A act \in Acts :
       \/ act.op = "text" /\ act.msg \in Messages
       \/ act.op = "channel" /\ "to" \notin DOMAIN act.msg
       \/ act.op = "advert"
  /\ \A x, y \in Acts :
       x.op = "channel" /\ y.op = "channel" /\ x.msg = y.msg => x.holders = y.holders
-----------------------------------------------------------------------------
(* Dispatcher::send(): a packet a node sends is never new to it again.     *)
Send(s, p) == [s EXCEPT !.out = @ \cup {p}, !.seen = @ \cup {DedupHash(p)}]

(* route_to(): along the contact's route, or by flooding.                  *)
RouteTo(s, type, payload, c, forceFlood) ==
  LET route == s.contacts[c].route
  IN  Send(s, IF route.known /\ ~forceFlood THEN Packet(type, payload, "direct", route.path)
                                            ELSE Packet(type, payload, "flood", <<>>))

(* send_attempt(): every attempt has a hash of its own, all of them are    *)
(* accepted, and the retry timer waits for the transmission.  CLI data is  *)
(* not registered, so nothing retries it.                                  *)
AckHash(msg, attempt) == [msg |-> msg, attempt |-> attempt]
MutIsLast(attempt) == FALSE
IsLast(attempt) == attempt = MaxAttempts - 1 /\ attempt > 0
SendAttempt(n, s, msg, attempt) ==
  LET sent   == RouteTo(s, "text", [from |-> n, to |-> msg.to, msg |-> msg,
                                    attempt |-> attempt], msg.to, IsLast(attempt))
      others == {q \in s.pending : q.msg # msg}
  IN  IF msg.kind = "cli" THEN sent
      ELSE [sent EXCEPT !.pending = others \cup
              {[msg |-> msg, attempt |-> attempt, timer |-> FALSE]}]

(* on_retry()                                                              *)
MutOnRetry(n, s, q) ==
  SendAttempt(n, s, q.msg, IF q.attempt + 1 < MaxAttempts THEN q.attempt + 1 ELSE q.attempt)
OnRetry(n, s, q) ==
  IF q.attempt + 1 >= MaxAttempts THEN [s EXCEPT !.pending = @ \ {q}]
  ELSE SendAttempt(n, s, q.msg, q.attempt + 1)

(* send_path_return(): the route the inbound packet took, and an ack or    *)
(* random bytes, which are never the same twice.                           *)
MutSendPathReturn(n, s, to, inbound, extra, route, path) ==
  LET dummy == extra = <<>>
      made  == [s EXCEPT !.returns = @ + (IF dummy THEN 1 ELSE 0)]
  IN  Send(made, Packet("path",
             [from |-> n, to |-> to, path |-> [i \in DOMAIN inbound.path |->
                                                 inbound.path[Len(inbound.path) + 1 - i]],
              extra |-> IF dummy THEN <<"random", s.returns>> ELSE extra], route, path))
SendPathReturn(n, s, to, inbound, extra, route, path) ==
  LET dummy == extra = <<>>
      made  == [s EXCEPT !.returns = @ + (IF dummy THEN 1 ELSE 0)]
  IN  Send(made, Packet("path",
             [from |-> n, to |-> to, path |-> inbound.path,
              extra |-> IF dummy THEN <<"random", s.returns>> ELSE extra], route, path))
-----------------------------------------------------------------------------
(* The handlers.  Each gives the node's next state and whether the packet  *)
(* is to be repeated.                                                      *)
Done(s)   == [s |-> s, forward |-> FALSE]
Onward(s) == [s |-> s, forward |-> TRUE]

(* decrypt_from(): opens what a contact sealed for this node.              *)
Opens(n, s, payload) == payload.to = n /\ payload.from \in DOMAIN s.contacts

(* apply_advert(): only a newer advert changes a contact, and a new one    *)
(* needs room.                                                             *)
ApplyAdvert(s, c, ts) ==
  IF \/ c \in DOMAIN s.contacts /\ ts <= s.contacts[c].adv
     \/ c \notin DOMAIN s.contacts /\ Cardinality(DOMAIN s.contacts) >= MaxContacts
  THEN s
  ELSE [s EXCEPT !.contacts = [k \in DOMAIN @ \cup {c} |->
          IF k # c THEN @[k]
          ELSE [adv |-> ts, route |-> IF c \in DOMAIN @ THEN @[c].route ELSE NoPath]]]

HandleAdvert(n, s, p) ==
  CASE p.payload.forged \/ p.payload.from = n -> Done(s)
    [] p.payload.name = "" -> Onward(s)
    [] OTHER -> Onward(ApplyAdvert(s, p.payload.from, p.payload.ts))

(* handle_request(): one that opens was for this node.  An anonymous one   *)
(* carries its sender's key.                                               *)
HandleRequest(n, s, p) ==
  IF p.payload.to = n /\ (p.type = "anon_req" \/ Opens(n, s, p.payload))
  THEN Done(s) ELSE Onward(s)

(* first_delivery(): the attempt is no part of a message's identity.       *)
MutDeliveryKey(payload) == <<payload.msg, payload.attempt>>
DeliveryKey(payload) == <<payload.msg>>
FirstDelivery(s, payload) == DeliveryKey(payload) \notin s.delivered
StoreMessage(s, msg) == [s EXCEPT !.inbox = Append(@, msg)]

Understood == {"plain", "cli", "signed"}

HandleText(n, s, p) ==
  LET msg   == p.payload.msg
      from  == p.payload.from
      first == FirstDelivery(s, p.payload)
      kept  == IF first
             THEN StoreMessage([s EXCEPT !.delivered = @ \cup {DeliveryKey(p.payload)}], msg) ELSE s
      ack   == IF msg.kind = "cli" THEN <<>> ELSE <<"ack", AckHash(msg, p.payload.attempt)>>
  IN  CASE ~Opens(n, s, p.payload) -> Onward(s)
        [] OTHER -> Done(
             CASE msg.kind \notin Understood -> s
               [] msg.kind \in Understood /\ IsFlood(p) ->
                    SendPathReturn(n, kept, from, p, ack, "flood", <<>>)
               [] msg.kind \in Understood /\ ~IsFlood(p) /\ ack # <<>> ->
                    RouteTo(kept, "ack", ack[2], from, FALSE)
               [] OTHER -> kept)

(* complete_ack(): any attempt's hash confirms the message, once.          *)
Matching(s, hash) == {q \in s.pending : q.msg = hash.msg /\ hash.attempt <= q.attempt}
CompleteAck(s, matched) ==
  [s EXCEPT !.pending = @ \ matched, !.confirmed = @ \cup {q.msg : q \in matched}]

(* handle_ack(): a peer that floods its ack although its route is known    *)
(* here has no route back; it is offered one.                              *)
HandleAck(n, s, p) ==
  LET peer  == p.payload.msg.to
      done  == CompleteAck(s, Matching(s, p.payload))
      route == s.contacts[peer].route
  IN  CASE Matching(s, p.payload) = {} -> Onward(s)
        [] OTHER -> Done(IF IsFlood(p) /\ route.known
                         THEN SendPathReturn(n, done, peer, p, <<>>, "direct", route.path)
                         ELSE done)

(* handle_path(): the route is taken, an ack inside counts, and one that   *)
(* came by flooding is answered along the route it brought.                *)
MutAckInside(s, payload) == {q \in s.pending : q.msg.to = payload.from}
AckInside(s, payload) ==
  IF payload.extra[1] = "ack" THEN Matching(s, payload.extra[2]) ELSE {}

Answered(p) == IsFlood(p)

HandlePath(n, s, p) ==
  LET from  == p.payload.from
      taken == [s EXCEPT !.contacts[from].route = [known |-> TRUE, path |-> p.payload.path]]
      acked == CompleteAck(taken, AckInside(s, p.payload))
  IN  IF ~Opens(n, s, p.payload) THEN Onward(s)
      ELSE Done(IF Answered(p)
                THEN SendPathReturn(n, acked, from, p, <<>>, "direct", p.payload.path)
                ELSE acked)

HandleGroupText(n, s, p) ==
  IF n \in p.payload.holders /\ p.payload.msg.kind = "plain"
  THEN StoreMessage(s, p.payload.msg) ELSE s

(* maybe_repeat(), forward_direct(), forward_trace()                       *)
MutHopsLeft(p) == Len(p.path) <= MaxHops
HopsLeft(p) == Len(p.path) < MaxHops
MaybeRepeat(n, s, p) ==
  IF n \in Repeats /\ IsFlood(p) /\ HopsLeft(p) THEN Send(s, PushHop(p, Id[n])) ELSE s

IsNextHop(n, p) == n \in Repeats /\ p.path # <<>> /\ FirstHop(p) = Id[n]
ForwardDirect(n, s, p) ==
  IF IsNextHop(n, p) /\ p.type # "multipart"
  THEN [Send(s, PopHop(p)) EXCEPT !.passed = @ \cup {DedupHash(p)}]
  ELSE s

ForwardTrace(n, s, p) ==
  IF /\ n \in Repeats /\ Len(p.path) < Len(p.payload.route)
     /\ p.payload.route[Len(p.path) + 1] = Id[n]
  THEN Send(s, PushHop(p, Reading[n])) ELSE s

(* on_packet()                                                             *)
InTransit(n, s, p) ==
  LET ack == HandleAck(n, s, p)
  IN  CASE p.type # "ack" -> ForwardDirect(n, s, p)
        [] p.type = "ack" /\ ack.forward -> ForwardDirect(n, ack.s, p)
        [] OTHER -> ack.s

Handled(n, s, p) ==
  CASE p.type = "advert" -> HandleAdvert(n, s, p)
    [] p.type = "text"   -> HandleText(n, s, p)
    [] p.type = "ack"    -> HandleAck(n, s, p)
    [] p.type = "path"   -> HandlePath(n, s, p)
    [] p.type = "group"  -> Onward(HandleGroupText(n, s, p))
    [] p.type \in {"req", "response", "anon_req"} -> HandleRequest(n, s, p)
    [] p.type = "group_data" -> Onward(s)
    [] OTHER -> Done(s)

OnPacket(n, s, p) ==
  LET h == Handled(n, s, p)
  IN  CASE IsDirect(p) /\ p.type = "trace" -> ForwardTrace(n, s, p)
        [] IsDirect(p) /\ p.type = "control" /\ p.payload.zeroHop -> s
        [] IsDirect(p) /\ p.type # "trace" /\ p.path # <<>> /\
           ~(p.type = "control" /\ p.payload.zeroHop) -> InTransit(n, s, p)
        [] OTHER -> IF h.forward THEN MaybeRepeat(n, h.s, p) ELSE h.s

(* on_radio_rx(): a packet already seen goes no further.                   *)
Receive(n, s, p) ==
  IF DedupHash(p) \in s.seen THEN s
  ELSE OnPacket(n, [s EXCEPT !.seen = @ \cup {DedupHash(p)}], p)
-----------------------------------------------------------------------------
(* on_tx_result(): the retry timer starts when the attempt is on the air.  *)
OnTxResult(s, p) ==
  [s EXCEPT !.out = @ \ {p},
            !.pending = {[q EXCEPT !.timer =
                            @ \/ (/\ p.type = "text" /\ p.payload.msg = q.msg
                                  /\ p.payload.attempt = q.attempt)] : q \in @}]

Hearing(n) == {m \in up \ {n} : <<n, m>> \in Links}

Transmit(n, p) ==
  /\ n \in up /\ p \in node[n].out
  /\ \E heard \in SUBSET Hearing(n) :
       /\ faults' = faults + Cardinality(Hearing(n) \ heard)
       /\ faults' <= limit.faults
       /\ node' = [m \in Nodes |-> CASE m = n -> OnTxResult(node[n], p)
                                     [] m \in heard -> Receive(m, node[m], p)
                                     [] OTHER -> node[m]]
  /\ UNCHANGED <<limit, todo, up, forgets>>

Retry(n) ==
  /\ n \in up
  /\ \E q \in node[n].pending : q.timer /\ node' = [node EXCEPT ![n] = OnRetry(n, @, q)]
  /\ UNCHANGED <<limit, todo, up, faults, forgets>>

(* What the app or a timer asks of a node: ReliableSender::send(),         *)
(* send_channel_text(), send_advert() with the clock at act.ts, 0 being a  *)
(* clock that is not set.                                                  *)
SendText(n, act) == SendAttempt(n, node[n], act.msg, 0)
SendChannelText(n, act) ==
  Send(node[n], Packet("group", [msg |-> act.msg, holders |-> act.holders], "flood", <<>>))
SendAdvert(n, act) ==
  IF act.ts = 0 THEN node[n]
  ELSE Send(node[n], Packet("advert", [from |-> n, ts |-> act.ts, name |-> "named",
                                       forged |-> FALSE],
                            IF act.flood THEN "flood" ELSE "direct", <<>>))

Act(n) ==
  /\ n \in up /\ todo[n] # <<>>
  /\ LET act == Head(todo[n])
     IN  /\ act.op = "text" => act.msg.to \in DOMAIN node[n].contacts
         /\ node' = [node EXCEPT ![n] = CASE act.op = "text" -> SendText(n, act)
                                          [] act.op = "channel" -> SendChannelText(n, act)
                                          [] act.op = "advert" -> SendAdvert(n, act)]
  /\ todo' = [todo EXCEPT ![n] = Tail(@)]
  /\ UNCHANGED <<limit, up, faults, forgets>>

(* A relay goes off, and what it had queued with it.                       *)
SwitchOff(n) ==
  /\ n \in up \cap limit.breaks /\ faults < limit.faults
  /\ up' = up \ {n} /\ faults' = faults + 1
  /\ node' = [node EXCEPT ![n].out = {}]
  /\ UNCHANGED <<limit, todo, forgets>>

(* Every entry of a node's table of packets seen outlives kSeenTtlMs.      *)
ExpireSeen(n) ==
  /\ n \in up /\ forgets < limit.forgets /\ node[n].seen # {}
  /\ node' = [node EXCEPT ![n].seen = {}]
  /\ forgets' = forgets + 1
  /\ UNCHANGED <<limit, todo, up, faults>>

Init ==
  /\ up = Nodes /\ faults = 0 /\ forgets = 0
  /\ \E w \in Workloads :
       /\ limit = [breaks |-> w.breaks, faults |-> w.faults, forgets |-> w.forgets]
       /\ todo = w.does
       /\ node = [n \in Nodes |->
            [out |-> w.sends[n], seen |-> {DedupHash(p) : p \in w.sends[n]},
             contacts |-> [c \in DOMAIN w.knows[n] |-> [adv |-> 0, route |-> w.knows[n][c]]],
             pending |-> {}, inbox |-> <<>>, delivered |-> {}, returns |-> 0,
             confirmed |-> {}, passed |-> {}]]

Next == \E n \in Nodes :
  \/ \E p \in node[n].out : Transmit(n, p)
  \/ Retry(n) \/ Act(n) \/ SwitchOff(n) \/ ExpireSeen(n)

Spec == Init /\ [][Next]_vars

(* The dispatchers send what they have queued, and the loops run due       *)
(* timers.                                                                 *)
Progress == \E n \in Nodes : (\E p \in node[n].out : Transmit(n, p)) \/ Retry(n)
FairSpec == Spec /\ WF_vars(Progress)
-----------------------------------------------------------------------------
Routes == {"flood", "direct"}
Route  == [known : BOOLEAN, path : Seq(Nat)]

(* What each field of a node holds.                                        *)
TypeOK ==
  /\ up \subseteq Nodes /\ faults \in 0..limit.faults /\ forgets \in 0..limit.forgets
  /\ \A n \in Nodes :
       /\ \A p \in node[n].out : p.route \in Routes /\ (forgets = 0 => DedupHash(p) \in node[n].seen)
       /\ \A c \in DOMAIN node[n].contacts : node[n].contacts[c].route \in Route
       /\ Cardinality(DOMAIN node[n].contacts) <= MaxContacts
       /\ \A q \in node[n].pending : q.attempt \in 0..MaxAttempts - 1

(* A route a node has learned leads to its contact, in the direction it    *)
(* will be used, though links may work one way only: handle_text() and     *)
(* handle_path() return the path as it was travelled, to the node that     *)
(* travelled it.                                                           *)
RoutesAreReal ==
  \A n \in Nodes : \A c \in DOMAIN node[n].contacts :
    LET route == node[n].contacts[c].route IN route.known => IsRoute(n, route.path, c)

(* A message reported to its app as acknowledged is in the recipient's     *)
(* inbox, whichever attempt was acknowledged and by whichever packet: an   *)
(* ack, flooded or direct, overheard in transit, or inside a path return.  *)
ConfirmedWasDelivered ==
  \A n \in Nodes : \A msg \in node[n].confirmed :
    \E i \in DOMAIN node[msg.to].inbox : node[msg.to].inbox[i] = msg

(* However often a text is retried and by however many routes it comes,    *)
(* its recipient stores it once; so is a channel text while the tables of  *)
(* packets seen last.                                                      *)
DeliveredOnce ==
  \A n \in Nodes : \A i, j \in DOMAIN node[n].inbox :
    /\ node[n].inbox[i] = node[n].inbox[j]
    /\ "to" \in DOMAIN node[n].inbox[i] \/ forgets = 0
    => i = j

(* A flood passes each node at most once, its sender included, so its path *)
(* is shorter than the number of nodes; once a table of packets seen has   *)
(* expired under it, max_hops still ends it (maybe_repeat()).              *)
FloodsEnd ==
  \A n \in Nodes : \A p \in node[n].out : IsFlood(p) =>
    Len(p.path) <= MaxHops /\ (forgets = 0 => Len(p.path) < Cardinality(Nodes))

(* What one text can set off is bounded: its floods end, and path returns  *)
(* without an ack answer a path return or an ack that came by flooding,    *)
(* and only a text starts one, so a node makes at most one for each        *)
(* attempt either end has made (handle_path(), handle_ack()).              *)
Attempts(n) == Cardinality({h \in node[n].seen : h[1] = "text"})
TrafficIsBounded ==
  FloodsEnd /\ (forgets = 0 => \A n \in Nodes : node[n].returns <= Attempts(n))

(* A text to a node that knows its sender arrives, though a relay of the   *)
(* known route goes off or a copy is lost: the last attempt floods.        *)
IsSent(msg) == \E q \in node[msg.from].pending : q.msg = msg /\ q.attempt = 0 /\ ~q.timer
IsIn(msg)  == \E i \in DOMAIN node[msg.to].inbox : node[msg.to].inbox[i] = msg
Texts == {act.msg : act \in {c \in Acts : c.op = "text" /\ c.msg.kind = "plain"}}
EveryTextArrives ==
  \A msg \in Texts : (msg.from \in DOMAIN node[msg.to].contacts /\ IsSent(msg)) ~> IsIn(msg)

(* A trace takes every hop of its route and comes back, also where it      *)
(* passes a node twice (dedup_hash()).                                     *)
Traces == {p \in UNION {w.sends[n] : w \in Workloads, n \in Nodes} : p.type = "trace"}
IsTraced(p) == \E n \in Nodes : \E q \in node[n].out :
  q.type = "trace" /\ q.payload = p.payload /\ Len(q.path) = Len(p.payload.route)
TraceCompletes ==
  \A p \in Traces : (\E n \in Nodes : p \in node[n].out) ~> (faults > 0 \/ IsTraced(p))

(* "direct traffic routed through this node forwarded" (README.md): a text *)
(* that a relay hears when it is the next hop of its route goes on, or has *)
(* gone on before.                                                         *)
RoutedIsForwarded ==
  [][\A n, m \in Nodes : \A p \in node[n].out \ node'[n].out :
       /\ IsDirect(p) /\ p.type = "text" /\ IsNextHop(m, p)
       /\ m \in Hearing(n) /\ faults' = faults
       => DedupHash(p) \in node'[m].passed]_vars

(* All that is sent comes to an end: no queue or retry goes on for ever.   *)
Quiet == \A n \in up : node[n].out = {} /\ node[n].pending = {}
AllQuiet == <>[]Quiet
=============================================================================
