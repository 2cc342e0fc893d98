----------------------------- MODULE MeshProofs -----------------------------
(***************************************************************************)
(* Proofs about Mesh, for every network, every set of key bytes and every  *)
(* workload.                                                               *)
(***************************************************************************)
EXTENDS Mesh, FiniteSetTheorems, TLAPS

(***************************************************************************)
(* Routes.  Reached(o, path, n): whoever hears n can be reached from o     *)
(* over path.                                                              *)
(***************************************************************************)
Reached(o, path, n) == \A m \in Nodes : <<n, m>> \in Links => IsRoute(o, path, m)

Stops(n, hop, c) == <<n>> \o hop \o <<c>>

LEMMA RouteStops ==
  ASSUME NEW n, NEW path, NEW c
  PROVE  IsRoute(n, path, c) <=>
           \E hop \in [1..Len(path) -> Nodes] :
             /\ \A i \in DOMAIN hop : Id[hop[i]] = path[i]
             /\ \A i \in 1..Len(Stops(n, hop, c)) - 1 :
                  <<Stops(n, hop, c)[i], Stops(n, hop, c)[i + 1]>> \in Links
  BY Zenon DEF IsRoute, Stops

LEMMA StopElements ==
  ASSUME NEW n, NEW c, NEW hop \in Seq(Nodes)
  PROVE  /\ Len(Stops(n, hop, c)) = Len(hop) + 2
         /\ Stops(n, hop, c)[1] = n /\ Stops(n, hop, c)[Len(hop) + 2] = c
         /\ \A i \in 1..Len(hop) : Stops(n, hop, c)[i + 1] = hop[i]
<1> DEFINE T == Nodes \cup {n, c}
           k == Len(hop)
           first == <<n>> \o hop
<1>1. <<n>> \in Seq(T) /\ <<c>> \in Seq(T) /\ hop \in Seq(T) /\ k \in Nat
      /\ Len(<<n>>) = 1 /\ Len(<<c>>) = 1 /\ <<n>>[1] = n /\ <<c>>[1] = c
  OBVIOUS
<1> HIDE DEF T
<1>2. /\ first \in Seq(T) /\ Len(first) = k + 1 /\ first[1] = n
      /\ \A i \in 1..k : first[i + 1] = hop[i]
  <2>1. /\ first \in Seq(T) /\ Len(first) = Len(<<n>>) + Len(hop)
        /\ \A i \in 1..Len(<<n>>) + Len(hop) :
             first[i] = IF i <= Len(<<n>>) THEN <<n>>[i] ELSE hop[i - Len(<<n>>)]
    BY <1>1
  <2> HIDE DEF first
  <2> QED  BY <1>1, <2>1
<1> HIDE DEF first
<1>3. /\ first \o <<c>> \in Seq(T) /\ Len(first \o <<c>>) = k + 2
      /\ \A i \in 1..k + 2 : (first \o <<c>>)[i] = IF i <= k + 1 THEN first[i] ELSE <<c>>[i - (k + 1)]
  BY <1>1, <1>2
<1>4. (first \o <<c>>)[1] = n /\ (first \o <<c>>)[k + 2] = c
  BY <1>1, <1>2, <1>3
<1>5. \A i \in 1..k : (first \o <<c>>)[i + 1] = hop[i]
  BY <1>2, <1>3
<1> QED  BY <1>3, <1>4, <1>5, Zenon DEF first, Stops

(* A packet that is sent has gone nowhere yet.                             *)
LEMMA RouteBegins ==
  ASSUME NEW n \in Nodes
  PROVE  Reached(n, <<>>, n)
<1> SUFFICES ASSUME NEW m \in Nodes, <<n, m>> \in Links
             PROVE  IsRoute(n, <<>>, m)
  BY Zenon DEF Reached
<1>1. PICK hop \in Seq(Nodes) : hop \in [1..0 -> Nodes] /\ DOMAIN hop = {} /\ Len(hop) = 0
  <2>1. <<>> \in Seq(Nodes) /\ <<>> \in [1..0 -> Nodes] /\ DOMAIN <<>> = {} /\ Len(<<>>) = 0
    OBVIOUS
  <2> QED  BY <2>1, Zenon
<1> DEFINE stop == Stops(n, hop, m)
<1>2. Len(stop) = 2 /\ stop[1] = n /\ stop[2] = m
  <2>1. Len(stop) = Len(hop) + 2 /\ stop[1] = n /\ stop[Len(hop) + 2] = m
    BY StopElements
  <2> HIDE DEF stop
  <2> QED  BY <1>1, <2>1
<1>3. \A i \in 1..Len(stop) - 1 : <<stop[i], stop[i + 1]>> \in Links
  <2> HIDE DEF stop
  <2> QED  BY <1>2
<1>4. \A i \in DOMAIN hop : Id[hop[i]] = <<>>[i]
  BY <1>1, Zenon
<1>5. Len(<<>>) = 0
  BY Zenon
<1> QED  BY <1>1, <1>3, <1>4, <1>5, RouteStops, Zenon

(* A node that repeats what it hears adds the hop the packet has taken.    *)
LEMMA RouteExtends ==
  ASSUME NEW o, NEW path \in Seq(Nat), NEW n \in Nodes, IsRoute(o, path, n)
  PROVE  Reached(o, Append(path, Id[n]), n)
<1> SUFFICES ASSUME NEW m \in Nodes, <<n, m>> \in Links
             PROVE  IsRoute(o, Append(path, Id[n]), m)
  BY Zenon DEF Reached
<1> DEFINE k == Len(path)
<1>1. PICK hop \in [1..k -> Nodes] :
        /\ \A i \in DOMAIN hop : Id[hop[i]] = path[i]
        /\ \A i \in 1..Len(Stops(o, hop, n)) - 1 :
             <<Stops(o, hop, n)[i], Stops(o, hop, n)[i + 1]>> \in Links
  BY RouteStops, Zenon
<1>2. k \in Nat /\ hop \in Seq(Nodes) /\ Len(hop) = k
  <2>1. k \in Nat
    OBVIOUS
  <2> HIDE DEF k
  <2> QED  BY <2>1
<1> DEFINE stop == Stops(o, hop, n)
           next == [i \in 1..k + 1 |-> IF i = k + 1 THEN n ELSE hop[i]]
           more == Stops(o, next, m)
<1>3. /\ next \in [1..k + 1 -> Nodes] /\ DOMAIN next = 1..k + 1
      /\ next \in Seq(Nodes) /\ Len(next) = k + 1
  BY <1>2, SMTT(30)
<1>4. /\ Len(stop) = k + 2 /\ stop[1] = o /\ stop[k + 2] = n
      /\ \A i \in 1..k : stop[i + 1] = hop[i]
  BY <1>2, StopElements
<1>5. next[k + 1] = n /\ \A i \in 1..k : next[i] = hop[i]
  BY <1>2
<1> HIDE DEF next
<1>6. /\ Len(more) = k + 3 /\ more[1] = o /\ more[k + 3] = m
      /\ \A i \in 1..k + 1 : more[i + 1] = next[i]
  <2>1. k + 1 \in Nat /\ k + 1 + 2 = k + 3
    BY <1>2
  <2>2. /\ Len(more) = (k + 1) + 2 /\ more[1] = o /\ more[(k + 1) + 2] = m
        /\ \A i \in 1..k + 1 : more[i + 1] = next[i]
    BY <1>3, <2>1, StopElements
  <2> QED  BY <2>1, <2>2, Zenon
<1>7. \A i \in 1..Len(stop) - 1 : <<stop[i], stop[i + 1]>> \in Links
  BY <1>1, Zenon
<1> HIDE DEF stop, more
<1>8. /\ more[k + 2] = n
      /\ \A i \in 1..k + 1 : more[i] = stop[i]
  <2>1. more[k + 2] = n
    BY <1>2, <1>5, <1>6
  <2>2. ASSUME NEW i \in 1..k + 1
        PROVE  more[i] = stop[i]
    <3>1. CASE i = 1
      BY <1>4, <1>6, <3>1, Zenon
    <3>2. CASE i # 1
      <4>1. i - 1 \in 1..k /\ i - 1 \in 1..k + 1 /\ (i - 1) + 1 = i
        BY <1>2, <3>2
      <4> QED  BY <1>4, <1>5, <1>6, <4>1, Zenon
    <3> QED  BY <3>1, <3>2, Zenon
  <2> QED  BY <2>1, <2>2, Zenon
<1>9. ASSUME NEW i \in 1..Len(more) - 1
      PROVE  <<more[i], more[i + 1]>> \in Links
  <2>1. i \in 1..k + 2
    BY <1>2, <1>6
  <2>2. CASE i = k + 2
    <3>1. i + 1 = k + 3
      BY <1>2, <2>2
    <3> QED  BY <1>6, <1>8, <2>2, <3>1, Zenon
  <2>3. CASE i # k + 2
    <3>1. i \in 1..k + 1 /\ i \in 1..Len(stop) - 1
      BY <1>2, <1>4, <2>1, <2>3
    <3>2. more[i + 1] = stop[i + 1]
      <4>1. CASE i = k + 1
        <5>1. i + 1 = k + 2
          BY <1>2, <4>1
        <5> QED  BY <1>4, <1>8, <5>1, Zenon
      <4>2. CASE i # k + 1
        <5>1. i + 1 \in 1..k + 1
          BY <1>2, <3>1, <4>2, SMTT(30)
        <5> QED  BY <1>8, <5>1, Zenon
      <4> QED  BY <4>1, <4>2, Zenon
    <3> QED  BY <1>7, <1>8, <3>1, <3>2, Zenon
  <2> QED  BY <2>2, <2>3, Zenon
<1>10. /\ Len(Append(path, Id[n])) = k + 1 /\ Append(path, Id[n])[k + 1] = Id[n]
       /\ \A i \in 1..k : Append(path, Id[n])[i] = path[i]
  <2>1. Id[n] \in Nat
    BY MeshAssumption, Zenon
  <2> QED  BY <2>1
<1>11. \A i \in DOMAIN next : Id[next[i]] = Append(path, Id[n])[i]
  <2> TAKE i \in DOMAIN next
  <2>1. CASE i = k + 1
    BY <1>5, <1>10, <2>1, Zenon
  <2>2. CASE i # k + 1
    <3>1. i \in 1..k /\ i \in DOMAIN hop
      BY <1>2, <1>3, <2>2
    <3> QED  BY <1>1, <1>5, <1>10, <3>1, Zenon
  <2> QED  BY <2>1, <2>2, Zenon
<1>12. next \in [1..Len(Append(path, Id[n])) -> Nodes]
  BY <1>3, <1>10, Zenon
<1> QED  BY <1>9, <1>11, <1>12, RouteStops, Zenon DEF more
-----------------------------------------------------------------------------
(***************************************************************************)
(* What is true of the packets and of a node's state.                      *)
(***************************************************************************)
(* The channel texts there are.                                            *)
Channels == {[msg |-> act.msg, holders |-> act.holders] : act \in {x \in Acts : x.op = "channel"}}

Letters == Messages \cup {g.msg : g \in Channels}

(* The node a packet set out from.                                         *)
Origin(type, payload) == IF type = "ack" THEN payload.msg.to ELSE payload.from

(* Only what is in its recipient's inbox, which K has, is acknowledged,    *)
(* and a path return brings a route that leads from its reader to its      *)
(* sender.                                                                 *)
Made(type, payload, K) ==
  /\ type = "text" => payload.msg \in Messages /\ payload.to = payload.msg.to
  /\ type = "ack" => payload.msg \in K
  /\ type = "path" => /\ IsRoute(payload.to, payload.path, payload.from)
                      /\ payload.extra[1] = "ack" => payload.extra[2].msg \in K
  /\ type = "group" => payload \in Channels

Flooding(p) == p.path \in Seq(Nat) /\ Len(p.path) <= MaxHops
Tracked(p)  == p.type \in {"text", "path", "ack"}
IsPacket(p) == p = Packet(p.type, p.payload, p.route, p.path)

(* A packet n is to transmit, and one that n hears.                        *)
Queued(n, p, K) ==
  /\ IsPacket(p) /\ Made(p.type, p.payload, K)
  /\ IsFlood(p) => Flooding(p) /\ (Tracked(p) => Reached(Origin(p.type, p.payload), p.path, n))
Heard(n, p, K) ==
  /\ IsPacket(p) /\ Made(p.type, p.payload, K)
  /\ IsFlood(p) => Flooding(p) /\ (Tracked(p) => IsRoute(Origin(p.type, p.payload), p.path, n))

IsNode(s) ==
  s = [out |-> s.out, seen |-> s.seen, contacts |-> s.contacts, pending |-> s.pending,
       inbox |-> s.inbox, delivered |-> s.delivered, returns |-> s.returns,
       confirmed |-> s.confirmed, passed |-> s.passed]

Contacts(n, cs) ==
  /\ cs = [c \in DOMAIN cs |-> cs[c]]
  /\ \A c \in DOMAIN cs :
       /\ cs[c] = [adv |-> cs[c].adv, route |-> cs[c].route]
       /\ cs[c].route.known => IsRoute(n, cs[c].route.path, c)

Pending(q) == q = [msg |-> q.msg, attempt |-> q.attempt, timer |-> q.timer] /\ q.msg \in Messages

(* The texts for n in its inbox.                                           *)
Own(n, inbox) == {msg \in Range(inbox) : msg \in Messages /\ msg.to = n}

Mail(n, inbox, delivered) ==
  /\ inbox \in Seq(Letters)
  /\ \A i \in DOMAIN inbox : inbox[i] \in Messages => <<inbox[i]>> \in delivered /\ inbox[i].to = n
  /\ \A k \in delivered : \E msg \in Own(n, inbox) : k = <<msg>>
  /\ \A i, j \in DOMAIN inbox : inbox[i] = inbox[j] /\ inbox[i] \in Messages => i = j

(* While the table of packets seen lasts, channel texts are stored once.   *)
GroupHash(g) == <<"group", g, 0>>
Once(inbox, seen) ==
  /\ \A i \in DOMAIN inbox : inbox[i] \notin Messages =>
       \E g \in Channels : g.msg = inbox[i] /\ GroupHash(g) \in seen
  /\ \A i, j \in DOMAIN inbox : inbox[i] = inbox[j] => i = j

Fresh(p, seen) == p.path = <<>> /\ DedupHash(p) \in seen

Grown(n, o, s) == o.seen \subseteq s.seen /\ Own(n, o.inbox) \subseteq Own(n, s.inbox)

(* A node between two steps of a handler, which was o earlier on: W has    *)
(* the packets it may pass on, f is the number of tables that have expired.*)
Local(n, s, K, W, o, f) ==
  /\ IsNode(s) /\ Grown(n, o, s) /\ s.confirmed \subseteq K /\ Own(n, s.inbox) \subseteq K
  /\ Contacts(n, s.contacts)
  /\ \A q \in s.pending : Pending(q)
  /\ \A p \in s.out : Queued(n, p, K) /\ (IsFlood(p) => Fresh(p, s.seen) \/ p \in W)
  /\ Mail(n, s.inbox, s.delivered)
  /\ f = 0 => Once(s.inbox, s.seen)

LEMMA LocalMore ==
  ASSUME NEW n, NEW s, NEW K, NEW W, NEW o, NEW f, Local(n, s, K, W, o, f),
         NEW K2, NEW W2, K \subseteq K2, W \subseteq W2
  PROVE  Local(n, s, K2, W2, o, f)
<1>1. \A p : Queued(n, p, K) => Queued(n, p, K2)
  BY Zenon DEF Queued, Made
<1> QED  BY <1>1, Zenon DEF Local

LEMMA LocalChain ==
  ASSUME NEW n, NEW s, NEW t, NEW K, NEW W, NEW o, NEW f,
         Local(n, s, K, W, o, f), Local(n, t, K, W, s, f)
  PROVE  Local(n, t, K, W, o, f) /\ Own(n, s.inbox) \subseteq Own(n, t.inbox)
<1>1. Grown(n, o, t) /\ Grown(n, s, t)
  BY Zenon DEF Local, Grown
<1> QED  BY <1>1, Zenon DEF Local, Grown

LEMMA LocalSelf ==
  ASSUME NEW n, NEW s, NEW K, NEW W, NEW o, NEW f, Local(n, s, K, W, o, f)
  PROVE  Local(n, s, K, W, s, f)
<1>1. Grown(n, s, s)
  BY Zenon DEF Grown
<1> QED  BY <1>1, Zenon DEF Local

(***************************************************************************)
(* The handlers are made of a few kinds of update.                         *)
(***************************************************************************)
LEMMA SendLocal ==
  ASSUME NEW n, NEW s, NEW K, NEW W, NEW o, NEW f, Local(n, s, K, W, o, f),
         NEW p, Queued(n, p, K), IsFlood(p) => p.path = <<>> \/ p \in W
  PROVE  Local(n, Send(s, p), K, W, o, f)
<1>0. PICK t : t = Send(s, p)
  BY Zenon
<1>1. /\ IsNode(t) /\ t.out = s.out \cup {p} /\ t.seen = s.seen \cup {DedupHash(p)}
      /\ t.contacts = s.contacts /\ t.pending = s.pending /\ t.inbox = s.inbox
      /\ t.delivered = s.delivered /\ t.confirmed = s.confirmed
  <2>1. IsNode(s)
    BY Zenon DEF Local
  <2> QED  BY <1>0, <2>1, Zenon DEF IsNode, Send
<1>2. \A x \in t.out : Queued(n, x, K) /\ (IsFlood(x) => Fresh(x, t.seen) \/ x \in W)
  BY <1>1, Zenon DEF Local, Fresh
<1>3. f = 0 => Once(t.inbox, t.seen)
  BY <1>1, Zenon DEF Local, Once
<1>4. Grown(n, o, t)
  BY <1>1, Zenon DEF Local, Grown
<1> QED  BY <1>0, <1>1, <1>2, <1>3, <1>4, Zenon DEF Local

(* An update that touches neither packets nor mail.                        *)
LEMMA SameLocal ==
  ASSUME NEW n, NEW s, NEW K, NEW W, NEW o, NEW f, Local(n, s, K, W, o, f),
         NEW t, IsNode(t), t.out \subseteq s.out, s.seen \subseteq t.seen, t.inbox = s.inbox,
         t.delivered = s.delivered, t.confirmed \subseteq K, Contacts(n, t.contacts),
         \A q \in t.pending : Pending(q)
  PROVE  Local(n, t, K, W, o, f)
<1>1. \A x \in t.out : Queued(n, x, K) /\ (IsFlood(x) => Fresh(x, t.seen) \/ x \in W)
  BY Zenon DEF Local, Fresh
<1>2. f = 0 => Once(t.inbox, t.seen)
  BY Zenon DEF Local, Once
<1>3. Grown(n, o, t)
  BY Zenon DEF Local, Grown
<1> QED  BY <1>1, <1>2, <1>3, Zenon DEF Local

LEMMA CompleteAckLocal ==
  ASSUME NEW n, NEW s, NEW K, NEW W, NEW o, NEW f, Local(n, s, K, W, o, f),
         NEW matched, \A q \in matched : q.msg \in K
  PROVE  Local(n, CompleteAck(s, matched), K, W, o, f)
<1>0. PICK t : t = CompleteAck(s, matched)
  BY Zenon
<1>1. /\ IsNode(t) /\ t.out = s.out /\ t.seen = s.seen /\ t.contacts = s.contacts
      /\ t.pending = s.pending \ matched /\ t.inbox = s.inbox /\ t.delivered = s.delivered
      /\ t.confirmed = s.confirmed \cup {q.msg : q \in matched}
  <2>1. IsNode(s)
    BY Zenon DEF Local
  <2> QED  BY <1>0, <2>1, Zenon DEF IsNode, CompleteAck
<1>2. /\ t.confirmed \subseteq K /\ Contacts(n, t.contacts)
      /\ \A q \in t.pending : Pending(q)
  BY <1>1, Zenon DEF Local
<1> QED  BY <1>0, <1>1, <1>2, SameLocal, Zenon

LEMMA PendingLocal ==
  ASSUME NEW n, NEW s, NEW K, NEW W, NEW o, NEW f, Local(n, s, K, W, o, f),
         NEW waiting, \A q \in waiting : Pending(q)
  PROVE  Local(n, [s EXCEPT !.pending = waiting], K, W, o, f)
<1>0. PICK t : t = [s EXCEPT !.pending = waiting]
  BY Zenon
<1>1. /\ IsNode(t) /\ t.out = s.out /\ t.seen = s.seen /\ t.contacts = s.contacts
      /\ t.pending = waiting /\ t.inbox = s.inbox /\ t.delivered = s.delivered
      /\ t.confirmed = s.confirmed
  <2>1. IsNode(s)
    BY Zenon DEF Local
  <2> QED  BY <1>0, <2>1, Zenon DEF IsNode
<1>2. /\ t.confirmed \subseteq K /\ Contacts(n, t.contacts)
      /\ \A q \in t.pending : Pending(q)
  BY <1>1, Zenon DEF Local
<1> QED  BY <1>0, <1>1, <1>2, SameLocal, Zenon

LEMMA ContactsLocal ==
  ASSUME NEW n, NEW s, NEW K, NEW W, NEW o, NEW f, Local(n, s, K, W, o, f),
         NEW cs, Contacts(n, cs)
  PROVE  Local(n, [s EXCEPT !.contacts = cs], K, W, o, f)
<1>0. PICK t : t = [s EXCEPT !.contacts = cs]
  BY Zenon
<1>1. /\ IsNode(t) /\ t.out = s.out /\ t.seen = s.seen /\ t.contacts = cs
      /\ t.pending = s.pending /\ t.inbox = s.inbox /\ t.delivered = s.delivered
      /\ t.confirmed = s.confirmed
  <2>1. IsNode(s)
    BY Zenon DEF Local
  <2> QED  BY <1>0, <2>1, Zenon DEF IsNode
<1>2. /\ t.confirmed \subseteq K /\ Contacts(n, t.contacts)
      /\ \A q \in t.pending : Pending(q)
  BY <1>1, Zenon DEF Local
<1> QED  BY <1>0, <1>1, <1>2, SameLocal, Zenon

(* A text is stored when it is delivered for the first time, and may be    *)
(* acknowledged from then on.                                              *)
LEMMA AppendMail ==
  ASSUME NEW inbox \in Seq(Letters), NEW msg \in Letters
  PROVE  /\ Append(inbox, msg) \in Seq(Letters)
         /\ DOMAIN Append(inbox, msg) = 1..Len(inbox) + 1 /\ DOMAIN inbox = 1..Len(inbox)
         /\ Len(inbox) \in Nat /\ Append(inbox, msg)[Len(inbox) + 1] = msg
         /\ \A i \in DOMAIN inbox : Append(inbox, msg)[i] = inbox[i]
         /\ \A i \in DOMAIN Append(inbox, msg) : i \in DOMAIN inbox \/ i = Len(inbox) + 1
  OBVIOUS

LEMMA StoreTextLocal ==
  ASSUME NEW n, NEW s, NEW K, NEW W, NEW o, NEW f, Local(n, s, K, W, o, f),
         NEW msg \in Messages, msg.to = n, <<msg>> \notin s.delivered
  PROVE  LET t == StoreMessage([s EXCEPT !.delivered = @ \cup {<<msg>>}], msg)
         IN  Local(n, t, K \cup {msg}, W, o, f) /\ msg \in Own(n, t.inbox)
<1>0. PICK t : t = StoreMessage([s EXCEPT !.delivered = @ \cup {<<msg>>}], msg)
  BY Zenon
<1> DEFINE L == Len(s.inbox)
<1>1. /\ IsNode(t) /\ t.out = s.out /\ t.seen = s.seen /\ t.contacts = s.contacts
      /\ t.pending = s.pending /\ t.inbox = Append(s.inbox, msg)
      /\ t.delivered = s.delivered \cup {<<msg>>} /\ t.confirmed = s.confirmed
  <2>1. IsNode(s)
    BY Zenon DEF Local
  <2> QED  BY <1>0, <2>1, Zenon DEF IsNode, StoreMessage
<1>2. /\ s.inbox \in Seq(Letters) /\ msg \in Letters
  BY Zenon DEF Local, Mail, Letters
<1>3. /\ t.inbox \in Seq(Letters) /\ DOMAIN t.inbox = 1..L + 1 /\ DOMAIN s.inbox = 1..L
      /\ L \in Nat /\ t.inbox[L + 1] = msg /\ \A i \in DOMAIN s.inbox : t.inbox[i] = s.inbox[i]
      /\ \A i \in DOMAIN t.inbox : i \in DOMAIN s.inbox \/ i = L + 1
  BY <1>1, <1>2, AppendMail
<1> HIDE DEF L
<1>4. DOMAIN s.inbox \subseteq DOMAIN t.inbox /\ L + 1 \in DOMAIN t.inbox
  BY <1>3
<1>5. /\ Mail(n, s.inbox, s.delivered) /\ Own(n, s.inbox) \subseteq K
      /\ \A i \in DOMAIN s.inbox : s.inbox[i] # msg
  BY Zenon DEF Local, Mail
<1>6. Own(n, t.inbox) = Own(n, s.inbox) \cup {msg}
  BY <1>3, <1>4, Zenon DEF Own, Range
<1>7. Mail(n, t.inbox, t.delivered)
  <2>1. \A i \in DOMAIN t.inbox : t.inbox[i] \in Messages => <<t.inbox[i]>> \in t.delivered /\ t.inbox[i].to = n
    BY <1>1, <1>3, <1>5 DEF Mail
  <2>2. \A k \in t.delivered : \E m \in Own(n, t.inbox) : k = <<m>>
    BY <1>1, <1>5, <1>6, Zenon DEF Mail
  <2>3. \A i, j \in DOMAIN t.inbox : t.inbox[i] = t.inbox[j] /\ t.inbox[i] \in Messages => i = j
    BY <1>3, <1>5, Zenon DEF Mail
  <2> QED  BY <1>3, <2>1, <2>2, <2>3, Zenon DEF Mail
<1>8. f = 0 => Once(t.inbox, t.seen)
  <2> SUFFICES ASSUME Once(s.inbox, s.seen) PROVE Once(t.inbox, t.seen)
    BY Zenon DEF Local
  <2>1. \A i \in DOMAIN t.inbox : t.inbox[i] \notin Messages =>
          \E g \in Channels : g.msg = t.inbox[i] /\ GroupHash(g) \in t.seen
    BY <1>1, <1>3, Zenon DEF Once
  <2>2. \A i, j \in DOMAIN t.inbox : t.inbox[i] = t.inbox[j] => i = j
    BY <1>3, <1>5, Zenon DEF Once
  <2> QED  BY <2>1, <2>2, Zenon DEF Once
<1>9. Local(n, s, K \cup {msg}, W, o, f)
  BY LocalMore, Zenon
<1>10. /\ t.confirmed \subseteq K \cup {msg} /\ Contacts(n, t.contacts)
       /\ \A q \in t.pending : Pending(q)
       /\ \A p \in t.out : Queued(n, p, K \cup {msg}) /\ (IsFlood(p) => Fresh(p, t.seen) \/ p \in W)
  BY <1>1, <1>9, Zenon DEF Local
<1>11. Own(n, t.inbox) \subseteq K \cup {msg}
  BY <1>5, <1>6, Zenon
<1>12. Grown(n, o, t)
  BY <1>1, <1>6, Zenon DEF Local, Grown
<1>13. Local(n, t, K \cup {msg}, W, o, f)
  BY <1>1, <1>7, <1>8, <1>10, <1>11, <1>12, Zenon DEF Local
<1> QED  BY <1>0, <1>6, <1>13, Zenon

(* A channel text that is new to the table of packets seen is new to the   *)
(* inbox.                                                                  *)
LEMMA StoreChannelLocal ==
  ASSUME NEW n, NEW s, NEW K, NEW W, NEW o, NEW f, Local(n, s, K, W, o, f),
         NEW g \in Channels, GroupHash(g) \in s.seen,
         f = 0 => \A i \in DOMAIN s.inbox : s.inbox[i] # g.msg
  PROVE  Local(n, StoreMessage(s, g.msg), K, W, o, f)
<1>0. PICK t : t = StoreMessage(s, g.msg)
  BY Zenon
<1> DEFINE L == Len(s.inbox)
<1>1. /\ IsNode(t) /\ t.out = s.out /\ t.seen = s.seen /\ t.contacts = s.contacts
      /\ t.pending = s.pending /\ t.inbox = Append(s.inbox, g.msg)
      /\ t.delivered = s.delivered /\ t.confirmed = s.confirmed
  <2>1. IsNode(s)
    BY Zenon DEF Local
  <2> QED  BY <1>0, <2>1, Zenon DEF IsNode, StoreMessage
<1>2. /\ s.inbox \in Seq(Letters) /\ g.msg \in Letters
  BY Zenon DEF Local, Mail, Letters
<1>3. /\ t.inbox \in Seq(Letters) /\ DOMAIN t.inbox = 1..L + 1 /\ DOMAIN s.inbox = 1..L
      /\ L \in Nat /\ t.inbox[L + 1] = g.msg /\ \A i \in DOMAIN s.inbox : t.inbox[i] = s.inbox[i]
      /\ \A i \in DOMAIN t.inbox : i \in DOMAIN s.inbox \/ i = L + 1
  BY <1>1, <1>2, AppendMail
<1> HIDE DEF L
<1>4. DOMAIN s.inbox \subseteq DOMAIN t.inbox
  BY <1>3
<1>5. g.msg \notin Messages
  <2>1. PICK act \in Acts : act.op = "channel" /\ g = [msg |-> act.msg, holders |-> act.holders]
    BY Zenon DEF Channels
  <2>2. "to" \notin DOMAIN act.msg
    BY <2>1, WorkloadAssumption, Zenon
  <2>3. \A m \in Messages : "to" \in DOMAIN m
    BY Zenon DEF Messages
  <2> QED  BY <2>1, <2>2, <2>3, Zenon
<1>6. Own(n, t.inbox) = Own(n, s.inbox)
  BY <1>3, <1>4, <1>5, Zenon DEF Own, Range
<1>7. Mail(n, s.inbox, s.delivered)
  BY Zenon DEF Local
<1>8. Mail(n, t.inbox, t.delivered)
  <2>1. \A i \in DOMAIN t.inbox : t.inbox[i] \in Messages => <<t.inbox[i]>> \in t.delivered /\ t.inbox[i].to = n
    BY <1>1, <1>3, <1>5, <1>7, Zenon DEF Mail
  <2>2. \A k \in t.delivered : \E m \in Own(n, t.inbox) : k = <<m>>
    BY <1>1, <1>6, <1>7, Zenon DEF Mail
  <2>3. \A i, j \in DOMAIN t.inbox : t.inbox[i] = t.inbox[j] /\ t.inbox[i] \in Messages => i = j
    BY <1>3, <1>5, <1>7, Zenon DEF Mail
  <2> QED  BY <1>3, <2>1, <2>2, <2>3, Zenon DEF Mail
<1>9. f = 0 => Once(t.inbox, t.seen)
  <2> SUFFICES ASSUME Once(s.inbox, s.seen), \A i \in DOMAIN s.inbox : s.inbox[i] # g.msg
               PROVE  Once(t.inbox, t.seen)
    BY Zenon DEF Local
  <2>1. \A i \in DOMAIN t.inbox : t.inbox[i] \notin Messages =>
          \E x \in Channels : x.msg = t.inbox[i] /\ GroupHash(x) \in t.seen
    BY <1>1, <1>3, SMTT(30) DEF Once
  <2>2. \A i, j \in DOMAIN t.inbox : t.inbox[i] = t.inbox[j] => i = j
    BY <1>3, Zenon DEF Once
  <2> QED  BY <2>1, <2>2, Zenon DEF Once
<1>10. Grown(n, o, t)
  BY <1>1, <1>6, Zenon DEF Local, Grown
<1> QED  BY <1>0, <1>1, <1>6, <1>8, <1>9, <1>10, Zenon DEF Local
-----------------------------------------------------------------------------
(***************************************************************************)
(* What a node sends of its own.                                           *)
(***************************************************************************)
LEMMA MakeQueued ==
  ASSUME NEW n \in Nodes, NEW K, NEW type, NEW payload, NEW route, NEW path,
         Made(type, payload, K), route = "flood" => path = <<>>,
         type \in {"text", "path", "ack"} => Origin(type, payload) = n
  PROVE  LET p == Packet(type, payload, route, path)
         IN  Queued(n, p, K) /\ (IsFlood(p) => p.path = <<>>)
<1>1. PICK p : p = Packet(type, payload, route, path)
  BY Zenon
<1>2. /\ p.type = type /\ p.payload = payload /\ p.route = route /\ p.path = path
      /\ IsPacket(p)
  BY <1>1, Zenon DEF Packet, IsPacket
<1>3. IsFlood(p) => Flooding(p) /\ p.path = <<>>
  BY <1>2, MeshAssumption DEF IsFlood, Flooding
<1>4. IsFlood(p) /\ Tracked(p) => Reached(Origin(p.type, p.payload), p.path, n)
  BY <1>2, <1>3, RouteBegins, Zenon DEF Tracked
<1> QED  BY <1>1, <1>2, <1>3, <1>4, Zenon DEF Queued

LEMMA SendOwnLocal ==
  ASSUME NEW n \in Nodes, NEW s, NEW K, NEW W, NEW o, NEW f, Local(n, s, K, W, o, f),
         NEW type, NEW payload, NEW route, NEW path,
         Made(type, payload, K), route = "flood" => path = <<>>,
         type \in {"text", "path", "ack"} => Origin(type, payload) = n
  PROVE  Local(n, Send(s, Packet(type, payload, route, path)), K, W, o, f)
<1>1. PICK p : p = Packet(type, payload, route, path)
  BY Zenon
<1>2. Queued(n, p, K) /\ (IsFlood(p) => p.path = <<>>)
  BY <1>1, MakeQueued
<1> QED  BY <1>1, <1>2, SendLocal, Zenon

LEMMA RouteToLocal ==
  ASSUME NEW n \in Nodes, NEW s, NEW K, NEW W, NEW o, NEW f, Local(n, s, K, W, o, f),
         NEW type, NEW payload, NEW c, NEW forceFlood, Made(type, payload, K),
         type \in {"text", "path", "ack"} => Origin(type, payload) = n
  PROVE  Local(n, RouteTo(s, type, payload, c, forceFlood), K, W, o, f)
<1> DEFINE path == s.contacts[c].route.path
<1>1. /\ Local(n, Send(s, Packet(type, payload, "direct", path)), K, W, o, f)
      /\ Local(n, Send(s, Packet(type, payload, "flood", <<>>)), K, W, o, f)
  BY SendOwnLocal, Zenon
<1> QED  BY <1>1, Zenon DEF RouteTo

LEMMA SendAttemptLocal ==
  ASSUME NEW n \in Nodes, NEW s, NEW K, NEW W, NEW o, NEW f, Local(n, s, K, W, o, f),
         NEW msg \in Messages, NEW attempt
  PROVE  Local(n, SendAttempt(n, s, msg, attempt), K, W, o, f)
<1> DEFINE payload == [from |-> n, to |-> msg.to, msg |-> msg, attempt |-> attempt]
           waiting == {q \in s.pending : q.msg # msg} \cup
                        {[msg |-> msg, attempt |-> attempt, timer |-> FALSE]}
<1>1. PICK sent : sent = RouteTo(s, "text", payload, msg.to, IsLast(attempt))
  BY Zenon
<1>2. Local(n, sent, K, W, o, f)
  <2>1. Made("text", payload, K) /\ Origin("text", payload) = n
    BY Zenon DEF Made, Origin
  <2> QED  BY <1>1, <2>1, RouteToLocal, Zenon
<1>3. \A q \in waiting : Pending(q)
  BY DEF Local, Pending
<1>4. Local(n, [sent EXCEPT !.pending = waiting], K, W, o, f)
  BY <1>2, <1>3, PendingLocal, Zenon
<1> QED  BY <1>1, <1>2, <1>4, Zenon DEF SendAttempt

LEMMA OnRetryLocal ==
  ASSUME NEW n \in Nodes, NEW s, NEW K, NEW W, NEW o, NEW f, Local(n, s, K, W, o, f),
         NEW q \in s.pending
  PROVE  Local(n, OnRetry(n, s, q), K, W, o, f)
<1>1. q.msg \in Messages /\ \A x \in s.pending \ {q} : Pending(x)
  BY Zenon DEF Local, Pending
<1>2. Local(n, SendAttempt(n, s, q.msg, q.attempt + 1), K, W, o, f)
  BY <1>1, SendAttemptLocal, Zenon
<1>3. Local(n, [s EXCEPT !.pending = s.pending \ {q}], K, W, o, f)
  BY <1>1, PendingLocal, Zenon
<1> QED  BY <1>2, <1>3, Zenon DEF OnRetry

LEMMA SendPathReturnLocal ==
  ASSUME NEW n \in Nodes, NEW s, NEW K, NEW W, NEW o, NEW f, Local(n, s, K, W, o, f),
         NEW to, NEW inbound, IsRoute(to, inbound.path, n), NEW extra, NEW route, NEW path,
         extra # <<>> => extra[2].msg \in K, route = "flood" => path = <<>>
  PROVE  Local(n, SendPathReturn(n, s, to, inbound, extra, route, path), K, W, o, f)
<1> DEFINE more == IF extra = <<>> THEN 1 ELSE 0
           end  == IF extra = <<>> THEN <<"random", s.returns>> ELSE extra
           payload == [from |-> n, to |-> to, path |-> inbound.path, extra |-> end]
<1>1. PICK t : t = [s EXCEPT !.returns = s.returns + more]
  BY Zenon
<1>2. /\ IsNode(t) /\ t.out = s.out /\ t.seen = s.seen /\ t.contacts = s.contacts
      /\ t.pending = s.pending /\ t.inbox = s.inbox /\ t.delivered = s.delivered
      /\ t.confirmed = s.confirmed
  <2>1. IsNode(s)
    BY Zenon DEF Local
  <2> QED  BY <1>1, <2>1, Zenon DEF IsNode
<1>3. Local(n, t, K, W, o, f)
  <2>1. t.confirmed \subseteq K /\ Contacts(n, t.contacts) /\ \A q \in t.pending : Pending(q)
    BY <1>2, Zenon DEF Local
  <2> QED  BY <1>2, <2>1, SameLocal, Zenon
<1>4. end[1] = "ack" => end[2].msg \in K
  BY Zenon
<1> HIDE DEF end
<1>5. Made("path", payload, K) /\ Origin("path", payload) = n
  BY <1>4, Zenon DEF Made, Origin
<1> HIDE DEF payload
<1>6. Local(n, Send(t, Packet("path", payload, route, path)), K, W, o, f)
  BY <1>3, <1>5, SendOwnLocal, Zenon
<1> QED  BY <1>1, <1>6, Zenon DEF SendPathReturn, payload, end
-----------------------------------------------------------------------------
(***************************************************************************)
(* What a node does with a packet it hears.                                *)
(***************************************************************************)
LEMMA AdvertLocal ==
  ASSUME NEW n, NEW s, NEW K, NEW W, NEW o, NEW f, Local(n, s, K, W, o, f), NEW p
  PROVE  Local(n, HandleAdvert(n, s, p).s, K, W, o, f)
<1>1. ASSUME NEW c, NEW ts
      PROVE  Local(n, ApplyAdvert(s, c, ts), K, W, o, f)
  <2> DEFINE new == [k \in DOMAIN s.contacts \cup {c} |->
                       IF k # c THEN s.contacts[k]
                       ELSE [adv |-> ts, route |-> IF c \in DOMAIN s.contacts
                                                   THEN s.contacts[c].route ELSE NoPath]]
  <2>1. Contacts(n, s.contacts)
    BY Zenon DEF Local
  <2>2. ASSUME NEW k \in DOMAIN new
        PROVE  /\ new[k] = [adv |-> new[k].adv, route |-> new[k].route]
               /\ new[k].route.known => IsRoute(n, new[k].route.path, k)
    <3>1. CASE k # c
      BY <2>1, <3>1, Zenon DEF Contacts
    <3>2. CASE k = c /\ c \in DOMAIN s.contacts
      BY <2>1, <3>2, Zenon DEF Contacts
    <3>3. CASE k = c /\ c \notin DOMAIN s.contacts
      BY <3>3, Zenon DEF NoPath
    <3> QED  BY <3>1, <3>2, <3>3, Zenon
  <2>3. Contacts(n, new)
    BY <2>2, Zenon DEF Contacts
  <2>4. Local(n, [s EXCEPT !.contacts = new], K, W, o, f)
    BY <2>3, ContactsLocal, Zenon
  <2> QED  BY <2>4, Zenon DEF ApplyAdvert
<1> QED  BY <1>1, Zenon DEF HandleAdvert, Done, Onward

LEMMA RequestLocal ==
  ASSUME NEW n, NEW s, NEW K, NEW W, NEW o, NEW f, Local(n, s, K, W, o, f), NEW p
  PROVE  Local(n, HandleRequest(n, s, p).s, K, W, o, f)
  BY Zenon DEF HandleRequest, Done, Onward

LEMMA TextLocal ==
  ASSUME NEW n \in Nodes, NEW s, NEW K, NEW W, NEW o, NEW f, Local(n, s, K, W, o, f),
         NEW p, Heard(n, p, K), p.type = "text"
  PROVE  LET t == HandleText(n, s, p).s IN Local(n, t, K \cup Own(n, t.inbox), W, o, f)
<1> DEFINE msg  == p.payload.msg
           from == p.payload.from
           M    == K \cup {msg}
           kept == IF FirstDelivery(s, p.payload)
                   THEN StoreMessage([s EXCEPT !.delivered = @ \cup {DeliveryKey(p.payload)}], msg)
                   ELSE s
           ack  == IF msg.kind = "cli" THEN <<>> ELSE <<"ack", AckHash(msg, p.payload.attempt)>>
<1>1. CASE ~Opens(n, s, p.payload)
  <2>1. HandleText(n, s, p).s = s
    BY <1>1, Zenon DEF HandleText, Onward
  <2> QED  BY <2>1, LocalMore, Zenon
<1>2. CASE Opens(n, s, p.payload)
  <2>1. /\ msg \in Messages /\ msg.to = n
        /\ IsFlood(p) => IsRoute(from, p.path, n)
    BY <1>2, Zenon DEF Heard, Made, Opens, Origin, Tracked
  <2>2. PICK k : k = kept
    BY Zenon
  <2>3. Local(n, k, M, W, o, f) /\ msg \in Own(n, k.inbox)
    <3>1. CASE <<msg>> \notin s.delivered
      <4>1. k = StoreMessage([s EXCEPT !.delivered = @ \cup {<<msg>>}], msg)
        BY <2>2, <3>1, Zenon DEF FirstDelivery, DeliveryKey
      <4> QED  BY <2>1, <3>1, <4>1, StoreTextLocal, Zenon
    <3>2. CASE <<msg>> \in s.delivered
      <4>1. k = s
        BY <2>2, <3>2, Zenon DEF FirstDelivery, DeliveryKey
      <4>2. PICK m \in Own(n, s.inbox) : <<msg>> = <<m>>
        BY <3>2, Zenon DEF Local, Mail
      <4> QED  BY <4>1, <4>2, LocalMore, Zenon
    <3> QED  BY <3>1, <3>2, Zenon
  <2>4. Local(n, k, M, W, k, f)
    BY <2>3, LocalSelf, Zenon
  <2>5. ack # <<>> => ack = <<"ack", AckHash(msg, p.payload.attempt)>> /\ ack[2].msg \in M
    BY Zenon DEF AckHash
  <2>6. IsFlood(p) => Local(n, SendPathReturn(n, k, from, p, ack, "flood", <<>>), M, W, k, f)
    <3> HIDE DEF ack
    <3> QED  BY <2>1, <2>4, <2>5, SendPathReturnLocal, Zenon
  <2>7. ack # <<>> => Local(n, RouteTo(k, "ack", ack[2], from, FALSE), M, W, k, f)
    <3>1. ack # <<>> => Made("ack", ack[2], M) /\ Origin("ack", ack[2]) = n
      BY <2>1, <2>5, Zenon DEF Made, Origin, AckHash
    <3> HIDE DEF ack
    <3> QED  BY <2>4, <3>1, RouteToLocal, Zenon
  <2>8. \/ HandleText(n, s, p).s = s
        \/ IsFlood(p) /\ HandleText(n, s, p).s = SendPathReturn(n, k, from, p, ack, "flood", <<>>)
        \/ ack # <<>> /\ HandleText(n, s, p).s = RouteTo(k, "ack", ack[2], from, FALSE)
        \/ HandleText(n, s, p).s = k
    BY <1>2, <2>2, Zenon DEF HandleText, Done
  <2>9. ASSUME NEW t, Local(n, t, M, W, k, f)
        PROVE  Local(n, t, K \cup Own(n, t.inbox), W, o, f)
    <3>1. Local(n, t, M, W, o, f) /\ Own(n, k.inbox) \subseteq Own(n, t.inbox)
      BY <2>3, <2>9, LocalChain, Zenon
    <3>2. M \subseteq K \cup Own(n, t.inbox)
      BY <2>3, <3>1, Zenon
    <3> HIDE DEF M
    <3> QED  BY <3>1, <3>2, LocalMore, Zenon
  <2>10. Local(n, s, K \cup Own(n, s.inbox), W, o, f)
    BY LocalMore, Zenon
  <2> HIDE DEF ack, kept, M
  <2> QED  BY <2>4, <2>6, <2>7, <2>8, <2>9, <2>10, Zenon
<1> QED  BY <1>1, <1>2, Zenon

LEMMA AckLocal ==
  ASSUME NEW n \in Nodes, NEW s, NEW K, NEW W, NEW o, NEW f, Local(n, s, K, W, o, f),
         NEW p, Heard(n, p, K), p.type = "ack"
  PROVE  Local(n, HandleAck(n, s, p).s, K, W, o, f)
<1> DEFINE matched == Matching(s, p.payload)
           peer == p.payload.msg.to
           path == s.contacts[peer].route.path
<1>1. /\ \A q \in matched : q.msg \in K
      /\ IsFlood(p) => IsRoute(peer, p.path, n)
  BY Zenon DEF Heard, Made, Origin, Tracked, Matching
<1>2. PICK t : t = CompleteAck(s, matched)
  BY Zenon
<1>3. Local(n, t, K, W, o, f)
  BY <1>1, <1>2, CompleteAckLocal, Zenon
<1>4. IsFlood(p) => Local(n, SendPathReturn(n, t, peer, p, <<>>, "direct", path), K, W, o, f)
  BY <1>1, <1>3, SendPathReturnLocal, Zenon
<1>5. \/ HandleAck(n, s, p).s = s \/ HandleAck(n, s, p).s = t
      \/ IsFlood(p) /\ HandleAck(n, s, p).s = SendPathReturn(n, t, peer, p, <<>>, "direct", path)
  BY <1>2, Zenon DEF HandleAck, Done, Onward
<1> QED  BY <1>3, <1>4, <1>5, Zenon

LEMMA PathLocal ==
  ASSUME NEW n \in Nodes, NEW s, NEW K, NEW W, NEW o, NEW f, Local(n, s, K, W, o, f),
         NEW p, Heard(n, p, K), p.type = "path"
  PROVE  Local(n, HandlePath(n, s, p).s, K, W, o, f)
<1> DEFINE from == p.payload.from
           matched == AckInside(s, p.payload)
           learned == [known |-> TRUE, path |-> p.payload.path]
           new == [s.contacts EXCEPT ![from] = [s.contacts[from] EXCEPT !.route = learned]]
<1>1. CASE ~Opens(n, s, p.payload)
  BY <1>1, Zenon DEF HandlePath, Onward
<1>2. CASE Opens(n, s, p.payload)
  <2>1. /\ from \in DOMAIN s.contacts /\ IsRoute(n, p.payload.path, from)
        /\ IsFlood(p) => IsRoute(from, p.path, n)
        /\ \A q \in matched : q.msg \in K
    BY <1>2, Zenon DEF Heard, Made, Origin, Tracked, Opens, AckInside, Matching
  <2>2. Contacts(n, new)
    <3>1. Contacts(n, s.contacts)
      BY Zenon DEF Local
    <3>2. DOMAIN new = DOMAIN s.contacts /\ new = [c \in DOMAIN new |-> new[c]]
      BY <3>1, Zenon DEF Contacts
    <3>3. new[from] = [adv |-> s.contacts[from].adv, route |-> learned]
      <4>1. PICK e : e = s.contacts[from]
        BY Zenon
      <4>2. PICK x, y : e = [adv |-> x, route |-> y]
        <5>1. e = [adv |-> e.adv, route |-> e.route]
          BY <2>1, <3>1, <4>1, Zenon DEF Contacts
        <5> QED  BY <5>1, Zenon
      <4>3. /\ e.adv = x
            /\ \A route : [e EXCEPT !.route = route] = [adv |-> x, route |-> route]
        BY <4>2
      <4> HIDE DEF learned
      <4> QED  BY <2>1, <4>1, <4>3, Zenon
    <3>4. \A c \in DOMAIN s.contacts : c # from => new[c] = s.contacts[c]
      BY <3>1, Zenon DEF Contacts
    <3> HIDE DEF new
    <3> QED  BY <2>1, <3>1, <3>2, <3>3, <3>4 DEF Contacts
  <2>3. PICK t : t = [s EXCEPT !.contacts = new]
    BY Zenon
  <2>4. Local(n, t, K, W, o, f)
    BY <2>2, <2>3, ContactsLocal, Zenon
  <2>5. PICK u : u = CompleteAck(t, matched)
    BY Zenon
  <2>6. Local(n, u, K, W, o, f)
    BY <2>1, <2>4, <2>5, CompleteAckLocal, Zenon
  <2>7. IsFlood(p) => Local(n, SendPathReturn(n, u, from, p, <<>>, "direct", p.payload.path), K, W, o, f)
    BY <2>1, <2>6, SendPathReturnLocal, Zenon
  <2>8. t = [s EXCEPT !.contacts[from].route = learned]
    BY <2>3, Zenon
  <2>9. HandlePath(n, s, p).s = IF IsFlood(p)
          THEN SendPathReturn(n, u, from, p, <<>>, "direct", p.payload.path) ELSE u
    BY <1>2, <2>5, <2>8, Zenon DEF HandlePath, Done, Answered
  <2> QED  BY <2>6, <2>7, <2>9, Zenon
<1> QED  BY <1>1, <1>2, Zenon

LEMMA GroupNew ==
  ASSUME NEW inbox, NEW seen, Once(inbox, seen), NEW g \in Channels, GroupHash(g) \notin seen
  PROVE  \A i \in DOMAIN inbox : inbox[i] # g.msg
<1> SUFFICES ASSUME NEW i \in DOMAIN inbox, inbox[i] = g.msg
             PROVE  FALSE
  BY Zenon
<1>1. PICK x \in Acts : x.op = "channel" /\ g = [msg |-> x.msg, holders |-> x.holders]
  BY Zenon DEF Channels
<1>2. inbox[i] \notin Messages
  <2>1. "to" \notin DOMAIN x.msg
    BY <1>1, WorkloadAssumption, Zenon
  <2>2. \A m \in Messages : "to" \in DOMAIN m
    BY Zenon DEF Messages
  <2> QED  BY <1>1, <2>1, <2>2, Zenon
<1>3. PICK h \in Channels : h.msg = g.msg /\ GroupHash(h) \in seen
  BY <1>2, Zenon DEF Once
<1>4. PICK y \in Acts : y.op = "channel" /\ h = [msg |-> y.msg, holders |-> y.holders]
  BY Zenon DEF Channels
<1>5. x.msg = y.msg
  BY <1>1, <1>3, <1>4, Zenon
<1>6. x.holders = y.holders
  BY <1>1, <1>4, <1>5, WorkloadAssumption, Zenon
<1> QED  BY <1>1, <1>3, <1>4, <1>5, <1>6, Zenon

LEMMA GroupLocal ==
  ASSUME NEW n \in Nodes, NEW s, NEW K, NEW W, NEW o, NEW f, Local(n, s, K, W, o, f),
         NEW p, Heard(n, p, K), p.type = "group", DedupHash(p) \in s.seen,
         f = 0 => \A i \in DOMAIN s.inbox : s.inbox[i] # p.payload.msg
  PROVE  Local(n, HandleGroupText(n, s, p), K, W, o, f)
<1>1. p.payload \in Channels
  BY Zenon DEF Heard, Made
<1>2. GroupHash(p.payload) \in s.seen
  BY Zenon DEF GroupHash, DedupHash
<1>3. Local(n, StoreMessage(s, p.payload.msg), K, W, o, f)
  BY <1>1, <1>2, StoreChannelLocal, Zenon
<1> QED  BY <1>3, Zenon DEF HandleGroupText

(* The hop a node adds to a flood is the one its hearers need.             *)
LEMMA RepeatLocal ==
  ASSUME NEW n \in Nodes, NEW s, NEW K, NEW W, NEW o, NEW f, Local(n, s, K, W, o, f),
         NEW p, Heard(n, p, K), PushHop(p, Id[n]) \in W
  PROVE  Local(n, MaybeRepeat(n, s, p), K, W, o, f)
<1> SUFFICES ASSUME IsFlood(p), HopsLeft(p)
             PROVE  Local(n, Send(s, PushHop(p, Id[n])), K, W, o, f)
  BY Zenon DEF MaybeRepeat
<1>1. PICK r : r = PushHop(p, Id[n])
  BY Zenon
<1>2. /\ r.type = p.type /\ r.payload = p.payload /\ r.route = p.route
      /\ r.path = Append(p.path, Id[n]) /\ IsPacket(r)
  <2>1. p = Packet(p.type, p.payload, p.route, p.path)
    BY Zenon DEF Heard, IsPacket
  <2> QED  BY <1>1, <2>1, Zenon DEF Packet, PushHop, IsPacket
<1>3. p.path \in Seq(Nat) /\ Id[n] \in Nat /\ MaxHops \in Nat
  BY MeshAssumption DEF Heard, Flooding
<1>4. Flooding(r)
  <2>1. Append(p.path, Id[n]) \in Seq(Nat) /\ Len(Append(p.path, Id[n])) = Len(p.path) + 1
    BY <1>3
  <2>2. Len(p.path) < MaxHops /\ Len(p.path) \in Nat
    BY <1>3 DEF HopsLeft
  <2> QED  BY <1>2, <1>3, <2>1, <2>2 DEF Flooding
<1>5. Tracked(r) => Reached(Origin(r.type, r.payload), r.path, n)
  <2> SUFFICES ASSUME Tracked(p) PROVE Reached(Origin(p.type, p.payload), Append(p.path, Id[n]), n)
    BY <1>2, Zenon DEF Tracked
  <2>1. IsRoute(Origin(p.type, p.payload), p.path, n)
    BY Zenon DEF Heard
  <2> QED  BY <1>3, <2>1, RouteExtends, Zenon
<1>6. Queued(n, r, K)
  BY <1>2, <1>4, <1>5, Zenon DEF Queued, Heard
<1> QED  BY <1>1, <1>6, SendLocal, Zenon

LEMMA ForwardLocal ==
  ASSUME NEW n \in Nodes, NEW s, NEW K, NEW W, NEW o, NEW f, Local(n, s, K, W, o, f),
         NEW p, Heard(n, p, K), IsDirect(p)
  PROVE  /\ Local(n, ForwardDirect(n, s, p), K, W, o, f)
         /\ Local(n, ForwardTrace(n, s, p), K, W, o, f)
<1>1. p = Packet(p.type, p.payload, p.route, p.path) /\ Made(p.type, p.payload, K) /\ p.route = "direct"
  BY Zenon DEF Heard, IsPacket, IsDirect
<1>2. Queued(n, PopHop(p), K) /\ ~IsFlood(PopHop(p))
  <2>1. PICK r : r = PopHop(p)
    BY Zenon
  <2>2. /\ r.type = p.type /\ r.payload = p.payload /\ r.route = p.route /\ IsPacket(r)
    BY <1>1, <2>1, Zenon DEF Packet, PopHop, IsPacket
  <2> QED  BY <1>1, <2>1, <2>2, Zenon DEF Queued, IsFlood
<1>3. Queued(n, PushHop(p, Reading[n]), K) /\ ~IsFlood(PushHop(p, Reading[n]))
  <2>1. PICK r : r = PushHop(p, Reading[n])
    BY Zenon
  <2>2. /\ r.type = p.type /\ r.payload = p.payload /\ r.route = p.route /\ IsPacket(r)
    BY <1>1, <2>1, Zenon DEF Packet, PushHop, IsPacket
  <2> QED  BY <1>1, <2>1, <2>2, Zenon DEF Queued, IsFlood
<1>4. Local(n, ForwardTrace(n, s, p), K, W, o, f)
  <2>1. Local(n, Send(s, PushHop(p, Reading[n])), K, W, o, f)
    BY <1>3, SendLocal, Zenon
  <2> QED  BY <2>1, Zenon DEF ForwardTrace
<1>5. Local(n, ForwardDirect(n, s, p), K, W, o, f)
  <2>1. PICK u : u = Send(s, PopHop(p))
    BY Zenon
  <2>2. Local(n, u, K, W, o, f)
    BY <1>2, <2>1, SendLocal, Zenon
  <2>3. PICK t : t = [u EXCEPT !.passed = u.passed \cup {DedupHash(p)}]
    BY Zenon
  <2>4. /\ IsNode(t) /\ t.out = u.out /\ t.seen = u.seen /\ t.contacts = u.contacts
        /\ t.pending = u.pending /\ t.inbox = u.inbox /\ t.delivered = u.delivered
        /\ t.confirmed = u.confirmed
    <3>1. IsNode(u)
      BY <2>2, Zenon DEF Local
    <3> QED  BY <2>3, <3>1, Zenon DEF IsNode
  <2>5. t.confirmed \subseteq K /\ Contacts(n, t.contacts) /\ \A q \in t.pending : Pending(q)
    BY <2>2, <2>4, Zenon DEF Local
  <2>6. Local(n, t, K, W, o, f)
    BY <2>2, <2>4, <2>5, SameLocal, Zenon
  <2> QED  BY <2>1, <2>3, <2>6, Zenon DEF ForwardDirect
<1> QED  BY <1>4, <1>5, Zenon

LEMMA HandledLocal ==
  ASSUME NEW n \in Nodes, NEW s, NEW K, NEW W, NEW o, NEW f, Local(n, s, K, W, o, f),
         NEW p, Heard(n, p, K), DedupHash(p) \in s.seen,
         p.type = "group" /\ f = 0 => \A i \in DOMAIN s.inbox : s.inbox[i] # p.payload.msg
  PROVE  LET t == Handled(n, s, p).s
         IN  /\ Local(n, t, K \cup Own(n, t.inbox), W, o, f)
             /\ Handled(n, s, p).forward => p.type # "trace"
<1> DEFINE h == Handled(n, s, p)
<1>0. \A t : Local(n, t, K, W, o, f) => Local(n, t, K \cup Own(n, t.inbox), W, o, f)
  BY LocalMore, Zenon
<1>1. CASE p.type = "advert"
  <2>1. h = HandleAdvert(n, s, p)
    BY <1>1, Zenon DEF Handled
  <2> QED  BY <1>0, <1>1, <2>1, AdvertLocal, Zenon
<1>2. CASE p.type = "text"
  <2>1. h = HandleText(n, s, p)
    BY <1>2, Zenon DEF Handled
  <2> QED  BY <1>2, <2>1, TextLocal, Zenon
<1>3. CASE p.type = "ack"
  <2>1. h = HandleAck(n, s, p)
    BY <1>3, Zenon DEF Handled
  <2> QED  BY <1>0, <1>3, <2>1, AckLocal, Zenon
<1>4. CASE p.type = "path"
  <2>1. h = HandlePath(n, s, p)
    BY <1>4, Zenon DEF Handled
  <2> QED  BY <1>0, <1>4, <2>1, PathLocal, Zenon
<1>5. CASE p.type = "group"
  <2>1. h.s = HandleGroupText(n, s, p)
    BY <1>5, Zenon DEF Handled, Onward
  <2> QED  BY <1>0, <1>5, <2>1, GroupLocal, Zenon
<1>6. CASE p.type \in {"req", "response", "anon_req"}
  <2>1. h = HandleRequest(n, s, p) /\ p.type # "trace"
    BY <1>6, Zenon DEF Handled
  <2> QED  BY <1>0, <2>1, RequestLocal, Zenon
<1>7. CASE p.type \notin {"advert", "text", "ack", "path", "group", "req", "response", "anon_req"}
  <2>1. h.s = s /\ (h.forward => p.type # "trace")
    BY <1>7, Zenon DEF Handled, Done, Onward
  <2> QED  BY <1>0, <2>1, Zenon
<1> QED  BY <1>1, <1>2, <1>3, <1>4, <1>5, <1>6, <1>7, Zenon

LEMMA OnPacketLocal ==
  ASSUME NEW n \in Nodes, NEW s, NEW K, NEW W, NEW o, NEW f, Local(n, s, K, W, o, f),
         NEW p, Heard(n, p, K), DedupHash(p) \in s.seen,
         p.type # "trace" => PushHop(p, Id[n]) \in W,
         p.type = "group" /\ f = 0 => \A i \in DOMAIN s.inbox : s.inbox[i] # p.payload.msg
  PROVE  LET t == OnPacket(n, s, p) IN Local(n, t, K \cup Own(n, t.inbox), W, o, f)
<1> DEFINE t == OnPacket(n, s, p)
<1>0. \A x : Local(n, x, K, W, o, f) => Local(n, x, K \cup Own(n, x.inbox), W, o, f)
  BY LocalMore, Zenon
<1>1. PICK h : h = Handled(n, s, p)
  BY Zenon
<1>2. /\ Local(n, h.s, K \cup Own(n, h.s.inbox), W, o, f)
      /\ h.forward => p.type # "trace"
  BY <1>1, HandledLocal, Zenon
<1>3. h.forward => LET x == MaybeRepeat(n, h.s, p) IN Local(n, x, K \cup Own(n, x.inbox), W, o, f)
  <2> SUFFICES ASSUME h.forward
               PROVE  LET x == MaybeRepeat(n, h.s, p) IN Local(n, x, K \cup Own(n, x.inbox), W, o, f)
    BY Zenon
  <2>1. PICK M : M = K \cup Own(n, h.s.inbox)
    BY Zenon
  <2>2. Heard(n, p, M)
    BY <2>1, Zenon DEF Heard, Made
  <2>3. Local(n, h.s, M, W, h.s, f)
    BY <1>2, <2>1, LocalSelf, Zenon
  <2>4. PICK x : x = MaybeRepeat(n, h.s, p)
    BY Zenon
  <2>5. Local(n, x, M, W, h.s, f)
    BY <1>2, <2>2, <2>3, <2>4, RepeatLocal, Zenon
  <2>6. Local(n, x, M, W, o, f) /\ Own(n, h.s.inbox) \subseteq Own(n, x.inbox)
    BY <1>2, <2>1, <2>5, LocalChain, Zenon
  <2>7. M \subseteq K \cup Own(n, x.inbox)
    BY <2>1, <2>6, Zenon
  <2>8. Local(n, x, K \cup Own(n, x.inbox), W, o, f)
    BY <2>6, <2>7, LocalMore, Zenon
  <2> QED  BY <2>4, <2>8, Zenon
<1>4. IsDirect(p) => /\ Local(n, ForwardTrace(n, s, p), K, W, o, f)
                     /\ Local(n, InTransit(n, s, p), K, W, o, f)
  <2> SUFFICES ASSUME IsDirect(p)
               PROVE  /\ Local(n, ForwardTrace(n, s, p), K, W, o, f)
                      /\ Local(n, InTransit(n, s, p), K, W, o, f)
    BY Zenon
  <2>1. Local(n, ForwardTrace(n, s, p), K, W, o, f) /\ Local(n, ForwardDirect(n, s, p), K, W, o, f)
    BY ForwardLocal, Zenon
  <2>2. PICK ack : ack = HandleAck(n, s, p)
    BY Zenon
  <2>3. p.type = "ack" => /\ Local(n, ack.s, K, W, o, f)
                          /\ Local(n, ForwardDirect(n, ack.s, p), K, W, o, f)
    BY <2>2, AckLocal, ForwardLocal, Zenon
  <2>4. Local(n, InTransit(n, s, p), K, W, o, f)
    BY <2>1, <2>2, <2>3, Zenon DEF InTransit
  <2> QED  BY <2>1, <2>4, Zenon
<1>5. \/ t = s
      \/ IsDirect(p) /\ t \in {ForwardTrace(n, s, p), InTransit(n, s, p)}
      \/ h.forward /\ t = MaybeRepeat(n, h.s, p)
      \/ t = h.s
  BY <1>1, Zenon DEF OnPacket
<1> HIDE DEF t
<1>6. Local(n, t, K \cup Own(n, t.inbox), W, o, f)
  BY <1>0, <1>2, <1>3, <1>4, <1>5, Zenon
<1> QED  BY <1>6, Zenon DEF t

(* A packet a node has seen changes nothing; one it has not seen is marked *)
(* as seen and handled.                                                    *)
LEMMA ReceiveLocal ==
  ASSUME NEW n \in Nodes, NEW s, NEW K, NEW W, NEW f, Local(n, s, K, W, s, f), s.out \subseteq W,
         NEW p, Heard(n, p, K), DedupHash(p) \notin s.seen,
         p.type # "trace" => PushHop(p, Id[n]) \in W
  PROVE  LET t == Receive(n, s, p)
         IN  Local(n, t, K \cup Own(n, t.inbox), W, s, f) /\ DedupHash(p) \in t.seen
<1>1. PICK u : u = [s EXCEPT !.seen = s.seen \cup {DedupHash(p)}]
  BY Zenon
<1>2. /\ IsNode(u) /\ u.out = s.out /\ u.seen = s.seen \cup {DedupHash(p)} /\ u.contacts = s.contacts
      /\ u.pending = s.pending /\ u.inbox = s.inbox /\ u.delivered = s.delivered
      /\ u.confirmed = s.confirmed
  <2>1. IsNode(s)
    BY Zenon DEF Local
  <2> QED  BY <1>1, <2>1, Zenon DEF IsNode
<1>3. Local(n, u, K, W, s, f)
  <2>1. u.confirmed \subseteq K /\ Contacts(n, u.contacts) /\ \A q \in u.pending : Pending(q)
    BY <1>2, Zenon DEF Local
  <2> QED  BY <1>2, <2>1, SameLocal, Zenon
<1>4. p.type = "group" /\ f = 0 => \A i \in DOMAIN u.inbox : u.inbox[i] # p.payload.msg
  <2> SUFFICES ASSUME p.type = "group", f = 0
               PROVE  \A i \in DOMAIN s.inbox : s.inbox[i] # p.payload.msg
    BY <1>2, Zenon
  <2>1. p.payload \in Channels /\ Once(s.inbox, s.seen)
    BY Zenon DEF Heard, Made, Local
  <2>2. GroupHash(p.payload) \notin s.seen
    BY Zenon DEF GroupHash, DedupHash
  <2> QED  BY <2>1, <2>2, GroupNew, Zenon
<1>5. PICK t : t = OnPacket(n, u, p)
  BY Zenon
<1>6. Local(n, u, K, W, u, f)
  BY <1>3, LocalSelf, Zenon
<1>7. /\ Local(n, t, K \cup Own(n, t.inbox), W, u, f)
      /\ Local(n, t, K \cup Own(n, t.inbox), W, s, f)
  BY <1>2, <1>3, <1>4, <1>5, <1>6, OnPacketLocal, Zenon
<1>8. DedupHash(p) \in t.seen
  BY <1>2, <1>7, Zenon DEF Local, Grown
<1>9. Receive(n, s, p) = t
  BY <1>1, <1>5, Zenon DEF Receive
<1> QED  BY <1>7, <1>8, <1>9, Zenon

LEMMA TxResultLocal ==
  ASSUME NEW n, NEW s, NEW K, NEW W, NEW o, NEW f, Local(n, s, K, W, o, f), NEW p
  PROVE  LET t == OnTxResult(s, p)
         IN  Local(n, t, K, W, o, f) /\ t.out \subseteq s.out
<1> DEFINE started(q) == p.type = "text" /\ p.payload.msg = q.msg /\ p.payload.attempt = q.attempt
           waiting == {[q EXCEPT !.timer = @ \/ started(q)] : q \in s.pending}
<1>1. PICK t : t = [s EXCEPT !.out = s.out \ {p}, !.pending = waiting]
  BY Zenon
<1>2. /\ IsNode(t) /\ t.out = s.out \ {p} /\ t.seen = s.seen /\ t.contacts = s.contacts
      /\ t.pending = waiting /\ t.inbox = s.inbox /\ t.delivered = s.delivered
      /\ t.confirmed = s.confirmed
  <2>1. IsNode(s)
    BY Zenon DEF Local
  <2> HIDE DEF waiting
  <2> QED  BY <1>1, <2>1, Zenon DEF IsNode
<1>3. \A q \in waiting : Pending(q)
  BY DEF Local, Pending
<1>4. Local(n, t, K, W, o, f) /\ t.out \subseteq s.out
  <2>1. t.confirmed \subseteq K /\ Contacts(n, t.contacts) /\ \A q \in t.pending : Pending(q)
    BY <1>2, <1>3, Zenon DEF Local
  <2> HIDE DEF waiting
  <2> QED  BY <1>2, <2>1, SameLocal, Zenon
<1> QED  BY <1>1, <1>4, Zenon DEF OnTxResult
-----------------------------------------------------------------------------
(***************************************************************************)
(* The inductive invariant.  While no table has expired, the nodes a flood *)
(* has passed have all seen it.                                            *)
(***************************************************************************)
Kept == UNION {Own(n, node[n].inbox) : n \in Nodes}

Walked(p) ==
  \E V \in SUBSET Nodes :
    Cardinality(V) = Len(p.path) + 1 /\ \A v \in V : DedupHash(p) \in node[v].seen

Inv ==
  /\ todo \in [Nodes -> Seq(Acts)] /\ forgets \in Nat /\ up \subseteq Nodes
  /\ node = [n \in Nodes |-> node[n]]
  /\ \A n \in Nodes : Local(n, node[n], Kept, node[n].out, node[n], forgets)
  /\ forgets = 0 => \A n \in Nodes : \A p \in node[n].out : IsFlood(p) => Walked(p)

LEMMA WalkedFresh ==
  ASSUME NEW n \in Nodes, NEW p, p.path = <<>>
  PROVE  /\ DedupHash(p) \in node[n].seen => Walked(p)
         /\ DedupHash(p) \in node'[n].seen => Walked(p)'
<1>1. {n} \in SUBSET Nodes /\ Cardinality({n}) = 1
  BY FS_Singleton, Zenon
<1>2. Len(p.path) + 1 = 1
  OBVIOUS
<1> QED  BY <1>1, <1>2, Zenon DEF Walked

LEMMA WalkedMore ==
  ASSUME NEW p, Walked(p), \A n \in Nodes : node[n].seen \subseteq node'[n].seen
  PROVE  Walked(p)'
<1>1. PICK V \in SUBSET Nodes : /\ Cardinality(V) = Len(p.path) + 1
                                /\ \A v \in V : DedupHash(p) \in node[v].seen
  BY Zenon DEF Walked
<1>2. \A v \in V : DedupHash(p) \in node'[v].seen
  BY <1>1, Zenon
<1> QED  BY <1>1, <1>2, Zenon DEF Walked

(* A relay that has not seen a flood is not among the nodes it has passed. *)
LEMMA WalkedOn ==
  ASSUME NEW n \in Nodes, NEW p, IsPacket(p), p.type # "trace", p.path \in Seq(Nat),
         Walked(p), DedupHash(p) \notin node[n].seen, DedupHash(p) \in node'[n].seen,
         \A m \in Nodes : node[m].seen \subseteq node'[m].seen
  PROVE  Walked(PushHop(p, Id[n]))'
<1>1. PICK V \in SUBSET Nodes : /\ Cardinality(V) = Len(p.path) + 1
                                /\ \A v \in V : DedupHash(p) \in node[v].seen
  BY Zenon DEF Walked
<1>2. PICK r : r = PushHop(p, Id[n])
  BY Zenon
<1>3. r.type = p.type /\ r.payload = p.payload /\ r.path = Append(p.path, Id[n])
  <2>1. p = Packet(p.type, p.payload, p.route, p.path)
    BY Zenon DEF IsPacket
  <2> QED  BY <1>2, <2>1, Zenon DEF Packet, PushHop
<1>4. DedupHash(r) = DedupHash(p)
  BY <1>3, Zenon DEF DedupHash
<1>5. Len(r.path) = Len(p.path) + 1
  <2>1. Id[n] \in Nat
    BY MeshAssumption, Zenon
  <2> QED  BY <1>3, <2>1, SMTT(30)
<1>6. n \notin V
  BY <1>1, Zenon
<1>7. Cardinality(V \cup {n}) = Cardinality(V) + 1
  <2>1. IsFiniteSet(V)
    BY <1>1, MeshAssumption, FS_Subset, Zenon
  <2> QED  BY <1>6, <2>1, FS_AddElement, Zenon
<1>8. V \cup {n} \in SUBSET Nodes /\ \A v \in V \cup {n} : DedupHash(r) \in node'[v].seen
  BY <1>1, <1>4, Zenon
<1>9. Walked(r)'
  BY <1>1, <1>5, <1>7, <1>8, Zenon DEF Walked
<1> QED  BY <1>2, <1>9, Zenon

LEMMA Settled ==
  ASSUME NEW n, NEW t, NEW K, NEW W, NEW o, NEW f, Local(n, t, K, W, o, f)
  PROVE  Local(n, t, K, t.out, t, f)
<1>1. Grown(n, t, t)
  BY Zenon DEF Grown
<1> QED  BY <1>1, Zenon DEF Local

(* A text that has arrived stays, so the nodes may be looked at one by one.*)
LEMMA StepInv ==
  ASSUME todo' \in [Nodes -> Seq(Acts)], forgets' \in Nat, up' \subseteq Nodes,
         node' = [n \in Nodes |-> node'[n]],
         \A n \in Nodes : Own(n, node[n].inbox) \subseteq Own(n, node'[n].inbox),
         \A n \in Nodes : Local(n, node'[n], Kept \cup Own(n, node'[n].inbox),
                                node'[n].out, node'[n], forgets'),
         forgets' = 0 => \A n \in Nodes : \A p \in node'[n].out : IsFlood(p) => Walked(p)'
  PROVE  Inv'
<1>1. ASSUME NEW n \in Nodes
      PROVE  Local(n, node'[n], Kept', node'[n].out, node'[n], forgets')
  <2>1. Kept \cup Own(n, node'[n].inbox) \subseteq Kept'
    BY Zenon DEF Kept
  <2>2. PICK M : M = Kept \cup Own(n, node'[n].inbox)
    BY Zenon
  <2>3. Local(n, node'[n], M, node'[n].out, node'[n], forgets') /\ M \subseteq Kept'
    BY <2>1, <2>2, Zenon
  <2> QED  BY <2>3, LocalMore, Zenon
<1> QED  BY <1>1, Zenon DEF Inv

(* A step of one node that adds nothing to its inbox.                      *)
LEMMA OneStepInv ==
  ASSUME Inv, NEW n \in Nodes, NEW t, Local(n, t, Kept, node[n].out, node[n], forgets),
         node' = [node EXCEPT ![n] = t], forgets' = forgets, up' \subseteq Nodes,
         todo' \in [Nodes -> Seq(Acts)]
  PROVE  Inv'
<1>1. /\ node' = [m \in Nodes |-> node'[m]] /\ node'[n] = t
      /\ \A m \in Nodes \ {n} : node'[m] = node[m]
  BY Zenon DEF Inv
<1>2. Grown(n, node[n], t)
  BY Zenon DEF Local
<1>3. \A m \in Nodes : /\ Own(m, node[m].inbox) \subseteq Own(m, node'[m].inbox)
                       /\ node[m].seen \subseteq node'[m].seen
  BY <1>1, <1>2, Zenon DEF Grown
<1>4. ASSUME NEW m \in Nodes
      PROVE  Local(m, node'[m], Kept \cup Own(m, node'[m].inbox), node'[m].out, node'[m], forgets')
  <2>1. Local(m, node'[m], Kept, node'[m].out, node'[m], forgets')
    BY <1>1, Settled DEF Inv
  <2> QED  BY <2>1, LocalMore
<1>5. ASSUME forgets' = 0, NEW m \in Nodes, NEW p \in node'[m].out, IsFlood(p)
      PROVE  Walked(p)'
  <2>1. CASE p \in node[m].out
    <3>1. Walked(p)
      BY <1>5, <2>1, Zenon DEF Inv
    <3> QED  BY <1>3, <3>1, WalkedMore, Zenon
  <2>2. CASE p \notin node[m].out
    <3>1. m = n /\ Fresh(p, t.seen)
      BY <1>1, <1>5, <2>2, Zenon DEF Local
    <3>2. p.path = <<>> /\ DedupHash(p) \in node'[n].seen
      BY <1>1, <3>1, Zenon DEF Fresh
    <3> QED  BY <3>2, WalkedFresh, Zenon
  <2> QED  BY <2>1, <2>2, Zenon
<1>6. forgets' \in Nat
  BY Zenon DEF Inv
<1> QED  BY <1>1, <1>3, <1>4, <1>5, <1>6, StepInv, Zenon

LEMMA RetryInv ==
  ASSUME Inv, NEW n \in Nodes, Retry(n)
  PROVE  Inv'
<1>1. PICK q \in node[n].pending : node' = [node EXCEPT ![n] = OnRetry(n, node[n], q)]
  BY Zenon DEF Retry
<1>2. Local(n, node[n], Kept, node[n].out, node[n], forgets)
  BY Zenon DEF Inv
<1>3. Local(n, OnRetry(n, node[n], q), Kept, node[n].out, node[n], forgets)
  BY <1>2, OnRetryLocal, Zenon
<1>4. forgets' = forgets /\ up' \subseteq Nodes /\ todo' \in [Nodes -> Seq(Acts)]
  BY Zenon DEF Inv, Retry
<1> QED  BY <1>1, <1>3, <1>4, OneStepInv, Zenon

LEMMA ActInv ==
  ASSUME Inv, NEW n \in Nodes, Act(n)
  PROVE  Inv'
<1>1. PICK act : act = Head(todo[n])
  BY Zenon
<1>2. act \in Acts /\ todo' \in [Nodes -> Seq(Acts)]
  <2>1. todo[n] \in Seq(Acts) /\ todo[n] # <<>>
    BY Zenon DEF Inv, Act
  <2>2. act \in Acts /\ Tail(todo[n]) \in Seq(Acts)
    BY <1>1, <2>1
  <2> QED  BY <2>2, Zenon DEF Inv, Act
<1>3. Local(n, node[n], Kept, node[n].out, node[n], forgets)
  BY Zenon DEF Inv
<1>4. PICK t : t = CASE act.op = "text" -> SendText(n, act)
                     [] act.op = "channel" -> SendChannelText(n, act)
                     [] act.op = "advert" -> SendAdvert(n, act)
  BY Zenon
<1>5. Local(n, t, Kept, node[n].out, node[n], forgets)
  <2>1. CASE act.op = "text"
    <3>1. t = SendAttempt(n, node[n], act.msg, 0) /\ act.msg \in Messages
      BY <1>2, <1>4, <2>1, WorkloadAssumption, Zenon DEF SendText
    <3> QED  BY <1>3, <3>1, SendAttemptLocal, Zenon
  <2>2. CASE act.op = "channel"
    <3>1. PICK g : g = [msg |-> act.msg, holders |-> act.holders]
      BY Zenon
    <3>2. t = Send(node[n], Packet("group", g, "flood", <<>>))
      BY <1>4, <2>2, <3>1, Zenon DEF SendChannelText
    <3>3. Made("group", g, Kept)
      <4>1. g \in Channels
        BY <1>2, <2>2, <3>1, Zenon DEF Channels
      <4> QED  BY <4>1, Zenon DEF Made
    <3> QED  BY <1>3, <3>2, <3>3, SendOwnLocal, Zenon
  <2>3. CASE act.op = "advert"
    <3>1. PICK ad : ad = [from |-> n, ts |-> act.ts, name |-> "named", forged |-> FALSE]
      BY Zenon
    <3>2. PICK route : route = IF act.flood THEN "flood" ELSE "direct"
      BY Zenon
    <3>3. t = SendAdvert(n, act)
      BY <1>4, <2>3, Zenon
    <3>4. t = node[n] \/ t = Send(node[n], Packet("advert", ad, route, <<>>))
      BY <3>1, <3>2, <3>3, Zenon DEF SendAdvert
    <3>5. Made("advert", ad, Kept)
      BY Zenon DEF Made
    <3>6. Local(n, Send(node[n], Packet("advert", ad, route, <<>>)), Kept, node[n].out, node[n], forgets)
      BY <1>3, <3>5, SendOwnLocal, Zenon
    <3> QED  BY <1>3, <3>4, <3>6, Zenon
  <2> QED  BY <1>2, <2>1, <2>2, <2>3, WorkloadAssumption, Zenon
<1>6. /\ node' = [node EXCEPT ![n] = t]
      /\ forgets' = forgets /\ up' \subseteq Nodes
  BY <1>1, <1>4, Zenon DEF Inv, Act
<1> QED  BY <1>2, <1>5, <1>6, OneStepInv, Zenon

LEMMA SwitchOffInv ==
  ASSUME Inv, NEW n \in Nodes, SwitchOff(n)
  PROVE  Inv'
<1>1. PICK s : s = node[n]
  BY Zenon
<1>2. PICK t : t = [s EXCEPT !.out = {}]
  BY Zenon
<1>3. Local(n, s, Kept, s.out, s, forgets)
  BY <1>1, Zenon DEF Inv
<1>4. /\ IsNode(t) /\ t.out = {} /\ t.seen = s.seen /\ t.contacts = s.contacts
      /\ t.pending = s.pending /\ t.inbox = s.inbox /\ t.delivered = s.delivered
      /\ t.confirmed = s.confirmed
  <2>1. IsNode(s)
    BY <1>3, Zenon DEF Local
  <2> QED  BY <1>2, <2>1, Zenon DEF IsNode
<1>5. Local(n, t, Kept, s.out, s, forgets)
  <2>1. t.confirmed \subseteq Kept /\ Contacts(n, t.contacts) /\ \A q \in t.pending : Pending(q)
    BY <1>3, <1>4, Zenon DEF Local
  <2> QED  BY <1>3, <1>4, <2>1, SameLocal, Zenon
<1>6. node' = [node EXCEPT ![n] = t]
  BY <1>1, <1>2, Zenon DEF SwitchOff
<1>7. forgets' = forgets /\ up' \subseteq Nodes /\ todo' \in [Nodes -> Seq(Acts)]
  BY Zenon DEF Inv, SwitchOff
<1> QED  BY <1>1, <1>5, <1>6, <1>7, OneStepInv, Zenon

LEMMA ExpireInv ==
  ASSUME Inv, NEW n \in Nodes, ExpireSeen(n)
  PROVE  Inv'
<1>1. PICK s : s = node[n]
  BY Zenon
<1>2. PICK t : t = [s EXCEPT !.seen = {}]
  BY Zenon
<1>3. Local(n, s, Kept, s.out, s, forgets)
  BY <1>1, Zenon DEF Inv
<1>4. /\ IsNode(t) /\ t.out = s.out /\ t.seen = {} /\ t.contacts = s.contacts
      /\ t.pending = s.pending /\ t.inbox = s.inbox /\ t.delivered = s.delivered
      /\ t.confirmed = s.confirmed
  <2>1. IsNode(s)
    BY <1>3, Zenon DEF Local
  <2> QED  BY <1>2, <2>1, Zenon DEF IsNode
<1>5. forgets' \in Nat /\ forgets' # 0
  BY DEF Inv, ExpireSeen
<1>6. Local(n, t, Kept, t.out, t, forgets')
  <2>1. Grown(n, t, t)
    BY Zenon DEF Grown
  <2> QED  BY <1>3, <1>4, <1>5, <2>1, Zenon DEF Local
<1>7. /\ node' = [m \in Nodes |-> node'[m]] /\ node'[n] = t
      /\ \A m \in Nodes \ {n} : node'[m] = node[m]
  <2>1. node' = [node EXCEPT ![n] = t]
    BY <1>1, <1>2, Zenon DEF ExpireSeen
  <2> QED  BY <2>1, Zenon DEF Inv
<1>8. \A m \in Nodes : Own(m, node[m].inbox) \subseteq Own(m, node'[m].inbox)
  BY <1>1, <1>4, <1>7, Zenon
<1>9. ASSUME NEW m \in Nodes
      PROVE  Local(m, node'[m], Kept \cup Own(m, node'[m].inbox), node'[m].out, node'[m], forgets')
  <2>1. CASE m = n
    BY <1>6, <1>7, <2>1, LocalMore
  <2>2. CASE m # n
    <3>1. Local(m, node[m], Kept, node[m].out, node[m], forgets')
      BY <1>5, Zenon DEF Inv, Local
    <3> QED  BY <1>7, <2>2, <3>1, LocalMore, Zenon
  <2> QED  BY <2>1, <2>2, Zenon
<1>10. up' \subseteq Nodes /\ todo' \in [Nodes -> Seq(Acts)]
  BY Zenon DEF Inv, ExpireSeen
<1> QED  BY <1>5, <1>7, <1>8, <1>9, <1>10, StepInv, Zenon

(* Every node that hears a packet handles it, and the sender is done with  *)
(* it.                                                                     *)
LEMMA TransmitInv ==
  ASSUME Inv, NEW n \in Nodes, NEW p \in node[n].out, Transmit(n, p)
  PROVE  Inv'
<1>1. PICK heard \in SUBSET Hearing(n) :
        node' = [m \in Nodes |-> CASE m = n -> OnTxResult(node[n], p)
                                   [] m \in heard -> Receive(m, node[m], p)
                                   [] OTHER -> node[m]]
  BY Zenon DEF Transmit
<1>2. /\ forgets' = forgets /\ forgets' \in Nat /\ up' \subseteq Nodes
      /\ todo' \in [Nodes -> Seq(Acts)] /\ node' = [m \in Nodes |-> node'[m]]
      /\ \A m \in Nodes : Local(m, node[m], Kept, node[m].out, node[m], forgets)
  BY <1>1, Zenon DEF Inv, Transmit
<1>3. Queued(n, p, Kept)
  BY <1>2, Zenon DEF Local
<1>4. ASSUME NEW m \in Nodes
      PROVE  \/ /\ Local(m, node'[m], Kept, node[m].out, node[m], forgets)
                /\ node'[m].out \subseteq node[m].out
             \/ /\ Local(m, node'[m], Kept \cup Own(m, node'[m].inbox),
                         node[m].out \cup {x \in {PushHop(p, Id[m])} : p.type # "trace"}, node[m], forgets)
                /\ DedupHash(p) \notin node[m].seen /\ DedupHash(p) \in node'[m].seen
  <2>1. CASE m = n
    <3>1. node'[n] = OnTxResult(node[n], p)
      BY <1>1, Zenon DEF Hearing
    <3> QED  BY <1>2, <2>1, <3>1, TxResultLocal
  <2>2. CASE m # n /\ (m \notin heard \/ DedupHash(p) \in node[m].seen)
    <3>1. node'[m] = node[m]
      BY <1>1, <2>2, Zenon DEF Receive
    <3> QED  BY <1>2, <3>1, Zenon
  <2>3. CASE m # n /\ m \in heard /\ DedupHash(p) \notin node[m].seen
    <3>1. node'[m] = Receive(m, node[m], p)
      BY <1>1, <2>3, Zenon
    <3>2. Heard(m, p, Kept)
      <4>1. <<n, m>> \in Links
        BY <2>3, Zenon DEF Hearing
      <4> QED  BY <1>3, <4>1, Zenon DEF Queued, Heard, Reached
    <3>3. PICK W : W = node[m].out \cup {x \in {PushHop(p, Id[m])} : p.type # "trace"}
      BY Zenon
    <3>4. Local(m, node[m], Kept, W, node[m], forgets)
      BY <1>2, <3>3, LocalMore, Zenon
    <3>5. node[m].out \subseteq W /\ (p.type # "trace" => PushHop(p, Id[m]) \in W)
      BY <3>3, Zenon
    <3>6. /\ Local(m, node'[m], Kept \cup Own(m, node'[m].inbox), W, node[m], forgets)
          /\ DedupHash(p) \in node'[m].seen
      BY <2>3, <3>1, <3>2, <3>4, <3>5, ReceiveLocal, Zenon
    <3> QED  BY <2>3, <3>3, <3>6, Zenon
  <2> QED  BY <2>1, <2>2, <2>3, Zenon
<1>5. \A m \in Nodes : Grown(m, node[m], node'[m])
  BY <1>4, Zenon DEF Local
<1>6. \A m \in Nodes : /\ Own(m, node[m].inbox) \subseteq Own(m, node'[m].inbox)
                       /\ node[m].seen \subseteq node'[m].seen
  BY <1>5, Zenon DEF Grown
<1>7. ASSUME NEW m \in Nodes
      PROVE  Local(m, node'[m], Kept \cup Own(m, node'[m].inbox), node'[m].out, node'[m], forgets')
  <2>1. CASE Local(m, node'[m], Kept, node[m].out, node[m], forgets)
    <3>1. Local(m, node'[m], Kept \cup Own(m, node'[m].inbox), node[m].out, node[m], forgets)
      BY <2>1, LocalMore, Zenon
    <3> QED  BY <1>2, <3>1, Settled, Zenon
  <2>2. CASE ~Local(m, node'[m], Kept, node[m].out, node[m], forgets)
    BY <1>2, <1>4, <2>2, Settled, Zenon
  <2> QED  BY <2>1, <2>2, Zenon
<1>8. ASSUME forgets' = 0, NEW m \in Nodes, NEW x \in node'[m].out, IsFlood(x)
      PROVE  Walked(x)'
  <2>1. CASE x \in node[m].out
    <3>1. Walked(x)
      BY <1>2, <1>8, <2>1, Zenon DEF Inv
    <3> QED  BY <1>6, <3>1, WalkedMore, Zenon
  <2>2. CASE Fresh(x, node'[m].seen)
    <3>1. x.path = <<>> /\ DedupHash(x) \in node'[m].seen
      BY <2>2, Zenon DEF Fresh
    <3> QED  BY <3>1, WalkedFresh, Zenon
  <2>3. CASE x \notin node[m].out /\ ~Fresh(x, node'[m].seen)
    <3>1. /\ x = PushHop(p, Id[m]) /\ p.type # "trace"
          /\ DedupHash(p) \notin node[m].seen /\ DedupHash(p) \in node'[m].seen
      BY <1>4, <1>8, <2>3, Zenon DEF Local
    <3>2. IsPacket(p)
      BY <1>3, Zenon DEF Queued
    <3>3. IsFlood(p)
      <4>1. p = Packet(p.type, p.payload, p.route, p.path)
        BY <3>2, Zenon DEF IsPacket
      <4>2. x.route = p.route
        BY <3>1, <4>1, Zenon DEF Packet, PushHop
      <4> QED  BY <1>8, <4>2, Zenon DEF IsFlood
    <3>4. p.path \in Seq(Nat) /\ Walked(p)
      BY <1>2, <1>3, <1>8, <3>3, Zenon DEF Inv, Queued, Flooding
    <3> QED  BY <1>6, <3>1, <3>2, <3>4, WalkedOn, Zenon
  <2> QED  BY <2>1, <2>2, <2>3, Zenon
<1> QED  BY <1>2, <1>6, <1>7, <1>8, StepInv, Zenon

LEMMA InitInv ==
  ASSUME Init
  PROVE  Inv
<1>1. PICK w \in Workloads :
        /\ todo = w.does
        /\ node = [n \in Nodes |->
             [out |-> w.sends[n], seen |-> {DedupHash(p) : p \in w.sends[n]},
              contacts |-> [c \in DOMAIN w.knows[n] |-> [adv |-> 0, route |-> w.knows[n][c]]],
              pending |-> {}, inbox |-> <<>>, delivered |-> {}, returns |-> 0,
              confirmed |-> {}, passed |-> {}]]
  BY Zenon DEF Init
<1>2. ASSUME NEW n \in Nodes
      PROVE  Local(n, node[n], Kept, node[n].out, node[n], forgets)
  <2>1. PICK s : s = node[n]
    BY Zenon
  <2>2. /\ IsNode(s) /\ s.out = w.sends[n] /\ s.pending = {} /\ s.inbox = <<>> /\ s.delivered = {}
        /\ s.confirmed = {}
        /\ s.contacts = [c \in DOMAIN w.knows[n] |-> [adv |-> 0, route |-> w.knows[n][c]]]
    BY <1>1, <2>1, Zenon DEF IsNode
  <2>3. Contacts(n, s.contacts)
    <3>1. PICK cs : cs = s.contacts
      BY Zenon
    <3>2. \A c \in DOMAIN w.knows[n] : w.knows[n][c].known => IsRoute(n, w.knows[n][c].path, c)
      BY WorkloadAssumption, Zenon
    <3>3. /\ DOMAIN cs = DOMAIN w.knows[n] /\ cs = [c \in DOMAIN cs |-> cs[c]]
          /\ \A c \in DOMAIN cs : cs[c] = [adv |-> 0, route |-> w.knows[n][c]]
      BY <2>2, <3>1, Zenon
    <3>4. ASSUME NEW c \in DOMAIN cs
          PROVE  /\ cs[c] = [adv |-> cs[c].adv, route |-> cs[c].route]
                 /\ cs[c].route = w.knows[n][c]
      <4>1. PICK e, x : e = cs[c] /\ x = w.knows[n][c]
        BY Zenon
      <4>2. e = [adv |-> 0, route |-> x]
        BY <3>3, <4>1, Zenon
      <4>3. e.adv = 0 /\ e.route = x
        BY <4>2, Zenon
      <4> QED  BY <4>1, <4>2, <4>3, Zenon
    <3>5. \A c \in DOMAIN cs : cs[c].route.known => IsRoute(n, cs[c].route.path, c)
      BY <3>2, <3>3, <3>4, Zenon
    <3> QED  BY <3>1, <3>3, <3>4, <3>5, Zenon DEF Contacts
  <2>4. ASSUME NEW p \in s.out
        PROVE  Queued(n, p, Kept)
    <3>1. /\ IsPacket(p) /\ p.type \notin {"text", "ack", "path", "group"}
          /\ IsFlood(p) => p.path = <<>>
      BY <2>2, WorkloadAssumption, SMTT(30) DEF IsPacket
    <3>2. IsFlood(p) => Flooding(p)
      <4>1. <<>> \in Seq(Nat) /\ Len(<<>>) <= MaxHops
        BY MeshAssumption
      <4> QED  BY <3>1, <4>1, Zenon DEF Flooding
    <3> QED  BY <3>1, <3>2, Zenon DEF Queued, Made, Tracked
  <2>5. s.inbox \in Seq(Letters) /\ DOMAIN s.inbox = {} /\ Own(n, s.inbox) = {}
    BY <2>2, SMTT(30) DEF Own, Range
  <2>6. Mail(n, s.inbox, s.delivered) /\ Once(s.inbox, s.seen)
    BY <2>2, <2>5, Zenon DEF Mail, Once
  <2>7. Grown(n, s, s)
    BY Zenon DEF Grown
  <2> QED  BY <2>1, <2>2, <2>3, <2>4, <2>5, <2>6, <2>7, Zenon DEF Local
<1>3. ASSUME NEW n \in Nodes, NEW p \in node[n].out, IsFlood(p)
      PROVE  Walked(p)
  <2>1. node[n].out = w.sends[n] /\ node[n].seen = {DedupHash(x) : x \in w.sends[n]}
    BY <1>1, Zenon
  <2>2. DedupHash(p) \in node[n].seen
    BY <2>1, Zenon
  <2>3. p.path = <<>>
    BY <1>3, <2>1, WorkloadAssumption, Zenon
  <2> QED  BY <2>2, <2>3, WalkedFresh, Zenon
<1>4. todo \in [Nodes -> Seq(Acts)]
  BY <1>1, WorkloadAssumption, Zenon
<1>5. forgets \in Nat /\ up \subseteq Nodes /\ node = [n \in Nodes |-> node[n]]
  BY <1>1, Zenon DEF Init
<1> QED  BY <1>2, <1>3, <1>4, <1>5, Zenon DEF Inv

LEMMA StutterInv ==
  ASSUME Inv, UNCHANGED vars
  PROVE  Inv'
<1>1. forgets' = forgets /\ up' = up /\ todo' = todo /\ node' = node
  BY Zenon DEF vars
<1>2. Kept' = Kept /\ \A p : Walked(p)' = Walked(p)
  BY <1>1, Zenon DEF Kept, Walked
<1> QED  BY <1>1, <1>2, Zenon DEF Inv

LEMMA Invariance == Spec => []Inv
<1>1. Init => Inv
  BY InitInv, Zenon
<1>2. Inv /\ [Next]_vars => Inv'
  <2> SUFFICES ASSUME Inv, [Next]_vars PROVE Inv'
    BY Zenon
  <2>1. CASE UNCHANGED vars
    BY <2>1, StutterInv, Zenon
  <2>2. ASSUME NEW n \in Nodes, \E p \in node[n].out : Transmit(n, p)
        PROVE  Inv'
    BY <2>2, TransmitInv, Zenon
  <2>3. ASSUME NEW n \in Nodes, Retry(n) \/ Act(n) \/ SwitchOff(n) \/ ExpireSeen(n)
        PROVE  Inv'
    BY <2>3, RetryInv, ActInv, SwitchOffInv, ExpireInv, Zenon
  <2> QED  BY <2>1, <2>2, <2>3, Zenon DEF Next
<1> QED  BY <1>1, <1>2, PTL DEF Spec
-----------------------------------------------------------------------------
(***************************************************************************)
(* What follows, for every set of nodes, links that need not work both     *)
(* ways, key bytes that may coincide, and every workload.                  *)
(***************************************************************************)

(* The routes a node learns lead to its contacts, over links that exist in *)
(* the direction the route is used: send_path_return() returns the path    *)
(* maybe_repeat() wrote hop by hop, to the node that the packet came from. *)
THEOREM LearnedRoutesLead == Spec => []RoutesAreReal
<1>1. Inv => RoutesAreReal
  BY Zenon DEF Inv, Local, Contacts, RoutesAreReal
<1> QED  BY <1>1, Invariance, PTL

(* A message is confirmed to the app only when its recipient has it,       *)
(* whichever attempt was acknowledged, by whichever packet and along       *)
(* whichever route (complete_ack(), handle_ack(), handle_path()).          *)
THEOREM ConfirmationsAreTrue == Spec => []ConfirmedWasDelivered
<1>1. Inv => ConfirmedWasDelivered
  <2> SUFFICES ASSUME Inv, NEW n \in Nodes, NEW msg \in node[n].confirmed
               PROVE  \E i \in DOMAIN node[msg.to].inbox : node[msg.to].inbox[i] = msg
    BY Zenon DEF ConfirmedWasDelivered
  <2>1. msg \in Kept
    BY Zenon DEF Inv, Local
  <2>2. PICK m \in Nodes : msg \in Own(m, node[m].inbox)
    BY <2>1, Zenon DEF Kept
  <2>3. msg.to = m /\ msg \in Range(node[m].inbox)
    BY <2>2, Zenon DEF Own
  <2> QED  BY <2>3, Zenon DEF Range
<1> QED  BY <1>1, Invariance, PTL

(* However a text is retried, relayed and returned, its recipient stores   *)
(* it once, also after the tables of packets seen have expired; a channel  *)
(* text is stored once while they last (first_delivery(),                  *)
(* check_and_mark_seen()).                                                 *)
THEOREM TextsAreStoredOnce == Spec => []DeliveredOnce
<1>1. Inv => DeliveredOnce
  <2> SUFFICES ASSUME Inv, NEW n \in Nodes, NEW i \in DOMAIN node[n].inbox,
                      NEW j \in DOMAIN node[n].inbox, node[n].inbox[i] = node[n].inbox[j],
                      "to" \in DOMAIN node[n].inbox[i] \/ forgets = 0
               PROVE  i = j
    BY Zenon DEF DeliveredOnce
  <2>1. Mail(n, node[n].inbox, node[n].delivered) /\ (forgets = 0 => Once(node[n].inbox, node[n].seen))
    BY Zenon DEF Inv, Local
  <2>2. CASE forgets = 0
    BY <2>1, <2>2, Zenon DEF Once
  <2>3. CASE "to" \in DOMAIN node[n].inbox[i]
    <3>1. node[n].inbox[i] \in Letters
      <4>1. PICK inbox : inbox = node[n].inbox
        BY Zenon
      <4>2. inbox \in Seq(Letters) /\ i \in DOMAIN inbox
        BY <2>1, <4>1, Zenon DEF Mail
      <4> QED  BY <4>1, <4>2, SMTT(30)
    <3>2. ASSUME NEW g \in Channels
          PROVE  "to" \notin DOMAIN g.msg
      <4>1. PICK act \in Acts : act.op = "channel" /\ g = [msg |-> act.msg, holders |-> act.holders]
        BY Zenon DEF Channels
      <4>2. "to" \notin DOMAIN act.msg
        BY <4>1, WorkloadAssumption, Zenon
      <4> QED  BY <4>1, <4>2, Zenon
    <3>3. node[n].inbox[i] \in Messages
      BY <2>3, <3>1, <3>2, Zenon DEF Letters
    <3> QED  BY <2>1, <3>3, Zenon DEF Mail
  <2> QED  BY <2>2, <2>3, Zenon
<1> QED  BY <1>1, Invariance, PTL

(* A flood ends: its path never grows past max_hops, and while no table of *)
(* packets seen has expired it passes no node twice, so it is shorter than *)
(* the number of nodes (maybe_repeat(), check_and_mark_seen()).            *)
THEOREM FloodsPassANodeOnce == Spec => []FloodsEnd
<1>1. Inv => FloodsEnd
  <2> SUFFICES ASSUME Inv, NEW n \in Nodes, NEW p \in node[n].out, IsFlood(p)
               PROVE  Len(p.path) <= MaxHops /\ (forgets = 0 => Len(p.path) < Cardinality(Nodes))
    BY Zenon DEF FloodsEnd
  <2>1. Flooding(p)
    BY Zenon DEF Inv, Local, Queued
  <2>2. ASSUME forgets = 0
        PROVE  Len(p.path) < Cardinality(Nodes)
    <3>1. PICK V \in SUBSET Nodes : Cardinality(V) = Len(p.path) + 1
      BY <2>2, Zenon DEF Inv, Walked
    <3>2. Cardinality(V) <= Cardinality(Nodes) /\ Cardinality(Nodes) \in Nat
      BY <3>1, MeshAssumption, FS_Subset, FS_CardinalityType, Zenon
    <3>3. Len(p.path) \in Nat
      BY <2>1 DEF Flooding
    <3> QED  BY <3>1, <3>2, <3>3
  <2> QED  BY <2>1, <2>2, Zenon DEF Flooding
<1> QED  BY <1>1, Invariance, PTL
=============================================================================
