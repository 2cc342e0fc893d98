------------------------------- MODULE MCMesh -------------------------------
(***************************************************************************)
(* Four nodes for TLC.  a and b hear each other only through r and s; b    *)
(* hears s but s does not hear b, and b and r share their first key byte.  *)
(***************************************************************************)
EXTENDS Mesh, TLC

CONSTANTS a, b, r, s

MCNodes == {a, b, r, s}
MCId    == (a :> 1) @@ (b :> 2) @@ (r :> 2) @@ (s :> 3)
MCReading == [n \in MCNodes |-> 3]
MCLinks == {<<a, r>>, <<r, a>>, <<r, b>>, <<b, r>>, <<a, s>>, <<s, a>>, <<s, b>>,
            <<r, s>>, <<s, r>>}

Text(from, to, kind) ==
  [op |-> "text", msg |-> [from |-> from, to |-> to, kind |-> kind]]
ChannelText(from) ==
  [op |-> "channel", holders |-> {a, b}, msg |-> [channel |-> from, kind |-> "plain"]]
Advert(ts, flood) == [op |-> "advert", ts |-> ts, flood |-> flood]

Nobody  == <<>>
Nothing == [n \in MCNodes |-> <<>>]
Silent  == [n \in MCNodes |-> {}]
Friends == [n \in MCNodes |-> CASE n = a -> (b :> NoPath) [] n = b -> (a :> NoPath)
                                [] OTHER -> Nobody]
\* a has learned the route through r.
Routed  == [Friends EXCEPT ![a] = b :> [known |-> TRUE, path |-> <<2>>]]

Workload(knows, does, sends, breaks, fault, forget) ==
  [knows |-> knows, does |-> does, sends |-> sends, breaks |-> breaks,
   faults |-> fault, forgets |-> forget]

Does(n, acts) == [Nothing EXCEPT ![n] = acts]
Sends(n, p)   == [Silent EXCEPT ![n] = {p}]
AdvertBy(n, ts, name, forged) ==
  Packet("advert", [from |-> n, ts |-> ts, name |-> name, forged |-> forged], "flood", <<>>)

\* A text with no route and with one that goes stale; texts both ways; the
\* kinds that are not acked; a text to a node that has yet to hear who sent it.
TextWork ==
  {Workload(knows, Does(a, <<Text(a, b, "plain")>>), Silent, {r}, 1, 0) : knows \in {Friends, Routed}}
BothWork ==
  {Workload(Friends, [Does(a, <<Text(a, b, kind)>>) EXCEPT ![b] = <<Text(b, a, "cli")>>],
            Silent, {}, 0, 0) : kind \in {"cli", "future"}}
OddWork ==
  {Workload(Friends, Does(a, <<Text(a, b, kind)>>), Silent, {}, 1, 0) : kind \in {"cli", "future"}}
NewWork ==
  {Workload([Friends EXCEPT ![b] = Nobody], Does(a, <<Text(a, b, "plain"), Advert(1, TRUE)>>),
            Silent, {}, 0, 0)}

\* Adverts out of order, unnamed and forged, and more nodes than contacts.
AdvertWork ==
  {Workload(Friends, Does(a, <<Advert(0, TRUE), Advert(1, TRUE), Advert(2, FALSE), Advert(3, TRUE)>>),
            Sends(b, AdvertBy(b, 1, "named", FALSE)), {}, 1, 0)}
  \cup {Workload(Friends, Nothing, Sends(s, p), {}, 0, 1) :
          p \in {AdvertBy(a, 1, "", FALSE), AdvertBy(a, 1, "named", TRUE)}}

ChannelWork == {Workload(Friends, Does(a, <<ChannelText(a)>>), Silent, {}, 1, 3)}

\* A trace that comes back to r, and that b takes for its own at the third hop.
Trace == Packet("trace", [tag |-> 1, route |-> <<2, 3, 2>>], "direct", <<>>)
TraceWork == {Workload(Friends, Nothing, Sends(a, Trace), {}, 0, 0)}

\* What a companion node only passes on, or does not.
Foreign ==
  {Packet(type, [from |-> a, to |-> b], "flood", <<>>) : type \in {"req", "response", "anon_req"}}
  \cup {Packet("group_data", [channel |-> a], "flood", <<>>), Packet("raw", [tag |-> 1], "flood", <<>>),
        Packet("multipart", [tag |-> 1], "direct", <<2>>)}
  \cup {Packet("control", [zeroHop |-> z], "direct", <<2>>) : z \in BOOLEAN}
ForeignWork == {Workload(Friends, Nothing, Sends(a, p), {}, 1, 1) : p \in Foreign}

\* Two texts, the second along the route the first has brought.
RoutedWork ==
  {Workload(Friends, Does(a, <<Text(a, b, "cli"), Text(a, b, "plain")>>), Silent, {}, 2, 0)}

MCWorkloads == UNION {TextWork, BothWork, OddWork, NewWork, AdvertWork, ChannelWork, TraceWork,
                      ForeignWork}
=============================================================================
