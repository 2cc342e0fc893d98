----------------------------- MODULE Companion ------------------------------
(***************************************************************************)
(* The app's side of the daemon: the one client the server keeps           *)
(* (src/companion/server.cpp), the frames cut from what it writes          *)
(* (frames.cpp), the commands and pushes of the session (session.cpp).     *)
(*                                                                         *)
(* The daemon runs one callback at a time, so each callback is a step; the *)
(* clients and the mesh act between them.  Its state is the record s, and  *)
(* a handler an operator from s to the next.  A client's bytes are kept,   *)
(* since where a read cuts them is what can go wrong: a marker, a length   *)
(* (one byte here) and a body that is a command's code and its arguments.  *)
(* What the daemon writes is counted in halves of a frame; a frame is who  *)
(* it was made for, its kind, and the command it answers.                  *)
(***************************************************************************)
EXTENDS Naturals, Sequences, FiniteSets

CONSTANTS Clients,      \* 1..n, in the order they connect
          Scenarios,    \* what the clients write, where a write may end, and what
                        \* the mesh has for them
          MaxFrame,     \* kMaxFrameSize
          MaxOutbound,  \* max_outbound_bytes, in halves of a frame
          Room,         \* what a socket takes before write() would block
          InboxLimit,   \* limit_ of the inbox
          MaxContacts, MaxChannels

\* What the node can make of a packet it hears.
Packets == {"nothing", "ack", "message", "path", "path with ack", "advert"}

Bytes == 0..255

ASSUME CompanionAssumption ==
  /\ Clients \subseteq Nat \ {0} /\ \A c \in Clients : 1..c \subseteq Clients
  /\ \A w \in Scenarios :
       /\ w.writes \in [Clients -> Seq(Bytes)] /\ w.cuts \in [Clients -> SUBSET Nat]
       /\ \A c \in Clients : w.cuts[c] \subseteq 0..Len(w.writes[c])
       /\ w.news \in Seq(SUBSET Packets)
  /\ {MaxFrame, MaxOutbound, Room, InboxLimit} \subseteq Nat \ {0}
  /\ {MaxContacts, MaxChannels} \subseteq Nat \ {0}

None      == 0          \* client_fd_ < 0
NoCommand == 256        \* what a push answers: no command's code

VARIABLES script,   \* what the clients write in this behaviour
          cuts,     \* where their writes may end (a bound)
          conn,     \* "idle", "waiting" to be accepted, "open" or "closed" by the daemon
          alive,    \* the clients that have not hung up
          written,  \* how much of its script a client has written
          got,      \* how much of it the daemon has read
          drained,  \* how much of line[c] the client has read
          line,     \* what the daemon has written to each client's socket
          s,        \* the daemon: server_, reader_ and the session
          news      \* what the mesh will still bring: for each packet, what it may be (a bound)

vars == <<script, cuts, conn, alive, written, drained, got, line, s, news>>
-----------------------------------------------------------------------------
(* FrameReader (frames.cpp)                                                *)
ToDevice == 60
ToApp    == 62
IsMarker(byte) == byte \in {ToDevice, ToApp}

(* next(): what comes before a marker is dropped, and so is a marker whose *)
(* length is too large; the frame is cut when all of it has come.          *)
MutStarts(buf) == {i \in DOMAIN buf : IsMarker(buf[i])}
Starts(buf) == {i \in DOMAIN buf : IsMarker(buf[i]) /\ (i < Len(buf) => buf[i + 1] <= MaxFrame)}
Resynced(buf) ==
  IF Starts(buf) = {} THEN <<>>
  ELSE SubSeq(buf, CHOOSE i \in Starts(buf) : \A j \in Starts(buf) : i <= j, Len(buf))

HasFrame(b) == Len(b) > 1 /\ 2 + b[2] <= Len(b)
FirstFrame(b) == SubSeq(b, 3, 2 + b[2])
AfterFrame(b) == SubSeq(b, 3 + b[2], Len(b))
-----------------------------------------------------------------------------
(* The server's output (server.cpp).  t is the daemon and the sockets:     *)
(* [s, line].                                                              *)
Frame(to, kind, re) == [to |-> to, kind |-> kind, re |-> re]
FrameResponse(f) == <<[f |-> f, half |-> 1], [f |-> f, half |-> 2]>>

MutEmptied(out) == out
Emptied(out) == <<>>

(* drop_client()                                                           *)
DropClient(t) ==
  [t EXCEPT !.s.client = None, !.s.reader = <<>>, !.s.out = Emptied(@), !.s.events = "none"]

(* flush(): writes until the socket is full, and then waits for POLLOUT;   *)
(* a client that has gone is dropped.                                      *)
Space(t) == Room - (Len(t.line[t.s.client]) - drained[t.s.client])
MutWatched(rest) == "in"
Watched(rest) == IF rest = <<>> THEN "in" ELSE "inout"
Flush(t) ==
  LET c == t.s.client
      n == IF Space(t) < Len(t.s.out) THEN Space(t) ELSE Len(t.s.out)
      rest == SubSeq(t.s.out, n + 1, Len(t.s.out))
  IN  CASE c = None -> t
        [] c # None /\ t.s.out # <<>> /\ c \notin alive -> DropClient(t)
        [] OTHER -> [t EXCEPT !.line[c] = @ \o SubSeq(t.s.out, 1, n),
                              !.s.out = rest, !.s.events = Watched(rest)]

HasCapacity(buffered, next) == buffered <= MaxOutbound /\ next <= MaxOutbound - buffered

(* send(): no client, or one that does not drain its output.               *)
ServerSend(t, kind, re) ==
  LET framed == FrameResponse(Frame(t.s.client, kind, re))
  IN  CASE t.s.client = None -> t
        [] t.s.client # None /\ ~HasCapacity(Len(t.s.out), Len(framed)) -> DropClient(t)
        [] OTHER -> Flush([t EXCEPT !.s.out = @ \o framed])

Replies(t, kinds, re) ==
  LET sent[i \in 0..Len(kinds)] == IF i = 0 THEN t ELSE ServerSend(sent[i - 1], kinds[i], re)
  IN  sent[Len(kinds)]

(* push(): only to an app that has started.                                *)
Push(t, kind) == IF t.s.started THEN ServerSend(t, kind, NoCommand) ELSE t
-----------------------------------------------------------------------------
(* The commands (session.cpp).  Each gives the session's next state and    *)
(* the kinds of its replies.  Args are the frame after the command's code; *)
(* a frame that is too short for its command has an illegal argument.      *)
Answer(u, kind) == [s |-> u, kinds |-> <<kind>>]

(* saved_reply(): how the previous write went.                             *)
SavedReply(u) == Answer([u EXCEPT !.dirty = TRUE], IF u.healthy THEN "ok" ELSE "io_error")

(* settings_reply(): written before it is answered; disk says how it went. *)
SettingsReply(u, legal, disk) ==
  Answer(u, IF ~legal THEN "illegal_arg" ELSE IF disk THEN "ok" ELSE "io_error")

AppStart(u) == Answer([u EXCEPT !.started = TRUE], "self_info")
DeviceQuery(u) == Answer(u, "device_info")
GetDeviceTime(u) == Answer(u, "curr_time")
SetDeviceTime(u) == Answer([u EXCEPT !.clock = TRUE], "ok")

(* The "since" filter is left out.                                         *)
GetContacts(u) ==
  [s |-> u, kinds |-> <<"contacts_start">> \o [i \in 1..Cardinality(DOMAIN u.contacts) |-> "contact"]
                      \o <<"end_of_contacts">>]

GetContactByKey(u, k) == Answer(u, IF k \in DOMAIN u.contacts THEN "contact" ELSE "not_found")

(* A contact is whether its path is known.                                 *)
Upsert(contacts, k, known) ==
  [j \in DOMAIN contacts \cup {k} |-> IF j = k THEN known ELSE contacts[j]]
IsFull(contacts, k) == k \notin DOMAIN contacts /\ Cardinality(DOMAIN contacts) >= MaxContacts

AddUpdateContact(u, k, known) ==
  IF IsFull(u.contacts, k) THEN Answer(u, "table_full")
  ELSE SavedReply([u EXCEPT !.contacts = Upsert(@, k, known)])

RemoveContact(u, k) ==
  IF k \notin DOMAIN u.contacts THEN Answer(u, "not_found")
  ELSE SavedReply([u EXCEPT !.contacts = [j \in DOMAIN @ \ {k} |-> @[j]]])

ResetPath(u, k) ==
  IF k \notin DOMAIN u.contacts THEN Answer(u, "not_found")
  ELSE SavedReply([u EXCEPT !.contacts[k] = FALSE])

(* A peer's card is not kept, and our own needs the clock.                 *)
ExportContact(u, args) ==
  Answer(u, IF args # <<>> THEN "not_found" ELSE IF u.clock THEN "card" ELSE "bad_state")

SendErrorCode(err) ==
  CASE err = "PendingFull" -> "table_full"
    [] err = "TooLong" -> "illegal_arg"
    [] OTHER -> "bad_state"

SendTxtMsg(u, k, err) ==
  Answer(u, CASE k \notin DOMAIN u.contacts -> "not_found"
              [] k \in DOMAIN u.contacts /\ err # "None" -> SendErrorCode(err)
              [] OTHER -> "sent")

SendChannelTxtMsg(u, slot) == Answer(u, IF slot \in u.channels THEN "ok" ELSE "not_found")

(* The message leaves the queue; the queue on disk is rewritten later.     *)
SyncNextMessage(u) ==
  IF u.inbox = 0 THEN Answer(u, "no_more_messages")
  ELSE Answer([u EXCEPT !.inbox = @ - 1, !.dirty = TRUE], "message")

GetChannel(u, slot) == Answer(u, IF slot < MaxChannels THEN "channel_info" ELSE "not_found")

(* A secret that is all zeroes empties the slot.                           *)
SetChannel(u, slot, secret) ==
  IF slot >= MaxChannels THEN Answer(u, "illegal_arg")
  ELSE SavedReply([u EXCEPT !.channels = IF secret = 0 THEN @ \ {slot} ELSE @ \cup {slot}])

(* The settings commands: what each refuses itself, and 255 for what       *)
(* Settings::set() refuses.                                                *)
SetAdvertName(u, name, disk) == SettingsReply(u, name \notin {0, 255}, disk)
SetAdvertLatLon(u, lat, disk) == SettingsReply(u, lat # 255, disk)
RepeatFreqs == {1}
SetRadioParams(u, freq, repeat, disk) ==
  SettingsReply(u, (repeat => freq \in RepeatFreqs) /\ freq \notin {0, 255}, disk)
SetTxPower(u, dbm, disk) == SettingsReply(u, dbm # 255, disk)
SetTuningParams(u, rxDelay, disk) == SettingsReply(u, rxDelay = 0, disk)
GetBattery(u) == Answer(u, "battery")
GetTuningParams(u) == Answer(u, "tuning_params")

Needs(cmd) == CASE cmd \in {9, 32} -> 2
                [] cmd \in {2, 3, 6, 8, 11, 12, 13, 14, 15, 21, 30, 31} -> 1
                [] OTHER -> 0

Command(u, cmd, args, disk, err) ==
  IF Len(args) < Needs(cmd) THEN Answer(u, "illegal_arg") ELSE
  CASE cmd = 1  -> AppStart(u)
    [] cmd = 2  -> SendTxtMsg(u, args[1], err)
    [] cmd = 3  -> SendChannelTxtMsg(u, args[1])
    [] cmd = 4  -> GetContacts(u)
    [] cmd = 5  -> GetDeviceTime(u)
    [] cmd = 6  -> SetDeviceTime(u)
    [] cmd = 8  -> SetAdvertName(u, args[1], disk)
    [] cmd = 9  -> AddUpdateContact(u, args[1], args[2] # 0)
    [] cmd = 10 -> SyncNextMessage(u)
    [] cmd = 11 -> SetRadioParams(u, args[1], Len(args) > 1, disk)
    [] cmd = 12 -> SetTxPower(u, args[1], disk)
    [] cmd = 13 -> ResetPath(u, args[1])
    [] cmd = 14 -> SetAdvertLatLon(u, args[1], disk)
    [] cmd = 15 -> RemoveContact(u, args[1])
    [] cmd \in {16, 17} -> ExportContact(u, args)
    [] cmd = 20 -> GetBattery(u)
    [] cmd = 21 -> SetTuningParams(u, args[1], disk)
    [] cmd = 22 -> DeviceQuery(u)
    [] cmd = 30 -> GetContactByKey(u, args[1])
    [] cmd = 31 -> GetChannel(u, args[1])
    [] cmd = 32 -> SetChannel(u, args[1], args[2])
    [] cmd = 43 -> GetTuningParams(u)
    [] cmd \in {7, 28, 29} -> Answer(u, "ok")   \* the advert itself is Mesh's
    [] OTHER -> Answer(u, "unsupported_cmd")

(* handle_frame(): an app that starts is told of what waits for it.        *)
MutMustTell(u, cmd) == FALSE
MustTell(u, cmd) == cmd = 1 /\ u.inbox > 0

HandleFrame(t, f, disk, err) ==
  LET answer  == Command(t.s, f[1], Tail(f), disk, err)
      replied == Replies([t EXCEPT !.s = answer.s], answer.kinds, f[1])
  IN  IF MustTell(replied.s, f[1]) THEN Push(replied, "msg_waiting") ELSE replied

(* A round of the loop in on_client_ready(): the next frame, if it is      *)
(* there and the client still is; an empty one is skipped.                 *)
ServeFrame(t, disk, err) ==
  LET b == Resynced(t.s.reader)
      u == [t EXCEPT !.s.reader = IF HasFrame(b) THEN AfterFrame(b) ELSE b]
  IN  CASE t.s.client = None -> t
        [] t.s.client # None /\ (~HasFrame(b) \/ FirstFrame(b) = <<>>) -> u
        [] OTHER -> HandleFrame(u, FirstFrame(b), disk, err)

\* No frame is shorter than two bytes, so these are rounds enough.
ServeFrames(t, disk, err) ==
  LET served[n \in 0..Len(t.s.reader)] == IF n = 0 THEN t ELSE ServeFrame(served[n - 1], disk, err)
  IN  served[Len(t.s.reader)]
-----------------------------------------------------------------------------
(* The server's callbacks.                                                 *)
Daemon == [s |-> s, line |-> line]

\* The state after a callback, and the connection it closed.
Becomes(t) ==
  /\ s' = t.s /\ line' = t.line
  /\ conn' = [c \in Clients |-> IF c = s.client /\ t.s.client # c THEN "closed" ELSE conn[c]]

(* accept_client(): a newcomer replaces the client there is, even when its *)
(* own socket then cannot be used.                                         *)
Newcomer == {c \in Clients : conn[c] = "waiting" /\ \A b \in 1..c - 1 : conn[b] # "waiting"}

MutOnConnect(u) == u
OnConnect(u) == [u EXCEPT !.started = FALSE]

AcceptClient(c, usable) ==
  LET dropped == IF s.client = None THEN s ELSE DropClient(Daemon).s
      taken   == [dropped EXCEPT !.client = c, !.reader = <<>>, !.out = Emptied(@), !.events = "in"]
  IN  /\ s' = IF usable THEN OnConnect(taken) ELSE dropped
      /\ conn' = [b \in Clients |-> CASE b = c -> IF usable THEN "open" ELSE "closed"
                                       [] b # c /\ b = s.client -> "closed"
                                       [] OTHER -> conn[b]]
      /\ UNCHANGED <<script, cuts, alive, written, drained, got, line, news>>

Accept == \E c \in Newcomer, usable \in BOOLEAN : AcceptClient(c, usable)

(* on_client_ready(): output first, then all there is to read, then the    *)
(* hang-up, which may be seen only by the next read.                       *)
Writable(c) == s.events = "inout" /\ (Space(Daemon) > 0 \/ c \notin alive)
Readable(c) == got[c] < written[c] \/ c \notin alive
ClientReady == s.client # None /\ (Writable(s.client) \/ Readable(s.client))

OnClientReady ==
  LET c == s.client
      chunk   == SubSeq(script[c], got[c] + 1, written[c])
      flushed == IF Writable(c) THEN Flush(Daemon) ELSE Daemon
      fed     == [flushed EXCEPT !.s.reader = @ \o chunk]
  IN  /\ ClientReady
      /\ \E disk, hup \in BOOLEAN, err \in {"None", "NoSharedSecret", "PendingFull", "TooLong"} :
           LET ready == IF flushed.s.client = None THEN flushed
                        ELSE ServeFrames(fed, disk, err)
           IN  Becomes(IF c \notin alive /\ (hup \/ chunk = <<>>) THEN DropClient(ready) ELSE ready)
      /\ got' = [got EXCEPT ![c] = written[c]]
      /\ UNCHANGED <<script, cuts, alive, written, drained, news>>

(* POLLERR: what a client wrote before it went is not read.                *)
OnClientError ==
  /\ s.client # None /\ s.client \notin alive
  /\ Becomes(DropClient(Daemon))
  /\ UNCHANGED <<script, cuts, alive, written, drained, got, news>>
-----------------------------------------------------------------------------
(* The delegate: a packet is pushed raw, and then what the node makes of   *)
(* it.                                                                     *)
OnRawRx(t) == Push(t, "log_rx_data")
OnAck(t) == Push(t, "send_confirmed")
OnPathUpdated(t, k) == Push([t EXCEPT !.s.contacts[k] = TRUE], "path_updated")
OnMessageStored(t) ==
  Push([t EXCEPT !.s.inbox = IF @ < InboxLimit THEN @ + 1 ELSE @], "msg_waiting")
OnAdvertSeen(t) == Push(t, "advert")
OnContactChanged(t, isNew) ==
  LET told == IF isNew THEN Push(t, "new_advert") ELSE t IN [told EXCEPT !.s.dirty = TRUE]

Advertised(t, k) ==
  LET known == k \in DOMAIN t.s.contacts
      kept  == [t EXCEPT !.s.contacts = Upsert(@, k, known /\ t.s.contacts[k])]
  IN  IF IsFull(t.s.contacts, k) THEN t ELSE OnContactChanged(OnAdvertSeen(kept), ~known)

Keys == 1..(MaxContacts + 1)
Brings(t, packet) ==
  CASE packet = "ack"     -> {OnAck(t)}
    [] packet = "message" -> {OnMessageStored(t)}
    [] packet = "path"    -> {OnPathUpdated(t, k) : k \in DOMAIN t.s.contacts}
    [] packet = "path with ack" -> {OnAck(OnPathUpdated(t, k)) : k \in DOMAIN t.s.contacts}
    [] packet = "advert"  -> {Advertised(t, k) : k \in Keys}
    [] OTHER -> {t}

(* A packet may also leave a store to be written without asking for it:    *)
(* its sender is touched, or the inbox could not be committed.             *)
Hear ==
  /\ news # <<>> /\ news' = Tail(news)
  /\ \E packet \in Head(news) : \E t \in Brings(OnRawRx(Daemon), packet), touched \in BOOLEAN :
       Becomes([t EXCEPT !.s.dirty = @ \/ touched])
  /\ UNCHANGED <<script, cuts, alive, written, drained, got>>

(* StateWriter::flush(), by its timer or by the sweep: what could not be   *)
(* written stays dirty.                                                    *)
FlushState ==
  /\ s.dirty
  /\ \E ok \in BOOLEAN : s' = [s EXCEPT !.dirty = ~ok, !.healthy = ok]
  /\ UNCHANGED <<script, cuts, conn, alive, written, drained, got, line, news>>
-----------------------------------------------------------------------------
(* The clients, and the daemon as it starts.                               *)
Connect(c) ==
  /\ conn[c] = "idle" /\ \A b \in 1..c - 1 : conn[b] # "idle"
  /\ conn' = [conn EXCEPT ![c] = "waiting"]
  /\ UNCHANGED <<script, cuts, alive, written, drained, got, line, s, news>>

Write(c) ==
  /\ c \in alive /\ conn[c] \in {"waiting", "open"}
  /\ \E n \in cuts[c] : n > written[c] /\ written' = [written EXCEPT ![c] = n]
  /\ UNCHANGED <<script, cuts, conn, alive, drained, got, line, s, news>>

Drain(c) ==
  /\ c \in alive /\ drained[c] < Len(line[c])
  /\ drained' = [drained EXCEPT ![c] = Len(line[c])]
  /\ UNCHANGED <<script, cuts, conn, alive, written, got, line, s, news>>

HangUp(c) ==
  /\ c \in alive /\ conn[c] \in {"waiting", "open"}
  /\ alive' = alive \ {c}
  /\ UNCHANGED <<script, cuts, conn, written, drained, got, line, s, news>>

Init ==
  /\ \E w \in Scenarios : script = w.writes /\ cuts = w.cuts /\ news = w.news
  /\ conn = [c \in Clients |-> "idle"] /\ alive = Clients
  /\ written = [c \in Clients |-> 0] /\ got = written /\ drained = written
  /\ line = [c \in Clients |-> <<>>]
  /\ s = [client |-> None, reader |-> <<>>, out |-> <<>>, events |-> "none", started |-> FALSE,
          inbox |-> 0, contacts |-> <<>>, channels |-> {0}, clock |-> FALSE,
          dirty |-> FALSE, healthy |-> TRUE]

Next ==
  \/ Accept \/ OnClientReady \/ OnClientError \/ Hear \/ FlushState
  \/ \E c \in Clients : Connect(c) \/ Write(c) \/ Drain(c) \/ HangUp(c)

Spec == Init /\ [][Next]_vars

(* The loop serves the sockets that are ready.  Nothing is asked of the    *)
(* clients, except where a property says so.  That a client which stays    *)
(* ready is served again and again is stated by what each OnClientReady    *)
(* does, which is weaker than its weak fairness.                           *)
Served == got' # got \/ s'.client = None \/ Len(s'.out) < Len(s.out)
FairSpec == Spec /\ WF_vars(Accept) /\ ([]<>~ClientReady \/ []<><<Served>>_vars)
-----------------------------------------------------------------------------
Kinds == {"self_info", "device_info", "curr_time", "contacts_start", "contact", "end_of_contacts",
          "card", "sent", "message", "no_more_messages", "channel_info", "battery", "tuning_params",
          "ok", "not_found", "table_full", "bad_state", "io_error", "illegal_arg", "unsupported_cmd",
          "log_rx_data", "send_confirmed", "path_updated", "msg_waiting", "advert", "new_advert"}
Halves == [f : [to : Clients, kind : Kinds, re : Bytes \cup {NoCommand}], half : {1, 2}]

(* The session's state has its type, its output stays within the limit,    *)
(* and no socket holds more than it takes.                                 *)
TypeOK ==
  /\ s.client \in Clients \cup {None} /\ conn \in [Clients -> {"idle", "waiting", "open", "closed"}]
  /\ \A c \in Clients : conn[c] = "open" <=> s.client = c
  /\ \A i \in DOMAIN s.out : s.out[i] \in Halves
  /\ s.events \in {"none", "in", "inout"}
  /\ s.started \in BOOLEAN /\ s.inbox \in 0..InboxLimit
  /\ Cardinality(DOMAIN s.contacts) <= MaxContacts
  /\ s.channels \subseteq 0..MaxChannels - 1
  /\ \A c \in Clients : /\ got[c] <= written[c] /\ written[c] <= Len(script[c])
                        /\ Len(line[c]) - drained[c] \in 0..Room

\* All that the daemon made for its client, on the socket or still waiting.
Stream == line[s.client] \o s.out

(* What a client gets is whole frames that were made for it: nothing left  *)
(* of a client it replaced, or of a frame a full socket cut, reaches it,   *)
(* and what waits for the socket never passes the buffer's limit           *)
(* (drop_client(), accept_client(), flush() and send()).                   *)
OwnWholeFrames ==
  s.client # None =>
    /\ Len(s.out) <= MaxOutbound
    /\ Len(Stream) % 2 = 0
    /\ \A i \in DOMAIN Stream : /\ Stream[i].f.to = s.client
                                /\ Stream[i].half = (IF i % 2 = 1 THEN 1 ELSE 2)
                                /\ i % 2 = 1 => Stream[i + 1].f = Stream[i].f

(* Nothing is pushed to a client before its own CMD_APP_START was          *)
(* answered, whoever started before it (push() and the connect handler).   *)
PushedAfterStart ==
  s.client # None =>
    \A i \in DOMAIN Stream : Stream[i].f.re = NoCommand =>
      \E j \in 1..i - 1 : Stream[j].f.kind = "self_info"

(* While messages wait for an app that has started, it has been told so    *)
(* since it last heard there were none: however storing, starting,         *)
(* collecting and reconnecting interleave, an app that collects when told  *)
(* misses nothing (handle_frame() and on_message_stored()).                *)
WaitingIsAnnounced ==
  s.client # None /\ s.started /\ s.inbox > 0 =>
    \E i \in DOMAIN Stream : /\ Stream[i].f.kind = "msg_waiting"
                             /\ \A j \in i..Len(Stream) : Stream[j].f.kind # "no_more_messages"

\* The commands in what a client has written, by position in the whole of it.
CommandsIn(bytes) ==
  LET from[i \in 1..Len(bytes) + 1] ==
        IF i >= Len(bytes) THEN <<>>
        ELSE IF ~IsMarker(bytes[i]) \/ bytes[i + 1] > MaxFrame THEN from[i + 1]
        ELSE IF i + 1 + bytes[i + 1] > Len(bytes) THEN <<>>
        ELSE (IF bytes[i + 1] = 0 THEN <<>> ELSE <<bytes[i + 2]>>) \o from[i + 2 + bytes[i + 1]]
  IN  from[1]

\* The answers in a stream; a list of contacts is one.
IsAnswer(f) == f.re # NoCommand /\ ~(f.re = 4 /\ f.kind \in {"contact", "end_of_contacts"})
Answers(stream) ==
  LET upTo[i \in 0..Len(stream)] ==
        IF i = 0 THEN <<>>
        ELSE IF stream[i].half = 1 /\ IsAnswer(stream[i].f) THEN Append(upTo[i - 1], stream[i].f.re)
        ELSE upTo[i - 1]
  IN  upTo[Len(stream)]

(* Every command is answered exactly once and in order, wherever the reads *)
(* cut the bytes and whatever junk, empty or oversized frames lie between  *)
(* (FrameReader::next(), on_client_ready() and handle_frame()).            *)
AnsweredOnceInOrder ==
  s.client # None =>
    Answers(Stream) = CommandsIn(SubSeq(script[s.client], 1, got[s.client]))

(* A client that keeps reading gets all its output, even output that       *)
(* waited for its socket to have room, or is dropped; what it wrote is     *)
(* read (on_client_ready() and flush()).                                   *)
KeepsReading == \A c \in Clients : WF_vars(Drain(c))
OutputArrives ==
  KeepsReading =>
    \A c \in Clients : (conn[c] = "open" /\ (s.out # <<>> \/ got[c] < written[c]))
                         ~> (conn[c] # "open" \/ (s.out = <<>> /\ got[c] = written[c]))
=============================================================================
