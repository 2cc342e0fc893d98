------------------------------ MODULE StateDir ------------------------------
(***************************************************************************)
(* The state directory: what the daemon keeps in files, when it writes     *)
(* them, and what it finds again after a crash (src/util/persist.cpp, the  *)
(* save and load of each store, src/mesh/state_writer.cpp, the start-up    *)
(* of src/daemon/app.cpp).                                                 *)
(*                                                                         *)
(* The daemon is one thread, so a save runs to its end before anything     *)
(* else happens, but it can die between any two system calls: each call    *)
(* that changes the directory is a step.  dir is the directory as the      *)
(* kernel shows it, images the directories a power cut may leave: every    *)
(* one since the directory was last synced.  The contents of the contact   *)
(* and channel lists and of the settings are a version number; the file    *)
(* of messages is the queue.  The temporary file is left out, since no     *)
(* load reads it: saving.data stands for it.                               *)
(***************************************************************************)
EXTENDS Naturals, Sequences, FiniteSets, Functions

CONSTANTS Messages,       \* the texts other nodes send to this one
          Order,          \* the stores, in the order they are loaded and flushed
          InboxLimit,     \* limit_ of the inbox
          DeliveredLimit, \* kMaxDelivered
          Missing,        \* what stands for no file of a name
          Corrupt,        \* what load() says of a file it cannot read
          Breakable,      \* bound: the files that may be impossible to write
          MaxVersion,     \* bound: how often the app and the mesh ever act
          MaxFaults,      \* bound: how often a call, the process or the power fails
          MaxKeys         \* bound: how many keys are ever generated

Stores == Range(Order)
Lists  == Stores \ {"messages"}          \* written when StateWriter says so
Files  == Stores \cup {"settings", "identity"}

Idle    == [step |-> "idle"]

ASSUME StateDirAssumption ==
  /\ Order \in Seq({"contacts", "channels", "messages"}) /\ "messages" \in Stores
  /\ IsInjective(Order) /\ Breakable \subseteq Files
  /\ InboxLimit \in Nat \ {0} /\ DeliveredLimit \in Nat \ {0}
  /\ MaxVersion \in Nat /\ MaxFaults \in Nat /\ MaxKeys \in Nat
  /\ {Missing, Corrupt} \cap (Nat \cup Seq(Messages)) = {} /\ Missing # Corrupt

VARIABLES phase,      \* "down", "load", "restore", "reload" or "up"
          at,         \* the store being loaded, as an index of Order
          mem,        \* each file's content in memory
          dirty,      \* dirty_ of each store
          pending,    \* pending_ of StateWriter: a save is on its way
          healthy,    \* healthy_ of StateWriter
          delivered,  \* delivered_ of Node: the texts it would recognise
          saving,     \* the save in progress
          tried, ok,  \* the store flush() has come to, and its result so far
          dir, images,              \* the disk
          broken,     \* the files that cannot be written
          version, odd, keys,       \* contents, unreadable ones, keys made
          faults,     \* how often a call, the process or the power has failed
          owed,       \* history: the messages acknowledged and committed
          written,    \* history: what the last save that returned true wrote
          begunWith,  \* history: the keys the daemon has gone on with, without
                      \*   that of a node lost before it reported a save
          reported    \* history: a save has been reported as done

memVars  == <<phase, at, mem, dirty, pending, healthy, delivered, saving, tried, ok>>
diskVars == <<dir, images>>
madeVars == <<version, odd, keys, faults>>
vars == <<memVars, diskVars, broken, madeVars, owed, written, begunWith, reported>>
-----------------------------------------------------------------------------
(* load() of each store: what the file holds, Missing, or Corrupt for one  *)
(* that is there and cannot be read.  A file is read whole or not at all.  *)
(* save() of the contacts writes any position and load() takes only those  *)
(* on earth; whatever else a save() writes, its load() takes.  A queue     *)
(* longer than the inbox loses its oldest messages.                        *)
ContactsLoad(file) == IF file # Missing /\ file \in odd THEN Corrupt ELSE file
ChannelsLoad(file) == file
InboxLoad(file) ==
  IF file # Missing /\ Len(file) > InboxLimit
  THEN SubSeq(file, Len(file) - InboxLimit + 1, Len(file)) ELSE file

LoadOf(s) ==
  LET file == dir[s].file
  IN  CASE s = "contacts" -> ContactsLoad(file)
        [] s = "channels" -> ChannelsLoad(file)
        [] s = "messages" -> InboxLoad(file)

EmptyOf(s) == IF s = "messages" THEN <<>> ELSE 0

Fresh == [f \in Files |-> EmptyOf(f)]
Clean == [s \in Stores |-> FALSE]

(* What a process that ends, whatever the reason, leaves of its memory.    *)
Dead ==
  /\ phase' = "down" /\ at' = 0 /\ mem' = Fresh /\ dirty' = Clean
  /\ pending' = FALSE /\ healthy' = TRUE /\ delivered' = {}
  /\ saving' = Idle /\ tried' = 0 /\ ok' = TRUE

Changes(d) == dir' = d /\ images' = images \cup {d}
-----------------------------------------------------------------------------
(* durable_replace(), after a save() has written the temporary file: the   *)
(* temporary is synced and an old backup removed, the old file kept as the *)
(* backup where the store asks for one, the new one renamed into place,    *)
(* the directory synced.                                                   *)
KeepsBackup(f) == f \in Stores

Begin(f, data, why) == [step |-> "write", f |-> f, data |-> data, why |-> why]

ContactsSave(why)   == Begin("contacts", mem["contacts"], why)
ChannelsSave(why)   == Begin("channels", mem["channels"], why)
InboxSave(data, why) == Begin("messages", data, why)
SettingsSave(data)  == Begin("settings", data, "set")
IdentitySave(key)   == Begin("identity", key, "generate")

SaveOf(s, why) == CASE s = "contacts" -> ContactsSave(why)
                    [] s = "channels" -> ChannelsSave(why)
                    [] s = "messages" -> InboxSave(mem["messages"], why)

Goes(step) == saving' = [saving EXCEPT !.step = step]

Fault == faults < MaxFaults /\ faults' = faults + 1
NoFault == UNCHANGED faults

Syncs ==
  /\ saving.step = "write"
  /\ \/ /\ saving.f \notin broken /\ NoFault
        /\ IF KeepsBackup(saving.f)
           THEN Goes("link") /\ Changes([dir EXCEPT ![saving.f].bak = Missing])
           ELSE Goes("rename") /\ UNCHANGED diskVars
     \/ saving.f \in broken /\ NoFault /\ Goes("failed") /\ UNCHANGED diskVars
     \/ Fault /\ Goes("failed") /\ UNCHANGED diskVars

(* A backup that cannot be kept does not stop the save.                    *)
MutLinks ==
  /\ saving.step = "link" /\ Goes("rename") /\ NoFault
  /\ Changes([dir EXCEPT ![saving.f].bak = dir[saving.f].file, ![saving.f].file = Missing])
Links ==
  /\ saving.step = "link" /\ Goes("rename")
  /\ \/ NoFault /\ Changes([dir EXCEPT ![saving.f].bak = dir[saving.f].file])
     \/ Fault /\ UNCHANGED diskVars

MutRenames ==
  /\ saving.step = "rename" /\ NoFault /\ Changes([dir EXCEPT ![saving.f].file = saving.data])
  /\ Goes(IF KeepsBackup(saving.f) \/ saving.f = "identity" THEN "sync" ELSE "saved")
Renames ==
  /\ saving.step = "rename"
  /\ \/ NoFault /\ Goes("sync") /\ Changes([dir EXCEPT ![saving.f].file = saving.data])
     \/ Fault /\ Goes("failed") /\ UNCHANGED diskVars

SyncsDirectory ==
  /\ saving.step = "sync"
  /\ \/ NoFault /\ Goes("saved") /\ images' = {dir} /\ UNCHANGED dir
     \/ Fault /\ Goes("failed") /\ UNCHANGED diskVars

DurableReplace ==
  /\ saving # Idle
  /\ Syncs \/ Links \/ Renames \/ SyncsDirectory
  /\ UNCHANGED <<phase, at, mem, dirty, pending, healthy, delivered, tried, ok,
                 broken, version, odd, keys, owed, written, begunWith, reported>>

Saved == saving.step = "saved"
Over(why) == saving # Idle /\ saving.step \in {"saved", "failed"} /\ saving.why = why

Reports == reported' = (reported \/ Saved)
Records(f) == written' = IF Saved /\ f # "messages"
                         THEN [written EXCEPT ![f] = saving.data] ELSE written
-----------------------------------------------------------------------------
(* App::start(): the key first.  A key is generated only in a directory    *)
(* with no trace of a node, and used only once it is safely saved.         *)
Loads(key, settings) ==
  /\ phase' = "load" /\ at' = 1 /\ begunWith' = begunWith \cup {key}
  /\ mem' = [Fresh EXCEPT !["identity"] = key,
                          !["settings"] = IF settings = Missing THEN 0 ELSE settings]

StartWithKey ==
  /\ phase = "down" /\ saving = Idle /\ dir["identity"].file # Missing
  /\ Loads(dir["identity"].file, dir["settings"].file)
  /\ UNCHANGED <<dirty, pending, healthy, delivered, saving, tried, ok, diskVars,
                 broken, madeVars, owed, written, reported>>

GenerateKey ==
  /\ phase = "down" /\ saving = Idle /\ dir["identity"].file = Missing
  /\ \A s \in Stores : dir[s].file = Missing
  /\ keys < MaxKeys /\ keys' = keys + 1
  /\ saving' = IdentitySave(keys')
  /\ begunWith' = IF reported THEN begunWith ELSE {}
  /\ UNCHANGED <<phase, at, mem, dirty, pending, healthy, delivered, tried, ok, diskVars,
                 broken, version, odd, faults, owed, written, reported>>

MutGenerated ==
  /\ Over("generate") /\ saving' = Idle /\ Reports
  /\ Loads(saving.data, dir["settings"].file)
  /\ UNCHANGED <<dirty, pending, healthy, delivered, tried, ok, diskVars, broken,
                 madeVars, owed, written>>
Generated ==
  /\ Over("generate") /\ saving' = Idle /\ Reports
  /\ IF Saved THEN Loads(saving.data, dir["settings"].file)
              ELSE UNCHANGED <<phase, at, mem, begunWith>>
  /\ UNCHANGED <<dirty, pending, healthy, delivered, tried, ok, diskVars, broken,
                 madeVars, owed, written>>

(* load_state(): a file that is there and cannot be read is moved aside,   *)
(* and the backup takes its place; if that cannot be read either it is     *)
(* moved aside too, over the first one if the clock still shows the same   *)
(* second.                                                                 *)
Latest(s) == {v \in dir[s].aside : \A w \in dir[s].aside : w <= v}

Quarantine(s, kept) ==
  Changes([dir EXCEPT ![s].file = Missing, ![s].aside = kept \cup {dir[s].file}])

Proceeds(content) ==
  /\ mem' = [mem EXCEPT ![Order[at]] = content]
  /\ IF at = Len(Order) THEN phase' = "up" /\ at' = 0
                        ELSE phase' = "load" /\ at' = at + 1

Starting == UNCHANGED <<dirty, pending, healthy, delivered, saving, tried, ok, broken,
                        version, odd, keys, owed, written, begunWith, reported>>

MutLoad ==
  /\ phase = "load" /\ Starting /\ NoFault /\ UNCHANGED diskVars
  /\ Proceeds(IF LoadOf(Order[at]) \in {Missing, Corrupt} THEN EmptyOf(Order[at])
              ELSE LoadOf(Order[at]))
Load ==
  /\ phase = "load" /\ Starting
  /\ LET s == Order[at]
     IN  \/ /\ LoadOf(s) # Corrupt /\ NoFault /\ UNCHANGED diskVars
            /\ Proceeds(IF LoadOf(s) = Missing THEN EmptyOf(s) ELSE LoadOf(s))
         \/ /\ LoadOf(s) = Corrupt /\ phase' = "restore" /\ UNCHANGED <<at, mem>>
            /\ \/ NoFault /\ Quarantine(s, dir[s].aside)
               \/ Fault /\ UNCHANGED diskVars

Restore ==
  /\ phase = "restore" /\ Starting
  /\ LET s == Order[at]
     IN  \/ /\ (dir[s].bak = Missing /\ NoFault) \/ Fault
            /\ Proceeds(EmptyOf(s)) /\ UNCHANGED diskVars
         \/ /\ dir[s].bak # Missing /\ NoFault
            /\ Changes([dir EXCEPT ![s].file = dir[s].bak, ![s].bak = Missing])
            /\ phase' = "reload" /\ UNCHANGED <<at, mem>>

Reload ==
  /\ phase = "reload" /\ Starting
  /\ LET s == Order[at]
     IN  \/ LoadOf(s) # Corrupt /\ Proceeds(LoadOf(s)) /\ NoFault /\ UNCHANGED diskVars
         \/ /\ LoadOf(s) = Corrupt /\ Proceeds(EmptyOf(s))
            /\ \/ NoFault /\ \E kept \in {dir[s].aside, dir[s].aside \ Latest(s)} :
                                  Quarantine(s, kept)
               \/ Fault /\ UNCHANGED diskVars

Start == StartWithKey \/ GenerateKey \/ Generated \/ Load \/ Restore \/ Reload
-----------------------------------------------------------------------------
Free == phase = "up" /\ saving = Idle
Acts == Free /\ version < MaxVersion /\ version' = version + 1

(* A contact or channel changes, set by the app or heard on the air, and   *)
(* request_save() is called.  An advert or the app may give a contact a    *)
(* position that is not on earth.                                          *)
Change(s) ==
  /\ Acts
  /\ mem' = [mem EXCEPT ![s] = version'] /\ dirty' = [dirty EXCEPT ![s] = TRUE]
  /\ pending' = TRUE
  /\ odd' \in {odd} \cup (IF s = "contacts" THEN {odd \cup {version'}} ELSE {})
  /\ UNCHANGED <<phase, at, healthy, delivered, saving, tried, ok, diskVars, broken,
                 keys, faults, owed, written, begunWith, reported>>

(* first_delivery(): a text heard before is not stored again; a full table *)
(* gives up one entry, whichever comes first in it.                        *)
Heard(m) == m \in delivered

DeliveredWith(m) ==
  IF Heard(m) \/ Cardinality(delivered) < DeliveredLimit THEN {delivered \cup {m}}
  ELSE {(delivered \ {d}) \cup {m} : d \in delivered}

(* MessageInbox::store(): the oldest message gives way in a full queue.    *)
Kept(queue) == IF Len(queue) > InboxLimit THEN Tail(queue) ELSE queue

(* handle_text(): the sender is touched and the text stored before the     *)
(* acknowledgement goes out.                                               *)
Receive(m) ==
  /\ Acts
  /\ \E table \in DeliveredWith(m) : delivered' = table
  /\ dirty' = [s \in Stores |-> dirty[s] \/ s = "contacts" \/ (s = "messages" /\ ~Heard(m))]
  /\ IF Heard(m) THEN UNCHANGED <<mem, saving, owed>>
     ELSE LET queue == Append(mem["messages"], m)
              kept == Kept(queue)
          IN  /\ mem' = [mem EXCEPT !["messages"] = kept]
              /\ saving' = InboxSave(kept, "store")
              /\ owed' = owed \ (Range(queue) \ Range(kept))
  /\ UNCHANGED <<phase, at, pending, healthy, tried, ok, diskVars, broken, odd, keys,
                 faults, written, begunWith, reported>>

(* The save returned and the acknowledgement is sent, whatever it said.    *)
Stored ==
  /\ Over("store") /\ saving' = Idle /\ Reports
  /\ dirty' = [dirty EXCEPT !["messages"] = ~Saved]
  /\ owed' = IF Saved THEN owed \cup Range(saving.data) ELSE owed
  /\ UNCHANGED <<phase, at, mem, pending, healthy, delivered, tried, ok, diskVars, broken,
                 madeVars, written, begunWith>>

(* An entry of delivered_ outlives its kDeliveredTtlMs.                    *)
Expire(m) ==
  /\ Free /\ m \in delivered /\ delivered' = delivered \ {m}
  /\ UNCHANGED <<phase, at, mem, dirty, pending, healthy, saving, tried, ok, diskVars, broken,
                 madeVars, owed, written, begunWith, reported>>

(* cmd_sync_next_message(): the app takes the oldest message.              *)
Collect ==
  /\ Free /\ mem["messages"] # <<>>
  /\ owed' = owed \ {Head(mem["messages"])}
  /\ mem' = [mem EXCEPT !["messages"] = Tail(@)]
  /\ dirty' = [dirty EXCEPT !["messages"] = TRUE] /\ pending' = TRUE
  /\ UNCHANGED <<phase, at, healthy, delivered, saving, tried, ok, diskVars, broken, madeVars,
                 written, begunWith, reported>>

(* SettingsStore::set() of a change that is valid: written, then applied.  *)
Set ==
  /\ Acts
  /\ saving' = SettingsSave(version')
  /\ UNCHANGED <<phase, at, mem, dirty, pending, healthy, delivered, tried, ok, diskVars,
                 broken, odd, keys, faults, owed, written, begunWith, reported>>

SetReturns ==
  /\ Over("set") /\ saving' = Idle /\ Records("settings") /\ Reports
  /\ mem' = IF Saved THEN [mem EXCEPT !["settings"] = saving.data] ELSE mem
  /\ UNCHANGED <<phase, at, dirty, pending, healthy, delivered, tried, ok, diskVars,
                 broken, madeVars, owed, begunWith>>
-----------------------------------------------------------------------------
(* StateWriter::flush(), from the coalescing timer, from the sweep or from *)
(* App::request_stop(): every dirty store is tried, one failing or not.    *)
Due(from) == {i \in from .. Len(Order) : dirty[Order[i]]}

Flushes(from, result, why) ==
  \/ Due(from) = {} /\ why = "stop" /\ Dead
  \/ /\ Due(from) # {} \/ why # "stop"
     /\ \/ /\ Due(from) = {}
           /\ healthy' = result /\ saving' = Idle /\ tried' = 0 /\ ok' = TRUE
        \/ /\ \E i \in Due(from) : /\ \A j \in Due(from) : i <= j
                                 /\ saving' = SaveOf(Order[i], why) /\ tried' = i
           /\ ok' = result /\ UNCHANGED healthy
     /\ dirty' = IF saving = Idle THEN dirty ELSE [dirty EXCEPT ![saving.f] = ~Saved]
     /\ pending' = (pending /\ why # "timer")
     /\ UNCHANGED <<phase, at, mem, delivered>>

Flush(why) ==
  /\ Free /\ Flushes(1, TRUE, why)
  /\ UNCHANGED <<diskVars, broken, madeVars, owed,
                 written, begunWith, reported>>

TimerFires == pending /\ Flush("timer")
Sweep      == Flush("sweep")
Stop       == Flush("stop")

MutFlushReturns ==
  /\ \E why \in {"timer", "sweep", "stop"} :
       Over(why) /\ Flushes(IF Saved THEN tried + 1 ELSE Len(Order) + 1, ok /\ Saved, why)
  /\ owed' = IF Saved /\ saving.f = "messages" THEN owed \cup Range(saving.data) ELSE owed
  /\ Records(saving.f) /\ Reports
  /\ UNCHANGED <<diskVars, broken, madeVars, begunWith>>
FlushReturns ==
  /\ \E why \in {"timer", "sweep", "stop"} : Over(why) /\ Flushes(tried + 1, ok /\ Saved, why)
  /\ owed' = IF Saved /\ saving.f = "messages" THEN owed \cup Range(saving.data) ELSE owed
  /\ Records(saving.f) /\ Reports
  /\ UNCHANGED <<diskVars, broken, madeVars, begunWith>>
-----------------------------------------------------------------------------
(* The process is killed, or the power fails.                             *)
Dies ==
  /\ Fault /\ Dead
  /\ UNCHANGED <<broken, version, odd, keys, owed, written, begunWith, reported>>

Crash == (phase # "down" \/ saving # Idle) /\ Dies /\ UNCHANGED diskVars

PowerCut == \E d \in images : dir' = d /\ images' = {d} /\ Dies

NoFiles == [f \in Files |-> [file |-> Missing, bak |-> Missing, aside |-> {}]]

Init ==
  /\ phase = "down" /\ at = 0 /\ mem = Fresh /\ dirty = Clean /\ pending = FALSE
  /\ healthy = TRUE /\ delivered = {} /\ saving = Idle /\ tried = 0 /\ ok = TRUE
  /\ dir = NoFiles /\ images = {NoFiles} /\ broken \in SUBSET Breakable
  /\ version = 0 /\ odd = {} /\ keys = 0 /\ faults = 0
  /\ owed = {} /\ written = [f \in Files |-> 0] /\ begunWith = {}
  /\ reported = FALSE

Daemon ==
  \/ Start \/ DurableReplace \/ Stored \/ SetReturns \/ TimerFires \/ Sweep
  \/ FlushReturns

World ==
  \/ \E s \in Lists : Change(s)
  \/ \E m \in Messages : Receive(m) \/ Expire(m)
  \/ Collect \/ Set \/ Stop \/ Crash \/ PowerCut

Next == Daemon \/ World

Spec == Init /\ [][Next]_vars

(* The thread runs, and its timers fire; nothing says that the daemon is   *)
(* started again, that an app connects or that messages come.              *)
FairSpec ==
  /\ Spec
  /\ WF_vars(DurableReplace) /\ WF_vars(FlushReturns)
  /\ WF_vars(Stored) /\ WF_vars(SetReturns) /\ SF_vars(Sweep)
-----------------------------------------------------------------------------
Contents(f) == CASE f = "messages" -> UNION {[1 .. n -> Messages] : n \in 0 .. InboxLimit}
                 [] f = "identity" -> 0 .. MaxKeys
                 [] OTHER          -> 0 .. MaxVersion
Entries(f) == Contents(f) \cup {Missing}

TypeOK ==
  /\ phase \in {"down", "load", "restore", "reload", "up"} /\ at \in 0 .. Len(Order)
  /\ DOMAIN mem = Files /\ \A f \in Files : mem[f] \in Contents(f)
  /\ dirty \in [Stores -> BOOLEAN] /\ pending \in BOOLEAN /\ healthy \in BOOLEAN
  /\ ok \in BOOLEAN /\ delivered \subseteq Messages
  /\ saving # Idle => saving.f \in Files /\ saving.data \in Contents(saving.f)
  /\ \A d \in images \cup {dir} : DOMAIN d = Files /\ \A f \in Files :
       {d[f].file, d[f].bak} \subseteq Entries(f) /\ d[f].aside \subseteq Contents(f)
  /\ dir \in images /\ broken \subseteq Breakable

(* A message the node has acknowledged survives whatever happens next: it  *)
(* is in the file whichever directory a power cut leaves, unless the app   *)
(* collected it, newer ones pushed it out of a full inbox, or the disk     *)
(* refused it when it came and has not taken the queue since               *)
(* (MessageInbox::store, Node::store_message).                             *)
AckedSurvives ==
  \A m \in owed, d \in images :
    d["messages"].file # Missing /\ m \in Range(d["messages"].file)

(* What a save that returned true wrote is never lost or taken back, only  *)
(* replaced by something newer: the file holds it in every directory a     *)
(* crash may leave, unless a later version was one load() refuses          *)
(* (durable_replace, load_state).                                          *)
SavedIsNotLost ==
  \A f \in Files \ {"messages", "identity"}, d \in images :
    written[f] > 0 /\ (f = "contacts" => \A v \in odd : v < written[f])
      => d[f].file # Missing /\ d[f].file >= written[f]

(* Every directory a crash may leave has the key that the daemon last went *)
(* on with, whether it found or generated it.  The one exception is a      *)
(* directory with nothing in it at all, while no save, of the key or of    *)
(* anything else, has been reported as done: a start that finds the key of *)
(* one cut short before the directory was synced can still lose it.  Once  *)
(* a save is reported as done the node has its key for ever, and never is  *)
(* a file of the node left without its key, which the next start would     *)
(* refuse, or with another's (App::load_or_create_identity).               *)
OneIdentity ==
  \A k \in begunWith, d \in images :
    d["identity"].file = k \/ (d = NoFiles /\ ~reported)

(* A store whose file cannot be read starts empty only when its backup     *)
(* cannot be read either, or the directory cannot be written (load_state). *)
EmptyIsLastResort ==
  [][\A s \in Stores :
       LET damaged == (phase = "load" /\ LoadOf(s) = Corrupt) \/ phase = "restore"
           readable == dir[s].bak # Missing /\ (s = "contacts" => dir[s].bak \notin odd)
       IN  at # 0 /\ Order[at] = s /\ damaged /\ readable /\ NoFault => at' = at]_vars

(* A change waits in memory only for as long as the disk refuses it: the   *)
(* sweep tries again, and a store that keeps failing does not keep the     *)
(* others from being written (StateWriter::flush).                         *)
RetriedUntilWritten ==
  \A s \in Stores : s \notin broken => []<>(~dirty[s] \/ phase # "up")

(* README: the contact store survives restarts.  What was saved is what    *)
(* the next start begins with.                                             *)
ContactsSurvive == phase = "up" => mem["contacts"] >= written["contacts"]
=============================================================================
