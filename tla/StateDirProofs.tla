--------------------------- MODULE StateDirProofs ---------------------------
(***************************************************************************)
(* TLAPS proofs about StateDir: whatever fails and whenever, messages that *)
(* were acknowledged and committed and contents that were saved are in     *)
(* every directory that a crash may leave, and so is the node's key once a *)
(* save has been reported as done.                                         *)
(***************************************************************************)
EXTENDS StateDir, TLAPS

Queues   == {q \in Seq(Messages) : Len(q) <= InboxLimit}
Numbered == Files \ {"messages", "identity"}
Values   == Queues \cup Nat \cup {Missing}
Slots    == [file : Values, bak : Values, aside : SUBSET Values]
Loading  == {"load", "restore", "reload"}
Flushing == {"timer", "sweep", "stop"}
Saves    == [step : {"write", "link", "rename", "sync", "saved", "failed"}, f : Files,
             data : Values, why : {"generate", "set", "store"} \cup Flushing]

(* What a file may hold.                                                   *)
Holds(f) == IF f = "messages" THEN Queues ELSE IF f = "identity" THEN Nat ELSE 0 .. version

IsDir(d) ==
  /\ d \in [Files -> Slots]
  /\ \A f \in Files : {d[f].file, d[f].bak} \subseteq Holds(f) \cup {Missing}

(* What was written last is something load() takes, and so is all that     *)
(* came after it.                                                          *)
Good(f) == written[f] > 0 /\ (f = "contacts" => \A v \in odd : v < written[f])

(* What every directory that a crash may leave has to offer.               *)
Owes(d)  == \A m \in owed : d["messages"].file # Missing /\ m \in Range(d["messages"].file)
Keeps(d) == \A f \in Numbered : Good(f) => d[f].file # Missing /\ d[f].file >= written[f]
Image(d) == IsDir(d) /\ Owes(d) /\ Keeps(d)

(* This start has loaded the store s.                                      *)
Loaded(s) ==
  \E i \in DOMAIN Order : Order[i] = s /\ (phase = "up" \/ (phase \in Loading /\ i < at))

Made ==
  /\ version \in Nat /\ keys \in Nat /\ faults \in Nat /\ odd \subseteq Nat
  /\ written \in [Files -> Nat]
  /\ \A f \in Numbered : written[f] <= version

Disk == dir \in images /\ \A d \in images : Image(d)

Memory ==
  /\ mem \in [Files -> Values] /\ \A f \in Files : mem[f] \in Holds(f)
  /\ Loaded("messages") => owed \subseteq Range(mem["messages"])
  /\ \A f \in Lists : Loaded(f) /\ Good(f) => mem[f] >= written[f]

(* Only the contacts are ever set aside, and only when what was written    *)
(* last is not good.                                                       *)
Phases ==
  /\ phase \in Loading \cup {"down", "up"}
  /\ phase \in Loading => at \in DOMAIN Order /\ saving = Idle
  /\ phase \in {"restore", "reload"} => Order[at] = "contacts" /\ ~Good("contacts")
  /\ phase = "reload" => dir["contacts"].file # Missing

(* The save in progress: what it writes is as new as what it replaces, and *)
(* is in place when it has come that far.                                  *)
Save ==
  saving # Idle =>
    /\ saving \in Saves /\ saving.data \in Holds(saving.f)
    /\ saving.why = "generate" => saving.f = "identity" /\ phase = "down"
    /\ saving.why = "set" => saving.f = "settings" /\ saving.data >= written["settings"]
    /\ saving.why = "store" => saving.f = "messages"
    /\ saving.why \in Flushing => saving.f \in Stores
    /\ saving.why # "generate" => phase = "up"
    /\ saving.f \in Stores => saving.data = mem[saving.f]
    /\ saving.step \in {"sync", "saved"} => dir[saving.f].file = saving.data
    /\ saving.step = "saved" => images = {dir}

Inv == Made /\ Disk /\ Memory /\ Phases /\ Save
-----------------------------------------------------------------------------
(***************************************************************************)
(* The constants, what load() makes of a file, and what a change of the    *)
(* directory leaves.                                                       *)
(***************************************************************************)
LEMMA Constants ==
  /\ Stores \subseteq {"contacts", "channels", "messages"} /\ "messages" \in Stores
  /\ \A i \in DOMAIN Order : Order[i] \in Stores
  /\ \A s \in Stores : \E i \in DOMAIN Order : Order[i] = s
  /\ \A i, j \in DOMAIN Order : Order[i] = Order[j] => i = j
  /\ Len(Order) \in Nat /\ DOMAIN Order = 1 .. Len(Order) /\ Len(Order) > 0
  /\ InboxLimit \in Nat \ {0}
<1>1. Order \in Seq({"contacts", "channels", "messages"}) /\ "messages" \in Stores
  BY StateDirAssumption, Zenon
<1>2. Len(Order) \in Nat /\ DOMAIN Order = 1 .. Len(Order)
  BY <1>1
<1>3. Stores = {Order[i] : i \in DOMAIN Order}
  BY Zenon DEF Stores, Range
<1>4. \A i \in DOMAIN Order : Order[i] \in {"contacts", "channels", "messages"}
  BY <1>1, <1>2
<1>5. \A i, j \in DOMAIN Order : Order[i] = Order[j] => i = j
  BY StateDirAssumption, Zenon DEF IsInjective
<1> QED  BY <1>1, <1>2, <1>3, <1>4, <1>5, StateDirAssumption

LEMMA NoContent ==
  /\ Missing \notin Nat /\ Corrupt \notin Nat /\ Missing # Corrupt
  /\ Missing \notin Queues /\ Corrupt \notin Queues
  BY StateDirAssumption, Zenon DEF Queues

LEMMA FileNames ==
  /\ "messages" \in Files /\ "identity" \in Files /\ "settings" \in Files
  /\ Stores \subseteq Files /\ "settings" \notin Stores /\ "identity" \notin Stores
  /\ "settings" \in Numbered /\ Lists \subseteq Numbered /\ Numbered \subseteq Files
  /\ \A f \in Files : f \in Stores \/ f = "settings" \/ f = "identity"
  /\ \A f \in Stores : f = "messages" \/ f \in Lists
  /\ \A f \in Lists : f # "messages" /\ f \in Stores
  BY Constants, Zenon DEF Files, Numbered, Lists

(* Only contacts are ever refused, and a file that is taken is taken as it *)
(* is: no queue was longer than the inbox when it was saved.               *)
LEMMA LoadTakes ==
  ASSUME IsDir(dir), NEW s \in Stores
  PROVE  /\ LoadOf(s) = Corrupt => s = "contacts" /\ dir[s].file \in odd
         /\ LoadOf(s) # Corrupt => LoadOf(s) = dir[s].file
         /\ s = "contacts" /\ dir[s].file # Missing /\ dir[s].file \in odd => LoadOf(s) = Corrupt
<1>1. dir[s].file \in Holds(s) \cup {Missing}
  BY FileNames, Zenon DEF IsDir
<1>2. CASE s = "contacts"
  <2>1. dir[s].file # Corrupt
    BY <1>1, <1>2, NoContent DEF Holds
  <2> QED  BY <1>2, <2>1, Zenon DEF LoadOf, ContactsLoad
<1>3. CASE s = "channels"
  <2>1. dir[s].file # Corrupt
    BY <1>1, <1>3, NoContent DEF Holds
  <2> QED  BY <1>3, <2>1, Zenon DEF LoadOf, ChannelsLoad
<1>4. CASE s = "messages"
  <2>1. dir[s].file # Corrupt
    BY <1>1, <1>4, NoContent, Zenon DEF Holds
  <2>2. dir[s].file # Missing => ~(Len(dir[s].file) > InboxLimit)
    BY <1>1, <1>4, Constants DEF Holds, Queues
  <2> QED  BY <1>4, <2>1, <2>2, Zenon DEF LoadOf, InboxLoad
<1> QED  BY <1>2, <1>3, <1>4, Constants, Zenon

LEMMA HoldsValues ==
  ASSUME version \in Nat, NEW f \in Files
  PROVE  Holds(f) \subseteq Values
  BY DEF Holds, Values

LEMMA SaveOfStore ==
  ASSUME NEW s \in Stores, NEW why
  PROVE  SaveOf(s, why) = Begin(s, mem[s], why)
  BY Constants, Zenon DEF SaveOf, ContactsSave, ChannelsSave, InboxSave

(* A save that is in progress is one of a file, and can be told from Idle. *)
LEMMA BusySave ==
  ASSUME Save, saving # Idle
  PROVE  /\ saving \in Saves /\ saving.f \in Files /\ saving.data \in Holds(saving.f)
         /\ \A step \in {"write", "link", "rename", "sync", "saved", "failed"} :
              LET next == [saving EXCEPT !.step = step]
              IN  /\ next \in Saves /\ next # Idle /\ next.step = step
                  /\ next.f = saving.f /\ next.data = saving.data /\ next.why = saving.why
<1>1. saving \in Saves
  BY Zenon DEF Save
<1>2. ASSUME NEW step \in {"write", "link", "rename", "sync", "saved", "failed"}
      PROVE  LET next == [saving EXCEPT !.step = step]
             IN  /\ next \in Saves /\ next # Idle /\ next.step = step
                 /\ next.f = saving.f /\ next.data = saving.data /\ next.why = saving.why
  BY <1>1, Zenon DEF Saves, Idle
<1> QED  BY <1>1, <1>2, Zenon DEF Save, Saves

(* A directory in which saving.f has been replaced is as good as the ones  *)
(* before.                                                                 *)
LEMMA NewImage ==
  ASSUME Inv, saving # Idle, NEW e,
         e = [dir EXCEPT ![saving.f].file = saving.data]
  PROVE  Image(e) /\ e[saving.f].file = saving.data
<1>1. saving \in Saves /\ saving.f \in Files /\ saving.data \in Holds(saving.f)
  BY BusySave, Zenon DEF Inv
<1>2. dir \in [Files -> Slots] /\ IsDir(dir) /\ Image(dir)
  BY Zenon DEF Inv, Disk, Image, IsDir
<1>3. saving.data \in Values
  BY <1>1, Zenon DEF Saves
<1>4. e \in [Files -> Slots]
  BY <1>1, <1>2, <1>3, Zenon DEF Slots
<1>5. /\ e[saving.f].file = saving.data /\ e[saving.f].bak = dir[saving.f].bak
      /\ \A g \in Files \ {saving.f} : e[g] = dir[g]
  BY <1>1, <1>2, <1>3, Zenon DEF Slots
<1>6. IsDir(e)
  <2>1. dir[saving.f].bak \in Holds(saving.f) \cup {Missing}
    BY <1>1, <1>2, Zenon DEF IsDir
  <2>2. {e[saving.f].file, e[saving.f].bak} \subseteq Holds(saving.f) \cup {Missing}
    BY <1>1, <1>5, <2>1, Zenon
  <2> QED  BY <1>1, <1>2, <1>4, <1>5, <2>2, Zenon DEF IsDir
<1>7. Owes(e)
  <2>1. CASE saving.f = "messages"
    <3>1. saving.data = mem["messages"] /\ phase = "up"
      BY <1>1, <2>1, FileNames, Zenon DEF Inv, Save, Saves, Flushing
    <3>2. Loaded("messages")
      BY <3>1, Constants, Zenon DEF Loaded
    <3>3. saving.data # Missing
      BY <1>1, <2>1, NoContent, Zenon DEF Holds
    <3> QED  BY <1>5, <2>1, <3>1, <3>2, <3>3, Zenon DEF Inv, Memory, Owes
  <2>2. CASE saving.f # "messages"
    BY <1>2, <1>5, <2>2, FileNames, Zenon DEF Image, Owes
  <2> QED  BY <2>1, <2>2, Zenon
<1>8. Keeps(e)
  <2> SUFFICES ASSUME NEW f \in Numbered, Good(f)
               PROVE  e[f].file # Missing /\ e[f].file >= written[f]
    BY Zenon DEF Keeps
  <2>1. CASE saving.f = f
    <3>1. saving.data \in 0 .. version
      BY <1>1, <2>1, Zenon DEF Holds, Numbered
    <3>2. saving.data >= written[f]
      <4>1. CASE f = "settings"
        BY <1>1, <2>1, <4>1, FileNames, Zenon DEF Inv, Save, Saves, Flushing
      <4>2. CASE f \in Lists
        <5>1. saving.data = mem[f] /\ phase = "up"
          BY <1>1, <2>1, <4>2, FileNames, Zenon DEF Inv, Save, Saves, Flushing
        <5>2. Loaded(f)
          BY <4>2, <5>1, FileNames, Constants, Zenon DEF Loaded
        <5> QED  BY <4>2, <5>1, <5>2, Zenon DEF Inv, Memory
      <4> QED  BY <4>1, <4>2, FileNames, Zenon DEF Numbered
    <3> QED  BY <1>5, <2>1, <3>1, <3>2, NoContent DEF Inv, Made
  <2>2. CASE saving.f # f
    BY <1>2, <1>5, <2>2, FileNames, Zenon DEF Image, Keeps
  <2> QED  BY <2>1, <2>2, Zenon
<1> QED  BY <1>5, <1>6, <1>7, <1>8, Zenon DEF Image

(* Neither are the ones in which only its backup has changed.              *)
LEMMA NewBackup ==
  ASSUME Inv, saving # Idle, NEW b \in {Missing, dir[saving.f].file}, NEW e,
         e = [dir EXCEPT ![saving.f].bak = b]
  PROVE  Image(e) /\ e[saving.f].file = dir[saving.f].file
<1>1. saving.f \in Files
  BY BusySave, Zenon DEF Inv
<1>2. dir \in [Files -> Slots] /\ IsDir(dir) /\ Image(dir)
  BY Zenon DEF Inv, Disk, Image, IsDir
<1>3. b \in Values /\ b \in Holds(saving.f) \cup {Missing}
  BY <1>1, <1>2, Zenon DEF IsDir, Slots, Values
<1>4. e \in [Files -> Slots]
  BY <1>1, <1>2, <1>3, Zenon DEF Slots
<1>5. /\ e[saving.f].bak = b /\ e[saving.f].file = dir[saving.f].file
      /\ \A g \in Files \ {saving.f} : e[g] = dir[g]
  BY <1>1, <1>2, <1>3, Zenon DEF Slots
<1>6. IsDir(e)
  <2>1. dir[saving.f].file \in Holds(saving.f) \cup {Missing}
    BY <1>1, <1>2, Zenon DEF IsDir
  <2>2. {e[saving.f].file, e[saving.f].bak} \subseteq Holds(saving.f) \cup {Missing}
    BY <1>3, <1>5, <2>1, Zenon
  <2> QED  BY <1>1, <1>2, <1>4, <1>5, <2>2, Zenon DEF IsDir
<1>7. \A f \in Files : e[f].file = dir[f].file
  BY <1>5, Zenon
<1> QED  BY <1>2, <1>5, <1>6, <1>7, FileNames, Zenon DEF Image, Owes, Keeps, Numbered

(* What is asked of a directory changes only with what has been promised.  *)
LEMMA SameImage ==
  ASSUME UNCHANGED <<version, odd, owed, written>>
  PROVE  /\ \A f : Holds(f)' = Holds(f) /\ (Good(f)' <=> Good(f))
         /\ \A d : Image(d)' <=> Image(d)
<1>1. \A f : Holds(f)' = Holds(f) /\ (Good(f)' <=> Good(f))
  BY Zenon DEF Holds, Good
<1>2. \A d : IsDir(d)' <=> IsDir(d)
  BY <1>1, Zenon DEF IsDir
<1>3. \A d : (Owes(d)' <=> Owes(d)) /\ (Keeps(d)' <=> Keeps(d))
  BY <1>1, Zenon DEF Owes, Keeps
<1> QED  BY <1>1, <1>2, <1>3, Zenon DEF Image

(* A step that leaves alone what memory and the start depend on.           *)
LEMMA SameMemory ==
  ASSUME Memory, Phases, UNCHANGED <<phase, at, mem, version, odd, owed, written>>,
         phase \in Loading => saving' = Idle /\ dir' = dir
  PROVE  Memory' /\ Phases'
<1>1. \A f : Holds(f)' = Holds(f) /\ (Good(f)' <=> Good(f))
  BY SameImage, Zenon
<1>2. \A s : Loaded(s)' <=> Loaded(s)
  BY Zenon DEF Loaded
<1>3. Memory'
  BY <1>1, <1>2, Zenon DEF Memory
<1>4. Phases'
  BY <1>1, Zenon DEF Phases, Loading
<1> QED  BY <1>3, <1>4, Zenon

LEMMA FaultCounts ==
  ASSUME faults \in Nat
  PROVE  (Fault \/ NoFault) => faults' \in Nat
  BY DEF Fault, NoFault

(* The steps of a save.                                                    *)
LEMMA DurableReplaceInv ==
  ASSUME Inv, DurableReplace
  PROVE  Inv'
<1>1. /\ saving # Idle
      /\ UNCHANGED <<phase, at, mem, version, odd, keys, owed, written>>
  BY Zenon DEF DurableReplace
<1>2. saving \in Saves /\ saving.f \in Files /\ saving.data \in Holds(saving.f)
  BY <1>1, BusySave, Zenon DEF Inv
<1>3. \A f : Holds(f)' = Holds(f) /\ (Good(f)' <=> Good(f))
  BY <1>1, SameImage, Zenon
<1>4. \A d : Image(d)' <=> Image(d)
  BY <1>1, SameImage, Zenon
<1>5. dir \in images /\ \A d \in images : Image(d)
  BY Zenon DEF Inv, Disk
<1>6. faults' \in Nat
  BY FaultCounts, Zenon DEF Inv, Made, DurableReplace, Syncs, Links, Renames, SyncsDirectory
<1>7. Made'
  BY <1>1, <1>6, Zenon DEF Inv, Made
<1>8. phase \notin Loading
  BY <1>1, Zenon DEF Inv, Phases
<1>9. Memory' /\ Phases'
  BY <1>1, <1>8, SameMemory, Zenon DEF Inv
<1>10. ASSUME NEW step \in {"write", "link", "rename", "sync", "saved", "failed"}, Goes(step),
              step \in {"sync", "saved"} => dir'[saving.f].file = saving.data,
              step = "saved" => images' = {dir'}
       PROVE  Save'
  <2>1. /\ saving' \in Saves /\ saving'.step = step
        /\ saving'.f = saving.f /\ saving'.data = saving.data /\ saving'.why = saving.why
    BY <1>1, <1>10, BusySave, Zenon DEF Inv, Goes
  <2> QED  BY <1>1, <1>2, <1>3, <1>10, <2>1, Zenon DEF Inv, Save
<1>11. CASE UNCHANGED diskVars /\ Goes("failed")
  <2>1. Save'
    BY <1>10, <1>11, Zenon
  <2>2. Disk'
    BY <1>4, <1>5, <1>11, Zenon DEF Disk, diskVars
  <2> QED  BY <1>7, <1>9, <2>1, <2>2, Zenon DEF Inv
<1>12. CASE UNCHANGED diskVars /\ Goes("rename")
  <2>1. Save'
    BY <1>10, <1>12, Zenon
  <2>2. Disk'
    BY <1>4, <1>5, <1>12, Zenon DEF Disk, diskVars
  <2> QED  BY <1>7, <1>9, <2>1, <2>2, Zenon DEF Inv
<1>13. ASSUME NEW e, Changes(e), Image(e)
       PROVE  Disk'
  BY <1>4, <1>5, <1>13, Zenon DEF Disk, Changes
<1>14. CASE Syncs
  <2>1. CASE Goes("link") /\ Changes([dir EXCEPT ![saving.f].bak = Missing])
    <3>1. Disk'
      BY <1>1, <1>13, <2>1, NewBackup, Zenon
    <3>2. Save'
      BY <1>10, <2>1, Zenon
    <3> QED  BY <1>7, <1>9, <3>1, <3>2, Zenon DEF Inv
  <2> QED  BY <1>11, <1>12, <1>14, <2>1, Zenon DEF Syncs
<1>15. CASE Links
  <2>1. CASE Goes("rename") /\ Changes([dir EXCEPT ![saving.f].bak = dir[saving.f].file])
    <3>1. Disk'
      BY <1>1, <1>13, <2>1, NewBackup, Zenon
    <3>2. Save'
      BY <1>10, <2>1, Zenon
    <3> QED  BY <1>7, <1>9, <3>1, <3>2, Zenon DEF Inv
  <2> QED  BY <1>12, <1>15, <2>1, Zenon DEF Links
<1>16. CASE Renames
  <2>1. CASE Goes("sync") /\ Changes([dir EXCEPT ![saving.f].file = saving.data])
    <3>1. Disk'
      BY <1>1, <1>13, <2>1, NewImage, Zenon
    <3>2. dir'[saving.f].file = saving.data
      BY <1>1, <2>1, NewImage, Zenon DEF Changes
    <3>3. Save'
      BY <1>10, <2>1, <3>2, Zenon
    <3> QED  BY <1>7, <1>9, <3>1, <3>3, Zenon DEF Inv
  <2> QED  BY <1>11, <1>16, <2>1, Zenon DEF Renames
<1>17. CASE SyncsDirectory
  <2>1. CASE saving.step = "sync" /\ Goes("saved") /\ images' = {dir} /\ UNCHANGED dir
    <3>1. Disk'
      BY <1>4, <1>5, <2>1, Zenon DEF Disk
    <3>2. dir'[saving.f].file = saving.data /\ images' = {dir'}
      BY <1>1, <2>1, Zenon DEF Inv, Save
    <3>3. Save'
      BY <1>10, <2>1, <3>2, Zenon
    <3> QED  BY <1>7, <1>9, <3>1, <3>3, Zenon DEF Inv
  <2> QED  BY <1>11, <1>17, <2>1, Zenon DEF SyncsDirectory
<1> QED  BY <1>14, <1>15, <1>16, <1>17, Zenon DEF DurableReplace

-----------------------------------------------------------------------------
(***************************************************************************)
(* The start.                                                              *)
(***************************************************************************)
LEMMA EmptyHolds ==
  ASSUME version \in Nat, NEW f \in Files
  PROVE  /\ EmptyOf(f) \in Holds(f) /\ EmptyOf(f) \in Values
         /\ f # "messages" => EmptyOf(f) = 0
<1>1. <<>> \in Queues
  BY Constants DEF Queues
<1> QED  BY <1>1 DEF EmptyOf, Holds, Values

(* A start begins with nothing loaded but the key and the settings.        *)
LEMMA LoadsSound ==
  ASSUME Inv, NEW key \in Nat, Loads(key, dir["settings"].file), saving' = Idle,
         version' = version
  PROVE  Memory' /\ Phases' /\ Save'
<1> DEFINE file == dir["settings"].file
           set  == IF file = Missing THEN 0 ELSE file
<1>1. file \in Holds("settings") \cup {Missing}
  BY FileNames, Zenon DEF Inv, Disk, Image, IsDir
<1>2. set \in 0 .. version /\ version \in Nat
  BY <1>1 DEF Holds, Inv, Made
<1>3. mem' = [Fresh EXCEPT !["identity"] = key, !["settings"] = set]
  BY Zenon DEF Loads
<1> HIDE DEF file, set
<1>4. /\ mem' \in [Files -> Values] /\ mem'["identity"] = key /\ mem'["settings"] = set
      /\ \A f \in Stores : mem'[f] = EmptyOf(f)
  <2>1. Fresh \in [Files -> Values] /\ \A f \in Files : Fresh[f] = EmptyOf(f)
    BY <1>2, EmptyHolds, Zenon DEF Fresh
  <2>2. key \in Values /\ set \in Values
    BY <1>2 DEF Values
  <2> QED  BY <1>3, <2>1, <2>2, FileNames, Zenon
<1>5. \A f : Holds(f)' = Holds(f)
  BY Zenon DEF Holds
<1>6. \A f \in Files : mem'[f] \in Holds(f)
  <2> TAKE f \in Files
  <2>1. CASE f \in Stores
    BY <1>2, <1>4, <2>1, EmptyHolds, FileNames, Zenon
  <2>2. CASE f = "identity" \/ f = "settings"
    BY <1>2, <1>4, <2>2, Zenon DEF Holds
  <2> QED  BY <2>1, <2>2, FileNames, Zenon
<1>7. phase' = "load" /\ at' = 1
  BY Zenon DEF Loads
<1>8. \A s : ~Loaded(s)'
  BY <1>7, Constants DEF Loaded, Loading
<1>9. Memory'
  BY <1>4, <1>5, <1>6, <1>8, Zenon DEF Memory
<1>10. Phases'
  BY <1>7, Constants DEF Phases, Loading
<1> QED  BY <1>9, <1>10, Zenon DEF Save

LEMMA StartWithKeyInv ==
  ASSUME Inv, StartWithKey
  PROVE  Inv'
<1>1. dir["identity"].file \in Nat
  <2>1. dir["identity"].file \in Holds("identity") \cup {Missing}
    BY FileNames, Zenon DEF Inv, Disk, Image, IsDir
  <2> QED  BY <2>1, Zenon DEF StartWithKey, Holds
<1>2. /\ Loads(dir["identity"].file, dir["settings"].file) /\ saving' = Idle
      /\ UNCHANGED <<dir, images, version, odd, keys, faults, owed, written>>
  BY Zenon DEF StartWithKey, diskVars, madeVars
<1>3. Memory' /\ Phases' /\ Save'
  BY <1>1, <1>2, LoadsSound, Zenon
<1>4. Made'
  BY <1>2, Zenon DEF Inv, Made
<1>5. Disk'
  BY <1>2, SameImage, Zenon DEF Inv, Disk
<1> QED  BY <1>3, <1>4, <1>5, Zenon DEF Inv

LEMMA GenerateKeyInv ==
  ASSUME Inv, GenerateKey
  PROVE  Inv'
<1>1. /\ phase = "down" /\ dir["identity"].file = Missing /\ keys' = keys + 1
      /\ saving' = Begin("identity", keys', "generate")
      /\ UNCHANGED <<phase, at, mem, dir, images, version, odd, faults, owed, written>>
  BY Zenon DEF GenerateKey, diskVars, IdentitySave
<1>2. keys' \in Nat
  BY <1>1 DEF Inv, Made
<1>3. Made'
  BY <1>1, <1>2, Zenon DEF Inv, Made
<1>4. Disk'
  BY <1>1, SameImage, Zenon DEF Inv, Disk
<1>5. Memory' /\ Phases'
  BY <1>1, SameMemory, Zenon DEF Inv, Loading
<1>6. /\ saving'.step = "write" /\ saving'.f = "identity" /\ saving'.data = keys'
      /\ saving'.why = "generate" /\ saving' \in Saves
  BY <1>1, <1>2, FileNames, Zenon DEF Begin, Saves, Values
<1>7. Save'
  <2>1. saving'.data \in Holds("identity")'
    BY <1>2, <1>6, Zenon DEF Holds
  <2> QED  BY <1>1, <1>6, <2>1, FileNames, Zenon DEF Save, Flushing
<1> QED  BY <1>3, <1>4, <1>5, <1>7, Zenon DEF Inv

LEMMA GeneratedInv ==
  ASSUME Inv, Generated
  PROVE  Inv'
<1>1. /\ saving # Idle /\ saving.why = "generate" /\ saving' = Idle
      /\ UNCHANGED <<dir, images, version, odd, keys, faults, owed, written>>
  BY Zenon DEF Generated, Over, diskVars, madeVars
<1>2. saving.f = "identity" /\ phase = "down" /\ saving.data \in Nat
  BY <1>1, Zenon DEF Inv, Save, Holds
<1>3. Made' /\ Disk'
  BY <1>1, SameImage, Zenon DEF Inv, Made, Disk
<1>4. CASE UNCHANGED <<phase, at, mem>>
  <2>1. Memory' /\ Phases'
    BY <1>1, <1>4, SameMemory, Zenon DEF Inv
  <2> QED  BY <1>1, <1>3, <2>1, Zenon DEF Inv, Save
<1>5. CASE Loads(saving.data, dir["settings"].file)
  <2>1. Memory' /\ Phases' /\ Save'
    BY <1>1, <1>2, <1>5, LoadsSound, Zenon
  <2> QED  BY <1>3, <2>1, Zenon DEF Inv
<1> QED  BY <1>4, <1>5, Zenon DEF Generated

(* A store that is loaded with contents that fit what has been promised.   *)
LEMMA ProceedsSound ==
  ASSUME Inv, phase \in Loading, NEW content, Proceeds(content),
         content \in Holds(Order[at]),
         Order[at] = "messages" => owed \subseteq Range(content),
         Order[at] \in Lists /\ Good(Order[at]) => content >= written[Order[at]],
         saving' = Idle, UNCHANGED <<version, odd, owed, written>>
  PROVE  Memory' /\ Phases'
<1>1. at \in DOMAIN Order /\ Order[at] \in Stores /\ Order[at] \in Files
  BY Constants, FileNames, Zenon DEF Inv, Phases
<1>2. \A f : Holds(f)' = Holds(f) /\ (Good(f)' <=> Good(f))
  BY SameImage, Zenon
<1>3. content \in Values
  BY <1>1, HoldsValues, Zenon DEF Inv, Made
<1>4. /\ mem' \in [Files -> Values] /\ mem'[Order[at]] = content
      /\ \A f \in Files \ {Order[at]} : mem'[f] = mem[f]
  BY <1>1, <1>3, Zenon DEF Proceeds, Inv, Memory
<1>5. \A f \in Files : mem'[f] \in Holds(f)
  BY <1>4, Zenon DEF Inv, Memory
<1>6. \/ at = Len(Order) /\ phase' = "up"
      \/ phase' = "load" /\ at' = at + 1 /\ at # Len(Order)
  BY Zenon DEF Proceeds
<1>7. ASSUME NEW s, Loaded(s)', s # Order[at]
      PROVE  Loaded(s)
  <2>1. PICK i \in DOMAIN Order : /\ Order[i] = s
                                  /\ phase' = "up" \/ (phase' \in Loading /\ i < at')
    BY <1>7, Zenon DEF Loaded
  <2>2. i < at
    BY <1>1, <1>6, <1>7, <2>1, Constants DEF Loading
  <2> QED  BY <2>1, <2>2, Zenon DEF Loaded
<1>8. Loaded("messages")' => owed' \subseteq Range(mem'["messages"])
  <2>1. CASE Order[at] = "messages"
    BY <1>4, <2>1, Zenon
  <2>2. CASE Order[at] # "messages"
    BY <1>4, <1>7, <2>2, FileNames, Zenon DEF Inv, Memory
  <2> QED  BY <2>1, <2>2, Zenon
<1>9. ASSUME NEW f \in Lists, Loaded(f)', Good(f)
      PROVE  mem'[f] >= written'[f]
  <2>1. CASE Order[at] = f
    BY <1>4, <1>9, <2>1, Zenon
  <2>2. CASE Order[at] # f
    BY <1>4, <1>7, <1>9, <2>2, FileNames, Zenon DEF Inv, Memory
  <2> QED  BY <2>1, <2>2, Zenon
<1>10. Memory'
  BY <1>2, <1>4, <1>5, <1>8, <1>9, Zenon DEF Memory
<1>11. Phases'
  BY <1>1, <1>6, Constants DEF Phases, Loading
<1> QED  BY <1>10, <1>11, Zenon

(* What the directory gives a store it can load.                           *)
LEMMA FileFits ==
  ASSUME Inv, NEW s \in Stores, NEW content,
         content = IF dir[s].file = Missing THEN EmptyOf(s) ELSE dir[s].file
  PROVE  /\ content \in Holds(s)
         /\ s = "messages" => owed \subseteq Range(content)
         /\ s \in Lists /\ Good(s) => content >= written[s]
<1>1. dir[s].file \in Holds(s) \cup {Missing} /\ Owes(dir) /\ Keeps(dir) /\ s \in Files
  BY FileNames, Zenon DEF Inv, Disk, Image, IsDir
<1>2. EmptyOf(s) \in Holds(s)
  BY <1>1, EmptyHolds, Zenon DEF Inv, Made
<1> QED  BY <1>1, <1>2, FileNames, Zenon DEF Owes, Keeps

(* A file is set aside only when it is no loss.                            *)
LEMMA Spoilt ==
  ASSUME Inv, NEW s \in Stores, LoadOf(s) = Corrupt
  PROVE  s = "contacts" /\ ~Good("contacts")
<1>1. s = "contacts" /\ dir[s].file \in odd
  BY LoadTakes, Zenon DEF Inv, Disk, Image
<1>2. /\ Keeps(dir) /\ odd \subseteq Nat /\ written \in [Files -> Nat]
      /\ "contacts" \in Numbered /\ "contacts" \in Files
  BY <1>1, FileNames, Zenon DEF Inv, Disk, Image, Made, Numbered
<1>3. SUFFICES ASSUME Good("contacts") PROVE FALSE
  BY <1>1, Zenon
<1>4. dir["contacts"].file >= written["contacts"] /\ dir["contacts"].file < written["contacts"]
  BY <1>1, <1>2, <1>3, Zenon DEF Keeps, Good
<1>5. dir["contacts"].file \in Nat /\ written["contacts"] \in Nat
  BY <1>1, <1>2, Zenon
<1> QED  BY <1>4, <1>5

(* Setting the contacts aside, or putting their backup in their place,     *)
(* loses nothing that was promised.                                        *)
LEMMA Recovers ==
  ASSUME Inv, ~Good("contacts"), "contacts" \in Stores, NEW e \in [Files -> Slots],
         \A f \in Files \ {"contacts"} : e[f] = dir[f],
         e["contacts"].file \in {Missing, dir["contacts"].bak},
         e["contacts"].bak \in {Missing, dir["contacts"].bak}
  PROVE  Image(e)
<1>1. Image(dir) /\ IsDir(dir) /\ "contacts" \in Files
  BY FileNames, Zenon DEF Inv, Disk, Image
<1>2. {e["contacts"].file, e["contacts"].bak} \subseteq Holds("contacts") \cup {Missing}
  BY <1>1 DEF IsDir
<1>3. IsDir(e)
  BY <1>1, <1>2, Zenon DEF IsDir
<1>4. Owes(e)
  BY <1>1, FileNames, Zenon DEF Image, Owes
<1>5. Keeps(e)
  BY <1>1, FileNames, Zenon DEF Image, Keeps
<1> QED  BY <1>3, <1>4, <1>5, Zenon DEF Image

(* The directories that a start leaves.                                    *)
LEMMA SetAside ==
  ASSUME Inv, ~Good("contacts"), "contacts" \in Stores,
         NEW kept \in SUBSET dir["contacts"].aside, Quarantine("contacts", kept)
  PROVE  Image(dir') /\ images' = images \cup {dir'}
<1> DEFINE e == [dir EXCEPT !["contacts"].file = Missing,
                            !["contacts"].aside = kept \cup {dir["contacts"].file}]
<1>1. dir' = e /\ images' = images \cup {e}
  BY Zenon DEF Quarantine, Changes
<1>2. dir \in [Files -> Slots] /\ "contacts" \in Files
  BY FileNames, Zenon DEF Inv, Disk, Image, IsDir
<1>3. Missing \in Values /\ kept \cup {dir["contacts"].file} \in SUBSET Values
  BY <1>2, Zenon DEF Slots, Values
<1>4. /\ e \in [Files -> Slots] /\ e["contacts"].file = Missing
      /\ e["contacts"].bak = dir["contacts"].bak
      /\ \A f \in Files \ {"contacts"} : e[f] = dir[f]
  BY <1>2, <1>3, Zenon DEF Slots
<1> HIDE DEF e
<1>5. Image(e)
  BY <1>4, Recovers, Zenon
<1> QED  BY <1>1, <1>5, Zenon

LEMMA PutInPlace ==
  ASSUME Inv, ~Good("contacts"), "contacts" \in Stores,
         Changes([dir EXCEPT !["contacts"].file = dir["contacts"].bak, !["contacts"].bak = Missing])
  PROVE  /\ Image(dir') /\ images' = images \cup {dir'}
         /\ dir'["contacts"].file = dir["contacts"].bak
<1> DEFINE e == [dir EXCEPT !["contacts"].file = dir["contacts"].bak, !["contacts"].bak = Missing]
<1>1. dir' = e /\ images' = images \cup {e}
  BY Zenon DEF Changes
<1>2. dir \in [Files -> Slots] /\ "contacts" \in Files
  BY FileNames, Zenon DEF Inv, Disk, Image, IsDir
<1>3. Missing \in Values /\ dir["contacts"].bak \in Values
  BY <1>2, Zenon DEF Slots, Values
<1>4. /\ e \in [Files -> Slots] /\ e["contacts"].file = dir["contacts"].bak
      /\ e["contacts"].bak = Missing
      /\ \A f \in Files \ {"contacts"} : e[f] = dir[f]
  BY <1>2, <1>3, Zenon DEF Slots
<1> HIDE DEF e
<1>5. Image(e)
  BY <1>4, Recovers, Zenon
<1> QED  BY <1>1, <1>4, <1>5, Zenon

(* A step of a start, by what it does to the directory and to memory.      *)
LEMMA StartingInv ==
  ASSUME Inv, Starting, phase \in Loading, NoFault \/ Fault, Memory', Phases',
         UNCHANGED diskVars \/ (Image(dir') /\ images' = images \cup {dir'})
  PROVE  Inv'
<1>1. UNCHANGED <<saving, version, odd, keys, owed, written>>
  BY Zenon DEF Starting
<1>2. Made'
  BY <1>1, FaultCounts, Zenon DEF Inv, Made
<1>3. \A d : Image(d)' <=> Image(d)
  BY <1>1, SameImage, Zenon
<1>4. Disk'
  BY <1>3, Zenon DEF Inv, Disk, diskVars
<1>5. Save'
  BY <1>1, Zenon DEF Inv, Phases, Save
<1> QED  BY <1>2, <1>4, <1>5, Zenon DEF Inv

LEMMA LoadInv ==
  ASSUME Inv, Load
  PROVE  Inv'
<1> DEFINE s == Order[at]
<1>1. /\ phase = "load" /\ Starting /\ saving' = Idle
      /\ UNCHANGED <<saving, version, odd, owed, written>>
  BY Zenon DEF Load, Starting, Inv, Phases, Loading
<1>2. at \in DOMAIN Order /\ s \in Stores /\ IsDir(dir)
  BY <1>1, Constants, Zenon DEF Inv, Phases, Loading, Disk, Image
<1>3. CASE /\ LoadOf(s) # Corrupt /\ NoFault /\ UNCHANGED diskVars
           /\ Proceeds(IF LoadOf(s) = Missing THEN EmptyOf(s) ELSE LoadOf(s))
  <2>1. LoadOf(s) = dir[s].file
    BY <1>2, <1>3, LoadTakes, Zenon
  <2> DEFINE content == IF dir[s].file = Missing THEN EmptyOf(s) ELSE dir[s].file
  <2>2. Proceeds(content)
    BY <1>3, <2>1, Zenon
  <2>3. /\ content \in Holds(s)
        /\ s = "messages" => owed \subseteq Range(content)
        /\ s \in Lists /\ Good(s) => content >= written[s]
    BY <1>2, FileFits, Zenon
  <2> HIDE DEF content
  <2>4. Memory' /\ Phases'
    BY <1>1, <2>2, <2>3, ProceedsSound, Zenon DEF Loading
  <2> QED  BY <1>1, <1>3, <2>4, StartingInv, Zenon DEF Loading
<1>4. CASE /\ LoadOf(s) = Corrupt /\ phase' = "restore" /\ UNCHANGED <<at, mem>>
           /\ (NoFault /\ Quarantine(s, dir[s].aside)) \/ (Fault /\ UNCHANGED diskVars)
  <2>1. s = "contacts" /\ ~Good("contacts")
    BY <1>2, <1>4, Spoilt, Zenon
  <2>2. UNCHANGED diskVars \/ (Image(dir') /\ images' = images \cup {dir'})
    BY <1>2, <1>4, <2>1, SetAside, Zenon
  <2>3. \A f : Holds(f)' = Holds(f) /\ (Good(f)' <=> Good(f))
    BY <1>1, SameImage, Zenon
  <2>4. \A f : Loaded(f)' <=> Loaded(f)
    BY <1>1, <1>4, Zenon DEF Loaded, Loading
  <2>5. Memory'
    BY <1>1, <1>4, <2>3, <2>4, Zenon DEF Inv, Memory
  <2>6. Phases'
    BY <1>1, <1>2, <1>4, <2>1, <2>3, Zenon DEF Phases, Loading
  <2> QED  BY <1>1, <1>4, <2>2, <2>5, <2>6, StartingInv, Zenon DEF Loading
<1> QED  BY <1>3, <1>4, Zenon DEF Load

LEMMA RestoreInv ==
  ASSUME Inv, Restore
  PROVE  Inv'
<1> DEFINE s == Order[at]
<1>1. /\ phase = "restore" /\ Starting /\ saving' = Idle
      /\ UNCHANGED <<saving, version, odd, owed, written>>
  BY Zenon DEF Restore, Starting, Inv, Phases, Loading
<1>2. at \in DOMAIN Order /\ s = "contacts" /\ s \in Stores /\ ~Good("contacts") /\ s \in Files
  BY <1>1, Constants, FileNames, Zenon DEF Inv, Phases, Loading
<1>3. CASE (NoFault \/ Fault) /\ Proceeds(EmptyOf(s)) /\ UNCHANGED diskVars
  <2>1. EmptyOf(s) \in Holds(s)
    BY <1>2, EmptyHolds, Zenon DEF Inv, Made
  <2>2. Memory' /\ Phases'
    BY <1>1, <1>2, <1>3, <2>1, ProceedsSound, Zenon DEF Loading
  <2> QED  BY <1>1, <1>3, <2>2, StartingInv, Zenon DEF Loading
<1>4. CASE /\ dir[s].bak # Missing /\ NoFault /\ phase' = "reload" /\ UNCHANGED <<at, mem>>
           /\ Changes([dir EXCEPT ![s].file = dir[s].bak, ![s].bak = Missing])
  <2>1. Image(dir') /\ images' = images \cup {dir'} /\ dir'["contacts"].file # Missing
    BY <1>2, <1>4, PutInPlace, Zenon
  <2>2. \A f : Holds(f)' = Holds(f) /\ (Good(f)' <=> Good(f))
    BY <1>1, SameImage, Zenon
  <2>3. \A f : Loaded(f)' <=> Loaded(f)
    BY <1>1, <1>4, Zenon DEF Loaded, Loading
  <2>4. Memory'
    BY <1>1, <1>4, <2>2, <2>3, Zenon DEF Inv, Memory
  <2>5. Phases'
    BY <1>1, <1>2, <1>4, <2>1, <2>2, Zenon DEF Phases, Loading
  <2> QED  BY <1>1, <1>4, <2>1, <2>4, <2>5, StartingInv, Zenon DEF Loading
<1> QED  BY <1>3, <1>4, Zenon DEF Restore

LEMMA ReloadInv ==
  ASSUME Inv, Reload
  PROVE  Inv'
<1> DEFINE s == Order[at]
<1>1. /\ phase = "reload" /\ Starting /\ saving' = Idle
      /\ UNCHANGED <<saving, version, odd, owed, written>>
  BY Zenon DEF Reload, Starting, Inv, Phases, Loading
<1>2. /\ at \in DOMAIN Order /\ s = "contacts" /\ s \in Stores /\ ~Good("contacts")
      /\ s \in Files /\ IsDir(dir)
  BY <1>1, Constants, FileNames, Zenon DEF Inv, Phases, Loading, Disk, Image
<1>3. CASE LoadOf(s) # Corrupt /\ Proceeds(LoadOf(s)) /\ NoFault /\ UNCHANGED diskVars
  <2>1. LoadOf(s) = dir[s].file /\ dir[s].file # Missing
    BY <1>1, <1>2, <1>3, LoadTakes, Zenon DEF Inv, Phases
  <2>2. LoadOf(s) \in Holds(s)
    BY <1>2, <2>1, Zenon DEF IsDir
  <2>3. Memory' /\ Phases'
    BY <1>1, <1>2, <1>3, <2>2, ProceedsSound, Zenon DEF Loading
  <2> QED  BY <1>1, <1>3, <2>3, StartingInv, Zenon DEF Loading
<1>4. CASE /\ LoadOf(s) = Corrupt /\ Proceeds(EmptyOf(s))
           /\ \/ NoFault /\ \E kept \in {dir[s].aside, dir[s].aside \ Latest(s)} :
                                 Quarantine(s, kept)
              \/ Fault /\ UNCHANGED diskVars
  <2>1. EmptyOf(s) \in Holds(s)
    BY <1>2, EmptyHolds, Zenon DEF Inv, Made
  <2>2. Memory' /\ Phases'
    BY <1>1, <1>2, <1>4, <2>1, ProceedsSound, Zenon DEF Loading
  <2>3. UNCHANGED diskVars \/ (Image(dir') /\ images' = images \cup {dir'})
    BY <1>2, <1>4, SetAside, Zenon
  <2> QED  BY <1>1, <1>4, <2>2, <2>3, StartingInv, Zenon DEF Loading
<1> QED  BY <1>3, <1>4, Zenon DEF Reload

-----------------------------------------------------------------------------
(***************************************************************************)
(* What the app and the mesh do.                                           *)
(***************************************************************************)
(* Newer contents, or less that is owed, ask no more of a directory.       *)
LEMMA AsksNoMore ==
  ASSUME version \in Nat, version' \in Nat, version' >= version, odd \subseteq odd',
         owed' \subseteq owed, UNCHANGED written
  PROVE  /\ \A f : Holds(f) \subseteq Holds(f)' /\ (Good(f)' => Good(f))
         /\ \A d : Image(d) => Image(d)'
<1>1. \A f : Holds(f) \subseteq Holds(f)' /\ (Good(f)' => Good(f))
  BY DEF Holds, Good
<1>2. \A d : IsDir(d) => IsDir(d)'
  BY <1>1, Zenon DEF IsDir
<1>3. \A d : (Owes(d) => Owes(d)') /\ (Keeps(d) => Keeps(d)')
  BY <1>1, Zenon DEF Owes, Keeps
<1> QED  BY <1>1, <1>2, <1>3, Zenon DEF Image

LEMMA UpIsLoaded ==
  ASSUME phase = "up", NEW s \in Stores
  PROVE  Loaded(s)
  BY Constants, Zenon DEF Loaded

(* The daemon is up, before and after, and does not save.                  *)
LEMMA UpPhases ==
  ASSUME phase' = "up"
  PROVE  Phases'
  BY Zenon DEF Phases, Loading

LEMMA ChangeInv ==
  ASSUME Inv, NEW s \in Lists, Change(s)
  PROVE  Inv'
<1>1. /\ phase = "up" /\ saving = Idle /\ version' = version + 1
      /\ mem' = [mem EXCEPT ![s] = version'] /\ odd' \in {odd, odd \cup {version'}}
      /\ UNCHANGED <<phase, at, saving, dir, images, keys, faults, owed, written>>
  BY Zenon DEF Change, Acts, Free, diskVars
<1>2. /\ version \in Nat /\ version' \in Nat /\ version' >= version /\ odd \subseteq odd'
      /\ odd' \subseteq Nat
  BY <1>1 DEF Inv, Made
<1>3. /\ \A f : Holds(f) \subseteq Holds(f)' /\ (Good(f)' => Good(f))
      /\ \A d : Image(d) => Image(d)'
  BY <1>1, <1>2, AsksNoMore, Zenon
<1>4. s \in Files /\ s \in Numbered /\ s # "messages" /\ s # "identity"
  BY FileNames, Zenon DEF Numbered
<1>5. Made'
  <2>1. \A f \in Numbered : written[f] <= version'
    BY <1>1, <1>2, FileNames DEF Inv, Made
  <2> QED  BY <1>1, <1>2, <2>1, Zenon DEF Inv, Made
<1>6. Disk'
  BY <1>1, <1>3, Zenon DEF Inv, Disk
<1>7. /\ mem' \in [Files -> Values] /\ mem'[s] = version'
      /\ \A f \in Files \ {s} : mem'[f] = mem[f]
  BY <1>1, <1>2, <1>4, Zenon DEF Inv, Memory, Values
<1>8. Memory'
  <2>1. version' \in Holds(s)'
    BY <1>2, <1>4 DEF Holds
  <2>2. \A f \in Files : mem'[f] \in Holds(f)'
    BY <1>3, <1>7, <2>1, Zenon DEF Inv, Memory
  <2>3. owed' \subseteq Range(mem'["messages"])
    BY <1>1, <1>4, <1>7, UpIsLoaded, Constants, FileNames, Zenon DEF Inv, Memory
  <2>4. \A f \in Lists : Good(f)' => mem'[f] >= written'[f]
    <3> TAKE f \in Lists
    <3>1. CASE f = s
      BY <1>1, <1>4, <1>5, <1>7, <3>1, Zenon DEF Made
    <3>2. CASE f # s
      BY <1>1, <1>3, <1>7, <3>2, UpIsLoaded, FileNames, Zenon DEF Inv, Memory
    <3> QED  BY <3>1, <3>2, Zenon
  <2> QED  BY <1>7, <2>2, <2>3, <2>4, Zenon DEF Memory
<1>9. Phases' /\ Save'
  BY <1>1, UpPhases, Zenon DEF Save
<1> QED  BY <1>5, <1>6, <1>8, <1>9, Zenon DEF Inv

(* Queues.                                                                 *)
LEMMA RangeAppend ==
  ASSUME NEW q \in Seq(Messages), NEW m \in Messages
  PROVE  Append(q, m) \in Seq(Messages) /\ Range(q) \subseteq Range(Append(q, m))
<1>1. \A i \in DOMAIN q : i \in DOMAIN Append(q, m) /\ Append(q, m)[i] = q[i]
  OBVIOUS
<1> QED  BY <1>1 DEF Range

LEMMA RangeTail ==
  ASSUME NEW q \in Seq(Messages), q # <<>>
  PROVE  /\ Tail(q) \in Seq(Messages) /\ Len(Tail(q)) = Len(q) - 1
         /\ Range(q) \subseteq Range(Tail(q)) \cup {Head(q)}
<1>1. Tail(q) \in Seq(Messages) /\ Len(Tail(q)) = Len(q) - 1
  OBVIOUS
<1>2. ASSUME NEW i \in DOMAIN q, i # 1
      PROVE  i - 1 \in DOMAIN Tail(q) /\ Tail(q)[i - 1] = q[i]
  BY <1>2
<1>3. Head(q) = q[1]
  OBVIOUS
<1> QED  BY <1>1, <1>2, <1>3 DEF Range

LEMMA KeptQueue ==
  ASSUME NEW q \in Queues, NEW m \in Messages
  PROVE  Kept(Append(q, m)) \in Queues
<1>1. /\ Append(q, m) \in Seq(Messages) /\ Len(Append(q, m)) = Len(q) + 1 /\ Len(q) \in Nat
      /\ Append(q, m) # <<>>
  BY DEF Queues
<1>2. /\ Tail(Append(q, m)) \in Seq(Messages)
      /\ Len(Tail(Append(q, m))) = Len(Append(q, m)) - 1
  BY <1>1, RangeTail, Zenon
<1> QED  BY <1>1, <1>2, Constants DEF Kept, Queues

(* The daemon is up and its queue has changed, and what is owed with it.   *)
LEMMA NewQueue ==
  ASSUME Inv, phase = "up", NEW q \in Queues, mem' = [mem EXCEPT !["messages"] = q],
         owed' \subseteq owed, owed' \subseteq Range(q),
         version' \in Nat, version' >= version,
         UNCHANGED <<phase, at, dir, images, odd, keys, faults, written>>
  PROVE  /\ Made' /\ Disk' /\ Memory' /\ Phases'
         /\ mem'["messages"] = q
<1>1. /\ \A f : Holds(f) \subseteq Holds(f)' /\ (Good(f)' => Good(f))
      /\ \A d : Image(d) => Image(d)'
  BY AsksNoMore, Zenon DEF Inv, Made
<1>2. Made'
  <2>1. \A f \in Numbered : written[f] <= version'
    BY FileNames DEF Inv, Made
  <2> QED  BY <2>1, Zenon DEF Inv, Made
<1>3. Disk'
  BY <1>1, Zenon DEF Inv, Disk
<1>4. /\ mem' \in [Files -> Values] /\ mem'["messages"] = q
      /\ \A f \in Files \ {"messages"} : mem'[f] = mem[f]
  BY FileNames, Zenon DEF Inv, Memory, Values
<1>5. q \in Holds("messages")'
  BY Zenon DEF Holds
<1>6. \A f \in Files : mem'[f] \in Holds(f)'
  BY <1>1, <1>4, <1>5, Zenon DEF Inv, Memory
<1>7. \A f \in Lists : Good(f)' => mem'[f] >= written'[f]
  BY <1>1, <1>4, UpIsLoaded, FileNames, Zenon DEF Inv, Memory
<1>8. Memory'
  BY <1>4, <1>6, <1>7, Zenon DEF Memory
<1> QED  BY <1>2, <1>3, <1>4, <1>8, UpPhases, Zenon

LEMMA ReceiveInv ==
  ASSUME Inv, NEW m \in Messages, Receive(m)
  PROVE  Inv'
<1>1. /\ phase = "up" /\ saving = Idle /\ version' = version + 1
      /\ UNCHANGED <<phase, at, dir, images, odd, keys, faults, written>>
  BY Zenon DEF Receive, Acts, Free, diskVars
<1>2. version \in Nat /\ version' \in Nat /\ version' >= version
  BY <1>1 DEF Inv, Made
<1>3. mem["messages"] \in Queues /\ owed \subseteq Range(mem["messages"])
  BY <1>1, UpIsLoaded, Constants, FileNames, Zenon DEF Inv, Memory, Holds
<1>4. CASE Heard(m)
  <2>1. UNCHANGED <<mem, saving, owed>>
    BY <1>4, Zenon DEF Receive
  <2>2. mem' = [mem EXCEPT !["messages"] = mem["messages"]]
    BY <2>1, FileNames, Zenon DEF Inv, Memory
  <2>3. Made' /\ Disk' /\ Memory' /\ Phases'
    BY <1>1, <1>2, <1>3, <2>1, <2>2, NewQueue, Zenon
  <2> QED  BY <1>1, <2>1, <2>3, Zenon DEF Inv, Save
<1>5. CASE ~Heard(m)
  <2> DEFINE queue == Append(mem["messages"], m)
             kept  == Kept(queue)
  <2>1. /\ mem' = [mem EXCEPT !["messages"] = kept]
        /\ saving' = Begin("messages", kept, "store")
        /\ owed' = owed \ (Range(queue) \ Range(kept))
    BY <1>5, Zenon DEF Receive, InboxSave
  <2>2. kept \in Queues
    BY <1>3, KeptQueue, Zenon
  <2>3. Range(mem["messages"]) \subseteq Range(queue)
    BY <1>3, RangeAppend, Zenon DEF Queues
  <2> HIDE DEF queue, kept
  <2>4. owed' \subseteq owed /\ owed' \subseteq Range(kept)
    BY <1>3, <2>1, <2>3, Zenon
  <2>5. Made' /\ Disk' /\ Memory' /\ Phases' /\ mem'["messages"] = kept
    BY <1>1, <1>2, <2>1, <2>2, <2>4, NewQueue, Zenon
  <2>6. /\ saving' \in Saves /\ saving'.step = "write" /\ saving'.f = "messages"
        /\ saving'.data = kept /\ saving'.why = "store"
    BY <2>1, <2>2, FileNames, Zenon DEF Begin, Saves, Values
  <2>7. Save'
    BY <1>1, <2>2, <2>5, <2>6, Zenon DEF Save, Holds, Flushing
  <2> QED  BY <2>5, <2>7, Zenon DEF Inv
<1> QED  BY <1>4, <1>5, Zenon

LEMMA CollectInv ==
  ASSUME Inv, Collect
  PROVE  Inv'
<1> DEFINE q == mem["messages"]
<1>1. /\ phase = "up" /\ saving = Idle /\ q # <<>> /\ owed' = owed \ {Head(q)}
      /\ mem' = [mem EXCEPT !["messages"] = Tail(q)]
      /\ UNCHANGED <<phase, at, saving, dir, images, version, odd, keys, faults, written>>
  BY Zenon DEF Collect, Free, diskVars, madeVars
<1>2. q \in Queues /\ owed \subseteq Range(q)
  BY <1>1, UpIsLoaded, Constants, FileNames, Zenon DEF Inv, Memory, Holds
<1> HIDE DEF q
<1>3. /\ Tail(q) \in Seq(Messages) /\ Len(Tail(q)) = Len(q) - 1
      /\ Range(q) \subseteq Range(Tail(q)) \cup {Head(q)}
  BY <1>1, <1>2, RangeTail, Zenon DEF Queues
<1>4. Tail(q) \in Queues
  BY <1>2, <1>3, Constants DEF Queues
<1>5. owed' \subseteq Range(Tail(q))
  BY <1>1, <1>2, <1>3, Zenon
<1>6. version' \in Nat /\ version' >= version
  BY <1>1 DEF Inv, Made
<1>7. Made' /\ Disk' /\ Memory' /\ Phases'
  BY <1>1, <1>4, <1>5, <1>6, NewQueue, Zenon
<1> QED  BY <1>1, <1>7, Zenon DEF Inv, Save

(* A save has returned, and what it wrote is promised from now on if it    *)
(* succeeded.                                                              *)
LEMMA Promises ==
  ASSUME Inv, saving # Idle, phase = "up",
         owed' = IF Saved /\ saving.f = "messages" THEN owed \cup Range(saving.data) ELSE owed,
         Records(saving.f), UNCHANGED <<diskVars, madeVars>>
  PROVE  /\ Made' /\ Disk' /\ \A f : Holds(f)' = Holds(f)
         /\ owed' \subseteq Range(mem["messages"])
         /\ \A f \in Lists : Good(f)' => mem[f] >= written'[f]
<1>1. /\ saving \in Saves /\ saving.f \in Files /\ saving.data \in Holds(saving.f)
      /\ saving.f \in Stores => saving.data = mem[saving.f]
      /\ saving.f # "identity"
      /\ Saved => dir[saving.f].file = saving.data /\ images = {dir}
  BY BusySave, FileNames, Zenon DEF Inv, Save, Saved, Saves, Flushing
<1>2. UNCHANGED <<dir, images, version, odd, keys, faults>>
  BY Zenon DEF diskVars, madeVars
<1>3. \A f : Holds(f)' = Holds(f)
  BY <1>2, Zenon DEF Holds
<1>4. \A d : IsDir(d)' <=> IsDir(d)
  BY <1>3, Zenon DEF IsDir
<1>5. /\ written \in [Files -> Nat] /\ mem \in [Files -> Values] /\ dir \in images
      /\ \A f \in Numbered : written[f] <= version
      /\ \A d \in images : Image(d)
      /\ owed \subseteq Range(mem["messages"])
      /\ \A f \in Lists : Good(f) => mem[f] >= written[f]
  BY UpIsLoaded, Constants, FileNames, Zenon DEF Inv, Made, Disk, Memory
<1>6. CASE ~(Saved /\ saving.f # "messages")
  <2>1. written' = written
    BY <1>6, Zenon DEF Records
  <2>2. \A f : Good(f)' <=> Good(f)
    BY <1>2, <2>1, Zenon DEF Good
  <2>3. Made'
    BY <1>2, <2>1, Zenon DEF Inv, Made
  <2>4. owed' \subseteq Range(mem["messages"])
    BY <1>1, <1>5, Constants, Zenon
  <2>5. \A d \in images : Owes(d)'
    <3>1. CASE owed' = owed
      BY <1>5, <3>1, Zenon DEF Image, Owes
    <3>2. CASE owed' # owed
      <4>1. Saved /\ saving.f = "messages"
        BY <3>2, Zenon
      <4>2. images = {dir} /\ dir["messages"].file = saving.data /\ saving.data = mem["messages"]
        BY <1>1, <4>1, Constants, Zenon
      <4>3. saving.data # Missing
        BY <1>1, <4>1, NoContent, Zenon DEF Holds
      <4> QED  BY <2>4, <4>2, <4>3, Zenon DEF Owes
    <3> QED  BY <3>1, <3>2, Zenon
  <2>6. \A d \in images : Image(d)'
    BY <1>4, <1>5, <2>1, <2>2, <2>5, Zenon DEF Image, Keeps
  <2>7. Disk'
    BY <1>2, <1>5, <2>6, Zenon DEF Disk
  <2> QED  BY <1>3, <1>5, <2>1, <2>2, <2>3, <2>4, <2>7, Zenon
<1>7. CASE Saved /\ saving.f # "messages"
  <2>1. /\ written' = [written EXCEPT ![saving.f] = saving.data] /\ owed' = owed
        /\ images = {dir} /\ dir[saving.f].file = saving.data
    BY <1>1, <1>7, Zenon DEF Records
  <2>2. saving.data \in 0 .. version /\ version \in Nat /\ saving.f \in Numbered
    BY <1>1, <1>7, Zenon DEF Holds, Numbered, Inv, Made
  <2>3. /\ written' \in [Files -> Nat] /\ written'[saving.f] = saving.data
        /\ \A f \in Files \ {saving.f} : written'[f] = written[f]
    <3>1. written \in [Files -> Nat] /\ saving.f \in Files /\ saving.data \in Nat
      BY <1>1, <1>5, <2>2, SMTT(30)
    <3> QED  BY <2>1, <3>1, Zenon
  <2>4. \A f \in Files \ {saving.f} : Good(f)' <=> Good(f)
    BY <1>2, <2>3, Zenon DEF Good
  <2>5. Made'
    <3>1. \A f \in Numbered : written'[f] <= version'
      BY <1>2, <1>5, <2>2, <2>3, FileNames
    <3> QED  BY <1>2, <2>3, <3>1, Zenon DEF Inv, Made
  <2>6. IsDir(dir) /\ Owes(dir) /\ Keeps(dir)
    BY <1>5, Zenon DEF Image
  <2>7. Keeps(dir)'
    <3> SUFFICES ASSUME NEW f \in Numbered, Good(f)'
                 PROVE  dir[f].file # Missing /\ dir[f].file >= written'[f]
      BY <1>2, Zenon DEF Keeps
    <3>1. CASE f = saving.f
      BY <2>1, <2>2, <2>3, <3>1, NoContent, SMTT(30)
    <3>2. CASE f # saving.f
      <4>1. f \in Files \ {saving.f}
        BY <3>2, FileNames, Zenon
      <4>2. Good(f) /\ written'[f] = written[f]
        BY <2>3, <2>4, <4>1, Zenon
      <4> QED  BY <2>6, <4>2, Zenon DEF Keeps
    <3> QED  BY <3>1, <3>2, Zenon
  <2>8. Disk'
    <3>1. Owes(dir)'
      BY <1>2, <2>1, <2>6, Zenon DEF Owes
    <3>2. IsDir(dir)'
      BY <1>2, <1>3, <2>6, Zenon DEF IsDir
    <3>3. Image(dir)'
      BY <2>7, <3>1, <3>2, Zenon DEF Image
    <3> QED  BY <1>2, <1>5, <2>1, <3>3, Zenon DEF Disk
  <2>9. \A f \in Lists : Good(f)' => mem[f] >= written'[f]
    <3> TAKE f \in Lists
    <3>1. CASE f = saving.f
      <4>1. mem[f] = saving.data
        BY <1>1, <3>1, FileNames, Zenon
      <4> QED  BY <2>2, <2>3, <3>1, <4>1
    <3>2. CASE f # saving.f
      BY <1>5, <2>3, <2>4, <3>2, FileNames, Zenon
    <3> QED  BY <3>1, <3>2, Zenon
  <2> QED  BY <1>3, <1>5, <2>1, <2>5, <2>8, <2>9, Zenon
<1> QED  BY <1>6, <1>7, Zenon

LEMMA StoredInv ==
  ASSUME Inv, Stored
  PROVE  Inv'
<1>1. /\ saving # Idle /\ saving.why = "store" /\ saving' = Idle
      /\ owed' = IF Saved THEN owed \cup Range(saving.data) ELSE owed
      /\ UNCHANGED <<phase, at, mem, diskVars, madeVars, written>>
  BY Zenon DEF Stored, Over
<1>2. phase = "up" /\ saving.f = "messages"
  BY <1>1, Zenon DEF Inv, Save
<1>3. Records(saving.f)
  BY <1>1, <1>2, Zenon DEF Records
<1>4. /\ Made' /\ Disk' /\ \A f : Holds(f)' = Holds(f)
      /\ owed' \subseteq Range(mem["messages"])
      /\ \A f \in Lists : Good(f)' => mem[f] >= written'[f]
  BY <1>1, <1>2, <1>3, Promises, Zenon
<1>5. Memory'
  BY <1>1, <1>4, Zenon DEF Inv, Memory
<1> QED  BY <1>1, <1>2, <1>4, <1>5, UpPhases, Zenon DEF Inv, Save

LEMMA SetReturnsInv ==
  ASSUME Inv, SetReturns
  PROVE  Inv'
<1>1. /\ saving # Idle /\ saving.why = "set" /\ saving' = Idle /\ Records("settings")
      /\ mem' = IF Saved THEN [mem EXCEPT !["settings"] = saving.data] ELSE mem
      /\ UNCHANGED <<phase, at, diskVars, madeVars, owed>>
  BY Zenon DEF SetReturns, Over
<1>2. /\ phase = "up" /\ saving.f = "settings" /\ saving.data \in Holds("settings")
      /\ saving.data \in Values
  BY <1>1, Zenon DEF Inv, Save, Saves
<1>3. /\ Made' /\ Disk' /\ \A f : Holds(f)' = Holds(f)
      /\ owed' \subseteq Range(mem["messages"])
      /\ \A f \in Lists : Good(f)' => mem[f] >= written'[f]
  BY <1>1, <1>2, Promises, Zenon
<1>4. /\ mem' \in [Files -> Values] /\ \A f \in Files : mem'[f] \in Holds(f)
      /\ \A f \in Stores : mem'[f] = mem[f]
  <2>1. CASE Saved
    BY <1>1, <1>2, <2>1, FileNames, Zenon DEF Inv, Memory
  <2>2. CASE ~Saved
    BY <1>1, <2>2, Zenon DEF Inv, Memory
  <2> QED  BY <2>1, <2>2, Zenon
<1>5. Memory'
  BY <1>3, <1>4, Constants, FileNames, Zenon DEF Memory
<1> QED  BY <1>1, <1>2, <1>3, <1>5, UpPhases, Zenon DEF Inv, Save

LEMMA SetInv ==
  ASSUME Inv, Set
  PROVE  Inv'
<1>1. /\ phase = "up" /\ version' = version + 1 /\ saving' = Begin("settings", version', "set")
      /\ UNCHANGED <<phase, at, mem, dir, images, odd, keys, faults, owed, written>>
  BY Zenon DEF Set, Acts, Free, diskVars, SettingsSave
<1>2. /\ version \in Nat /\ version' \in Nat /\ version' >= version
      /\ written["settings"] <= version /\ written["settings"] \in Nat
  BY <1>1, FileNames DEF Inv, Made
<1>3. mem["messages"] \in Queues /\ owed \subseteq Range(mem["messages"])
  BY <1>1, UpIsLoaded, Constants, FileNames, Zenon DEF Inv, Memory, Holds
<1>4. mem' = [mem EXCEPT !["messages"] = mem["messages"]]
  BY <1>1, FileNames, Zenon DEF Inv, Memory
<1>5. Made' /\ Disk' /\ Memory' /\ Phases'
  BY <1>1, <1>2, <1>3, <1>4, NewQueue, Zenon
<1>6. /\ saving' \in Saves /\ saving'.step = "write" /\ saving'.f = "settings"
      /\ saving'.data = version' /\ saving'.why = "set"
  BY <1>1, <1>2, FileNames, Zenon DEF Begin, Saves, Values
<1>7. Save'
  BY <1>1, <1>2, <1>6, FileNames, SMTT(30) DEF Save, Holds, Flushing
<1> QED  BY <1>5, <1>7, Zenon DEF Inv

-----------------------------------------------------------------------------
(***************************************************************************)
(* Flushes, deaths, and the whole.                                         *)
(***************************************************************************)
(* A process that ends forgets all and saves nothing.                      *)
LEMMA DeadForgets ==
  ASSUME Dead, version' \in Nat
  PROVE  Memory' /\ Phases' /\ Save'
<1>1. phase' = "down" /\ mem' = Fresh /\ saving' = Idle
  BY Zenon DEF Dead
<1>2. mem' \in [Files -> Values] /\ \A f \in Files : mem'[f] \in Holds(f)'
  <2>1. ASSUME NEW f \in Files
        PROVE  mem'[f] = EmptyOf(f) /\ EmptyOf(f) \in Holds(f)' /\ EmptyOf(f) \in Values
    <3>1. <<>> \in Queues
      BY Constants DEF Queues
    <3> QED  BY <1>1, <2>1, <3>1 DEF Fresh, EmptyOf, Holds, Values
  <2> QED  BY <1>1, <2>1, Zenon DEF Fresh
<1>3. \A s : ~Loaded(s)'
  BY <1>1, Zenon DEF Loaded, Loading
<1>4. Memory'
  BY <1>2, <1>3, Zenon DEF Memory
<1>5. Phases'
  BY <1>1, Zenon DEF Phases, Loading
<1> QED  BY <1>1, <1>4, <1>5, Zenon DEF Save

(* flush() ends, or goes on to the next store that is dirty, whose save    *)
(* writes what memory holds.                                               *)
LEMMA FlushesSound ==
  ASSUME phase = "up", Memory, version \in Nat, NEW from \in Nat \ {0}, NEW result,
         NEW why \in Flushing, Flushes(from, result, why),
         Made', Disk', \A f : Holds(f)' = Holds(f), UNCHANGED <<version, dir, images>>,
         owed' \subseteq Range(mem["messages"]),
         \A f \in Lists : Good(f)' => mem[f] >= written'[f]
  PROVE  Inv'
<1>1. CASE Dead
  BY <1>1, DeadForgets, Zenon DEF Inv
<1>2. CASE ~Dead
  <2>1. /\ \/ saving' = Idle
           \/ \E i \in Due(from) : saving' = SaveOf(Order[i], why)
        /\ UNCHANGED <<phase, at, mem>>
    BY <1>2, Zenon DEF Flushes
  <2>2. Memory'
    BY <2>1, Zenon DEF Memory
  <2>3. Phases'
    BY <2>1, UpPhases, Zenon
  <2>4. CASE saving' = Idle
    BY <2>2, <2>3, <2>4, Zenon DEF Inv, Save
  <2>5. CASE \E i \in Due(from) : saving' = SaveOf(Order[i], why)
    <3>1. PICK i \in Due(from) : saving' = SaveOf(Order[i], why)
      BY <2>5, Zenon
    <3>2. i \in DOMAIN Order
      BY Constants DEF Due
    <3> DEFINE s == Order[i]
    <3>3. s \in Stores
      BY <3>2, Constants, Zenon
    <3>4. saving' = Begin(s, mem[s], why)
      BY <3>1, <3>3, SaveOfStore, Zenon
    <3> HIDE DEF s
    <3>5. s \in Files /\ mem[s] \in Values /\ mem[s] \in Holds(s)'
      BY <3>3, FileNames, Zenon DEF Memory
    <3>6. /\ saving' \in Saves /\ saving'.step = "write" /\ saving'.f = s
          /\ saving'.data = mem[s] /\ saving'.why = why
      BY <3>3, <3>4, <3>5, Zenon DEF Begin, Saves
    <3>7. Save'
      BY <2>1, <3>3, <3>5, <3>6, Zenon DEF Save, Flushing
    <3> QED  BY <2>2, <2>3, <3>7, Zenon DEF Inv
  <2> QED  BY <2>1, <2>4, <2>5, Zenon
<1> QED  BY <1>1, <1>2, Zenon

LEMMA FlushInv ==
  ASSUME Inv, NEW why \in Flushing, Flush(why)
  PROVE  Inv'
<1>1. /\ phase = "up" /\ Flushes(1, TRUE, why) /\ version \in Nat /\ Memory
      /\ UNCHANGED <<dir, images, version, odd, keys, faults, owed, written>>
  BY Zenon DEF Flush, Free, diskVars, madeVars, Inv, Made
<1>2. /\ \A f : Holds(f)' = Holds(f) /\ (Good(f)' <=> Good(f))
      /\ \A d : Image(d)' <=> Image(d)
  BY <1>1, SameImage, Zenon
<1>3. Made' /\ Disk'
  BY <1>1, <1>2, Zenon DEF Inv, Made, Disk
<1>4. /\ owed' \subseteq Range(mem["messages"])
      /\ \A f \in Lists : Good(f)' => mem[f] >= written'[f]
  BY <1>1, <1>2, UpIsLoaded, Constants, FileNames, Zenon DEF Memory
<1>5. 1 \in Nat \ {0} /\ \A f : Holds(f)' = Holds(f)
  BY <1>2
<1> QED  BY <1>1, <1>3, <1>4, <1>5, FlushesSound, Zenon

LEMMA FlushReturnsInv ==
  ASSUME Inv, tried \in Nat, FlushReturns
  PROVE  Inv'
<1>1. PICK why \in Flushing : Over(why) /\ Flushes(tried + 1, ok /\ Saved, why)
  BY Zenon DEF FlushReturns, Flushing
<1>2. saving # Idle /\ saving.why = why /\ phase = "up" /\ version \in Nat /\ Memory
  BY <1>1, Zenon DEF Over, Inv, Save, Made, Flushing
<1>3. /\ owed' = IF Saved /\ saving.f = "messages" THEN owed \cup Range(saving.data) ELSE owed
      /\ Records(saving.f) /\ UNCHANGED <<diskVars, madeVars>>
      /\ UNCHANGED <<version, dir, images>>
  BY Zenon DEF FlushReturns, diskVars, madeVars
<1>4. /\ Made' /\ Disk' /\ \A f : Holds(f)' = Holds(f)
      /\ owed' \subseteq Range(mem["messages"])
      /\ \A f \in Lists : Good(f)' => mem[f] >= written'[f]
  BY <1>2, <1>3, Promises, Zenon
<1>5. tried + 1 \in Nat \ {0}
  OBVIOUS
<1> QED  BY <1>1, <1>2, <1>3, <1>4, <1>5, FlushesSound, Zenon

LEMMA DiesInv ==
  ASSUME Inv, Dies, dir' \in images, images' \subseteq images, dir' \in images'
  PROVE  Inv'
<1>1. /\ Fault /\ Dead
      /\ UNCHANGED <<version, odd, keys, owed, written>>
  BY Zenon DEF Dies
<1>2. \A d : Image(d)' <=> Image(d)
  BY <1>1, SameImage, Zenon
<1>3. Made'
  BY <1>1, FaultCounts, Zenon DEF Inv, Made
<1>4. Disk'
  BY <1>2, Zenon DEF Inv, Disk
<1>5. Memory' /\ Phases' /\ Save'
  BY <1>1, <1>3, DeadForgets, Zenon DEF Made
<1> QED  BY <1>3, <1>4, <1>5, Zenon DEF Inv

LEMMA ExpireInv ==
  ASSUME Inv, NEW m, Expire(m)
  PROVE  Inv'
<1>1. UNCHANGED <<phase, at, mem, saving, dir, images, version, odd, keys, faults, owed,
                  written>>
  BY Zenon DEF Expire, diskVars, madeVars
<1>2. /\ \A f : Holds(f)' = Holds(f) /\ (Good(f)' <=> Good(f))
      /\ \A d : Image(d)' <=> Image(d)
  BY <1>1, SameImage, Zenon
<1>3. Made' /\ Disk'
  BY <1>1, <1>2, Zenon DEF Inv, Made, Disk
<1>4. Memory' /\ Phases'
  BY <1>1, SameMemory, Zenon DEF Inv, Phases
<1>5. Save'
  BY <1>1, <1>2, Zenon DEF Inv, Save
<1> QED  BY <1>3, <1>4, <1>5, Zenon DEF Inv

LEMMA StutterInv ==
  ASSUME Inv, UNCHANGED vars
  PROVE  Inv'
<1>1. UNCHANGED <<phase, at, mem, saving, dir, images, version, odd, keys, faults, owed,
                  written>>
  BY Zenon DEF vars, memVars, diskVars, madeVars
<1>2. /\ \A f : Holds(f)' = Holds(f) /\ (Good(f)' <=> Good(f))
      /\ \A d : Image(d)' <=> Image(d)
  BY <1>1, SameImage, Zenon
<1>3. Made' /\ Disk'
  BY <1>1, <1>2, Zenon DEF Inv, Made, Disk
<1>4. Memory' /\ Phases'
  BY <1>1, SameMemory, Zenon DEF Inv, Phases
<1>5. Save'
  BY <1>1, <1>2, Zenon DEF Inv, Save
<1> QED  BY <1>3, <1>4, <1>5, Zenon DEF Inv

LEMMA InitInv ==
  ASSUME Init
  PROVE  Inv
<1>1. /\ phase = "down" /\ mem = Fresh /\ saving = Idle /\ dir = NoFiles /\ images = {NoFiles}
      /\ version = 0 /\ odd = {} /\ keys = 0 /\ faults = 0
      /\ owed = {} /\ written = [f \in Files |-> 0]
  BY Zenon DEF Init
<1>2. Made
  BY <1>1, FileNames DEF Made
<1>3. \A f \in Files : ~Good(f)
  <2>1. \A f \in Files : written[f] = 0
    BY <1>1, Zenon
  <2> QED  BY <2>1 DEF Good
<1>4. IsDir(NoFiles)
  <2>1. NoFiles \in [Files -> Slots]
    BY Zenon DEF NoFiles, Slots, Values
  <2> QED  BY <2>1, Zenon DEF IsDir, NoFiles
<1>5. Disk
  BY <1>1, <1>3, <1>4, FileNames, Zenon DEF Disk, Image, Owes, Keeps
<1>6. Memory
  <2>1. \A f \in Files : EmptyOf(f) \in Holds(f) /\ EmptyOf(f) \in Values
    BY <1>2, EmptyHolds, Zenon DEF Made
  <2>2. \A s : ~Loaded(s)
    BY <1>1, Zenon DEF Loaded, Loading
  <2> QED  BY <1>1, <2>1, <2>2, Zenon DEF Memory, Fresh
<1>7. Phases /\ Save
  BY <1>1, Zenon DEF Phases, Loading, Save
<1> QED  BY <1>2, <1>5, <1>6, <1>7, Zenon DEF Inv

LEMMA TriedCounts ==
  ASSUME tried \in Nat, [Next]_vars
  PROVE  tried' \in Nat
<1>1. ASSUME NEW from \in Nat, NEW result, NEW why, Flushes(from, result, why)
      PROVE  tried' \in Nat
  <2>1. CASE Dead
    BY <2>1, Zenon DEF Dead
  <2>2. CASE ~Dead
    <3>1. tried' = 0 \/ tried' \in Due(from)
      BY <1>1, <2>2, Zenon DEF Flushes
    <3>2. Due(from) \subseteq Nat
      BY Constants DEF Due
    <3> QED  BY <3>1, <3>2
  <2> QED  BY <2>1, <2>2, Zenon
<1>2. \A why : Flush(why) => tried' \in Nat
  BY <1>1, Zenon DEF Flush
<1>3. FlushReturns => tried' \in Nat
  BY <1>1 DEF FlushReturns
<1>4. TimerFires \/ Sweep \/ Stop => tried' \in Nat
  BY <1>2, Zenon DEF TimerFires, Sweep, Stop
<1>5. Crash \/ PowerCut => tried' \in Nat
  BY DEF Crash, PowerCut, Dies, Dead
<1>6. Start => tried' = tried
  BY Zenon DEF Start, StartWithKey, GenerateKey, Generated, Load, Restore, Reload, Starting
<1>7. DurableReplace \/ Stored \/ SetReturns => tried' = tried
  BY Zenon DEF DurableReplace, Stored, SetReturns
<1>8. (\E s \in Lists : Change(s)) \/ (\E m \in Messages : Receive(m) \/ Expire(m))
         \/ Collect \/ Set => tried' = tried
  BY Zenon DEF Change, Receive, Expire, Collect, Set
<1>9. UNCHANGED vars => tried' = tried
  BY Zenon DEF vars, memVars
<1> QED  BY <1>3, <1>4, <1>5, <1>6, <1>7, <1>8, <1>9, Zenon DEF Next, Daemon, World

LEMMA NextInv ==
  ASSUME Inv, tried \in Nat, [Next]_vars
  PROVE  Inv'
<1>1. Start => Inv'
  BY StartWithKeyInv, GenerateKeyInv, GeneratedInv, LoadInv, RestoreInv, ReloadInv, Zenon DEF Start
<1>2. DurableReplace \/ Stored \/ SetReturns \/ FlushReturns => Inv'
  BY DurableReplaceInv, StoredInv, SetReturnsInv, FlushReturnsInv, Zenon
<1>3. TimerFires \/ Sweep \/ Stop => Inv'
  BY FlushInv, Zenon DEF TimerFires, Sweep, Stop, Flushing
<1>4. (\E s \in Lists : Change(s)) => Inv'
  BY ChangeInv, Zenon
<1>5. (\E m \in Messages : Receive(m) \/ Expire(m)) => Inv'
  BY ReceiveInv, ExpireInv, Zenon
<1>6. Collect \/ Set => Inv'
  BY CollectInv, SetInv, Zenon
<1>7. Crash => Inv'
  BY DiesInv, Zenon DEF Crash, diskVars, Inv, Disk
<1>8. PowerCut => Inv'
  BY DiesInv, Zenon DEF PowerCut
<1>9. UNCHANGED vars => Inv'
  BY StutterInv, Zenon
<1> QED  BY <1>1, <1>2, <1>3, <1>4, <1>5, <1>6, <1>7, <1>8, <1>9, Zenon DEF Next, Daemon, World

LEMMA Invariance == Spec => [](Inv /\ tried \in Nat)
<1>1. Init => Inv /\ tried \in Nat
  <2>1. Init => Inv
    BY InitInv, Zenon
  <2>2. Init => tried \in Nat
    BY DEF Init
  <2> QED  BY <2>1, <2>2, Zenon
<1>2. Inv /\ tried \in Nat /\ [Next]_vars => (Inv /\ tried \in Nat)'
  BY NextInv, TriedCounts, Zenon
<1> QED  BY <1>1, <1>2, PTL DEF Spec
-----------------------------------------------------------------------------
(***************************************************************************)
(* The key.  A directory without one is empty, and there is none once a    *)
(* save has been reported as done; those with one agree on it.  A key is   *)
(* written only where every directory that a crash may leave is empty, and *)
(* with it no key is remembered from before.                               *)
(***************************************************************************)
Keyed(d) ==
  IF d["identity"].file = Missing THEN d = NoFiles /\ ~reported
  ELSE /\ d["identity"].file = dir["identity"].file
       /\ \A k \in begunWith : d["identity"].file = k

Generating == saving # Idle /\ saving.why = "generate"

KeySave ==
  Generating => /\ begunWith = {} /\ saving.step # "link"
                /\ saving.step \in {"write", "rename"} => dir["identity"].file = Missing

KeyInv ==
  /\ \A d \in images : Keyed(d)
  /\ phase # "down" => dir["identity"].file # Missing
  /\ KeySave

(* A step that leaves the key of the directory alone, and generates none.  *)
LEMMA SameKey ==
  ASSUME Inv, KeyInv, dir'["identity"].file = dir["identity"].file,
         dir' = dir \/ dir["identity"].file # Missing, images' \subseteq images \cup {dir'},
         UNCHANGED begunWith,
         reported' => reported \/ (images' = {dir'} /\ dir["identity"].file # Missing),
         phase' # "down" => phase # "down", KeySave'
  PROVE  KeyInv'
<1>1. dir \in images /\ Keyed(dir)
  BY Zenon DEF Inv, Disk, KeyInv
<1>2. ASSUME NEW d \in images'
      PROVE  Keyed(d)'
  <2>1. CASE d = dir' /\ dir' # dir
    BY <1>1, <2>1, Zenon DEF Keyed
  <2>2. CASE d \in images
    <3>1. Keyed(d)
      BY <2>2, Zenon DEF KeyInv
    <3>2. d["identity"].file = Missing => ~reported'
      BY <1>2, <3>1, Zenon DEF Keyed
    <3> QED  BY <3>1, <3>2, Zenon DEF Keyed
  <2> QED  BY <1>1, <1>2, <2>1, <2>2, Zenon
<1> QED  BY <1>2, Zenon DEF KeyInv

(* While the daemon is up, the save in progress is not that of a key.      *)
LEMMA UpHasKey ==
  ASSUME Inv, KeyInv, saving # Idle, saving.why # "generate"
  PROVE  /\ phase = "up" /\ dir["identity"].file # Missing
         /\ saving.f \in Files /\ saving.f # "identity"
<1>1. saving.f \in Files /\ saving \in Saves
  BY BusySave, Zenon DEF Inv
<1>2. saving.f # "identity" /\ phase = "up"
  BY <1>1, FileNames, Zenon DEF Inv, Save, Saves, Flushing
<1> QED  BY <1>1, <1>2, Zenon DEF KeyInv

(* A change of one file of the directory is no change of the others.       *)
LEMMA OtherFile ==
  ASSUME Inv, NEW f \in Files \ {"identity"}, NEW x
  PROVE  /\ [dir EXCEPT ![f].bak = x]["identity"] = dir["identity"]
         /\ [dir EXCEPT ![f].file = x]["identity"] = dir["identity"]
<1>1. dir \in [Files -> Slots] /\ f \in Files /\ f # "identity" /\ "identity" \in Files
  BY FileNames, Zenon DEF Inv, Disk, Image, IsDir
<1> QED  BY <1>1, Zenon

LEMMA DurableReplaceKey ==
  ASSUME Inv, KeyInv, DurableReplace
  PROVE  KeyInv'
<1>1. saving # Idle /\ UNCHANGED <<phase, begunWith, reported>>
  BY Zenon DEF DurableReplace
<1>2. ASSUME NEW step \in {"write", "link", "rename", "sync", "saved", "failed"}, Goes(step)
      PROVE  saving' # Idle /\ saving'.step = step /\ saving'.why = saving.why
  BY <1>1, <1>2, BusySave, Zenon DEF Inv, Goes
<1>3. PICK step \in {"link", "rename", "sync", "saved", "failed"} : Goes(step)
  BY Zenon DEF DurableReplace, Syncs, Links, Renames, SyncsDirectory
<1>4. saving' # Idle /\ saving'.step = step /\ saving'.why = saving.why
  BY <1>2, <1>3, Zenon
<1>5. dir \in images
  BY Zenon DEF Inv, Disk
<1>6. CASE saving.why # "generate"
  <2>1. /\ phase = "up" /\ dir["identity"].file # Missing
        /\ saving.f \in Files /\ saving.f # "identity"
    BY <1>1, <1>6, UpHasKey, Zenon
  <2>2. KeySave'
    BY <1>4, <1>6, Zenon DEF KeySave, Generating
  <2>3. \/ dir' = dir /\ images' \subseteq images
        \/ Changes([dir EXCEPT ![saving.f].bak = Missing])
        \/ Changes([dir EXCEPT ![saving.f].bak = dir[saving.f].file])
        \/ Changes([dir EXCEPT ![saving.f].file = saving.data])
    <3>1. CASE Syncs
      BY <3>1, Zenon DEF Syncs, diskVars
    <3>2. CASE Links
      BY <3>2, Zenon DEF Links, diskVars
    <3>3. CASE Renames
      BY <3>3, Zenon DEF Renames, diskVars
    <3>4. CASE SyncsDirectory
      <4>1. dir' = dir /\ (images' = {dir} \/ images' = images)
        BY <3>4, Zenon DEF SyncsDirectory, diskVars
      <4> QED  BY <1>5, <4>1, Zenon
    <3> QED  BY <3>1, <3>2, <3>3, <3>4, Zenon DEF DurableReplace
  <2>4. dir'["identity"] = dir["identity"]
    <3>1. saving.f \in Files \ {"identity"}
      BY <2>1, Zenon
    <3>2. CASE Changes([dir EXCEPT ![saving.f].bak = Missing])
      BY <3>1, <3>2, OtherFile DEF Changes
    <3>3. CASE Changes([dir EXCEPT ![saving.f].bak = dir[saving.f].file])
      BY <3>1, <3>3, OtherFile DEF Changes
    <3>4. CASE Changes([dir EXCEPT ![saving.f].file = saving.data])
      BY <3>1, <3>4, OtherFile DEF Changes
    <3> QED  BY <2>3, <3>2, <3>3, <3>4, Zenon
  <2>5. images' \subseteq images \cup {dir'}
    BY <2>3, Zenon DEF Changes
  <2> QED  BY <1>1, <2>1, <2>2, <2>4, <2>5, SameKey, Zenon
<1>7. CASE saving.why = "generate"
  <2>1. /\ saving.f = "identity" /\ saving.f \notin Stores /\ phase = "down"
        /\ saving.data \in Nat /\ saving.data # Missing
    BY <1>1, <1>7, FileNames, NoContent, Zenon DEF Inv, Save, Holds
  <2>2. /\ begunWith = {} /\ saving.step # "link"
        /\ saving.step \in {"write", "rename"} => dir["identity"].file = Missing
    BY <1>1, <1>7, Zenon DEF KeyInv, KeySave, Generating
  <2>3. CASE Syncs
    <3>1. UNCHANGED <<dir, images>> /\ (Goes("rename") \/ Goes("failed"))
      BY <2>1, <2>3, Zenon DEF Syncs, KeepsBackup, diskVars
    <3>2. saving.step = "write" /\ dir["identity"].file = Missing
      BY <2>2, <2>3, Zenon DEF Syncs
    <3>3. saving'.step \in {"rename", "failed"}
      BY <1>2, <3>1, Zenon
    <3>4. KeySave'
      BY <1>1, <2>2, <3>1, <3>2, <3>3, Zenon DEF KeySave
    <3> QED  BY <1>1, <3>1, <3>4, SameKey, Zenon
  <2>4. ~Links
    BY <2>2, Zenon DEF Links
  <2>5. CASE Renames
    <3>1. saving.step = "rename" /\ dir["identity"].file = Missing
      BY <2>2, <2>5, Zenon DEF Renames
    <3>2. CASE UNCHANGED diskVars /\ Goes("failed")
      <4>1. KeySave'
        BY <1>1, <1>2, <2>2, <3>2, Zenon DEF KeySave
      <4> QED  BY <1>1, <3>2, <4>1, SameKey, Zenon DEF diskVars
    <3>3. CASE Goes("sync") /\ Changes([dir EXCEPT ![saving.f].file = saving.data])
      <4>1. dir'["identity"].file = saving.data /\ images' = images \cup {dir'}
        BY <1>1, <2>1, <3>3, NewImage, Zenon DEF Changes
      <4>2. \A d \in images : d["identity"].file = Missing /\ d = NoFiles /\ ~reported
        BY <3>1, Zenon DEF KeyInv, Keyed
      <4>3. \A d \in images' : Keyed(d)'
        BY <1>1, <2>1, <2>2, <4>1, <4>2, Zenon DEF Keyed
      <4>4. KeySave'
        BY <1>1, <1>2, <2>2, <3>3, Zenon DEF KeySave
      <4> QED  BY <1>1, <2>1, <4>3, <4>4, Zenon DEF KeyInv
    <3> QED  BY <2>5, <3>2, <3>3, Zenon DEF Renames
  <2>6. CASE SyncsDirectory
    <3>1. dir' = dir /\ images' \subseteq images /\ (Goes("saved") \/ Goes("failed"))
      BY <1>5, <2>6, Zenon DEF SyncsDirectory, diskVars
    <3>2. saving'.step \in {"saved", "failed"}
      BY <1>2, <3>1, Zenon
    <3>3. KeySave'
      BY <1>1, <2>2, <3>2, Zenon DEF KeySave
    <3> QED  BY <1>1, <3>1, <3>3, SameKey, Zenon
  <2> QED  BY <2>3, <2>4, <2>5, <2>6, Zenon DEF DurableReplace
<1> QED  BY <1>6, <1>7, Zenon

(* A start goes on with the key of the directory.                          *)
LEMMA StartKey ==
  ASSUME Inv, KeyInv, StartWithKey \/ GenerateKey \/ Generated
  PROVE  KeyInv'
<1>1. UNCHANGED <<dir, images>> /\ dir \in images
  BY Zenon DEF StartWithKey, GenerateKey, Generated, diskVars, Inv, Disk
<1>2. CASE StartWithKey
  <2>1. /\ dir["identity"].file # Missing /\ saving' = Idle /\ reported' = reported
        /\ begunWith' = begunWith \cup {dir["identity"].file}
    BY <1>2, Zenon DEF StartWithKey, Loads
  <2>2. \A d \in images : Keyed(d)'
    BY <1>1, <2>1, Zenon DEF KeyInv, Keyed
  <2> QED  BY <1>1, <2>1, <2>2, Zenon DEF KeyInv, KeySave, Generating
<1>3. CASE GenerateKey
  <2>1. /\ phase = "down" /\ dir["identity"].file = Missing /\ UNCHANGED <<phase, reported>>
        /\ saving' = Begin("identity", keys', "generate")
        /\ begunWith' = IF reported THEN begunWith ELSE {}
    BY <1>3, Zenon DEF GenerateKey, IdentitySave
  <2>2. ~reported
    BY <1>1, <2>1, Zenon DEF KeyInv, Keyed
  <2>3. \A d \in images : Keyed(d)'
    BY <1>1, <2>1, <2>2, Zenon DEF KeyInv, Keyed
  <2>4. saving'.step = "write"
    BY <2>1, Zenon DEF Begin
  <2> QED  BY <1>1, <2>1, <2>2, <2>3, <2>4, Zenon DEF KeyInv, KeySave
<1>4. CASE Generated
  <2>1. saving # Idle /\ saving.why = "generate" /\ saving' = Idle
    BY <1>4, Zenon DEF Generated, Over
  <2>2. saving.f = "identity" /\ phase = "down" /\ saving.data \in Nat /\ begunWith = {}
    BY <2>1, Zenon DEF Inv, Save, Holds, KeyInv, KeySave, Generating
  <2>3. KeySave'
    BY <2>1, Zenon DEF KeySave, Generating
  <2>4. CASE Saved
    <3>1. images = {dir} /\ dir["identity"].file = saving.data /\ saving.data # Missing
      BY <2>1, <2>2, <2>4, NoContent, Zenon DEF Inv, Save, Saved
    <3>2. begunWith' = {saving.data}
      BY <1>4, <2>2, <2>4, Zenon DEF Generated, Loads
    <3>3. Keyed(dir)'
      BY <1>1, <3>1, <3>2, Zenon DEF Keyed
    <3> QED  BY <1>1, <2>3, <3>1, <3>3, Zenon DEF KeyInv
  <2>5. CASE ~Saved
    <3>1. UNCHANGED <<phase, begunWith>> /\ (reported' => reported)
      BY <1>4, <2>5, Zenon DEF Generated, Reports
    <3> QED  BY <1>1, <2>3, <3>1, SameKey, Zenon
  <2> QED  BY <2>4, <2>5, Zenon
<1> QED  BY <1>2, <1>3, <1>4, Zenon

(* What a start does to the files of the stores.                           *)
LEMMA StartingKey ==
  ASSUME Inv, KeyInv, Load \/ Restore \/ Reload
  PROVE  KeyInv'
<1> DEFINE s == Order[at]
<1>1. phase \in Loading /\ Starting
  BY Zenon DEF Load, Restore, Reload, Loading
<1>2. /\ at \in DOMAIN Order /\ saving = Idle /\ phase # "down"
      /\ UNCHANGED <<saving, begunWith, reported>>
  BY <1>1, Zenon DEF Inv, Phases, Starting, Loading
<1>3. s \in Files \ {"identity"}
  BY <1>2, Constants, FileNames, Zenon
<1>4. \/ UNCHANGED diskVars
      \/ \E kept : Quarantine(s, kept)
      \/ Changes([dir EXCEPT ![s].file = dir[s].bak, ![s].bak = Missing])
  BY Zenon DEF Load, Restore, Reload
<1> HIDE DEF s
<1>5. dir'["identity"] = dir["identity"]
  <2>1. dir \in [Files -> Slots] /\ s \in Files /\ s # "identity" /\ "identity" \in Files
    BY <1>3, FileNames, Zenon DEF Inv, Disk, Image, IsDir
  <2>2. CASE UNCHANGED diskVars
    BY <2>2, Zenon DEF diskVars
  <2>3. CASE \E kept : Quarantine(s, kept)
    <3>1. PICK kept : Quarantine(s, kept)
      BY <2>3, Zenon
    <3>2. dir' = [dir EXCEPT ![s].file = Missing, ![s].aside = kept \cup {dir[s].file}]
      BY <3>1, Zenon DEF Quarantine, Changes
    <3> QED  BY <2>1, <3>2, Zenon
  <2>4. CASE Changes([dir EXCEPT ![s].file = dir[s].bak, ![s].bak = Missing])
    <3>1. dir' = [dir EXCEPT ![s].file = dir[s].bak, ![s].bak = Missing]
      BY <2>4, Zenon DEF Changes
    <3> QED  BY <2>1, <3>1, Zenon
  <2> QED  BY <1>4, <2>2, <2>3, <2>4, Zenon
<1>6. images' \subseteq images \cup {dir'}
  BY <1>4, Zenon DEF Quarantine, Changes, diskVars
<1>7. KeySave'
  BY <1>2, Zenon DEF KeySave, Generating
<1> QED  BY <1>2, <1>5, <1>6, <1>7, SameKey, Zenon DEF KeyInv

(* A save that is reported as done has left only directories with the key. *)
LEMMA ReturnsKey ==
  ASSUME Inv, KeyInv, Stored \/ SetReturns \/ FlushReturns, KeySave'
  PROVE  KeyInv'
<1>1. /\ UNCHANGED <<dir, images, begunWith>> /\ Reports
      /\ saving # Idle /\ saving.why # "generate"
  BY Zenon DEF Stored, SetReturns, FlushReturns, Over, diskVars
<1>2. phase = "up" /\ dir["identity"].file # Missing
  BY <1>1, UpHasKey, Zenon
<1>3. reported' => reported \/ images' = {dir'}
  BY <1>1, Zenon DEF Reports, Saved, Inv, Save
<1> QED  BY <1>1, <1>2, <1>3, SameKey, Zenon

(* Nothing but a start writes a key.                                       *)
LEMMA NoNewKey ==
  ASSUME tried \in Nat,
         Stored \/ SetReturns \/ FlushReturns \/ TimerFires \/ Sweep \/ Stop
         \/ (\E s \in Lists : Change(s)) \/ (\E m \in Messages : Receive(m) \/ Expire(m))
         \/ Collect \/ Set \/ Crash \/ PowerCut
  PROVE  ~Generating'
<1>1. ASSUME NEW f, NEW data, NEW why, why # "generate"
      PROVE  Begin(f, data, why).why # "generate"
  BY <1>1, Zenon DEF Begin
<1>2. ASSUME NEW from \in Nat \ {0}, NEW result, NEW why, why # "generate", Flushes(from, result, why)
      PROVE  ~Generating'
  <2>1. CASE Dead
    BY <2>1, Zenon DEF Dead, Generating
  <2>2. CASE ~Dead
    <3>1. saving' = Idle \/ \E i \in Due(from) : saving' = SaveOf(Order[i], why)
      BY <1>2, <2>2, Zenon DEF Flushes
    <3>2. CASE saving' = Idle
      BY <3>2, Zenon DEF Generating
    <3>3. CASE \E i \in Due(from) : saving' = SaveOf(Order[i], why)
      <4>1. PICK i \in Due(from) : saving' = SaveOf(Order[i], why)
        BY <3>3, Zenon
      <4>2. Order[i] \in Stores
        <5>1. i \in DOMAIN Order
          BY Constants DEF Due
        <5> QED  BY <5>1, Constants, Zenon
      <4>3. saving' = Begin(Order[i], mem[Order[i]], why)
        BY <4>1, <4>2, SaveOfStore, Zenon
      <4> QED  BY <1>1, <1>2, <4>3, Zenon DEF Generating
    <3> QED  BY <3>1, <3>2, <3>3, Zenon
  <2> QED  BY <2>1, <2>2, Zenon
<1>3. FlushReturns => ~Generating'
  <2>1. tried + 1 \in Nat \ {0}
    OBVIOUS
  <2> QED  BY <1>2, <2>1, Zenon DEF FlushReturns
<1>4. TimerFires \/ Sweep \/ Stop => ~Generating'
  <2>1. 1 \in Nat \ {0}
    OBVIOUS
  <2> QED  BY <1>2, <2>1, Zenon DEF TimerFires, Sweep, Stop, Flush
<1>5. Stored \/ SetReturns \/ Crash \/ PowerCut => ~Generating'
  BY Zenon DEF Stored, SetReturns, Crash, PowerCut, Dies, Dead, Generating
<1>6. (\E s \in Lists : Change(s)) \/ Collect => ~Generating'
  BY Zenon DEF Change, Collect, Acts, Free, Generating
<1>7. ASSUME NEW m \in Messages, Receive(m) \/ Expire(m)
      PROVE  ~Generating'
  <2>1. (saving = Idle /\ saving' = saving) \/ \E data : saving' = Begin("messages", data, "store")
    BY <1>7, Zenon DEF Receive, Expire, Acts, Free, InboxSave
  <2> QED  BY <1>1, <2>1, Zenon DEF Generating
<1>8. Set => ~Generating'
  BY <1>1, Zenon DEF Set, SettingsSave, Generating
<1> QED  BY <1>3, <1>4, <1>5, <1>6, <1>7, <1>8, Zenon

LEMMA NextKey ==
  ASSUME Inv, KeyInv, tried \in Nat, [Next]_vars
  PROVE  KeyInv'
<1>1. ASSUME ~Generating'
      PROVE  KeySave'
  BY <1>1, Zenon DEF KeySave
<1>2. Start => KeyInv'
  BY StartKey, StartingKey, Zenon DEF Start
<1>3. DurableReplace => KeyInv'
  BY DurableReplaceKey, Zenon
<1>4. Stored \/ SetReturns \/ FlushReturns => KeyInv'
  BY <1>1, NoNewKey, ReturnsKey, Zenon
<1>5. CASE TimerFires \/ Sweep \/ Stop
  <2>1. /\ UNCHANGED <<dir, images, begunWith, reported>> /\ phase # "down"
    BY <1>5, Zenon DEF TimerFires, Sweep, Stop, Flush, Free, diskVars
  <2> QED  BY <1>1, <1>5, <2>1, NoNewKey, SameKey, Zenon
<1>6. CASE \/ (\E s \in Lists : Change(s)) \/ (\E m \in Messages : Receive(m) \/ Expire(m))
           \/ Collect \/ Set
  <2>1. UNCHANGED <<phase, dir, images, begunWith, reported>>
    BY <1>6, Zenon DEF Change, Receive, Expire, Collect, Set, diskVars, madeVars
  <2> QED  BY <1>1, <1>6, <2>1, NoNewKey, SameKey, Zenon
<1>7. CASE Crash
  <2>1. UNCHANGED <<dir, images, begunWith, reported>> /\ phase' = "down"
    BY <1>7, Zenon DEF Crash, Dies, Dead, diskVars
  <2> QED  BY <1>1, <1>7, <2>1, NoNewKey, SameKey, Zenon
<1>8. CASE PowerCut
  <2>1. PICK d \in images : dir' = d /\ images' = {d}
    BY <1>8, Zenon DEF PowerCut
  <2>2. UNCHANGED <<begunWith, reported>> /\ phase' = "down"
    BY <1>8, Zenon DEF PowerCut, Dies, Dead
  <2>3. Keyed(d)'
    BY <2>1, <2>2, Zenon DEF KeyInv, Keyed
  <2> QED  BY <1>1, <1>8, <2>1, <2>2, <2>3, NoNewKey, Zenon DEF KeyInv
<1>9. CASE UNCHANGED vars
  <2>1. UNCHANGED <<phase, saving, dir, images, begunWith, reported>>
    BY <1>9, Zenon DEF vars, memVars, diskVars
  <2> QED  BY <2>1, Zenon DEF KeyInv, Keyed, KeySave, Generating
<1> QED  BY <1>2, <1>3, <1>4, <1>5, <1>6, <1>7, <1>8, <1>9, Zenon DEF Next, Daemon, World

LEMMA KeyInvariance == Spec => []KeyInv
<1>1. Init => KeyInv
  <2>1. Init => /\ phase = "down" /\ saving = Idle /\ dir = NoFiles /\ images = {NoFiles}
                /\ ~reported
    BY Zenon DEF Init
  <2>2. NoFiles["identity"].file = Missing
    BY FileNames, Zenon DEF NoFiles
  <2>3. ~reported => Keyed(NoFiles)
    BY <2>2, Zenon DEF Keyed
  <2> QED  BY <2>1, <2>3, Zenon DEF KeyInv, KeySave, Generating
<1>2. Inv /\ tried \in Nat /\ KeyInv /\ [Next]_vars => KeyInv'
  BY NextKey, Zenon
<1> QED  BY <1>1, <1>2, Invariance, PTL DEF Spec
-----------------------------------------------------------------------------
(* A message the node has acknowledged and committed is in the messages    *)
(* file of every directory that a crash or a power cut may leave, whatever *)
(* fails, until the app takes it or newer ones push it out                 *)
(* (MessageInbox::store, durable_replace).                                 *)
THEOREM AckedMessagesSurvive == Spec => []AckedSurvives
<1>1. Inv => AckedSurvives
  BY Zenon DEF Inv, Disk, Image, Owes, AckedSurvives
<1> QED  BY <1>1, Invariance, PTL

(* What a save that returned true wrote is in the file, or something newer *)
(* is, in every directory that a crash may leave (durable_replace,         *)
(* load_state).                                                            *)
THEOREM SavedContentsStay == Spec => []SavedIsNotLost
<1>1. Inv => SavedIsNotLost
  BY Zenon DEF Inv, Disk, Image, Keeps, Good, Numbered, SavedIsNotLost
<1> QED  BY <1>1, Invariance, PTL

(* Every directory that a crash may leave has the key the daemon last went *)
(* on with, found or generated, or is empty, and it is empty only as long  *)
(* as no save has been reported as done: from then on the node's key is    *)
(* its key whatever fails (App::load_or_create_identity, durable_replace). *)
THEOREM IdentityIsKept == Spec => []OneIdentity
<1>1. KeyInv => OneIdentity
  BY Zenon DEF KeyInv, Keyed, OneIdentity
<1> QED  BY <1>1, KeyInvariance, PTL

(* A start with no fault goes on from a file it cannot read only to its    *)
(* backup, while there is one that can be read (load_state).               *)
THEOREM BackupIsTriedFirst == Spec => EmptyIsLastResort
<1> DEFINE Step == \A s \in Stores :
       LET damaged == (phase = "load" /\ LoadOf(s) = Corrupt) \/ phase = "restore"
           readable == dir[s].bak # Missing /\ (s = "contacts" => dir[s].bak \notin odd)
       IN  at # 0 /\ Order[at] = s /\ damaged /\ readable /\ NoFault => at' = at
<1>1. ASSUME Inv, Next
      PROVE  Step
  <2> SUFFICES ASSUME NEW s \in Stores, Order[at] = s, NoFault, dir[s].bak # Missing,
                      (phase = "load" /\ LoadOf(s) = Corrupt) \/ phase = "restore"
               PROVE  at' = at
    BY Zenon
  <2>1. faults \in Nat /\ saving = Idle /\ phase \in Loading
    BY <1>1, Zenon DEF Inv, Made, Phases, Loading
  <2>2. ~Fault
    BY <2>1 DEF Fault, NoFault
  <2>3. CASE Load
    BY <2>3, Zenon DEF Load
  <2>4. CASE Restore
    BY <2>2, <2>4, Zenon DEF Restore
  <2>5. CASE Reload
    BY <2>5, Zenon DEF Reload
  <2>6. ~(StartWithKey \/ GenerateKey \/ Generated)
    BY <2>1, Zenon DEF StartWithKey, GenerateKey, Generated, Over, Loading
  <2>7. ~(DurableReplace \/ Stored \/ SetReturns \/ FlushReturns)
    BY <2>1, Zenon DEF DurableReplace, Stored, SetReturns, FlushReturns, Over
  <2>8. ~(TimerFires \/ Sweep \/ Stop)
    BY <2>1, Zenon DEF TimerFires, Sweep, Stop, Flush, Free, Loading
  <2>9. ~((\E c \in Lists : Change(c)) \/ (\E m \in Messages : Receive(m) \/ Expire(m)))
    BY <2>1, Zenon DEF Change, Receive, Expire, Acts, Free, Loading
  <2>10. ~(Collect \/ Set \/ Crash \/ PowerCut)
    BY <2>1, <2>2, Zenon DEF Collect, Set, Acts, Free, Crash, PowerCut, Dies, Loading
  <2> QED  BY <1>1, <2>3, <2>4, <2>5, <2>6, <2>7, <2>8, <2>9, <2>10, Zenon
           DEF Next, Daemon, World, Start
<1>2. Inv /\ [Next]_vars => [Step]_vars
  BY <1>1, Zenon
<1> QED  BY <1>2, Invariance, PTL DEF Spec, EmptyIsLastResort
=============================================================================
