------------------------------ MODULE Devices -------------------------------
(***************************************************************************)
(* The devices of an entry: the bridge, hung off the ESPHome node that     *)
(* carries it, and one per RF target (devices.py); the form a target is    *)
(* made and changed with (TargetSubentryFlow in config_flow.py); and the   *)
(* migration of an entry whose subentries are still commands               *)
(* (migration.py).                                                         *)
(*                                                                         *)
(* Home Assistant keeps the entry, the devices and the entity records in   *)
(* three files, each written some time after a change: after a power cut   *)
(* each is as it was last written. It deletes the device and the records   *)
(* of a subentry that is removed. Both are modelled as the code relies on  *)
(* them.                                                                   *)
(***************************************************************************)
EXTENDS Naturals, FiniteSets

CONSTANTS
  Commands,           \* of the bridge, learned before targets were introduced
  Targets,            \* target ids new_target_id can give
  Titles,             \* what a target is called and is: both go the same way
  Areas, NoArea,
  Nodes, NoNode,      \* ESPHome entries
  NoTarget, NoDevice,
  MaxEvents           \* bound: what users and nodes do, and power cuts

Places == Areas \cup {NoArea}

\* A target subentry, and the registry's device of one.
Target == [title : Titles, area : Places]
Device == [title : Titles, area : Places]

\* config_entries: schema version, node, command subentries, target subentries.
Entry == [version : 1..3, node : Nodes, old : SUBSET Commands,
          targets : [Targets -> Target \cup {NoTarget}]]
Registered == [via : Nodes \cup {NoNode}, of : [Targets -> Device \cup {NoDevice}]]

ASSUME DevicesAssumption ==
  /\ NoNode \notin Nodes /\ NoTarget \notin Target /\ NoDevice \notin Device
  /\ MaxEvents \in Nat

\* The record of a command's button: of its command subentry, of none, or deleted.
Records == [Commands -> {"attached", "detached", "deleted"}]

\* The reconfigure form of a target: the area it offers; and, for the properties, whether the
\* device is where it was and the entry is loaded as it was when the form was opened.
Form == [target : Targets, offers : Places, fresh : BOOLEAN]
Closed == [target |-> "none"]

\* ConfigEntryState, with a setup in progress that waits for the bridge ("asking") and then for
\* its replica ("opening"). Home Assistant tries again what is "not_loaded", and not what is in
\* "setup_error".
States == {"not_loaded", "asking", "opening", "loaded", "setup_error"}

VARIABLES
  entry, devices, records,   \* in memory
  disk,                      \* the same three, as last written
  nodes,                     \* the ESPHome entries there are
  state,                     \* of the entry: how far its setup is
  boundTo,                   \* the node its setup has read, runtime_data.bound_to; else NoNode
  updated,                   \* is a call of the update listener due?
  form, minted,
  events,
  \* For the properties: where the user last put each target; whether the entry was re-pointed
  \* while it was set up, and which targets were changed when their devices were synced already.
  wish, missed, unheard

stores == <<entry, devices, records>>
loading == <<state, boundTo, missed, unheard>>
vars == <<stores, disk, nodes, loading, updated, form, minted, events, wish>>

TypeOK ==
  /\ entry \in Entry /\ devices \in Registered /\ records \in Records
  /\ disk \in [entry : Entry, devices : Registered, records : Records]
  /\ nodes \subseteq Nodes /\ state \in States /\ boundTo \in Nodes \cup {NoNode}
  /\ missed \in BOOLEAN /\ unheard \subseteq Targets
  /\ updated \in BOOLEAN /\ form \in Form \cup {Closed} /\ minted \subseteq Targets
  /\ events \in 0..MaxEvents /\ wish \in [Targets -> Places]
  \* A target id is never given twice, and only a schema this code knows is loaded.
  /\ \A t \in Targets : entry.targets[t] # NoTarget \/ devices.of[t] # NoDevice => t \in minted
  /\ state # "not_loaded" => entry.version = 2 /\ entry.old = {}
  /\ boundTo = NoNode <=> state \in {"not_loaded", "setup_error"}

Loaded == state = "loaded"
Event == events < MaxEvents /\ events' = events + 1
Outdated(f) == IF f = Closed THEN f ELSE [f EXCEPT !.fresh = FALSE]
Defined == {t \in Targets : entry.targets[t] # NoTarget}

-----------------------------------------------------------------------------
(* Migration *)

\* Home Assistant removes subentries: records still attached to them go.
SubentriesRemoved(recs, gone) ==
  [c \in Commands |-> IF c \in gone /\ recs[c] = "attached" THEN "deleted" ELSE recs[c]]

Detached(recs, cs) ==
  [c \in Commands |-> IF c \in cs /\ recs[c] = "attached" THEN "detached" ELSE recs[c]]

\* Mutant of Retired: the subentries are removed first.
Retired_RemovesFirst(recs, old) == Detached(SubentriesRemoved(recs, old), old)

\* _async_migrate_to_targets on the records: detach, then remove.
Retired(recs, old) == SubentriesRemoved(Detached(recs, old), old)

\* Mutant of Retiring: asks for attached records instead of subentries.
Retiring_WhatIsAttached(e, recs) ==
  IF e.version < 2 THEN {c \in e.old : recs[c] = "attached"} ELSE {}

Retiring(e, recs) == IF e.version < 2 THEN e.old ELSE {}

\* async_migrate_entry, before each attempt to set up an older entry; it never awaits.
Migrate ==
  /\ state = "not_loaded" /\ entry.version < 2
  /\ LET old == Retiring(entry, records)
     IN  /\ records' = Retired(records, old)
         /\ entry' = [entry EXCEPT !.version = 2, !.old = @ \ old]
  /\ UNCHANGED <<devices, disk, nodes, loading, updated, form, minted, events, wish>>

-----------------------------------------------------------------------------
(* Devices *)

\* Mutant of SyncedDevice: the area is applied each time.
SyncedDevice_Places(device, target) == [title |-> target.title, area |-> target.area]

\* Mutant of SyncedDevice: what is registered is left alone.
SyncedDevice_CreatesOnly(device, target) ==
  IF device = NoDevice THEN [title |-> target.title, area |-> target.area] ELSE device

\* async_register_target_device: the area is applied to a new device only.
SyncedDevice(device, target) ==
  [title |-> target.title,
   area  |-> IF device = NoDevice THEN target.area ELSE device.area]

\* async_sync_target_devices
Synced(of) ==
  [t \in Targets |-> IF t \in Defined THEN SyncedDevice(of[t], entry.targets[t]) ELSE of[t]]

\* _async_find_esphome_device
NodeDevice(n) == IF n \in nodes THEN n ELSE NoNode

\* async_register_bridge_device
Linked(via, n) == IF NodeDevice(n) # NoNode THEN NodeDevice(n) ELSE via

\* async_setup_entry up to the answer it waits for.
StartSetup ==
  /\ state = "not_loaded" /\ entry.version = 2 /\ entry.node \in nodes
  /\ state' = "asking" /\ boundTo' = entry.node
  /\ UNCHANGED <<stores, disk, nodes, missed, unheard, updated, form, minted, events, wish>>

\* ConfigEntryError: the node is not known. It takes a reload or a restart to try again.
SetupError ==
  /\ state = "not_loaded" /\ entry.version = 2 /\ entry.node \notin nodes
  /\ state' = "setup_error"
  /\ UNCHANGED <<stores, disk, nodes, boundTo, missed, unheard, updated, form, minted, events, wish>>

\* ConfigEntryNotReady: the bridge does not answer. Home Assistant sets up again later.
SetupFails ==
  /\ state = "asking"
  /\ state' = "not_loaded" /\ boundTo' = NoNode
  /\ UNCHANGED <<stores, disk, nodes, missed, unheard, updated, form, minted, events, wish>>

\* The bridge answers: devices are synced, and the setup waits for the replica to be read.
Answered ==
  /\ state = "asking" /\ boundTo \in nodes
  /\ state' = "opening" /\ unheard' = {}
  /\ devices' = [via |-> Linked(devices.via, boundTo), of |-> Synced(devices.of)]
  /\ UNCHANGED <<entry, records, disk, nodes, boundTo, missed, updated, form, minted, events, wish>>

\* The rest of async_setup_entry. The buttons are added outside any command subentry, and Home
\* Assistant updates the records it has. Nobody listened to the entry until now.
Load ==
  /\ state = "opening"
  /\ state' = "loaded" /\ missed' = (entry.node # boundTo)
  /\ records' = Detached(records, Commands \ entry.old)
  /\ updated' = FALSE
  /\ form' = Outdated(form)
  /\ UNCHANGED <<entry, devices, disk, nodes, boundTo, unheard, minted, events, wish>>

Unload ==
  /\ state' = "not_loaded" /\ boundTo' = NoNode /\ missed' = FALSE /\ unheard' = {}
  /\ updated' = FALSE
  /\ form' = Outdated(form)

\* The user reloads the entry in Home Assistant.
Reload ==
  /\ Event
  /\ state \in {"loaded", "setup_error"}
  /\ Unload
  /\ UNCHANGED <<stores, disk, nodes, minted, wish>>

\* _async_entry_updated: a reload when the entry was pointed at another node.
UpdateListener ==
  /\ Loaded /\ updated
  /\ IF entry.node # boundTo
     THEN Unload /\ UNCHANGED devices
     ELSE /\ devices' = [devices EXCEPT !.of = Synced(@)]
          /\ updated' = FALSE /\ unheard' = {}
          /\ UNCHANGED <<state, boundTo, missed, form>>
  /\ UNCHANGED <<entry, records, disk, nodes, minted, events, wish>>

\* The bridge is re-pointed (_rebind).
Rebind(n) ==
  /\ Event
  /\ n \in nodes /\ n # entry.node
  /\ entry' = [entry EXCEPT !.node = n]
  /\ updated' = Loaded
  /\ UNCHANGED <<devices, records, disk, nodes, loading, form, minted, wish>>

NodeComes(n) ==
  /\ Event
  /\ n \notin nodes /\ nodes' = nodes \cup {n}
  /\ UNCHANGED <<stores, disk, loading, updated, form, minted, wish>>

\* An ESPHome entry is removed, and the link to its device with it.
NodeGoes(n) ==
  /\ Event
  /\ n \in nodes /\ nodes' = nodes \ {n}
  /\ devices' = [devices EXCEPT !.via = IF @ = n THEN NoNode ELSE @]
  /\ UNCHANGED <<entry, records, disk, loading, updated, form, minted, wish>>

-----------------------------------------------------------------------------
(* Targets *)

Taken(title, but) == \E t \in Defined \ but : entry.targets[t].title = title

\* The update listener hears of a changed target once the entry is loaded.
Announced(t) ==
  /\ updated' = Loaded
  /\ unheard' = IF state = "opening" THEN unheard \cup {t} ELSE unheard
  /\ UNCHANGED <<state, boundTo, missed>>

\* TargetSubentryFlow.async_step_user
CreateTarget(t) ==
  /\ Event
  /\ t \notin minted /\ minted' = minted \cup {t}
  /\ \E title \in Titles, area \in Places :
       /\ ~Taken(title, {})
       /\ entry' = [entry EXCEPT !.targets[t] = [title |-> title, area |-> area]]
       /\ wish' = [wish EXCEPT ![t] = area]
  /\ Announced(t)
  /\ UNCHANGED <<devices, records, disk, nodes, form>>

\* async_target_device_area
DeviceArea(t) == IF devices.of[t] = NoDevice THEN NoArea ELSE devices.of[t].area

\* _current_area: where the device is, or what was stored when that is nowhere.
CurrentArea(t) ==
  IF Loaded /\ DeviceArea(t) # NoArea THEN DeviceArea(t) ELSE entry.targets[t].area

OpenForm(t) ==
  /\ form = Closed /\ t \in Defined
  /\ form' = [target |-> t, offers |-> CurrentArea(t), fresh |-> TRUE]
  /\ UNCHANGED <<stores, disk, nodes, loading, updated, minted, events, wish>>

\* Mutant of Moves: compared with what was stored when the target was made.
Moves_FromStored(t, area) == Loaded /\ area # entry.targets[t].area

\* Does submitting the form with this area move the device?
Moves(t, area) == Loaded /\ area # CurrentArea(t)

\* async_set_target_area
Placed(of, t, area) == IF of[t] = NoDevice THEN of ELSE [of EXCEPT ![t].area = area]

\* TargetSubentryFlow.async_step_reconfigure. A field left empty is filled with what the form
\* offered. Where the form no longer shows how things are, the wish is what comes of it.
SubmitForm ==
  /\ form # Closed
  /\ Event
  /\ form' = Closed
  /\ LET t == form.target
     IN  IF t \notin Defined
         THEN UNCHANGED <<entry, devices, loading, updated, wish>>
         ELSE \E title \in Titles, area \in Areas \cup {form.offers} :
                /\ ~Taken(title, {t})
                /\ entry' = [entry EXCEPT !.targets[t] = [title |-> title, area |-> area]]
                /\ devices' = IF Moves(t, area) THEN [devices EXCEPT !.of = Placed(@, t, area)] ELSE devices
                /\ Announced(t)
                /\ wish' = [wish EXCEPT ![t] =
                     IF devices.of[t] = NoDevice THEN area
                     ELSE IF form.fresh /\ Loaded THEN IF area = form.offers THEN @ ELSE area
                     ELSE devices'.of[t].area]
  /\ UNCHANGED <<records, disk, nodes, minted>>

\* The user removes a target subentry in Home Assistant, which removes the device.
RemoveTarget(t) ==
  /\ Event
  /\ t \in Defined
  /\ entry' = [entry EXCEPT !.targets[t] = NoTarget]
  /\ devices' = [devices EXCEPT !.of[t] = NoDevice]
  /\ updated' = Loaded
  /\ UNCHANGED <<records, disk, nodes, loading, form, minted, wish>>

\* The user moves a device in Home Assistant.
MoveDevice(t) ==
  /\ Event
  /\ devices.of[t] # NoDevice
  /\ \E area \in Places \ {devices.of[t].area} :
       /\ devices' = [devices EXCEPT !.of[t].area = area]
       /\ wish' = [wish EXCEPT ![t] = area]
  /\ form' = IF form # Closed /\ form.target = t THEN Outdated(form) ELSE form
  /\ UNCHANGED <<entry, records, disk, nodes, loading, updated, minted>>

-----------------------------------------------------------------------------
(* Home Assistant's files *)

WriteEntry ==
  /\ disk.entry # entry /\ disk' = [disk EXCEPT !.entry = entry]
  /\ UNCHANGED <<stores, nodes, loading, updated, form, minted, events, wish>>

WriteDevices ==
  /\ disk.devices # devices /\ disk' = [disk EXCEPT !.devices = devices]
  /\ UNCHANGED <<stores, nodes, loading, updated, form, minted, events, wish>>

WriteRecords ==
  /\ disk.records # records /\ disk' = [disk EXCEPT !.records = records]
  /\ UNCHANGED <<stores, nodes, loading, updated, form, minted, events, wish>>

\* What was not written is lost, moves of devices among it.
PowerCut ==
  /\ Event
  /\ entry' = disk.entry /\ devices' = disk.devices /\ records' = disk.records
  /\ state' = "not_loaded" /\ boundTo' = NoNode /\ missed' = FALSE /\ unheard' = {}
  /\ updated' = FALSE /\ form' = Closed
  /\ wish' = [t \in Targets |->
                IF disk.devices.of[t] # NoDevice THEN disk.devices.of[t].area
                ELSE IF disk.entry.targets[t] # NoTarget THEN disk.entry.targets[t].area
                ELSE wish[t]]
  /\ UNCHANGED <<disk, nodes, minted>>

-----------------------------------------------------------------------------

\* An entry of any schema, nothing but the migration due.
Init ==
  /\ \E version \in 1..3, node \in Nodes, old \in SUBSET Commands :
       /\ version # 1 => old = {}
       /\ entry = [version |-> version, node |-> node, old |-> old,
                   targets |-> [t \in Targets |-> NoTarget]]
       /\ devices = [via |-> node, of |-> [t \in Targets |-> NoDevice]]
       /\ records = [c \in Commands |-> IF c \in old THEN "attached" ELSE "detached"]
  /\ disk = [entry |-> entry, devices |-> devices, records |-> records]
  /\ nodes = Nodes /\ state = "not_loaded" /\ boundTo = NoNode /\ missed = FALSE /\ unheard = {}
  /\ updated = FALSE /\ form = Closed /\ minted = {} /\ events = 0
  /\ wish = [t \in Targets |-> NoArea]

Next ==
  \/ Migrate \/ StartSetup \/ SetupError \/ SetupFails \/ Answered \/ Load \/ UpdateListener \/ Reload
  \/ SubmitForm \/ PowerCut
  \/ WriteEntry \/ WriteDevices \/ WriteRecords
  \/ \E n \in Nodes : Rebind(n) \/ NodeComes(n) \/ NodeGoes(n)
  \/ \E t \in Targets : CreateTarget(t) \/ OpenForm(t) \/ RemoveTarget(t) \/ MoveDevice(t)

\* A bridge that is asked again and again answers in the end.
Fairness ==
  /\ WF_vars(Migrate) /\ WF_vars(StartSetup) /\ WF_vars(SetupError) /\ WF_vars(SetupFails)
  /\ SF_vars(Answered) /\ WF_vars(Load) /\ WF_vars(UpdateListener)
  /\ WF_vars(WriteEntry) /\ WF_vars(WriteDevices) /\ WF_vars(WriteRecords)

Spec == Init /\ [][Next]_vars /\ Fairness

-----------------------------------------------------------------------------
(* Properties *)

\* No power cut, at any point of the migration or of what follows it, costs a command the
\* registry record with its entity id, area and history: "detach every entity from the
\* subentry that is about to be removed, only then remove the subentry".
HistoryKept == \A c \in Commands : records[c] # "deleted" /\ disk.records[c] # "deleted"

\* Once the listener has run, a loaded entry has a device for every target, named as the
\* target is, and its bridge hangs off the node it is bound to, if off any, which is the node of
\* the entry. Excepted is what changed while the entry was set up, of which the listener never
\* hears: a node while it waited for the bridge, and a target after that, while it waited for
\* the replica with the devices synced already, until the next change.
DevicesFollowTargets ==
  (Loaded /\ ~updated) =>
    /\ entry.node = boundTo \/ missed
    /\ devices.via \in {boundTo, NoNode}
    /\ \A t \in Defined \ unheard : devices.of[t] # NoDevice /\ devices.of[t].title = entry.targets[t].title

\* "The area is the user's once the device exists": a target is where the user last put it,
\* in Home Assistant or by changing the field of its form, through renames, reloads, syncs and
\* power cuts. Nothing is said of a form of a device that had moved since or of an entry that
\* was not loaded as it is: what it does to the device is taken for the wish.
AreaIsTheUsers == \A t \in Targets : devices.of[t] # NoDevice => devices.of[t].area = wish[t]

\* A migration that stops half way is finished by a later one: unless the entry was written by
\* a newer version, the command subentries end up removed and every record free of them, on
\* disk. A record whose file was behind stays as it is where the setup that would free it ends
\* in an error, which Home Assistant does not try again.
MigrationEnds ==
  (entry.version # 3) =>
    <>[](/\ disk.entry.version = 2 /\ disk.entry.old = {}
         /\ state # "setup_error" => \A c \in Commands : disk.records[c] = "detached")
=============================================================================
