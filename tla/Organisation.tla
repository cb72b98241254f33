---------------------------- MODULE Organisation ----------------------------
(***************************************************************************)
(* One config entry of the Home Assistant integration                      *)
(* (custom_components/rf_cloner): how the registry a bridge reports        *)
(* becomes buttons, each on the RF target the user chose for it.           *)
(*                                                                         *)
(* Everything runs on one event loop, so an action is what happens between *)
(* two awaits. What makes it hard is what may come between them: polls     *)
(* answered before the registry changed and applied after, a learn or a    *)
(* rename waiting for the bridge, a pass over the buttons suspended in the *)
(* middle of its removals, update listeners, targets removed by the user,  *)
(* the entry reloaded, the hardware replaced.                              *)
(*                                                                         *)
(* The bridge is its registry, changed in whole operations (CommandStore   *)
(* has the rest). Its answers come back in the order it gave them: one     *)
(* connection, one event loop. Home Assistant itself is modelled from what *)
(* the integration asks of it: entities and entity registry records by     *)
(* command id, subentries, update listeners, the status coordinator.       *)
(***************************************************************************)
EXTENDS Naturals, Sequences

CONSTANTS
  MaxId,          \* bound: command ids the bridge gives
  Names, NoName,  \* command names; NoName: no command has this id
  Targets,        \* identities of RF targets
  TargetsAtStart, \* those there at the start
  Unassigned,     \* on no target
  Nowhere,        \* not shown at all
  MaxEvents       \* bound: what comes from outside: things the user does, operations
                  \* on the bridge from elsewhere, calls to the bridge that fail

Ids == 1..MaxId
NoId == 0
Places == Targets \cup {Unassigned}

ASSUME SizesAssumption == MaxId \in Nat /\ MaxEvents \in Nat
ASSUME NoNameAssumption == NoName \notin Names
ASSUME PlacesAssumption == Unassigned \notin Targets /\ Nowhere \notin Places

\* What rf_status tells this entry of the bridge: whether the identity is the
\* one the entry adopted, whether a restore is open, the id counter, the names.
Registry == [ours : BOOLEAN, restoring : BOOLEAN, next : 1..(MaxId + 1),
             names : [Ids -> Names \cup {NoName}]]
Listed(s) == {c \in Ids : s.names[c] # NoName}
NamesIn(s) == {s.names[c] : c \in Listed(s)}
Blank == [ours |-> FALSE, restoring |-> FALSE, next |-> 1, names |-> [c \in Ids |-> NoName]]

Capture == [st : {"idle", "armed", "captured"}, name : Names \cup {NoName}]
Idle == [st |-> "idle", name |-> NoName]

\* What the entry's options hold of a command: its place, or nothing. The forms
\* suggest an icon with every place, so Unassigned is not nothing; a user who
\* clears it is left out.
CommandMeta == Places \cup {Nowhere}

\* A flow has the id of a command, once it knows it, and for the properties whether it was this
\* bridge's listing that it comes from (`own`). Its calls go through the coordinator it began
\* with, and that one's lock: `here` until the entry is reloaded and has another.
LearnFlow == [st : {"none", "waiting", "capturing", "ended"}, name : Names \cup {NoName},
              place : Places, id : Ids \cup {NoId}, own : BOOLEAN, here : BOOLEAN]
NoLearn == [st |-> "none", name |-> NoName, place |-> Unassigned, id |-> NoId, own |-> FALSE,
            here |-> TRUE]

ManageFlow == [st : {"none", "renaming", "renamed"}, id : Ids \cup {NoId},
               name : Names \cup {NoName}, place : Places, own : BOOLEAN, here : BOOLEAN]
NoManage == [st |-> "none", id |-> NoId, name |-> NoName, place |-> Unassigned, own |-> FALSE,
             here |-> TRUE]

\* What a pass over the buttons has still to remove, and what it will add where.
Pass == [busy : BOOLEAN, drop : SUBSET Ids, add : [Ids -> Places \cup {Nowhere}]]
Hidden == [c \in Ids |-> Nowhere]
NoPass == [busy |-> FALSE, drop |-> {}, add |-> Hidden]

VARIABLES
  registry, capture,  \* the bridge: its registry, and the capture it is making
  backup,             \* the registry this bridge had before its hardware was replaced
  answer,             \* the answer to a poll under way: none, or one status
  loaded,             \* how far the entry is set up
  data, ok,           \* coordinator.data, coordinator.last_update_success
  mismatch, reserved, \* _identity_mismatch, and the names of _reserved
  meta, subentries,   \* the entry's options and its targets
  foreign,            \* history: ids last placed when the bridge did not have them, or which
                      \* were read from other hardware
  updated,            \* an update listener of the entry has yet to run
  queued, pass,       \* passes waiting for the lock of the button platform, the one inside
  placed,             \* where the platform believes each button is
  live, records,      \* entities that exist, and where their registry records belong
  learn, manage,      \* a learn flow, and a dialog renaming a command
  events              \* what has come from outside so far

bridgeVars == <<registry, capture, backup>>
readVars == <<answer, data, ok>>
mirrorVars == <<mismatch, reserved>>
entryVars == <<meta, subentries, foreign, updated>>
buttonVars == <<queued, pass, placed, live, records>>
flowVars == <<learn, manage>>
vars == <<bridgeVars, readVars, loaded, mirrorVars, entryVars, buttonVars, flowVars, events>>

TypeOK ==
  /\ registry \in Registry /\ backup \in Registry /\ capture \in Capture
  /\ answer \in Registry \cup {<<>>}
  /\ loaded \in {"unloaded", "refreshed", "loading", "buttons", "loaded"}
  /\ data \in Registry /\ ok \in BOOLEAN
  /\ mismatch \in BOOLEAN /\ reserved \subseteq Names
  /\ meta \in [Ids -> CommandMeta] /\ subentries \in [Targets -> {"new", "there", "gone"}]
  /\ foreign \subseteq Ids /\ updated \in BOOLEAN /\ queued \in BOOLEAN /\ pass \in Pass
  /\ placed \in [Ids -> Places \cup {Nowhere}] /\ live \subseteq Ids
  /\ records \in [Ids -> Places \cup {Nowhere}]
  /\ learn \in LearnFlow /\ manage \in ManageFlow
  /\ events \in 0..MaxEvents

Event == events < MaxEvents /\ events' = events + 1

\* From the registration of its listeners until it is unloaded the entry has its runtime data.
Running == loaded \in {"loading", "buttons", "loaded"}

-----------------------------------------------------------------------------
(* Reading the organisation *)

There(t) == subentries[t] = "there"
Dangles(m) == m \in Targets /\ ~There(m)
Assigned(c) == IF meta[c] \in Targets /\ There(meta[c]) THEN meta[c] ELSE Unassigned

\* A listing is evidence that a command is gone only when it is this bridge's and complete.
Trusted(s) == ~mismatch /\ ~s.restoring

\* A claim is only found to have lapsed when a listed name is looked up.
MayLapse == IF Trusted(data) THEN SUBSET (reserved \cap NamesIn(data)) ELSE {{}}
Visible(lapsed) ==
  IF Trusted(data) THEN {c \in Listed(data) : data.names[c] \notin reserved \ lapsed} ELSE {}

PrunedTo_EveryId(s, trusted, below) ==
  [c \in Ids |-> IF trusted /\ c \notin Listed(s) THEN Nowhere
                 ELSE IF Dangles(meta[c]) THEN Unassigned
                 ELSE meta[c]]

\* options_pruned_to: metadata of ids below `below` that a trusted listing does
\* not name, and assignments to targets that are gone.
PrunedTo(s, trusted, below) ==
  [c \in Ids |-> IF trusted /\ c \notin Listed(s) /\ c < below THEN Nowhere
                 ELSE IF Dangles(meta[c]) THEN Unassigned
                 ELSE meta[c]]

-----------------------------------------------------------------------------
(* The reconciler and the coordinator *)

Reconcile_MidRestore(s) ==
  /\ mismatch' = ~s.ours
  /\ IF s.ours
     THEN /\ reserved' = reserved \ NamesIn(s)
          /\ records' = [c \in Ids |-> IF c \in Listed(s) THEN records[c] ELSE Nowhere]
          /\ live' = live \cap Listed(s)
          /\ meta' = PrunedTo(s, TRUE, MaxId + 1)
          /\ updated' = (updated \/ (meta' # meta /\ Running))
     ELSE UNCHANGED <<reserved, records, live, meta, updated>>

\* Ids of one listing are all below its counter: MaxId + 1 prunes whatever it does not name.
Reconcile(s) ==
  /\ mismatch' = ~s.ours
  /\ IF s.ours /\ ~s.restoring
     THEN /\ reserved' = reserved \ NamesIn(s)
          /\ records' = [c \in Ids |-> IF c \in Listed(s) THEN records[c] ELSE Nowhere]
          /\ live' = live \cap Listed(s)
          /\ meta' = PrunedTo(s, TRUE, MaxId + 1)
          /\ updated' = (updated \/ (meta' # meta /\ Running))
     ELSE UNCHANGED <<reserved, records, live, meta, updated>>

Listeners_MirrorOnly(s) ==
  /\ Reconcile(s)
  /\ UNCHANGED queued

\* The listeners of the coordinator: the mirror, then the button platform.
Listeners(s) ==
  /\ Reconcile(s)
  /\ queued' = (queued \/ loaded \in {"buttons", "loaded"})

PollAnswer ==
  /\ Running /\ answer = <<>>
  /\ answer' = registry
  /\ UNCHANGED <<bridgeVars, data, ok, loaded, mirrorVars, entryVars, buttonVars, flowVars, events>>

PollArrives ==
  /\ answer # <<>>
  /\ answer' = <<>>
  /\ data' = answer /\ ok' = TRUE
  /\ Listeners(data')
  /\ UNCHANGED <<bridgeVars, loaded, subentries, foreign, pass, placed, flowVars, events>>

\* The first failure after a success calls the listeners too, with the data of that success.
PollFails ==
  /\ Running /\ ok /\ answer = <<>>
  /\ Event
  /\ ok' = FALSE
  /\ Listeners(data)
  /\ UNCHANGED <<bridgeVars, answer, data, loaded, subentries, foreign, pass, placed, flowVars>>

EntryUpdated_NotNotified ==
  /\ updated
  /\ IF loaded = "loaded"
     THEN /\ meta' = PrunedTo(data, Trusted(data), data.next)
          /\ updated' = (meta' # meta)
     ELSE updated' = FALSE /\ UNCHANGED meta
  /\ UNCHANGED <<bridgeVars, readVars, loaded, mirrorVars, subentries, foreign, buttonVars, flowVars, events>>

\* _async_entry_updated and async_handle_entry_update
EntryUpdated ==
  /\ updated
  /\ IF loaded = "loaded"
     THEN /\ meta' = PrunedTo(data, Trusted(data), data.next)
          /\ updated' = (meta' # meta)
          /\ queued' = (queued \/ meta' = meta)
     ELSE updated' = FALSE /\ UNCHANGED <<meta, queued>>
  /\ UNCHANGED <<bridgeVars, readVars, loaded, mirrorVars, subentries, foreign, pass, placed, live, records, flowVars, events>>

-----------------------------------------------------------------------------
(* The button platform *)

\* Home Assistant refuses an entity for a subentry that is gone; the platform is not told.
AddButtons(add) ==
  LET accepted == {c \in Ids : add[c] = Unassigned \/ (add[c] \in Targets /\ There(add[c]))} IN
  /\ placed' = [c \in Ids |-> IF add[c] # Nowhere THEN add[c] ELSE placed[c]]
  /\ live' = live \cup accepted
  /\ records' = [c \in Ids |-> IF c \in accepted THEN add[c] ELSE records[c]]

StartPass_NoLock ==
  /\ queued
  /\ queued' = FALSE
  /\ \E lapsed \in MayLapse :
       LET shown == Visible(lapsed)
           kept == {c \in shown : placed[c] = Assigned(c)}
           drop == {c \in Ids \ kept : placed[c] # Nowhere}
           add == [c \in Ids |-> IF c \in shown \ kept THEN Assigned(c) ELSE Nowhere]
       IN
       /\ reserved' = reserved \ lapsed
       /\ IF drop = {} THEN AddButtons(add) /\ UNCHANGED pass
          ELSE pass' = [busy |-> TRUE, drop |-> drop, add |-> add] /\ UNCHANGED <<placed, live, records>>
  /\ UNCHANGED <<bridgeVars, readVars, loaded, mismatch, entryVars, flowVars, events>>

\* A pass decides everything when it gets the lock, and suspends only to remove.
StartPass ==
  /\ queued /\ ~pass.busy
  /\ queued' = FALSE
  /\ \E lapsed \in MayLapse :
       LET shown == Visible(lapsed)
           kept == {c \in shown : placed[c] = Assigned(c)}
           drop == {c \in Ids \ kept : placed[c] # Nowhere}
           add == [c \in Ids |-> IF c \in shown \ kept THEN Assigned(c) ELSE Nowhere]
       IN
       /\ reserved' = reserved \ lapsed
       /\ IF drop = {} THEN AddButtons(add) /\ UNCHANGED pass
          ELSE pass' = [busy |-> TRUE, drop |-> drop, add |-> add] /\ UNCHANGED <<placed, live, records>>
  /\ UNCHANGED <<bridgeVars, readVars, loaded, mismatch, entryVars, flowVars, events>>

RemoveButton(c) ==
  /\ c \in pass.drop
  /\ pass' = [pass EXCEPT !.drop = @ \ {c}]
  /\ placed' = [placed EXCEPT ![c] = Nowhere]
  /\ live' = live \ {c}
  /\ UNCHANGED <<bridgeVars, readVars, loaded, mirrorVars, entryVars, queued, records, flowVars, events>>

FinishPass ==
  /\ pass.busy /\ pass.drop = {}
  /\ AddButtons(pass.add)
  /\ pass' = NoPass
  /\ UNCHANGED <<bridgeVars, readVars, loaded, mirrorVars, entryVars, queued, flowVars, events>>

-----------------------------------------------------------------------------
(* Setting the entry up and taking it down *)

\* The first refresh; then the stored replica is read, and nobody listens yet.
FirstRefresh ==
  /\ loaded = "unloaded"
  /\ loaded' = "refreshed"
  /\ data' = registry /\ ok' = TRUE
  /\ UNCHANGED <<bridgeVars, answer, mirrorVars, entryVars, buttonVars, flowVars, events>>

\* The reconciler and its first look, at what the refresh read, and the listeners
Setup ==
  /\ loaded = "refreshed"
  /\ loaded' = "loading"
  /\ Reconcile(data)
  /\ UNCHANGED <<bridgeVars, readVars, subentries, foreign, queued, pass, placed, flowVars, events>>

SetupButtons ==
  /\ loaded = "loading"
  /\ loaded' = "buttons"
  /\ \E lapsed \in MayLapse :
       /\ AddButtons([c \in Ids |-> IF c \in Visible(lapsed) THEN Assigned(c) ELSE Nowhere])
       /\ reserved' = reserved \ lapsed
  /\ UNCHANGED <<bridgeVars, readVars, mismatch, entryVars, queued, pass, flowVars, events>>

Activate ==
  /\ loaded = "buttons"
  /\ loaded' = "loaded"
  /\ Reconcile(data)
  /\ queued' = (queued \/ (data.ours /\ ~data.restoring))
  /\ UNCHANGED <<bridgeVars, readVars, subentries, foreign, pass, placed, flowVars, events>>

Unload ==
  /\ loaded = "loaded" /\ Event
  /\ loaded' = "unloaded"
  /\ answer' = <<>> /\ data' = Blank /\ ok' = TRUE
  /\ mismatch' = FALSE /\ reserved' = {}
  /\ updated' = FALSE
  /\ queued' = FALSE /\ pass' = NoPass /\ placed' = Hidden /\ live' = {}
  /\ learn' = [learn EXCEPT !.here = learn.st = "none"]
  /\ manage' = [manage EXCEPT !.here = manage.st = "none"]
  /\ UNCHANGED <<bridgeVars, meta, subentries, foreign, records>>

-----------------------------------------------------------------------------
(* What the user does with targets and commands *)

CreateTarget(t) ==
  /\ subentries[t] = "new" /\ Event
  /\ subentries' = [subentries EXCEPT ![t] = "there"]
  /\ updated' = Running
  /\ UNCHANGED <<bridgeVars, readVars, loaded, mirrorVars, meta, foreign, buttonVars, flowVars>>

\* Home Assistant takes the records and entities of a subentry with it, then tells the entry.
RemoveTarget(t) ==
  /\ There(t) /\ Event
  /\ subentries' = [subentries EXCEPT ![t] = "gone"]
  /\ live' = {c \in live : records[c] # t}
  /\ records' = [c \in Ids |-> IF records[c] = t THEN Nowhere ELSE records[c]]
  /\ updated' = Running
  /\ UNCHANGED <<bridgeVars, readVars, loaded, mirrorVars, meta, foreign, queued, pass, placed, flowVars>>

\* The commands of this logical bridge, whatever hardware is answering.
OnBridge == Listed(IF registry.ours /\ ~registry.restoring THEN registry ELSE backup)

\* options_with for one command; a write that changes nothing tells nobody.
SetPlace(c, p, own) ==
  /\ foreign' = IF own /\ c \in OnBridge THEN foreign \ {c} ELSE foreign \cup {c}
  /\ meta' = [meta EXCEPT ![c] = p]
  /\ updated' = (updated \/ (meta' # meta /\ Running))

\* The forms offer the targets there were when they were drawn.
Choices == {Unassigned} \cup {t \in Targets : subentries[t] # "new"}

MoveCommand(c, p) ==
  /\ Running /\ Event
  /\ c \in Listed(data) /\ p \in Choices
  /\ SetPlace(c, p, data.ours)
  /\ UNCHANGED <<bridgeVars, readVars, loaded, mirrorVars, subentries, buttonVars, flowVars>>

RenameCommand(c, n, p) ==
  /\ Running /\ manage.st = "none" /\ Event
  /\ c \in Listed(data) /\ ~data.restoring /\ n \notin NamesIn(data)
  /\ p \in Choices
  /\ manage' = [st |-> "renaming", id |-> c, name |-> n, place |-> p, own |-> data.ours,
              here |-> TRUE]
  /\ UNCHANGED <<bridgeVars, readVars, loaded, mirrorVars, entryVars, buttonVars, learn>>

\* The lock keeps it out of a learn of the same coordinator (two flows from before a reload
\* need not share theirs); the action reports no refusal.
RenameOnBridge ==
  /\ manage.st = "renaming" /\ (learn.st = "capturing" => ~(learn.here /\ manage.here))
  /\ manage' = [manage EXCEPT !.st = "renamed"]
  /\ registry' = IF manage.id \in Listed(registry) /\ ~registry.restoring
                    /\ manage.name \notin NamesIn(registry)
                 THEN [registry EXCEPT !.names[manage.id] = manage.name] ELSE registry
  /\ UNCHANGED <<capture, backup, readVars, loaded, mirrorVars, entryVars, buttonVars, learn, events>>

RenameFails ==
  /\ manage.st = "renaming"
  /\ Event
  /\ manage' = NoManage
  /\ UNCHANGED <<bridgeVars, readVars, loaded, mirrorVars, entryVars, buttonVars, learn>>

RenameSaved ==
  /\ manage.st = "renamed"
  /\ SetPlace(manage.id, manage.place, manage.own)
  /\ manage' = NoManage
  /\ UNCHANGED <<bridgeVars, readVars, loaded, mirrorVars, subentries, buttonVars, learn, events>>

-----------------------------------------------------------------------------
(* Learning a command from a flow *)

StartLearn(n, p) ==
  /\ Running /\ learn.st = "none" /\ Event
  /\ ~data.restoring /\ n \notin NamesIn(data)
  /\ p \in {Unassigned} \cup {t \in Targets : There(t)}
  /\ reserved' = reserved \cup {n}
  /\ learn' = [NoLearn EXCEPT !.st = "waiting", !.name = n, !.place = p]
  /\ UNCHANGED <<bridgeVars, readVars, loaded, mismatch, entryVars, buttonVars, manage>>

\* The bridge arms whatever it is doing: a restore only refuses what is captured (Storable).
ArmLearn ==
  /\ learn.st = "waiting"
  /\ learn' = [learn EXCEPT !.st = "capturing"]
  /\ capture' = [st |-> "armed", name |-> learn.name]
  /\ UNCHANGED <<registry, backup, readVars, loaded, mirrorVars, entryVars, buttonVars, manage, events>>

LearnEnds(id) ==
  learn' = [learn EXCEPT !.st = "ended", !.id = id, !.own = registry.ours /\ id # NoId]

\* The status that tells the end of the capture is answered after any poll that is
\* still under way, and so it arrives after it too.
LearnAnswered ==
  /\ learn.st = "capturing" /\ capture.st # "armed" /\ answer = <<>>
  /\ LET named == {c \in Ids : capture.st = "captured" /\ registry.names[c] = learn.name} IN
     IF named = {} THEN LearnEnds(NoId) ELSE \E c \in named : LearnEnds(c)
  /\ UNCHANGED <<bridgeVars, readVars, loaded, mirrorVars, entryVars, buttonVars, manage, events>>

\* Past LEARN_TIMEOUT the coordinator cancels; the capture may just have ended.
LearnGivesUp ==
  /\ learn.st = "capturing"
  /\ LearnEnds(NoId)
  /\ capture' = IF capture.st = "armed" THEN Idle ELSE capture
  /\ UNCHANGED <<registry, backup, readVars, loaded, mirrorVars, entryVars, buttonVars, manage, events>>

\* A call of the learn raises; what the bridge was doing it goes on doing.
LearnFails ==
  /\ learn.st \in {"waiting", "capturing"}
  /\ Event
  /\ LearnEnds(NoId)
  /\ UNCHANGED <<bridgeVars, readVars, loaded, mirrorVars, entryVars, buttonVars, manage>>

Learned_Regardless ==
  /\ learn.st = "ended"
  /\ learn' = NoLearn
  /\ reserved' = IF ~Running THEN reserved ELSE reserved \ {learn.name}
  /\ IF ~Running THEN UNCHANGED <<meta, foreign, updated>>
     ELSE SetPlace(learn.id, IF Dangles(learn.place) THEN Unassigned ELSE learn.place, learn.own)
  /\ UNCHANGED <<bridgeVars, readVars, loaded, mismatch, subentries, buttonVars, manage, events>>

Learned ==
  /\ learn.st = "ended"
  /\ learn' = NoLearn
  /\ reserved' = IF ~Running THEN reserved ELSE reserved \ {learn.name}
  /\ IF ~Running \/ learn.id = NoId THEN UNCHANGED <<meta, foreign, updated>>
     ELSE SetPlace(learn.id, IF Dangles(learn.place) THEN Unassigned ELSE learn.place, learn.own)
  /\ UNCHANGED <<bridgeVars, readVars, loaded, mismatch, subentries, buttonVars, manage, events>>

\* Closing the dialog cancels its task, and leaves the claim to lapse.
CloseLearn ==
  /\ learn.st # "none" /\ Event
  /\ learn' = NoLearn
  /\ UNCHANGED <<bridgeVars, readVars, loaded, mirrorVars, entryVars, buttonVars, manage>>

-----------------------------------------------------------------------------
(* The bridge *)

Outside == UNCHANGED <<readVars, loaded, mirrorVars, entryVars, buttonVars, flowVars>>
Edit == Event /\ Outside

\* The registry after the bridge has stored a waveform under a name.
Stored(n) ==
  IF n \in NamesIn(registry) THEN registry
  ELSE [registry EXCEPT !.names[registry.next] = n, !.next = @ + 1]
Storable(n) == ~registry.restoring /\ (n \in NamesIn(registry) \/ registry.next <= MaxId)

Captures ==
  /\ capture.st = "armed" /\ Storable(capture.name)
  /\ registry' = Stored(capture.name)
  /\ capture' = [capture EXCEPT !.st = "captured"]
  /\ Outside /\ UNCHANGED <<backup, events>>

CaptureFails ==
  /\ capture.st = "armed"
  /\ capture' = Idle
  /\ Outside /\ UNCHANGED <<registry, backup, events>>

LearnElsewhere(n) ==
  /\ Storable(n) /\ n \notin NamesIn(registry)
  /\ registry' = Stored(n)
  /\ Edit /\ UNCHANGED <<capture, backup>>

RenameElsewhere(c, n) ==
  /\ c \in Listed(registry) /\ ~registry.restoring /\ n \notin NamesIn(registry)
  /\ registry' = [registry EXCEPT !.names[c] = n]
  /\ Edit /\ UNCHANGED <<capture, backup>>

\* From this integration too: after the call it only asks for a refresh.
Delete(c) ==
  /\ c \in Listed(registry) /\ ~registry.restoring
  /\ registry' = [registry EXCEPT !.names[c] = NoName]
  /\ Edit /\ UNCHANGED <<capture, backup>>

\* Changing the hardware breaks the connection: answers under way are lost, and
\* what waits for one fails. It takes longer than a flow with its answer needs.
Disconnects ==
  /\ learn.st # "ended" /\ manage.st # "renamed"
  /\ answer' = <<>> /\ capture' = Idle
  /\ IF learn.st = "capturing" THEN LearnEnds(NoId) ELSE UNCHANGED learn
  /\ UNCHANGED <<data, ok, loaded, mirrorVars, entryVars, buttonVars, manage>>

\* Other hardware answers under the node's name, with an identity of its own.
ReplaceHardware ==
  /\ registry.ours /\ ~registry.restoring
  /\ registry' = Blank /\ backup' = registry
  /\ Disconnects /\ Event

ReconnectHardware ==
  /\ ~registry.ours
  /\ registry' = backup /\ backup' = Blank
  /\ Disconnects /\ UNCHANGED events

RestoreBegin ==
  /\ ~registry.ours /\ Listed(registry) = {}
  /\ registry' = [Blank EXCEPT !.ours = TRUE, !.restoring = TRUE, !.next = backup.next]
  /\ Outside /\ UNCHANGED <<capture, backup, events>>

RestoreCommit ==
  /\ registry.restoring
  /\ registry' = backup /\ backup' = Blank
  /\ Outside /\ UNCHANGED <<capture, events>>

-----------------------------------------------------------------------------

Init ==
  /\ \E n \in 1..MaxId, names \in [Ids -> Names \cup {NoName}] :
       /\ \A c \in Ids : names[c] # NoName => c < n /\ \A d \in Ids : names[d] = names[c] => d = c
       /\ registry = [ours |-> TRUE, restoring |-> FALSE, next |-> n, names |-> names]
  /\ backup = Blank /\ capture = Idle
  /\ answer = <<>> /\ loaded = "unloaded" /\ data = Blank /\ ok = TRUE
  /\ mismatch = FALSE /\ reserved = {}
  /\ subentries = [t \in Targets |-> IF t \in TargetsAtStart THEN "there" ELSE "new"]
  /\ \E organised \in [Ids -> CommandMeta] :
       /\ \A c \in Ids : (c \notin Listed(registry) => organised[c] = Nowhere) /\ ~Dangles(organised[c])
       /\ meta = organised
  /\ records = [c \in Ids |-> IF c \in Listed(registry) THEN Assigned(c) ELSE Nowhere]
  /\ foreign = {} /\ updated = FALSE /\ queued = FALSE /\ pass = NoPass /\ placed = Hidden
  /\ live = {}
  /\ learn = NoLearn /\ manage = NoManage
  /\ events = 0

ReadNext == PollAnswer \/ PollArrives \/ PollFails
EntryNext == FirstRefresh \/ Setup \/ SetupButtons \/ Activate \/ Unload \/ EntryUpdated
ButtonNext == StartPass \/ FinishPass \/ \E c \in Ids : RemoveButton(c)
LearnNext ==
  \/ ArmLearn \/ LearnAnswered \/ LearnGivesUp \/ LearnFails \/ Learned \/ CloseLearn
  \/ \E n \in Names, p \in Places : StartLearn(n, p)
ManageNext ==
  \/ RenameOnBridge \/ RenameFails \/ RenameSaved
  \/ \E t \in Targets : CreateTarget(t) \/ RemoveTarget(t)
  \/ \E c \in Ids, p \in Places : MoveCommand(c, p) \/ \E n \in Names : RenameCommand(c, n, p)
BridgeNext ==
  \/ Captures \/ CaptureFails
  \/ ReplaceHardware \/ ReconnectHardware \/ RestoreBegin \/ RestoreCommit
  \/ \E n \in Names : LearnElsewhere(n)
  \/ \E c \in Ids : Delete(c) \/ \E n \in Names : RenameElsewhere(c, n)
Next == ReadNext \/ EntryNext \/ ButtonNext \/ LearnNext \/ ManageNext \/ BridgeNext

\* The event loop runs what is ready, and the coordinator polls every 30 s.
Fairness ==
  /\ WF_vars(FirstRefresh) /\ WF_vars(Setup) /\ WF_vars(SetupButtons) /\ WF_vars(Activate)
  /\ WF_vars(EntryUpdated) /\ WF_vars(ButtonNext)
  /\ WF_vars(PollAnswer) /\ WF_vars(PollArrives)
Spec == Init /\ [][Next]_vars /\ Fairness

-----------------------------------------------------------------------------
(* Properties *)

\* Every command has one button, where the user put it, and nothing else has one.
Shown(s) == live = Listed(s) /\ \A c \in live : records[c] = Assigned(c)

\* Once what was read has been acted on, the buttons are those of the last
\* reading, in the places the options give them (button.py, "Bring the
\* platform's buttons in line with the current organisation").
SettledIsShown ==
  loaded = "loaded" /\ ~updated /\ ~queued /\ ~pass.busy /\ Trusted(data) => Shown(data)

\* No button is added while one of the same id exists (button.py, "so no unique
\* id is ever claimed twice").
NoIdClaimedTwice ==
  \A c \in live : placed[c] # Nowhere /\ (pass.busy /\ pass.drop = {} => pass.add[c] = Nowhere)

Chosen(c) ==
  \/ learn.id = c /\ Learned
  \/ manage.id = c /\ RenameSaved
  \/ \E p \in Places : MoveCommand(c, p)

\* What the user said of a command is only dropped when the bridge no longer has
\* the command, and its target only when the target is gone.
KeepsPlacement(c) ==
  \/ meta'[c] = meta[c] \/ Chosen(c) \/ c \notin OnBridge \/ c \in foreign
  \/ Dangles(meta[c]) /\ meta'[c] = Unassigned

\* The same, apart from the listeners called without a new reading: on a failed poll and in the
\* last step of the setup the reading pruned against may be older than the placement.
NewReading == (ok => ok') /\ loaded' = loaded
PlacementKept == [][NewReading => \A c \in Ids : KeepsPlacement(c)]_vars

\* An entity record goes only with its command or with the target it is on:
\* not with a restore, another identity, or a listing that was never read.
RecordsKept ==
  [][\A c \in Ids : records[c] # Nowhere /\ records'[c] = Nowhere =>
       c \notin OnBridge \/ subentries' # subentries]_vars

\* When the bridge is left alone, Home Assistant comes to show what it holds and
\* forgets the rest (coordinator.py, "the poll interval only bounds how long a
\* change made elsewhere stays invisible").
Mirrored ==
  /\ Shown(registry)
  /\ \A c \in Ids \ Listed(registry) : records[c] = Nowhere /\ meta[c] = Nowhere
  /\ \A c \in Ids : ~Dangles(meta[c])
Converges == <>[](registry.ours /\ ~registry.restoring => Mirrored)
=============================================================================
