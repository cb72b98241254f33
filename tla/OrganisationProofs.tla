------------------------- MODULE OrganisationProofs -------------------------
(***************************************************************************)
(* What holds of the organisation of commands for any number of commands   *)
(* and targets and for any number of things coming from outside: its       *)
(* types, that no button is added while one of its id exists, that no      *)
(* record and no placement is lost to a reading which says nothing of the  *)
(* command, and that what has settled is what is shown.                    *)
(***************************************************************************)
EXTENDS Organisation, TLAPS

-----------------------------------------------------------------------------
(* Types *)

\* A dialog that renames is about a command: SetPlace records an id, not NoId.
RenamesCommand == manage.st # "none" => manage.id \in Ids
Typed == TypeOK /\ RenamesCommand

LEMMA BlankIsRegistry == Blank \in Registry
BY SizesAssumption DEF Blank, Registry, Ids

\* Every step either takes one of the bounded events from outside or none.
LEMMA EventTyped ==
  ASSUME events \in 0..MaxEvents, Event \/ UNCHANGED events
  PROVE  events' \in 0..MaxEvents
BY SizesAssumption DEF Event

LEMMA PrunedTyped ==
  ASSUME meta \in [Ids -> CommandMeta], NEW s, NEW trusted, NEW below
  PROVE  PrunedTo(s, trusted, below) \in [Ids -> CommandMeta]
BY DEF PrunedTo, CommandMeta, Places

\* The mirror, whatever reading it follows.
LEMMA ReconcileTyped ==
  ASSUME Typed, NEW s \in Registry, Reconcile(s)
  PROVE  /\ mismatch' \in BOOLEAN
         /\ reserved' \subseteq Names
         /\ records' \in [Ids -> Places \cup {Nowhere}]
         /\ live' \subseteq Ids
         /\ meta' \in [Ids -> CommandMeta]
         /\ updated' \in BOOLEAN
<1>1. mismatch' \in BOOLEAN
  BY DEF Reconcile
<1>2. CASE s.ours /\ ~s.restoring
  <2>1. /\ reserved' = reserved \ NamesIn(s)
        /\ records' = [c \in Ids |-> IF c \in Listed(s) THEN records[c] ELSE Nowhere]
        /\ live' = live \cap Listed(s)
        /\ meta' = PrunedTo(s, TRUE, MaxId + 1)
        /\ updated' \in BOOLEAN
    BY <1>2 DEF Reconcile
  <2>2. meta' \in [Ids -> CommandMeta]
    BY <2>1, PrunedTyped DEF Typed, TypeOK
  <2>3. records' \in [Ids -> Places \cup {Nowhere}]
    BY <2>1 DEF Typed, TypeOK
  <2>4. QED
    BY <1>1, <2>1, <2>2, <2>3 DEF Typed, TypeOK
<1>3. CASE ~(s.ours /\ ~s.restoring)
  BY <1>1, <1>3 DEF Reconcile, Typed, TypeOK
<1>4. QED
  BY <1>2, <1>3

LEMMA AddTyped ==
  ASSUME Typed, NEW add \in [Ids -> Places \cup {Nowhere}], AddButtons(add)
  PROVE  /\ placed' \in [Ids -> Places \cup {Nowhere}]
         /\ live' \subseteq Ids
         /\ records' \in [Ids -> Places \cup {Nowhere}]
BY DEF Typed, TypeOK, AddButtons

LEMMA SetPlaceTyped ==
  ASSUME Typed, NEW c \in Ids, NEW p \in Places, NEW own, SetPlace(c, p, own)
  PROVE  /\ foreign' \subseteq Ids
         /\ meta' \in [Ids -> CommandMeta]
         /\ updated' \in BOOLEAN
BY DEF Typed, TypeOK, SetPlace, CommandMeta, Places

LEMMA AssignedTyped ==
  ASSUME NEW c \in Ids
  PROVE  Assigned(c) \in Places
BY DEF Assigned, Places

LEMMA IdleTyped ==
  /\ Idle \in Capture
  /\ NoLearn \in LearnFlow
  /\ NoManage \in ManageFlow
  /\ Hidden \in [Ids -> Places \cup {Nowhere}]
  /\ NoPass \in Pass
BY DEF Idle, Capture, NoLearn, LearnFlow, NoManage, ManageFlow, Hidden, NoPass, Pass, Places

LEMMA InitTyped == Init => Typed
<1> SUFFICES ASSUME Init PROVE Typed
  OBVIOUS
<1>1. registry \in Registry
  BY SizesAssumption DEF Init, Registry, Ids
<1>2. subentries \in [Targets -> {"new", "there", "gone"}]
  BY DEF Init
<1>3. meta \in [Ids -> CommandMeta]
  BY DEF Init
<1>4. records \in [Ids -> Places \cup {Nowhere}]
  BY AssignedTyped DEF Init
<1>5. RenamesCommand
  BY DEF Init, RenamesCommand, NoManage
<1>6. backup \in Registry /\ data \in Registry /\ capture \in Capture /\ learn \in LearnFlow
      /\ manage \in ManageFlow /\ pass \in Pass /\ placed \in [Ids -> Places \cup {Nowhere}]
  BY BlankIsRegistry, IdleTyped DEF Init
<1>7. events \in 0..MaxEvents
  BY SizesAssumption DEF Init
<1>8. /\ answer = <<>> /\ loaded = "unloaded" /\ ok = TRUE /\ mismatch = FALSE
      /\ updated = FALSE /\ queued = FALSE /\ reserved = {} /\ foreign = {} /\ live = {}
  BY DEF Init
<1>9. QED
  BY <1>1, <1>2, <1>3, <1>4, <1>5, <1>6, <1>7, <1>8 DEF Typed, TypeOK

-----------------------------------------------------------------------------
(* Steps preserve the types *)

LEMMA ReadTyped == Typed /\ ReadNext => Typed'
<1> SUFFICES ASSUME Typed, ReadNext PROVE Typed'
  OBVIOUS
<1>1. CASE PollAnswer
  BY <1>1 DEF PollAnswer, Typed, TypeOK, RenamesCommand, bridgeVars, mirrorVars, entryVars, buttonVars, flowVars
<1>2. CASE PollArrives
  <2>1. data' \in Registry /\ answer' = <<>> /\ ok' = TRUE
    BY <1>2 DEF PollArrives, Typed, TypeOK
  <2>2. Reconcile(data')
    BY <1>2 DEF PollArrives, Listeners
  <2>3. QED
    BY <1>2, <2>1, <2>2, ReconcileTyped
       DEF PollArrives, Listeners, Typed, TypeOK, RenamesCommand, bridgeVars, flowVars
<1>3. CASE PollFails
  <2>1. Reconcile(data) /\ data \in Registry
    BY <1>3 DEF PollFails, Listeners, Typed, TypeOK
  <2>2. events' \in 0..MaxEvents
    BY <1>3, EventTyped DEF PollFails, Typed, TypeOK
  <2>3. QED
    BY <1>3, <2>1, <2>2, ReconcileTyped
       DEF PollFails, Listeners, Typed, TypeOK, RenamesCommand, bridgeVars, flowVars
<1>4. QED
  BY <1>1, <1>2, <1>3 DEF ReadNext

LEMMA EntryTyped == Typed /\ EntryNext => Typed'
<1> SUFFICES ASSUME Typed, EntryNext PROVE Typed'
  OBVIOUS
<1>0. CASE FirstRefresh
  BY <1>0
     DEF FirstRefresh, Typed, TypeOK, RenamesCommand, bridgeVars, mirrorVars, entryVars, buttonVars,
         flowVars
<1>1. CASE Setup
  <2>1. Reconcile(data) /\ data \in Registry
    BY <1>1 DEF Setup, Typed, TypeOK
  <2>2. QED
    BY <1>1, <2>1, ReconcileTyped
       DEF Setup, Typed, TypeOK, RenamesCommand, bridgeVars, readVars, flowVars
<1>2. CASE SetupButtons
  <2>1. PICK lapsed \in MayLapse :
          /\ AddButtons([c \in Ids |-> IF c \in Visible(lapsed) THEN Assigned(c) ELSE Nowhere])
          /\ reserved' = reserved \ lapsed
    BY <1>2 DEF SetupButtons
  <2>2. [c \in Ids |-> IF c \in Visible(lapsed) THEN Assigned(c) ELSE Nowhere]
          \in [Ids -> Places \cup {Nowhere}]
    BY AssignedTyped
  <2>3. /\ placed' \in [Ids -> Places \cup {Nowhere}]
        /\ live' \subseteq Ids
        /\ records' \in [Ids -> Places \cup {Nowhere}]
    BY <2>1, <2>2, AddTyped
  <2>4. QED
    BY <1>2, <2>1, <2>3
       DEF SetupButtons, Typed, TypeOK, RenamesCommand, bridgeVars, readVars, entryVars, flowVars
<1>3. CASE Activate
  <2>1. Reconcile(data) /\ data \in Registry
    BY <1>3 DEF Activate, Typed, TypeOK
  <2>2. queued' \in BOOLEAN
    BY <1>3 DEF Activate
  <2>3. QED
    BY <1>3, <2>1, <2>2, ReconcileTyped
       DEF Activate, Typed, TypeOK, RenamesCommand, bridgeVars, readVars, flowVars
<1>4. CASE Unload
  <2>1. events' \in 0..MaxEvents
    BY <1>4, EventTyped DEF Unload, Typed, TypeOK
  <2>2. /\ learn' \in LearnFlow /\ manage' \in ManageFlow
        /\ manage'.st = manage.st /\ manage'.id = manage.id
    BY <1>4 DEF Unload, LearnFlow, ManageFlow, Typed, TypeOK
  <2>3. QED
    BY <1>4, <2>1, <2>2, BlankIsRegistry, IdleTyped
       DEF Unload, Typed, TypeOK, RenamesCommand, bridgeVars
<1>5. CASE EntryUpdated
  <2>1. meta' \in [Ids -> CommandMeta]
    BY <1>5, PrunedTyped DEF EntryUpdated, Typed, TypeOK
  <2>2. updated' \in BOOLEAN
    BY <1>5 DEF EntryUpdated, Typed, TypeOK
  <2>3. queued' \in BOOLEAN
    BY <1>5 DEF EntryUpdated, Typed, TypeOK
  <2>4. QED
    BY <1>5, <2>1, <2>2, <2>3
       DEF EntryUpdated, Typed, TypeOK, RenamesCommand, bridgeVars, readVars, mirrorVars, flowVars
<1>6. QED
  BY <1>0, <1>1, <1>2, <1>3, <1>4, <1>5 DEF EntryNext

LEMMA ButtonTyped == Typed /\ ButtonNext => Typed'
<1> SUFFICES ASSUME Typed, ButtonNext PROVE Typed'
  OBVIOUS
<1>1. CASE StartPass
  <2>1. PICK lapsed \in MayLapse :
          LET shown == Visible(lapsed)
              kept == {c \in shown : placed[c] = Assigned(c)}
              drop == {c \in Ids \ kept : placed[c] # Nowhere}
              add == [c \in Ids |-> IF c \in shown \ kept THEN Assigned(c) ELSE Nowhere]
          IN
          /\ reserved' = reserved \ lapsed
          /\ IF drop = {} THEN AddButtons(add) /\ UNCHANGED pass
             ELSE pass' = [busy |-> TRUE, drop |-> drop, add |-> add]
                  /\ UNCHANGED <<placed, live, records>>
    BY <1>1 DEF StartPass
  <2> DEFINE kept == {c \in Visible(lapsed) : placed[c] = Assigned(c)}
             drop == {c \in Ids \ kept : placed[c] # Nowhere}
             add == [c \in Ids |-> IF c \in Visible(lapsed) \ kept THEN Assigned(c) ELSE Nowhere]
  <2>2. add \in [Ids -> Places \cup {Nowhere}] /\ drop \subseteq Ids
    BY AssignedTyped
  <2>3. \/ AddButtons(add) /\ UNCHANGED pass
        \/ pass' = [busy |-> TRUE, drop |-> drop, add |-> add] /\ UNCHANGED <<placed, live, records>>
    BY <2>1
  <2> HIDE DEF kept, drop, add
  <2>4. pass' \in Pass
    <3>1. [busy |-> TRUE, drop |-> drop, add |-> add] \in Pass
      BY <2>2 DEF Pass
    <3>2. QED
      BY <2>3, <3>1 DEF Typed, TypeOK
  <2>5. /\ placed' \in [Ids -> Places \cup {Nowhere}]
        /\ live' \subseteq Ids
        /\ records' \in [Ids -> Places \cup {Nowhere}]
    BY <2>2, <2>3, AddTyped DEF Typed, TypeOK
  <2>6. reserved' \subseteq Names
    BY <2>1 DEF Typed, TypeOK
  <2>7. QED
    BY <1>1, <2>4, <2>5, <2>6
       DEF StartPass, Typed, TypeOK, RenamesCommand, bridgeVars, readVars, entryVars, flowVars
<1>2. CASE FinishPass
  <2>1. AddButtons(pass.add) /\ pass.add \in [Ids -> Places \cup {Nowhere}]
    BY <1>2 DEF FinishPass, Typed, TypeOK, Pass
  <2>2. QED
    BY <1>2, <2>1, AddTyped, IdleTyped
       DEF FinishPass, Typed, TypeOK, RenamesCommand, bridgeVars, readVars, mirrorVars, entryVars,
           flowVars
<1>3. ASSUME NEW c \in Ids, RemoveButton(c) PROVE Typed'
  <2>1. pass' \in Pass
    BY <1>3 DEF RemoveButton, Pass, Typed, TypeOK
  <2>2. placed' \in [Ids -> Places \cup {Nowhere}] /\ live' \subseteq Ids
    BY <1>3 DEF RemoveButton, Typed, TypeOK
  <2>3. QED
    BY <1>3, <2>1, <2>2
       DEF RemoveButton, Typed, TypeOK, RenamesCommand, bridgeVars, readVars, mirrorVars,
           entryVars, flowVars
<1>4. QED
  BY <1>1, <1>2, <1>3 DEF ButtonNext

LEMMA LearnTyped == Typed /\ LearnNext => Typed'
<1> SUFFICES ASSUME Typed, LearnNext PROVE Typed'
  OBVIOUS
<1>1. ASSUME NEW n \in Names, NEW p \in Places, StartLearn(n, p) PROVE Typed'
  <2>1. learn' \in LearnFlow /\ reserved' \subseteq Names
    BY <1>1 DEF StartLearn, NoLearn, LearnFlow, Typed, TypeOK
  <2>2. events' \in 0..MaxEvents
    BY <1>1, EventTyped DEF StartLearn, Typed, TypeOK
  <2>3. QED
    BY <1>1, <2>1, <2>2
       DEF StartLearn, Typed, TypeOK, RenamesCommand, bridgeVars, readVars, entryVars, buttonVars
<1>2. CASE ArmLearn
  <2>1. learn' \in LearnFlow
    BY <1>2 DEF ArmLearn, LearnFlow, Typed, TypeOK
  <2>2. capture' \in Capture
    BY <1>2, IdleTyped DEF ArmLearn, LearnFlow, Capture, Typed, TypeOK
  <2>3. QED
    BY <1>2, <2>1, <2>2
       DEF ArmLearn, Typed, TypeOK, RenamesCommand, readVars, mirrorVars, entryVars, buttonVars
<1>3. ASSUME NEW id \in Ids \cup {NoId}, LearnEnds(id) PROVE learn' \in LearnFlow
  BY <1>3 DEF LearnEnds, LearnFlow, Registry, Typed, TypeOK
<1>4. CASE LearnAnswered
  <2>1. learn' \in LearnFlow
    BY <1>3, <1>4 DEF LearnAnswered
  <2>2. QED
    BY <1>4, <2>1
       DEF LearnAnswered, Typed, TypeOK, RenamesCommand, bridgeVars, readVars, mirrorVars,
           entryVars, buttonVars
<1>5. CASE LearnGivesUp
  <2>1. learn' \in LearnFlow /\ capture' \in Capture
    BY <1>3, <1>5, IdleTyped DEF LearnGivesUp, Typed, TypeOK
  <2>2. QED
    BY <1>5, <2>1
       DEF LearnGivesUp, Typed, TypeOK, RenamesCommand, readVars, mirrorVars, entryVars, buttonVars
<1>6. CASE LearnFails
  <2>1. learn' \in LearnFlow
    BY <1>3, <1>6 DEF LearnFails
  <2>2. events' \in 0..MaxEvents
    BY <1>6, EventTyped DEF LearnFails, Typed, TypeOK
  <2>3. QED
    BY <1>6, <2>1, <2>2
       DEF LearnFails, Typed, TypeOK, RenamesCommand, bridgeVars, readVars, mirrorVars,
           entryVars, buttonVars
<1>7. CASE Learned
  <2>1. /\ foreign' \subseteq Ids
        /\ meta' \in [Ids -> CommandMeta]
        /\ updated' \in BOOLEAN
    <3>1. CASE ~Running \/ learn.id = NoId
      BY <1>7, <3>1 DEF Learned, Typed, TypeOK
    <3>2. CASE ~(~Running \/ learn.id = NoId)
      <4>1. learn.id \in Ids /\ learn.place \in Places
        BY <3>2 DEF Typed, TypeOK, LearnFlow
      <4>2. (IF Dangles(learn.place) THEN Unassigned ELSE learn.place) \in Places
        BY <4>1 DEF Places
      <4>3. QED
        BY <1>7, <3>2, <4>1, <4>2, SetPlaceTyped DEF Learned
    <3>3. QED
      BY <3>1, <3>2
  <2>2. reserved' \subseteq Names
    BY <1>7 DEF Learned, Typed, TypeOK
  <2>3. QED
    BY <1>7, <2>1, <2>2, IdleTyped
       DEF Learned, Typed, TypeOK, RenamesCommand, bridgeVars, readVars, buttonVars
<1>8. CASE CloseLearn
  <2>1. events' \in 0..MaxEvents
    BY <1>8, EventTyped DEF CloseLearn, Typed, TypeOK
  <2>2. QED
    BY <1>8, <2>1, IdleTyped
       DEF CloseLearn, Typed, TypeOK, RenamesCommand, bridgeVars, readVars, mirrorVars,
           entryVars, buttonVars
<1>9. QED
  BY <1>1, <1>2, <1>4, <1>5, <1>6, <1>7, <1>8 DEF LearnNext

LEMMA ManageTyped == Typed /\ ManageNext => Typed'
<1> SUFFICES ASSUME Typed, ManageNext PROVE Typed'
  OBVIOUS
<1>1. CASE RenameOnBridge
  <2>1. manage' \in ManageFlow /\ manage'.id \in Ids
    BY <1>1 DEF RenameOnBridge, ManageFlow, Typed, TypeOK, RenamesCommand
  <2>2. registry' \in Registry
    <3>1. manage.name \in Names \cup {NoName}
      BY DEF Typed, TypeOK, ManageFlow
    <3>2. registry.names \in [Ids -> Names \cup {NoName}]
      BY DEF Typed, TypeOK, Registry
    <3>3. [registry.names EXCEPT ![manage.id] = manage.name] \in [Ids -> Names \cup {NoName}]
      BY <3>1, <3>2
    <3>4. [registry EXCEPT !.names[manage.id] = manage.name] \in Registry
      BY <3>3 DEF Typed, TypeOK, Registry
    <3>5. QED
      BY <1>1, <3>4 DEF RenameOnBridge, Typed, TypeOK
  <2>3. QED
    BY <1>1, <2>1, <2>2
       DEF RenameOnBridge, Typed, TypeOK, RenamesCommand, readVars, mirrorVars, entryVars, buttonVars
<1>2. CASE RenameFails
  <2>1. events' \in 0..MaxEvents
    BY <1>2, EventTyped DEF RenameFails, Typed, TypeOK
  <2>2. manage'.st = "none"
    BY <1>2 DEF RenameFails, NoManage
  <2>3. QED
    BY <1>2, <2>1, <2>2, IdleTyped
       DEF RenameFails, Typed, TypeOK, RenamesCommand, bridgeVars, readVars, mirrorVars,
           entryVars, buttonVars
<1>3. CASE RenameSaved
  <2>1. manage.id \in Ids /\ manage.place \in Places
    BY <1>3 DEF RenameSaved, Typed, TypeOK, RenamesCommand, ManageFlow
  <2>2. /\ foreign' \subseteq Ids
        /\ meta' \in [Ids -> CommandMeta]
        /\ updated' \in BOOLEAN
    BY <1>3, <2>1, SetPlaceTyped DEF RenameSaved
  <2>3. manage'.st = "none"
    BY <1>3 DEF RenameSaved, NoManage
  <2>4. QED
    BY <1>3, <2>2, <2>3, IdleTyped
       DEF RenameSaved, Typed, TypeOK, RenamesCommand, bridgeVars, readVars, mirrorVars, buttonVars
<1>4. ASSUME NEW t \in Targets, CreateTarget(t) PROVE Typed'
  <2>1. events' \in 0..MaxEvents
    BY <1>4, EventTyped DEF CreateTarget, Typed, TypeOK
  <2>2. subentries' \in [Targets -> {"new", "there", "gone"}] /\ updated' \in BOOLEAN
    BY <1>4 DEF CreateTarget, Running, Typed, TypeOK
  <2>3. QED
    BY <1>4, <2>1, <2>2
       DEF CreateTarget, Typed, TypeOK, RenamesCommand, bridgeVars, readVars, mirrorVars,
           buttonVars, flowVars
<1>5. ASSUME NEW t \in Targets, RemoveTarget(t) PROVE Typed'
  <2>1. events' \in 0..MaxEvents
    BY <1>5, EventTyped DEF RemoveTarget, Typed, TypeOK
  <2>2. subentries' \in [Targets -> {"new", "there", "gone"}] /\ updated' \in BOOLEAN
    BY <1>5 DEF RemoveTarget, Running, Typed, TypeOK
  <2>3. live' \subseteq Ids /\ records' \in [Ids -> Places \cup {Nowhere}]
    BY <1>5 DEF RemoveTarget, Running, Typed, TypeOK
  <2>4. QED
    BY <1>5, <2>1, <2>2, <2>3
       DEF RemoveTarget, Typed, TypeOK, RenamesCommand, bridgeVars, readVars, mirrorVars, flowVars
<1>6. ASSUME NEW c \in Ids, NEW p \in Places, MoveCommand(c, p) PROVE Typed'
  <2>1. events' \in 0..MaxEvents
    BY <1>6, EventTyped DEF MoveCommand, Typed, TypeOK
  <2>2. /\ foreign' \subseteq Ids
        /\ meta' \in [Ids -> CommandMeta]
        /\ updated' \in BOOLEAN
    BY <1>6, SetPlaceTyped DEF MoveCommand
  <2>3. QED
    BY <1>6, <2>1, <2>2
       DEF MoveCommand, Typed, TypeOK, RenamesCommand, bridgeVars, readVars, mirrorVars,
           buttonVars, flowVars
<1>7. ASSUME NEW c \in Ids, NEW n \in Names, NEW p \in Places, RenameCommand(c, n, p)
      PROVE  Typed'
  <2>1. events' \in 0..MaxEvents
    BY <1>7, EventTyped DEF RenameCommand, Typed, TypeOK
  <2>2. manage' \in ManageFlow /\ manage'.id \in Ids
    BY <1>7 DEF RenameCommand, ManageFlow, Registry, Typed, TypeOK
  <2>3. QED
    BY <1>7, <2>1, <2>2
       DEF RenameCommand, Typed, TypeOK, RenamesCommand, bridgeVars, readVars, mirrorVars,
           entryVars, buttonVars
<1>8. QED
  BY <1>1, <1>2, <1>3, <1>4, <1>5, <1>6, <1>7 DEF ManageNext

LEMMA StoredTyped ==
  ASSUME Typed, NEW n \in Names \cup {NoName}, Storable(n)
  PROVE  Stored(n) \in Registry
<1>1. CASE n \in NamesIn(registry)
  BY <1>1 DEF Stored, Typed, TypeOK
<1>2. CASE n \notin NamesIn(registry)
  <2>1. registry.next \in 1..MaxId /\ registry.next + 1 \in 1..(MaxId + 1)
    BY <1>2, SizesAssumption DEF Storable, Typed, TypeOK, Registry
  <2>2. registry.names \in [Ids -> Names \cup {NoName}]
    BY DEF Typed, TypeOK, Registry
  <2>3. [registry.names EXCEPT ![registry.next] = n] \in [Ids -> Names \cup {NoName}]
    BY <2>2
  <2>4. [registry EXCEPT !.names[registry.next] = n, !.next = @ + 1] \in Registry
    BY <2>1, <2>3 DEF Typed, TypeOK, Registry
  <2>5. QED
    BY <1>2, <2>4 DEF Stored
<1>3. QED
  BY <1>1, <1>2

LEMMA DisconnectsTyped ==
  ASSUME Typed, Disconnects
  PROVE  learn' \in LearnFlow /\ capture' = Idle /\ answer' = <<>>
<1>1. [learn EXCEPT !.st = "ended", !.id = NoId, !.own = registry.ours /\ NoId # NoId] \in LearnFlow
  BY DEF LearnFlow, Registry, Typed, TypeOK
<1>2. learn' \in LearnFlow
  BY <1>1 DEF Disconnects, LearnEnds, Typed, TypeOK
<1>3. QED
  BY <1>2 DEF Disconnects

LEMMA BridgeTyped == Typed /\ BridgeNext => Typed'
<1> SUFFICES ASSUME Typed, BridgeNext PROVE Typed'
  OBVIOUS
<1>0. ASSUME Outside, registry' \in Registry, capture' \in Capture, backup' \in Registry,
             Event \/ UNCHANGED events
      PROVE  Typed'
  <2>1. events' \in 0..MaxEvents
    BY <1>0, EventTyped DEF Typed, TypeOK
  <2>2. QED
    BY <1>0, <2>1
       DEF Outside, Typed, TypeOK, RenamesCommand, readVars, mirrorVars, entryVars, buttonVars,
           flowVars
<1>1. CASE Captures
  <2>1. capture.name \in Names \cup {NoName} /\ capture' \in Capture
    BY <1>1 DEF Captures, Capture, Typed, TypeOK
  <2>2. registry' \in Registry
    BY <1>1, <2>1, StoredTyped DEF Captures
  <2>3. QED
    BY <1>0, <1>1, <2>1, <2>2 DEF Captures, Typed, TypeOK
<1>2. CASE CaptureFails
  BY <1>0, <1>2, IdleTyped DEF CaptureFails, Typed, TypeOK
<1>3. ASSUME NEW n \in Names, LearnElsewhere(n) PROVE Typed'
  <2>1. registry' \in Registry
    BY <1>3, StoredTyped DEF LearnElsewhere
  <2>2. QED
    BY <1>0, <1>3, <2>1 DEF LearnElsewhere, Edit, Typed, TypeOK
<1>4. ASSUME NEW c \in Ids, NEW n \in Names \cup {NoName}
      PROVE  [registry EXCEPT !.names[c] = n] \in Registry
  <2>1. registry.names \in [Ids -> Names \cup {NoName}]
    BY DEF Typed, TypeOK, Registry
  <2>2. [registry.names EXCEPT ![c] = n] \in [Ids -> Names \cup {NoName}]
    BY <2>1
  <2>3. QED
    BY <2>2 DEF Typed, TypeOK, Registry
<1>5. ASSUME NEW c \in Ids, NEW n \in Names, RenameElsewhere(c, n) PROVE Typed'
  BY <1>0, <1>4, <1>5 DEF RenameElsewhere, Edit, Typed, TypeOK
<1>6. ASSUME NEW c \in Ids, Delete(c) PROVE Typed'
  BY <1>0, <1>4, <1>6 DEF Delete, Edit, Typed, TypeOK
<1>7. ASSUME Disconnects, registry' \in Registry, backup' \in Registry, Event \/ UNCHANGED events
      PROVE  Typed'
  <2>1. events' \in 0..MaxEvents
    BY <1>7, EventTyped DEF Typed, TypeOK
  <2>2. QED
    BY <1>7, <2>1, DisconnectsTyped, IdleTyped
       DEF Disconnects, Typed, TypeOK, RenamesCommand, mirrorVars, entryVars, buttonVars
<1>8. CASE ReplaceHardware
  BY <1>7, <1>8, BlankIsRegistry DEF ReplaceHardware, Typed, TypeOK
<1>9. CASE ReconnectHardware
  BY <1>7, <1>9, BlankIsRegistry DEF ReconnectHardware, Typed, TypeOK
<1>10. CASE RestoreBegin
  <2>1. registry' \in Registry
    BY <1>10, BlankIsRegistry DEF RestoreBegin, Registry, Typed, TypeOK
  <2>2. QED
    BY <1>0, <1>10, <2>1 DEF RestoreBegin, Typed, TypeOK
<1>11. CASE RestoreCommit
  BY <1>0, <1>11, BlankIsRegistry DEF RestoreCommit, Typed, TypeOK
<1>12. QED
  BY <1>1, <1>2, <1>3, <1>5, <1>6, <1>8, <1>9, <1>10, <1>11 DEF BridgeNext

LEMMA StutterTyped == Typed /\ UNCHANGED vars => Typed'
BY DEF Typed, TypeOK, RenamesCommand, vars, bridgeVars, readVars, mirrorVars, entryVars,
       buttonVars, flowVars

LEMMA TypedStep == Typed /\ [Next]_vars => Typed'
BY ReadTyped, EntryTyped, ButtonTyped, LearnTyped, ManageTyped, BridgeTyped, StutterTyped
   DEF Next

LEMMA AlwaysTyped == Spec => []Typed
BY InitTyped, TypedStep, PTL DEF Spec

\* Every reachable state of an entry has its types, whatever the user, the
\* bridge and Home Assistant do, in any order (the state of reconcile.py,
\* button.py and the flows of config_flow.py).
THEOREM TypeCorrect == Spec => []TypeOK
BY AlwaysTyped, PTL DEF Typed

-----------------------------------------------------------------------------
(* No id is claimed twice *)

\* NoIdClaimedTwice is about the moment before buttons are added. What leads
\* there: the platform knows where every button is; what a pass under way will
\* add, it has yet to remove or finds nowhere; and there is a pass only where
\* the platform has been set up, so the first buttons meet none.
ClaimInv ==
  /\ \A c \in live : placed[c] # Nowhere
  /\ pass.busy => \A c \in Ids : pass.add[c] # Nowhere => c \in pass.drop \/ placed[c] = Nowhere
  /\ queued \/ pass.busy => loaded \in {"buttons", "loaded"}

LEMMA InitClaims == Init => ClaimInv
BY DEF Init, ClaimInv, NoPass

\* Adding where nothing is left to remove.
LEMMA AddClaims ==
  ASSUME Typed, ClaimInv, NEW add \in [Ids -> Places \cup {Nowhere}], AddButtons(add)
  PROVE  \A c \in live' : placed'[c] # Nowhere
<1>1. ASSUME NEW c \in live' PROVE c \in Ids /\ (c \in live \/ add[c] # Nowhere)
  BY <1>1, PlacesAssumption DEF AddButtons, Typed, TypeOK, Places
<1>2. QED
  BY <1>1 DEF AddButtons, ClaimInv

LEMMA ReconcileClaims ==
  ASSUME NEW s, Reconcile(s)
  PROVE  live' \subseteq live
BY DEF Reconcile

LEMMA ClaimStep == Typed /\ ClaimInv /\ [Next]_vars => ClaimInv'
<1> SUFFICES ASSUME Typed, ClaimInv, [Next]_vars PROVE ClaimInv'
  OBVIOUS
<1>0. ASSUME live' \subseteq live, UNCHANGED <<pass, placed>>,
             queued' \/ pass.busy => loaded' \in {"buttons", "loaded"}
      PROVE  ClaimInv'
  BY <1>0 DEF ClaimInv
<1>1. ASSUME UNCHANGED <<buttonVars, loaded>> PROVE ClaimInv'
  BY <1>1 DEF ClaimInv, buttonVars
<1>2. CASE ReadNext
  <2>1. CASE PollAnswer
    BY <1>1, <2>1 DEF PollAnswer
  <2>2. CASE PollArrives
    BY <1>0, <2>2, ReconcileClaims DEF PollArrives, Listeners, ClaimInv
  <2>3. CASE PollFails
    BY <1>0, <2>3, ReconcileClaims DEF PollFails, Listeners, ClaimInv
  <2>4. QED
    BY <1>2, <2>1, <2>2, <2>3 DEF ReadNext
<1>3. CASE EntryNext
  <2>0. CASE FirstRefresh
    BY <1>0, <2>0 DEF FirstRefresh, buttonVars, ClaimInv
  <2>1. CASE Setup
    BY <1>0, <2>1, ReconcileClaims DEF Setup, ClaimInv
  <2>2. CASE SetupButtons
    <3>1. PICK lapsed \in MayLapse :
            AddButtons([c \in Ids |-> IF c \in Visible(lapsed) THEN Assigned(c) ELSE Nowhere])
      BY <2>2 DEF SetupButtons
    <3>2. [c \in Ids |-> IF c \in Visible(lapsed) THEN Assigned(c) ELSE Nowhere]
            \in [Ids -> Places \cup {Nowhere}]
      BY AssignedTyped
    <3>3. \A c \in live' : placed'[c] # Nowhere
      BY <3>1, <3>2, AddClaims
    <3>4. ~pass.busy /\ ~queued
      BY <2>2 DEF SetupButtons, ClaimInv
    <3>5. QED
      BY <2>2, <3>3, <3>4 DEF SetupButtons, ClaimInv
  <2>3. CASE Activate
    BY <1>0, <2>3, ReconcileClaims DEF Activate, ClaimInv
  <2>4. CASE Unload
    BY <2>4 DEF Unload, ClaimInv, NoPass
  <2>5. CASE EntryUpdated
    BY <1>0, <2>5 DEF EntryUpdated, ClaimInv
  <2>6. QED
    BY <1>3, <2>0, <2>1, <2>2, <2>3, <2>4, <2>5 DEF EntryNext
<1>4. CASE StartPass
  <2>1. PICK lapsed \in MayLapse :
          LET shown == Visible(lapsed)
              kept == {c \in shown : placed[c] = Assigned(c)}
              drop == {c \in Ids \ kept : placed[c] # Nowhere}
              add == [c \in Ids |-> IF c \in shown \ kept THEN Assigned(c) ELSE Nowhere]
          IN
          /\ reserved' = reserved \ lapsed
          /\ IF drop = {} THEN AddButtons(add) /\ UNCHANGED pass
             ELSE pass' = [busy |-> TRUE, drop |-> drop, add |-> add]
                  /\ UNCHANGED <<placed, live, records>>
    BY <1>4 DEF StartPass
  <2> DEFINE kept == {c \in Visible(lapsed) : placed[c] = Assigned(c)}
             drop == {c \in Ids \ kept : placed[c] # Nowhere}
             add == [c \in Ids |-> IF c \in Visible(lapsed) \ kept THEN Assigned(c) ELSE Nowhere]
  <2>2. add \in [Ids -> Places \cup {Nowhere}]
    BY AssignedTyped
  <2>3. \/ AddButtons(add) /\ UNCHANGED pass
        \/ pass' = [busy |-> TRUE, drop |-> drop, add |-> add] /\ UNCHANGED <<placed, live, records>>
    BY <2>1
  <2>4. \A c \in Ids : add[c] # Nowhere => c \in drop \/ placed[c] = Nowhere
    OBVIOUS
  <2> HIDE DEF kept, drop, add
  <2>5. ~pass.busy /\ queued' = FALSE /\ loaded' = loaded /\ loaded \in {"buttons", "loaded"}
    BY <1>4 DEF StartPass, ClaimInv
  <2>6. CASE AddButtons(add) /\ UNCHANGED pass
    BY <2>2, <2>5, <2>6, AddClaims DEF ClaimInv
  <2>7. CASE pass' = [busy |-> TRUE, drop |-> drop, add |-> add] /\ UNCHANGED <<placed, live, records>>
    BY <2>4, <2>5, <2>7 DEF ClaimInv
  <2>8. QED
    BY <2>3, <2>6, <2>7
<1>5. CASE FinishPass
  <2>1. AddButtons(pass.add) /\ pass.add \in [Ids -> Places \cup {Nowhere}]
    BY <1>5 DEF FinishPass, Typed, TypeOK, Pass
  <2>2. \A c \in live' : placed'[c] # Nowhere
    BY <2>1, AddClaims
  <2>3. QED
    BY <1>5, <2>2 DEF FinishPass, ClaimInv, NoPass
<1>6. ASSUME NEW c \in Ids, RemoveButton(c) PROVE ClaimInv'
  <2>1. /\ placed' = [placed EXCEPT ![c] = Nowhere] /\ live' = live \ {c}
        /\ pass'.busy = pass.busy /\ pass'.add = pass.add /\ pass'.drop = pass.drop \ {c}
        /\ queued' = queued /\ loaded' = loaded
    BY <1>6 DEF RemoveButton, Typed, TypeOK, Pass
  <2>2. placed \in [Ids -> Places \cup {Nowhere}] /\ live \subseteq Ids
    BY DEF Typed, TypeOK
  <2>3. QED
    BY <2>1, <2>2 DEF ClaimInv
<1>7. CASE LearnNext
  BY <1>1, <1>7
     DEF LearnNext, ArmLearn, LearnAnswered, LearnGivesUp, LearnFails, Learned, CloseLearn,
         StartLearn
<1>8. CASE ManageNext
  <2>1. ASSUME NEW t \in Targets, RemoveTarget(t) PROVE ClaimInv'
    BY <1>0, <2>1 DEF RemoveTarget, ClaimInv
  <2>2. QED
    BY <1>1, <1>8, <2>1
       DEF ManageNext, RenameOnBridge, RenameFails, RenameSaved, CreateTarget, MoveCommand,
           RenameCommand
<1>9. CASE BridgeNext
  BY <1>1, <1>9
     DEF BridgeNext, Captures, CaptureFails, LearnElsewhere, RenameElsewhere, Delete, Edit, Outside,
         ReplaceHardware, ReconnectHardware, RestoreBegin, RestoreCommit, Disconnects
<1>10. CASE UNCHANGED vars
  BY <1>1, <1>10 DEF vars
<1>11. QED
  BY <1>2, <1>3, <1>4, <1>5, <1>6, <1>7, <1>8, <1>9, <1>10 DEF Next, ButtonNext

LEMMA ClaimsTold == Typed /\ ClaimInv => NoIdClaimedTwice
BY DEF Typed, TypeOK, Pass, ClaimInv, NoIdClaimedTwice

\* Whatever comes while a pass over the buttons is suspended, no button is
\* added while one of the same id exists: the lock of button.py and its order
\* of removing and adding are enough, for any number of commands and targets.
THEOREM IdsClaimedOnce == Spec => []NoIdClaimedTwice
<1>1. Spec => []ClaimInv
  BY InitClaims, ClaimStep, AlwaysTyped, PTL DEF Spec
<1>2. QED
  BY <1>1, ClaimsTold, AlwaysTyped, PTL

-----------------------------------------------------------------------------
(* Readings and their age *)

\* The registry of this logical bridge, of which OnBridge is what it lists.
Bridge == IF registry.ours /\ ~registry.restoring THEN registry ELSE backup
Good(s) == s.ours /\ ~s.restoring

\* Reading r is no later than s: an id that r could have listed and did not is not in s either,
\* because ids are never given again.
Before(r, s) ==
  /\ r.next <= s.next
  /\ \A c \in Listed(s) : c < r.next => c \in Listed(r)
Sound(s) == \A c \in Listed(s) : c < s.next

\* The readings something may yet be decided from: the answer under way, the data held.
Coming == answer # <<>> /\ Good(answer)
Held == loaded # "unloaded" /\ Good(data)

\* Which of them are ours, and how old they are: the mirror knows once it has had its first look.
\* A restore that is open shows no command yet.
Quiet(s) == s.restoring => Listed(s) = {}
AgeInv ==
  /\ Sound(registry) /\ Sound(Bridge) /\ Good(Bridge)
  /\ Quiet(registry) /\ Quiet(data) /\ (answer # <<>> => Quiet(answer))
  /\ ~Running => answer = <<>>
  /\ Running => mismatch = ~data.ours
  /\ Coming => Before(answer, Bridge) /\ Sound(answer)
  /\ Held => Before(data, Bridge) /\ Sound(data)
  /\ Coming /\ Held => Before(data, answer)

LEMMA ListedIds ==
  ASSUME NEW s
  PROVE  Listed(s) \subseteq Ids
BY DEF Listed

LEMMA BridgeTypes ==
  ASSUME Typed
  PROVE  /\ Bridge \in Registry /\ OnBridge = Listed(Bridge)
         /\ Good(registry) => Bridge = registry
BY DEF Typed, TypeOK, Bridge, OnBridge, Good

LEMMA BeforeItself ==
  ASSUME NEW s \in Registry
  PROVE  Before(s, s)
BY SizesAssumption DEF Before, Registry

LEMMA BeforeAll ==
  ASSUME NEW q \in Registry, NEW r \in Registry, NEW s \in Registry, Before(q, r), Before(r, s)
  PROVE  Before(q, s)
<1>1. q.next \in Nat /\ r.next \in Nat /\ s.next \in Nat
  BY SizesAssumption DEF Registry
<1>2. ASSUME NEW c \in Listed(s), c < q.next PROVE c \in Listed(q)
  BY <1>1, <1>2 DEF Before, Listed, Ids
<1>3. QED
  BY <1>1, <1>2 DEF Before

\* What an operation makes of the registry: the next id is listed, or no other than were.
Onward(r, s) ==
  /\ Before(r, s) /\ (Sound(r) => Sound(s))
  /\ s.ours = r.ours /\ s.restoring = r.restoring /\ r.restoring = FALSE

LEMMA NamedOnward ==
  ASSUME NEW r \in Registry, NEW c \in Ids, NEW n, ~r.restoring, n = NoName \/ c \in Listed(r)
  PROVE  Onward(r, [r EXCEPT !.names[c] = n])
<1> DEFINE s == [r EXCEPT !.names[c] = n]
<1>1. /\ s.next = r.next /\ s.ours = r.ours /\ s.restoring = r.restoring /\ r.next \in Nat
      /\ \A d \in Ids : s.names[d] = IF d = c THEN n ELSE r.names[d]
  BY SizesAssumption DEF Registry
<1>2. Listed(s) \subseteq Listed(r)
  BY <1>1 DEF Listed
<1>3. r.restoring = FALSE
  BY DEF Registry
<1> HIDE DEF s
<1>4. Onward(r, s)
  BY <1>1, <1>2, <1>3 DEF Onward, Before, Sound
<1>5. QED
  BY <1>4 DEF s

LEMMA StoredOnward ==
  ASSUME Typed, NEW n, Storable(n)
  PROVE  Onward(registry, Stored(n))
<1>1. registry \in Registry /\ registry.restoring = FALSE /\ registry.next \in Nat
  BY SizesAssumption DEF Typed, TypeOK, Registry, Storable
<1>2. CASE n \in NamesIn(registry)
  BY <1>1, <1>2, BeforeItself DEF Stored, Onward
<1>3. CASE n \notin NamesIn(registry)
  <2> DEFINE s == Stored(n)
  <2>1. registry.next \in Ids
    BY <1>1, <1>3 DEF Storable, Ids, Registry
  <2>2. /\ s.next = registry.next + 1 /\ s.ours = registry.ours /\ s.restoring = FALSE
        /\ \A d \in Ids : s.names[d] = IF d = registry.next THEN n ELSE registry.names[d]
    BY <1>1, <1>3, <2>1 DEF Stored, Registry
  <2> HIDE DEF s
  <2>3. \A d \in Listed(s) : d = registry.next \/ d \in Listed(registry)
    BY <2>2 DEF Listed
  <2>4. \A d \in Listed(registry) : d \in Nat
    BY DEF Listed, Ids
  <2>5. Before(registry, s)
    BY <1>1, <2>2, <2>3 DEF Before
  <2>6. Sound(registry) => Sound(s)
    BY <1>1, <2>2, <2>3, <2>4 DEF Sound
  <2>7. Onward(registry, s)
    BY <1>1, <2>2, <2>5, <2>6 DEF Onward
  <2>8. QED
    BY <2>7 DEF s
<1>4. QED
  BY <1>2, <1>3

LEMMA BlankIsSound == Sound(Blank) /\ Listed(Blank) = {}
BY DEF Sound, Blank, Listed

\* What the lines of AgeInv about the bridge itself become.
BridgeMoves ==
  /\ Before(Bridge, Bridge') /\ Sound(registry') /\ Sound(Bridge') /\ Good(Bridge')
  /\ Quiet(registry')

LEMMA SameBridge ==
  ASSUME Typed, AgeInv, UNCHANGED <<registry, backup>>
  PROVE  BridgeMoves
BY BridgeTypes, BeforeItself DEF AgeInv, Bridge, BridgeMoves, Quiet

LEMMA EditedBridge ==
  ASSUME Typed, AgeInv, Onward(registry, registry'), backup' = backup
  PROVE  BridgeMoves
<1>1. registry'.ours = registry.ours /\ registry'.restoring = FALSE /\ registry.restoring = FALSE
  BY DEF Onward
<1>2. Sound(registry')
  BY DEF Onward, AgeInv
<1>3. CASE registry.ours
  <2>1. Bridge = registry /\ Bridge' = registry'
    BY <1>1, <1>3 DEF Bridge
  <2>2. QED
    BY <1>1, <1>2, <1>3, <2>1 DEF BridgeMoves, Onward, Good, Quiet
<1>4. CASE ~registry.ours
  <2>1. Bridge = backup /\ Bridge' = backup
    BY <1>1, <1>4 DEF Bridge
  <2>2. QED
    BY <1>1, <1>2, <2>1, BridgeTypes, BeforeItself DEF BridgeMoves, AgeInv, Quiet
<1>5. QED
  BY <1>3, <1>4

\* However the hardware changes, the logical bridge keeps what it has.
LEMMA ChangedHardware ==
  ASSUME Typed, AgeInv, ReplaceHardware \/ ReconnectHardware \/ RestoreBegin \/ RestoreCommit
  PROVE  BridgeMoves
<1>0. Before(Bridge, Bridge) /\ Good(Bridge) /\ Sound(Bridge) /\ Sound(registry)
  BY BridgeTypes, BeforeItself DEF AgeInv
<1>1. CASE ReplaceHardware
  <2>1. Bridge' = registry /\ Bridge = registry /\ registry' = Blank
    BY <1>1 DEF ReplaceHardware, Bridge, Blank
  <2>2. QED
    BY <1>0, <2>1, BlankIsSound DEF BridgeMoves, Quiet
<1>2. CASE ReconnectHardware
  <2>1. Bridge = backup /\ registry' = backup
    BY <1>2 DEF ReconnectHardware, Bridge
  <2>2. registry'.ours /\ ~registry'.restoring
    BY <1>0, <2>1 DEF Good
  <2>3. Bridge' = backup
    BY <2>1, <2>2 DEF Bridge
  <2>4. QED
    BY <1>0, <2>1, <2>2, <2>3 DEF BridgeMoves, Quiet
<1>3. CASE RestoreBegin
  <2>1. /\ Bridge = backup /\ backup' = backup
        /\ registry' = [Blank EXCEPT !.ours = TRUE, !.restoring = TRUE, !.next = backup.next]
    BY <1>3 DEF RestoreBegin, Bridge
  <2>2. registry'.restoring /\ Listed(registry') = {}
    BY <2>1 DEF Blank, Listed
  <2>3. Bridge' = backup /\ Sound(registry')
    BY <2>1, <2>2 DEF Bridge, Sound
  <2>4. QED
    BY <1>0, <2>1, <2>2, <2>3 DEF BridgeMoves, Quiet
<1>4. CASE RestoreCommit
  <2>1. Bridge = backup /\ registry' = backup
    BY <1>4 DEF RestoreCommit, Bridge
  <2>2. registry'.ours /\ ~registry'.restoring
    BY <1>0, <2>1 DEF Good
  <2>3. Bridge' = backup
    BY <2>1, <2>2 DEF Bridge
  <2>4. QED
    BY <1>0, <2>1, <2>2, <2>3 DEF BridgeMoves, Quiet
<1>5. QED
  BY <1>1, <1>2, <1>3, <1>4

LEMMA BridgeOnward == Typed /\ AgeInv /\ [Next]_vars => BridgeMoves
<1> SUFFICES ASSUME Typed, AgeInv, [Next]_vars PROVE BridgeMoves
  OBVIOUS
<1>0. registry \in Registry
  BY DEF Typed, TypeOK
<1>1. CASE ReadNext \/ EntryNext \/ ButtonNext \/ LearnNext \/ UNCHANGED vars
  <2>1. UNCHANGED <<registry, backup>>
    BY <1>1
       DEF ReadNext, PollAnswer, PollArrives, PollFails, EntryNext, FirstRefresh, Setup, SetupButtons, Activate,
           Unload, EntryUpdated, ButtonNext, StartPass, FinishPass, RemoveButton, LearnNext, ArmLearn,
           LearnAnswered, LearnGivesUp, LearnFails, Learned, CloseLearn, StartLearn, vars, bridgeVars
  <2>2. QED
    BY <2>1, SameBridge
<1>2. CASE ManageNext
  <2>1. CASE RenameOnBridge /\ registry' # registry
    <3>1. /\ registry' = [registry EXCEPT !.names[manage.id] = manage.name]
          /\ manage.id \in Listed(registry) /\ ~registry.restoring /\ backup' = backup
      BY <2>1 DEF RenameOnBridge
    <3>2. QED
      BY <1>0, <3>1, NamedOnward, ListedIds, EditedBridge
  <2>2. CASE ~(RenameOnBridge /\ registry' # registry)
    <3>1. UNCHANGED <<registry, backup>>
      BY <1>2, <2>2
         DEF ManageNext, RenameOnBridge, RenameFails, RenameSaved, CreateTarget, RemoveTarget,
             MoveCommand, RenameCommand, bridgeVars
    <3>2. QED
      BY <3>1, SameBridge
  <2>3. QED
    BY <2>1, <2>2
<1>3. CASE BridgeNext
  <2>1. CASE Captures
    BY <2>1, StoredOnward, EditedBridge DEF Captures
  <2>2. CASE CaptureFails
    BY <2>2, SameBridge DEF CaptureFails
  <2>3. ASSUME NEW n \in Names, LearnElsewhere(n) PROVE BridgeMoves
    BY <2>3, StoredOnward, EditedBridge DEF LearnElsewhere
  <2>4. ASSUME NEW c \in Ids, Delete(c) PROVE BridgeMoves
    BY <1>0, <2>4, NamedOnward, EditedBridge DEF Delete
  <2>5. ASSUME NEW c \in Ids, NEW n \in Names, RenameElsewhere(c, n) PROVE BridgeMoves
    BY <1>0, <2>5, NamedOnward, EditedBridge DEF RenameElsewhere
  <2>6. QED
    BY <1>3, <2>1, <2>2, <2>3, <2>4, <2>5, ChangedHardware DEF BridgeNext
<1>4. QED
  BY <1>1, <1>2, <1>3 DEF Next

\* Readings only get older; a connection that breaks loses the one under way.
LEMMA ReadingsAge ==
  ASSUME Typed, AgeInv, BridgeMoves, Typed',
         data' = data, mismatch' = mismatch, answer' = answer \/ answer' = <<>>,
         loaded' = loaded \/ (Running /\ Running')
  PROVE  AgeInv'
<1>1. Bridge \in Registry /\ Bridge' \in Registry
  BY BridgeTypes DEF Typed, TypeOK, Bridge
<1>2. Coming' => Coming /\ answer' = answer /\ answer \in Registry
  BY DEF Coming, Typed, TypeOK
<1>3. Held' => Held /\ data \in Registry
  BY DEF Held, Running, Typed, TypeOK
<1>4. Coming' => Before(answer', Bridge') /\ Sound(answer')
  BY <1>1, <1>2, BeforeAll DEF AgeInv, BridgeMoves
<1>5. Held' => Before(data', Bridge') /\ Sound(data')
  BY <1>1, <1>3, BeforeAll DEF AgeInv, BridgeMoves
<1>6. Coming' /\ Held' => Before(data', answer')
  BY <1>2, <1>3 DEF AgeInv
<1>7. Running' = Running /\ (~Running => answer' = <<>>)
  BY DEF AgeInv, Running
<1>8. QED
  BY <1>4, <1>5, <1>6, <1>7 DEF AgeInv, BridgeMoves

LEMMA MirrorOf ==
  ASSUME NEW s, Reconcile(s)
  PROVE  mismatch' = ~s.ours
BY DEF Reconcile

LEMMA InitAges == Init => AgeInv
<1> SUFFICES ASSUME Init PROVE AgeInv
  OBVIOUS
<1>1. PICK n \in 1..MaxId, names \in [Ids -> Names \cup {NoName}] :
        /\ \A c \in Ids : names[c] # NoName => c < n /\ \A d \in Ids : names[d] = names[c] => d = c
        /\ registry = [ours |-> TRUE, restoring |-> FALSE, next |-> n, names |-> names]
  BY DEF Init
<1>2. Bridge = registry /\ Good(registry) /\ Sound(registry)
  BY <1>1 DEF Bridge, Good, Sound, Listed
<1>3. answer = <<>> /\ loaded = "unloaded" /\ Quiet(registry) /\ Quiet(data)
  BY <1>1, BlankIsSound DEF Init, Quiet
<1>4. QED
  BY <1>2, <1>3 DEF AgeInv, Coming, Held, Good, Running

LEMMA AgeStep == Typed /\ AgeInv /\ [Next]_vars => AgeInv'
<1> SUFFICES ASSUME Typed, AgeInv, [Next]_vars PROVE AgeInv'
  OBVIOUS
<1>0. BridgeMoves /\ Typed'
  BY BridgeOnward, TypedStep
<1>1. Bridge \in Registry /\ registry \in Registry /\ data \in Registry
  BY BridgeTypes DEF Typed, TypeOK
<1>2. CASE PollAnswer
  <2>1. /\ answer' = registry /\ data' = data /\ loaded' = loaded /\ mismatch' = mismatch
        /\ registry' = registry /\ backup' = backup /\ Bridge' = Bridge
    BY <1>2 DEF PollAnswer, bridgeVars, mirrorVars, Bridge
  <2>2. Good(registry) => Bridge = registry
    BY BridgeTypes
  <2>3. Coming' => Before(answer', Bridge') /\ Sound(answer')
    BY <1>1, <2>1, <2>2, BeforeItself DEF Coming, AgeInv
  <2>4. Held' => Held /\ Before(data', Bridge') /\ Sound(data')
    BY <2>1 DEF Held, AgeInv
  <2>5. Coming' /\ Held' => Before(data', answer')
    BY <2>1, <2>2, <2>4 DEF Coming
  <2>6. Running /\ Running'
    BY <1>2 DEF PollAnswer, Running
  <2>7. QED
    BY <1>0, <2>1, <2>3, <2>4, <2>5, <2>6 DEF AgeInv, BridgeMoves
<1>3. CASE PollArrives
  <2>1. /\ answer # <<>> /\ answer' = <<>> /\ data' = answer /\ loaded' = loaded
        /\ Bridge' = Bridge /\ mismatch' = ~data'.ours
    BY <1>3, MirrorOf DEF PollArrives, Listeners, bridgeVars, Bridge
  <2>2. Held' => Coming
    BY <2>1 DEF Held, Coming
  <2>3. Held' => Before(data', Bridge') /\ Sound(data')
    BY <2>1, <2>2 DEF AgeInv
  <2>4. ~Coming'
    BY <2>1 DEF Coming
  <2>5. QED
    BY <1>0, <2>1, <2>3, <2>4 DEF AgeInv, BridgeMoves
<1>4. CASE PollFails
  <2>1. /\ UNCHANGED <<answer, data, loaded>> /\ mismatch' = ~data.ours /\ Running
    BY <1>4, MirrorOf DEF PollFails, Listeners
  <2>2. QED
    BY <1>0, <2>1, ReadingsAge DEF AgeInv
<1>5. CASE FirstRefresh
  <2>1. /\ ~Running /\ ~Running' /\ data' = registry /\ answer' = answer /\ Bridge' = Bridge
    BY <1>5 DEF FirstRefresh, Running, bridgeVars, Bridge
  <2>2. Good(registry) => Bridge = registry
    BY BridgeTypes
  <2>3. ~Coming'
    BY <2>1 DEF Coming, AgeInv
  <2>4. Held' => Before(data', Bridge') /\ Sound(data')
    BY <1>1, <2>1, <2>2, BeforeItself DEF Held, AgeInv
  <2>5. QED
    BY <1>0, <2>1, <2>3, <2>4 DEF AgeInv, BridgeMoves
<1>16. CASE Setup
  <2>1. /\ UNCHANGED <<answer, data, Bridge>> /\ mismatch' = ~data.ours
        /\ loaded = "refreshed" /\ loaded' = "loading"
    BY <1>16, MirrorOf DEF Setup, readVars, bridgeVars, Bridge
  <2>2. ~Running /\ Running' /\ (Held' => Held)
    BY <2>1 DEF Running, Held
  <2>3. ~Coming'
    BY <2>1, <2>2 DEF Coming, AgeInv
  <2>4. QED
    BY <1>0, <2>1, <2>2, <2>3 DEF AgeInv, BridgeMoves
<1>6. CASE Activate
  <2>1. /\ loaded = "buttons" /\ loaded' = "loaded" /\ answer' = answer /\ data' = data
        /\ mismatch' = ~data.ours
    BY <1>6, MirrorOf DEF Activate, readVars
  <2>2. Running /\ Running'
    BY <2>1 DEF Running
  <2>3. QED
    BY <1>0, <2>1, <2>2, ReadingsAge DEF AgeInv
<1>7. CASE SetupButtons
  BY <1>0, <1>7, ReadingsAge DEF SetupButtons, readVars, Running
<1>8. CASE Unload
  <2>1. answer' = <<>> /\ loaded' = "unloaded" /\ Quiet(data')
    BY <1>8, BlankIsSound DEF Unload, Quiet
  <2>2. QED
    BY <1>0, <2>1 DEF AgeInv, BridgeMoves, Coming, Held, Running
<1>9. CASE EntryUpdated
  BY <1>0, <1>9, ReadingsAge DEF EntryUpdated, readVars, mirrorVars
<1>10. CASE ButtonNext
  BY <1>0, <1>10, ReadingsAge
     DEF ButtonNext, StartPass, FinishPass, RemoveButton, readVars, mirrorVars
<1>11. CASE LearnNext
  BY <1>0, <1>11, ReadingsAge
     DEF LearnNext, ArmLearn, LearnAnswered, LearnGivesUp, LearnFails, Learned, CloseLearn,
         StartLearn, readVars, mirrorVars
<1>12. CASE ManageNext
  BY <1>0, <1>12, ReadingsAge
     DEF ManageNext, RenameOnBridge, RenameFails, RenameSaved, CreateTarget, RemoveTarget,
         MoveCommand, RenameCommand, readVars, mirrorVars
<1>13. CASE BridgeNext
  BY <1>0, <1>13, ReadingsAge
     DEF BridgeNext, Captures, CaptureFails, LearnElsewhere, RenameElsewhere, Delete, Edit, Outside,
         ReplaceHardware, ReconnectHardware, RestoreBegin, RestoreCommit, Disconnects, readVars,
         mirrorVars
<1>14. CASE UNCHANGED vars
  BY <1>0, <1>14, ReadingsAge DEF vars, readVars, mirrorVars
<1>15. QED
  BY <1>2, <1>3, <1>4, <1>5, <1>6, <1>7, <1>8, <1>9, <1>10, <1>11, <1>12, <1>13, <1>14, <1>16
     DEF Next, ReadNext, EntryNext

LEMMA AgesAlways == Spec => [](Typed /\ AgeInv)
BY InitTyped, InitAges, TypedStep, AgeStep, PTL DEF Spec

-----------------------------------------------------------------------------
(* Ids that are not newer than a reading *)

\* No answer that may yet arrive, and no reading at all, was given before the bridge gave this id.
NotNew(c) == c < Bridge.next /\ (Coming => c < answer.next)
Below(c) == NotNew(c) /\ (Held => c < data.next)

\* Neither the bridge nor what was read of it has a command with this id.
Past(c) ==
  /\ c \notin Listed(Bridge)
  /\ Coming => c \notin Listed(answer)
  /\ Held => c \notin Listed(data)

\* Where readings come from.
LEMMA ReadingMoves ==
  ASSUME [Next]_vars
  PROVE  /\ answer' = answer \/ answer' = <<>> \/ (answer' = registry /\ Bridge' = Bridge)
         /\ loaded' = "unloaded" \/ (loaded # "unloaded" /\ data' = data)
              \/ (data' = registry /\ Bridge' = Bridge) \/ (answer # <<>> /\ data' = answer)
<1>1. CASE ReadNext
  BY <1>1 DEF ReadNext, PollAnswer, PollArrives, PollFails, bridgeVars, Bridge
<1>2. CASE EntryNext
  BY <1>2 DEF EntryNext, FirstRefresh, Setup, SetupButtons, Activate, Unload, EntryUpdated, bridgeVars, readVars, Bridge
<1>3. CASE ButtonNext \/ LearnNext \/ ManageNext \/ UNCHANGED vars
  BY <1>3
     DEF ButtonNext, StartPass, FinishPass, RemoveButton, LearnNext, ArmLearn, LearnAnswered,
         LearnGivesUp, LearnFails, Learned, CloseLearn, StartLearn, ManageNext, RenameOnBridge,
         RenameFails, RenameSaved, CreateTarget, RemoveTarget, MoveCommand, RenameCommand, vars, readVars
<1>4. CASE BridgeNext
  BY <1>4
     DEF BridgeNext, Captures, CaptureFails, LearnElsewhere, RenameElsewhere, Delete, Edit, Outside,
         ReplaceHardware, ReconnectHardware, RestoreBegin, RestoreCommit, Disconnects, readVars
<1>5. QED
  BY <1>1, <1>2, <1>3, <1>4 DEF Next

LEMMA NotNewStays ==
  ASSUME Typed, AgeInv, [Next]_vars, NEW c \in Ids, NotNew(c)
  PROVE  NotNew(c)'
<1>1. Bridge \in Registry /\ Bridge' \in Registry /\ Before(Bridge, Bridge')
  BY BridgeTypes, BridgeOnward, TypedStep DEF BridgeMoves, Typed, TypeOK, Bridge
<1>2. c < Bridge'.next
  BY <1>1, SizesAssumption DEF NotNew, Before, Registry, Ids
<1>3. ASSUME Coming' PROVE c < answer'.next
  <2>1. answer' # <<>> /\ Good(answer')
    BY <1>3 DEF Coming
  <2>2. CASE answer' = answer
    BY <2>1, <2>2 DEF NotNew, Coming
  <2>3. CASE answer' = registry
    BY <2>1, <2>3, BridgeTypes DEF NotNew
  <2>4. QED
    BY <2>1, <2>2, <2>3, ReadingMoves
<1>4. QED
  BY <1>2, <1>3 DEF NotNew

LEMMA BelowStays ==
  ASSUME Typed, AgeInv, [Next]_vars, NEW c \in Ids, Below(c)
  PROVE  Below(c)'
<1>1. NotNew(c) /\ NotNew(c)'
  BY NotNewStays DEF Below
<1>2. ASSUME Held' PROVE c < data'.next
  <2>1. loaded' # "unloaded" /\ Good(data')
    BY <1>2 DEF Held
  <2>2. CASE loaded # "unloaded" /\ data' = data
    BY <2>1, <2>2 DEF Below, Held
  <2>3. CASE data' = registry
    BY <1>1, <2>1, <2>3, BridgeTypes DEF NotNew
  <2>4. CASE answer # <<>> /\ data' = answer
    BY <1>1, <2>1, <2>4 DEF NotNew, Coming
  <2>5. QED
    BY <2>1, <2>2, <2>3, <2>4, ReadingMoves
<1>3. QED
  BY <1>1, <1>2 DEF Below

\* Ids are never given again: one that is past stays so.
LEMMA PastStays ==
  ASSUME Typed, AgeInv, [Next]_vars, NEW c \in Ids, Below(c), Past(c)
  PROVE  Past(c)'
<1>1. c \notin Listed(Bridge')
  <2>1. Before(Bridge, Bridge') /\ c < Bridge.next /\ c \notin Listed(Bridge)
    BY BridgeOnward DEF BridgeMoves, Below, NotNew, Past
  <2>2. QED
    BY <2>1 DEF Before
<1>2. ASSUME Coming' PROVE c \notin Listed(answer')
  <2>1. answer' # <<>> /\ Good(answer')
    BY <1>2 DEF Coming
  <2>2. CASE answer' = answer
    BY <2>1, <2>2 DEF Past, Coming
  <2>3. CASE answer' = registry
    BY <2>1, <2>3, BridgeTypes DEF Past
  <2>4. QED
    BY <2>1, <2>2, <2>3, ReadingMoves
<1>3. ASSUME Held' PROVE c \notin Listed(data')
  <2>1. loaded' # "unloaded" /\ Good(data')
    BY <1>3 DEF Held
  <2>2. CASE loaded # "unloaded" /\ data' = data
    BY <2>1, <2>2 DEF Past, Held
  <2>3. CASE data' = registry
    BY <2>1, <2>3, BridgeTypes DEF Past
  <2>4. CASE answer # <<>> /\ data' = answer
    BY <2>1, <2>4 DEF Past, Coming
  <2>5. QED
    BY <2>1, <2>2, <2>3, <2>4, ReadingMoves
<1>4. QED
  BY <1>1, <1>2, <1>3 DEF Past

LEMMA HeldIsBelow ==
  ASSUME Typed, AgeInv, Held, NEW c \in Listed(data)
  PROVE  Below(c)
<1>1. c \in Nat /\ data.next \in Nat /\ Bridge.next \in Nat /\ (Coming => answer.next \in Nat)
  BY SizesAssumption, BridgeTypes DEF Listed, Ids, Registry, Coming, Typed, TypeOK
<1>2. c < data.next /\ data.next <= Bridge.next /\ (Coming => data.next <= answer.next)
  BY DEF AgeInv, Sound, Before
<1>3. QED
  BY <1>1, <1>2 DEF Below, NotNew

\* An id below a reading that does not have it is past, when nothing older is under way.
LEMMA MissingIsPast ==
  ASSUME Typed, AgeInv, Held, NEW c \in Ids, c < data.next, c \notin Listed(data)
  PROVE  Past(c)
<1>1. Before(data, Bridge) /\ (Coming => Before(data, answer))
  BY DEF AgeInv
<1>2. QED
  BY <1>1 DEF Past, Before

-----------------------------------------------------------------------------
(* Records are kept *)

\* What has been shown, or is about to be, is no newer than any reading that may yet be acted on.
Known(c) == records[c] # Nowhere \/ placed[c] # Nowhere \/ pass.add[c] # Nowhere
RecordsInv == \A c \in Ids : Known(c) => Below(c)

LEMMA InitRecords == Init => RecordsInv
<1> SUFFICES ASSUME Init PROVE RecordsInv
  OBVIOUS
<1>1. PICK n \in 1..MaxId, names \in [Ids -> Names \cup {NoName}] :
        /\ \A c \in Ids : names[c] # NoName => c < n /\ \A d \in Ids : names[d] = names[c] => d = c
        /\ registry = [ours |-> TRUE, restoring |-> FALSE, next |-> n, names |-> names]
  BY DEF Init
<1>2. Bridge.next = n /\ \A c \in Listed(registry) : c < n
  BY <1>1 DEF Bridge, Listed
<1>3. \A c \in Ids : Known(c) => c \in Listed(registry)
  BY DEF Init, Known, NoPass, Hidden
<1>4. ~Coming /\ ~Held
  BY DEF Init, Coming, Held
<1>5. QED
  BY <1>2, <1>3, <1>4 DEF RecordsInv, Below, NotNew

\* What a pass shows is listed by data that are ours.
LEMMA VisibleHeld ==
  ASSUME Typed, AgeInv, Running, NEW lapsed, NEW c \in Visible(lapsed)
  PROVE  Held /\ c \in Listed(data)
BY DEF Visible, Trusted, AgeInv, Held, Good, Running

LEMMA AddKnown ==
  ASSUME Typed, NEW add, AddButtons(add), NEW c \in Ids,
         records'[c] # Nowhere \/ placed'[c] # Nowhere
  PROVE  records[c] # Nowhere \/ placed[c] # Nowhere \/ add[c] # Nowhere
BY DEF AddButtons, Typed, TypeOK

\* Nothing is shown that was not, but for commands of the data.
LEMMA NewlyKnown ==
  ASSUME Typed, AgeInv, ClaimInv, [Next]_vars, NEW c \in Ids, Known(c)'
  PROVE  Known(c) \/ (Held /\ c \in Listed(data))
<1>1. CASE PollAnswer \/ PollArrives \/ PollFails \/ FirstRefresh \/ Setup \/ Activate \/ EntryUpdated
  BY <1>1
     DEF PollAnswer, PollArrives, PollFails, FirstRefresh, Setup, Activate, EntryUpdated, Listeners, Reconcile,
         buttonVars, Known, Typed, TypeOK
<1>2. CASE SetupButtons
  <2>1. PICK lapsed \in MayLapse :
          AddButtons([d \in Ids |-> IF d \in Visible(lapsed) THEN Assigned(d) ELSE Nowhere])
    BY <1>2 DEF SetupButtons
  <2>2. pass' = pass /\ Running
    BY <1>2 DEF SetupButtons, Running
  <2>3. CASE c \in Visible(lapsed)
    BY <2>2, <2>3, VisibleHeld
  <2>4. CASE c \notin Visible(lapsed)
    BY <2>1, <2>2, <2>4, AddKnown DEF Known
  <2>5. QED
    BY <2>3, <2>4
<1>3. CASE Unload
  BY <1>3 DEF Unload, Known, Hidden, NoPass
<1>4. CASE StartPass
  <2>1. PICK lapsed \in MayLapse :
          LET shown == Visible(lapsed)
              kept == {d \in shown : placed[d] = Assigned(d)}
              drop == {d \in Ids \ kept : placed[d] # Nowhere}
              add == [d \in Ids |-> IF d \in shown \ kept THEN Assigned(d) ELSE Nowhere]
          IN IF drop = {} THEN AddButtons(add) /\ UNCHANGED pass
             ELSE pass' = [busy |-> TRUE, drop |-> drop, add |-> add]
                  /\ UNCHANGED <<placed, live, records>>
    BY <1>4 DEF StartPass
  <2> DEFINE kept == {d \in Visible(lapsed) : placed[d] = Assigned(d)}
             drop == {d \in Ids \ kept : placed[d] # Nowhere}
             add == [d \in Ids |-> IF d \in Visible(lapsed) \ kept THEN Assigned(d) ELSE Nowhere]
  <2>2. \/ AddButtons(add) /\ UNCHANGED pass
        \/ pass' = [busy |-> TRUE, drop |-> drop, add |-> add] /\ UNCHANGED <<placed, live, records>>
    BY <2>1
  <2>3. add[c] # Nowhere => c \in Visible(lapsed)
    OBVIOUS
  <2> HIDE DEF kept, drop, add
  <2>4. Known(c) \/ add[c] # Nowhere
    BY <2>2, AddKnown DEF Known
  <2>5. Running
    BY <1>4 DEF StartPass, ClaimInv, Running
  <2>6. QED
    BY <2>3, <2>4, <2>5, VisibleHeld
<1>5. CASE FinishPass
  BY <1>5, AddKnown DEF FinishPass, Known, NoPass, Hidden
<1>6. ASSUME NEW d \in Ids, RemoveButton(d) PROVE Known(c)
  BY <1>6 DEF RemoveButton, Known, Pass, Typed, TypeOK
<1>7. CASE LearnNext \/ UNCHANGED vars
  BY <1>7
     DEF LearnNext, ArmLearn, LearnAnswered, LearnGivesUp, LearnFails, Learned, CloseLearn,
         StartLearn, vars, buttonVars, Known
<1>8. CASE ManageNext
  BY <1>8
     DEF ManageNext, RenameOnBridge, RenameFails, RenameSaved, CreateTarget, RemoveTarget,
         MoveCommand, RenameCommand, buttonVars, Known, Typed, TypeOK
<1>9. CASE BridgeNext
  BY <1>9
     DEF BridgeNext, Captures, CaptureFails, LearnElsewhere, RenameElsewhere, Delete, Edit, Outside,
         ReplaceHardware, ReconnectHardware, RestoreBegin, RestoreCommit, Disconnects, buttonVars, Known
<1>10. QED
  BY <1>1, <1>2, <1>3, <1>4, <1>5, <1>6, <1>7, <1>8, <1>9 DEF Next, ReadNext, EntryNext, ButtonNext

LEMMA RecordsStep == Typed /\ AgeInv /\ ClaimInv /\ RecordsInv /\ [Next]_vars => RecordsInv'
<1> SUFFICES ASSUME Typed, AgeInv, ClaimInv, RecordsInv, [Next]_vars,
                    NEW c \in Ids, Known(c)'
             PROVE  Below(c)'
  BY DEF RecordsInv
<1>1. Below(c)
  BY NewlyKnown, HeldIsBelow DEF RecordsInv
<1>2. QED
  BY <1>1, BelowStays

LEMMA RecordsAlways == Spec => [](Typed /\ AgeInv /\ ClaimInv /\ RecordsInv)
BY InitClaims, ClaimStep, InitRecords, RecordsStep, AgesAlways, PTL DEF Spec

\* A reconciliation purges only what this reading could have listed, and an id is never given
\* again: so what goes is gone from the bridge, however old the reading.
LEMMA PurgedIsPast ==
  ASSUME Typed, AgeInv, RecordsInv, NEW s \in Registry, Reconcile(s), NEW c \in Ids,
         records[c] # Nowhere, records'[c] = Nowhere,
         Good(s) => s = Bridge \/ (Coming /\ s = answer) \/ (Held /\ s = data)
  PROVE  c \notin OnBridge
<1>1. Good(s) /\ c \notin Listed(s)
  BY DEF Reconcile, Good
<1>2. c < Bridge.next /\ (Coming => c < answer.next) /\ (Held => c < data.next)
  BY DEF RecordsInv, Known, Below, NotNew
<1>3. c \notin Listed(Bridge)
  BY <1>1, <1>2 DEF AgeInv, Before
<1>4. QED
  BY <1>3, BridgeTypes

KeepsRecord(c) ==
  records[c] # Nowhere /\ records'[c] = Nowhere => c \notin OnBridge \/ subentries' # subentries

LEMMA KeepsRecords ==
  ASSUME Typed, AgeInv, ClaimInv, RecordsInv, [Next]_vars, NEW c \in Ids
  PROVE  KeepsRecord(c)
<1> SUFFICES ASSUME records[c] # Nowhere, records'[c] = Nowhere, subentries' = subentries
             PROVE  c \notin OnBridge
  BY DEF KeepsRecord
<1>1. registry \in Registry /\ data \in Registry /\ (answer # <<>> => answer \in Registry)
  BY DEF Typed, TypeOK
<1>2. CASE PollArrives
  BY <1>1, <1>2, PurgedIsPast DEF PollArrives, Listeners, Coming
<1>3. CASE PollFails
  BY <1>1, <1>3, PurgedIsPast DEF PollFails, Listeners, Held, Running
<1>4. CASE Setup
  BY <1>1, <1>4, PurgedIsPast DEF Setup, Held
<1>5. CASE Activate
  BY <1>1, <1>5, PurgedIsPast DEF Activate, Held
<1>6. ASSUME NEW add, AddButtons(add) PROVE FALSE
  BY <1>6, PlacesAssumption DEF AddButtons, Places
<1>7. ~SetupButtons /\ ~FinishPass
  BY <1>6 DEF SetupButtons, FinishPass
<1>8. ~StartPass
  <2>1. ASSUME StartPass PROVE FALSE
    <3>1. PICK lapsed \in MayLapse :
            LET shown == Visible(lapsed)
                kept == {d \in shown : placed[d] = Assigned(d)}
                drop == {d \in Ids \ kept : placed[d] # Nowhere}
                add == [d \in Ids |-> IF d \in shown \ kept THEN Assigned(d) ELSE Nowhere]
            IN IF drop = {} THEN AddButtons(add) /\ UNCHANGED pass
               ELSE pass' = [busy |-> TRUE, drop |-> drop, add |-> add]
                    /\ UNCHANGED <<placed, live, records>>
      BY <2>1 DEF StartPass
    <3>2. (\E add : AddButtons(add)) \/ records' = records
      BY <3>1
    <3>3. QED
      BY <1>6, <3>2
  <2>2. QED
    BY <2>1
<1>9. QED
  <2>1. ~(PollAnswer \/ FirstRefresh \/ Unload \/ EntryUpdated \/ LearnNext \/ UNCHANGED vars)
    BY DEF PollAnswer, FirstRefresh, Unload, EntryUpdated, LearnNext, ArmLearn, LearnAnswered, LearnGivesUp,
           LearnFails, Learned, CloseLearn, StartLearn, vars, buttonVars
  <2>2. ~ManageNext
    <3>1. \A t \in Targets : ~RemoveTarget(t)
      BY DEF RemoveTarget, There, Typed, TypeOK
    <3>2. QED
      BY <3>1
         DEF ManageNext, RenameOnBridge, RenameFails, RenameSaved, CreateTarget,
             MoveCommand, RenameCommand, buttonVars
  <2>3. ~BridgeNext
    BY DEF BridgeNext, Captures, CaptureFails, LearnElsewhere, RenameElsewhere, Delete, Edit,
           Outside, ReplaceHardware, ReconnectHardware, RestoreBegin, RestoreCommit, Disconnects,
           buttonVars
  <2>4. \A d \in Ids : ~RemoveButton(d)
    BY DEF RemoveButton
  <2>5. QED
    BY <1>2, <1>3, <1>4, <1>5, <1>7, <1>8, <2>1, <2>2, <2>3, <2>4
       DEF Next, ReadNext, EntryNext, ButtonNext

\* A record goes only with its command or with its target: no poll that overtakes a learn, no
\* failed read, reload, replaced hardware or open restore purges the history of a command that
\* the bridge has (_async_purge_removed_commands).
THEOREM RecordsAreKept == Spec => RecordsKept
<1>1. Typed /\ AgeInv /\ ClaimInv /\ RecordsInv /\ [Next]_vars => \A c \in Ids : KeepsRecord(c)
  BY KeepsRecords
<1>2. QED
  BY <1>1, RecordsAlways, PTL DEF Spec, RecordsKept, KeepsRecord

-----------------------------------------------------------------------------
(* Placements are kept *)

\* A placement is of a command no answer under way is older than, unless the id it was made for
\* came from other hardware or was not on the bridge. So are the ids of flows that came from here.
MetaInv ==
  /\ \A c \in Ids : meta[c] # Nowhere /\ c \notin foreign => NotNew(c)
  /\ manage.st # "none" /\ manage.own => NotNew(manage.id)
  /\ learn.own => learn.id \in Ids /\ NotNew(learn.id)
  /\ learn.st # "none" => learn.name \in Names

LEMMA InitMeta == Init => MetaInv
<1> SUFFICES ASSUME Init PROVE MetaInv
  OBVIOUS
<1>1. PICK n \in 1..MaxId, names \in [Ids -> Names \cup {NoName}] :
        /\ \A c \in Ids : names[c] # NoName => c < n /\ \A d \in Ids : names[d] = names[c] => d = c
        /\ registry = [ours |-> TRUE, restoring |-> FALSE, next |-> n, names |-> names]
  BY DEF Init
<1>2. Bridge.next = n /\ \A c \in Listed(registry) : c < n
  BY <1>1 DEF Bridge, Listed
<1>3. \A c \in Ids : meta[c] # Nowhere => c \in Listed(registry)
  BY DEF Init
<1>4. ~Coming /\ learn = NoLearn /\ manage = NoManage
  BY DEF Init, Coming
<1>5. QED
  BY <1>2, <1>3, <1>4 DEF MetaInv, NotNew, NoLearn, NoManage

\* Pruning gives nothing a place that had none.
LEMMA PrunedKeeps ==
  ASSUME Typed, NEW s, NEW trusted, NEW below, NEW c \in Ids, PrunedTo(s, trusted, below)[c] # meta[c]
  PROVE  /\ meta[c] # Nowhere
         /\ \/ trusted /\ c \notin Listed(s) /\ c < below /\ PrunedTo(s, trusted, below)[c] = Nowhere
            \/ Dangles(meta[c]) /\ PrunedTo(s, trusted, below)[c] = Unassigned
BY PlacesAssumption DEF PrunedTo, Dangles, Places

\* A step writes the place of one command, for which it has an id that is not new; or it prunes.
Prunes ==
  \E s \in Registry, trusted \in BOOLEAN, below \in Nat : meta' = PrunedTo(s, trusted, below)
PlacesOne(c) ==
  \E p \in Places, own \in BOOLEAN : SetPlace(c, p, own) /\ (own /\ c \in OnBridge => NotNew(c))

LEMMA PrunedMeta ==
  ASSUME Typed, MetaInv, Prunes, foreign' = foreign, NEW c \in Ids, meta'[c] # Nowhere, c \notin foreign'
  PROVE  NotNew(c)
BY PrunedKeeps DEF MetaInv, Prunes

LEMMA PlacedMeta ==
  ASSUME Typed, MetaInv, NEW d \in Ids, PlacesOne(d), NEW c \in Ids, meta'[c] # Nowhere, c \notin foreign'
  PROVE  NotNew(c)
BY DEF MetaInv, PlacesOne, SetPlace, Typed, TypeOK

LEMMA PlacesOwn ==
  ASSUME Typed, AgeInv, MetaInv
  PROVE  /\ \A c \in Ids, p \in Places : MoveCommand(c, p) => PlacesOne(c)
         /\ RenameSaved => manage.id \in Ids /\ PlacesOne(manage.id)
         /\ Learned => \/ UNCHANGED <<meta, foreign>>
                       \/ learn.id \in Ids /\ PlacesOne(learn.id)
<1>1. ASSUME NEW c \in Ids, NEW p \in Places, MoveCommand(c, p) PROVE PlacesOne(c)
  <2>1. SetPlace(c, p, data.ours) /\ c \in Listed(data) /\ Running /\ data.ours \in BOOLEAN
    BY <1>1 DEF MoveCommand, Typed, TypeOK, Registry
  <2>2. data.ours => Held
    BY <2>1 DEF AgeInv, Quiet, Held, Good, Running
  <2>3. data.ours => NotNew(c)
    BY <2>1, <2>2, HeldIsBelow DEF Below
  <2>4. QED
    BY <2>1, <2>3 DEF PlacesOne
<1>2. ASSUME RenameSaved PROVE manage.id \in Ids /\ PlacesOne(manage.id)
  <2>1. /\ manage.id \in Ids /\ manage.place \in Places /\ manage.own \in BOOLEAN
        /\ SetPlace(manage.id, manage.place, manage.own) /\ manage.st # "none"
    BY <1>2 DEF RenameSaved, RenamesCommand, ManageFlow, Typed, TypeOK
  <2>2. QED
    BY <2>1 DEF MetaInv, PlacesOne
<1>3. ASSUME Learned, ~UNCHANGED <<meta, foreign>> PROVE learn.id \in Ids /\ PlacesOne(learn.id)
  <2> DEFINE p == IF Dangles(learn.place) THEN Unassigned ELSE learn.place
  <2>1. learn.id \in Ids /\ p \in Places /\ learn.own \in BOOLEAN /\ SetPlace(learn.id, p, learn.own)
    BY <1>3 DEF Learned, LearnFlow, Places, Typed, TypeOK
  <2> HIDE DEF p
  <2>2. QED
    BY <2>1 DEF MetaInv, PlacesOne
<1>4. QED
  BY <1>1, <1>2, <1>3

LEMMA ReconcilePrunes ==
  ASSUME NEW s \in Registry, Reconcile(s)
  PROVE  meta' = meta \/ Prunes
<1>1. MaxId + 1 \in Nat
  BY SizesAssumption
<1>2. QED
  BY <1>1 DEF Reconcile, Prunes

LEMMA MetaMoves ==
  ASSUME Typed, AgeInv, MetaInv, [Next]_vars
  PROVE  \/ foreign' = foreign /\ (meta' = meta \/ Prunes)
         \/ \E d \in Ids : PlacesOne(d)
<1>0. registry \in Registry /\ data \in Registry /\ (answer # <<>> => answer \in Registry)
  BY DEF Typed, TypeOK
<1>1. CASE PollArrives \/ PollFails \/ Setup \/ Activate
  BY <1>0, <1>1, ReconcilePrunes DEF PollArrives, PollFails, Setup, Activate, Listeners
<1>2. CASE EntryUpdated
  <2>1. data.next \in Nat /\ Trusted(data) \in BOOLEAN
    BY <1>0, SizesAssumption DEF Registry, Trusted
  <2>2. QED
    BY <1>0, <1>2, <2>1 DEF EntryUpdated, Prunes
<1>3. CASE PollAnswer \/ FirstRefresh \/ SetupButtons \/ Unload
  BY <1>3 DEF PollAnswer, FirstRefresh, SetupButtons, Unload, entryVars
<1>4. CASE ButtonNext \/ UNCHANGED vars
  BY <1>4 DEF ButtonNext, StartPass, FinishPass, RemoveButton, vars, entryVars
<1>5. CASE LearnNext
  <2>1. CASE Learned
    BY <2>1, PlacesOwn
  <2>2. CASE ~Learned
    BY <1>5, <2>2
       DEF LearnNext, ArmLearn, LearnAnswered, LearnGivesUp, LearnFails, CloseLearn, StartLearn, entryVars
  <2>3. QED
    BY <2>1, <2>2
<1>6. CASE ManageNext
  <2>1. CASE RenameSaved
    BY <2>1, PlacesOwn
  <2>2. ASSUME NEW c \in Ids, NEW q \in Places, MoveCommand(c, q) PROVE PlacesOne(c)
    BY <2>2, PlacesOwn
  <2>3. QED
    BY <1>6, <2>1, <2>2
       DEF ManageNext, RenameOnBridge, RenameFails, CreateTarget, RemoveTarget, RenameCommand, entryVars
<1>7. CASE BridgeNext
  BY <1>7
     DEF BridgeNext, Captures, CaptureFails, LearnElsewhere, RenameElsewhere, Delete, Edit, Outside,
         ReplaceHardware, ReconnectHardware, RestoreBegin, RestoreCommit, Disconnects, entryVars
<1>8. QED
  BY <1>1, <1>2, <1>3, <1>4, <1>5, <1>6, <1>7 DEF Next, ReadNext, EntryNext

\* The id a flow has comes from the data it was opened on, or is the one just captured.
LEMMA ManageOwn ==
  ASSUME Typed, AgeInv, MetaInv, [Next]_vars, manage'.st # "none", manage'.own
  PROVE  manage'.id \in Ids /\ NotNew(manage'.id)
<1>1. CASE manage' = manage
  BY <1>1 DEF MetaInv, Typed, RenamesCommand
<1>2. CASE RenameOnBridge
  <2>1. manage'.id = manage.id /\ manage'.own = manage.own /\ manage.st # "none"
    BY <1>2 DEF RenameOnBridge, ManageFlow, Typed, TypeOK
  <2>2. QED
    BY <2>1 DEF MetaInv, Typed, RenamesCommand
<1>3. CASE RenameFails \/ RenameSaved
  BY <1>3 DEF RenameFails, RenameSaved, NoManage
<1>4. ASSUME NEW c \in Ids, NEW n \in Names, NEW p \in Places, RenameCommand(c, n, p)
      PROVE  manage'.id \in Ids /\ NotNew(manage'.id)
  <2>1. manage'.id = c /\ manage'.own = data.ours /\ c \in Listed(data) /\ Running
        /\ ~data.restoring
    BY <1>4 DEF RenameCommand
  <2>2. Held
    BY <2>1 DEF Held, Good, Running
  <2>3. QED
    BY <2>1, <2>2, HeldIsBelow DEF Below
<1>6. CASE Unload
  <2>1. manage'.id = manage.id /\ manage'.own = manage.own /\ manage.st # "none"
    BY <1>6 DEF Unload, ManageFlow, Typed, TypeOK
  <2>2. QED
    BY <2>1 DEF MetaInv, Typed, RenamesCommand
<1>5. QED
  <2>1. CASE ReadNext \/ (EntryNext /\ ~Unload) \/ ButtonNext \/ UNCHANGED vars
    BY <1>1, <2>1
       DEF ReadNext, PollAnswer, PollArrives, PollFails, EntryNext, FirstRefresh, Setup, SetupButtons,
           Activate, EntryUpdated, ButtonNext, StartPass, FinishPass, RemoveButton, vars, flowVars
  <2>2. CASE LearnNext
    BY <1>1, <2>2
       DEF LearnNext, ArmLearn, LearnAnswered, LearnGivesUp, LearnFails, Learned, CloseLearn,
           StartLearn
  <2>3. CASE ManageNext
    BY <1>1, <1>2, <1>3, <1>4, <2>3
       DEF ManageNext, CreateTarget, RemoveTarget, MoveCommand, flowVars
  <2>4. CASE BridgeNext
    BY <1>1, <2>4
       DEF BridgeNext, Captures, CaptureFails, LearnElsewhere, RenameElsewhere, Delete, Edit, Outside,
           ReplaceHardware, ReconnectHardware, RestoreBegin, RestoreCommit, Disconnects, flowVars
  <2>5. QED
    BY <1>6, <2>1, <2>2, <2>3, <2>4 DEF Next

LearnIsOwn ==
  /\ learn'.own => learn'.id \in Ids /\ NotNew(learn'.id)
  /\ learn'.st # "none" => learn'.name \in Names

LEMMA LearnOwn ==
  ASSUME Typed, AgeInv, MetaInv, [Next]_vars
  PROVE  LearnIsOwn
<1>0. learn \in LearnFlow
  BY DEF Typed, TypeOK
<1>1. CASE learn' = learn
  BY <1>1 DEF MetaInv, LearnIsOwn
<1>2. CASE Learned \/ CloseLearn
  BY <1>2 DEF Learned, CloseLearn, NoLearn, LearnIsOwn
<1>3. ASSUME NEW n \in Names, NEW p \in Places, StartLearn(n, p) PROVE LearnIsOwn
  BY <1>3 DEF StartLearn, NoLearn, LearnIsOwn
<1>4. CASE ArmLearn
  <2>1. learn'.own = learn.own /\ learn'.id = learn.id /\ learn'.name = learn.name /\ learn.st # "none"
    BY <1>0, <1>4 DEF ArmLearn, LearnFlow
  <2>2. QED
    BY <2>1 DEF MetaInv, LearnIsOwn
<1>5. ASSUME NEW id \in Ids \cup {NoId}, LearnEnds(id), learn.st # "none",
             id # NoId /\ registry.ours => NotNew(id)
      PROVE  LearnIsOwn
  <2>1. learn'.own = (registry.ours /\ id # NoId) /\ learn'.id = id /\ learn'.name = learn.name
    BY <1>0, <1>5 DEF LearnEnds, LearnFlow
  <2>2. QED
    BY <1>5, <2>1 DEF MetaInv, LearnIsOwn
<1>6. ASSUME LearnEnds(NoId), learn.st # "none" PROVE LearnIsOwn
  BY <1>5, <1>6
<1>7. CASE LearnAnswered
  <2>1. /\ learn.st # "none" /\ answer = <<>>
        /\ LearnEnds(NoId) \/ \E c \in Ids : registry.names[c] = learn.name /\ LearnEnds(c)
    BY <1>7 DEF LearnAnswered
  <2>2. ASSUME NEW c \in Ids, registry.names[c] = learn.name, registry.ours PROVE NotNew(c)
    <3>1. c \in Listed(registry)
      BY <2>1, <2>2, NoNameAssumption DEF MetaInv, Listed
    <3>2. Good(registry)
      BY <2>2, <3>1 DEF AgeInv, Quiet, Good
    <3>3. QED
      BY <2>1, <3>1, <3>2, BridgeTypes DEF AgeInv, Sound, NotNew, Coming
  <2>3. QED
    BY <1>5, <1>6, <2>1, <2>2
<1>8. CASE LearnGivesUp \/ LearnFails \/ Disconnects
  BY <1>1, <1>6, <1>8 DEF LearnGivesUp, LearnFails, Disconnects
<1>10. CASE Unload
  <2>1. /\ learn'.own = learn.own /\ learn'.id = learn.id /\ learn'.name = learn.name
        /\ learn'.st = learn.st
    BY <1>0, <1>10 DEF Unload, LearnFlow
  <2>2. QED
    BY <2>1 DEF MetaInv, LearnIsOwn
<1>9. QED
  <2>1. CASE ReadNext \/ (EntryNext /\ ~Unload) \/ ButtonNext \/ UNCHANGED vars
    BY <1>1, <2>1
       DEF ReadNext, PollAnswer, PollArrives, PollFails, EntryNext, FirstRefresh, Setup, SetupButtons,
           Activate, EntryUpdated, ButtonNext, StartPass, FinishPass, RemoveButton, vars, flowVars
  <2>2. CASE LearnNext
    BY <1>2, <1>3, <1>4, <1>7, <1>8, <2>2 DEF LearnNext
  <2>3. CASE ManageNext
    BY <1>1, <2>3
       DEF ManageNext, RenameOnBridge, RenameFails, RenameSaved, CreateTarget, RemoveTarget,
           MoveCommand, RenameCommand, flowVars
  <2>4. CASE BridgeNext
    BY <1>1, <1>8, <2>4
       DEF BridgeNext, Captures, CaptureFails, LearnElsewhere, RenameElsewhere, Delete, Edit, Outside,
           ReplaceHardware, ReconnectHardware, RestoreBegin, RestoreCommit, flowVars
  <2>5. QED
    BY <1>10, <2>1, <2>2, <2>3, <2>4 DEF Next

LEMMA MetaStep == Typed /\ AgeInv /\ MetaInv /\ [Next]_vars => MetaInv'
<1> SUFFICES ASSUME Typed, AgeInv, MetaInv, [Next]_vars PROVE MetaInv'
  OBVIOUS
<1>1. ASSUME NEW c \in Ids, meta'[c] # Nowhere, c \notin foreign' PROVE NotNew(c)
  BY <1>1, MetaMoves, PrunedMeta, PlacedMeta DEF MetaInv
<1>2. ASSUME NEW c \in Ids, meta'[c] # Nowhere, c \notin foreign' PROVE NotNew(c)'
  BY <1>1, <1>2, NotNewStays
<1>3. ASSUME manage'.st # "none", manage'.own PROVE NotNew(manage.id)'
  <2>1. PICK c \in Ids : c = manage'.id /\ NotNew(c)
    BY <1>3, ManageOwn
  <2>2. NotNew(c)'
    BY <2>1, NotNewStays
  <2>3. QED
    BY <2>1, <2>2 DEF NotNew
<1>4. ASSUME learn'.own PROVE learn'.id \in Ids /\ NotNew(learn.id)'
  <2>1. PICK c \in Ids : c = learn'.id /\ NotNew(c)
    BY <1>4, LearnOwn DEF LearnIsOwn
  <2>2. NotNew(c)'
    BY <2>1, NotNewStays
  <2>3. QED
    BY <2>1, <2>2 DEF NotNew
<1>5. QED
  BY <1>2, <1>3, <1>4, LearnOwn DEF MetaInv, LearnIsOwn

LEMMA MetaAlways == Spec => [](Typed /\ AgeInv /\ MetaInv)
BY InitMeta, MetaStep, AgesAlways, PTL DEF Spec

\* A place goes only in pruning against a reading that could have listed the command, or with
\* its target.
LEMMA KeepsPlacements ==
  ASSUME Typed, AgeInv, MetaInv, [Next]_vars, NewReading, NEW c \in Ids
  PROVE  KeepsPlacement(c)
<1> SUFFICES ASSUME meta'[c] # meta[c], ~Chosen(c), c \notin foreign
             PROVE  c \notin OnBridge \/ (Dangles(meta[c]) /\ meta'[c] = Unassigned)
  BY DEF KeepsPlacement
<1>0. data \in Registry /\ (answer # <<>> => answer \in Registry)
  BY DEF Typed, TypeOK
<1>1. CASE PollArrives
  <2>1. Good(answer) /\ answer # <<>> /\ meta' = PrunedTo(answer, TRUE, MaxId + 1)
    BY <1>1 DEF PollArrives, Listeners, Reconcile, Good
  <2>2. meta[c] # Nowhere /\ (c \notin Listed(answer) \/ (Dangles(meta[c]) /\ meta'[c] = Unassigned))
    BY <2>1, PrunedKeeps
  <2>3. c < answer.next /\ Before(answer, Bridge)
    BY <2>1, <2>2 DEF MetaInv, NotNew, AgeInv, Coming
  <2>4. QED
    BY <2>2, <2>3, BridgeTypes DEF Before
<1>2. CASE EntryUpdated
  <2>1. loaded = "loaded" /\ meta' = PrunedTo(data, Trusted(data), data.next)
    BY <1>2 DEF EntryUpdated
  <2>2. \/ Trusted(data) /\ c \notin Listed(data) /\ c < data.next
        \/ Dangles(meta[c]) /\ meta'[c] = Unassigned
    BY <2>1, PrunedKeeps
  <2>3. Trusted(data) => Held
    BY <2>1 DEF Trusted, AgeInv, Held, Good, Running
  <2>4. QED
    BY <2>2, <2>3, MissingIsPast, BridgeTypes DEF Past
<1>3. ~PollFails /\ ~FirstRefresh /\ ~Setup /\ ~SetupButtons /\ ~Activate /\ ~Unload
  BY DEF NewReading, PollFails, FirstRefresh, Setup, SetupButtons, Activate, Unload
<1>4. ~PollAnswer /\ ~ButtonNext /\ ~UNCHANGED vars
  BY DEF PollAnswer, ButtonNext, StartPass, FinishPass, RemoveButton, vars, entryVars
<1>5. ASSUME NEW d \in Ids, NEW p, NEW own, SetPlace(d, p, own) PROVE d = c
  BY <1>5 DEF SetPlace, Typed, TypeOK
<1>6. ~LearnNext
  <2>1. ~Learned
    <3>1. ASSUME Learned PROVE learn.id = c
      <4>1. learn.id \in Ids \cup {NoId} /\ ~UNCHANGED meta
        BY DEF Typed, TypeOK, LearnFlow
      <4>2. QED
        BY <1>5, <3>1, <4>1 DEF Learned
    <3>2. QED
      BY <3>1 DEF Chosen
  <2>2. QED
    BY <2>1
       DEF LearnNext, ArmLearn, LearnAnswered, LearnGivesUp, LearnFails, CloseLearn, StartLearn, entryVars
<1>7. ~ManageNext
  <2>1. ~RenameSaved
    <3>1. ASSUME RenameSaved PROVE manage.id = c
      BY <1>5, <3>1 DEF RenameSaved, Typed, RenamesCommand
    <3>2. QED
      BY <3>1 DEF Chosen
  <2>2. ASSUME NEW d \in Ids, NEW p \in Places, MoveCommand(d, p) PROVE FALSE
    <3>1. d = c
      BY <1>5, <2>2 DEF MoveCommand
    <3>2. QED
      BY <2>2, <3>1 DEF Chosen
  <2>3. QED
    BY <2>1, <2>2
       DEF ManageNext, RenameOnBridge, RenameFails, CreateTarget, RemoveTarget, RenameCommand, entryVars
<1>8. ~BridgeNext
  BY DEF BridgeNext, Captures, CaptureFails, LearnElsewhere, RenameElsewhere, Delete, Edit, Outside,
         ReplaceHardware, ReconnectHardware, RestoreBegin, RestoreCommit, Disconnects, entryVars
<1>9. QED
  BY <1>1, <1>2, <1>3, <1>4, <1>6, <1>7, <1>8 DEF Next, ReadNext, EntryNext

\* What the user said of a command outlives every reading that does not name it because it is
\* older, is another bridge's or is of an open restore (options_pruned_to, and the ids it spares).
THEOREM PlacementsAreKept == Spec => PlacementKept
<1>1. Typed /\ AgeInv /\ MetaInv /\ [Next]_vars => (NewReading => \A c \in Ids : KeepsPlacement(c))
  BY KeepsPlacements
<1>2. QED
  BY <1>1, MetaAlways, PTL DEF Spec, PlacementKept

-----------------------------------------------------------------------------
(* What is settled is shown *)

\* A button the platform believes to be on a target that is there, or on none, exists there,
\* unless its command has been deleted: the platform is not told when Home Assistant refuses or
\* removes an entity, but it believes such a button on a target that is gone.
Stands(p) == p = Unassigned \/ (p \in Targets /\ There(p))
Shows(c) == c \in live /\ records[c] = placed[c]
Drawn(p) == p \in Targets => subentries[p] # "new"
StandInv ==
  /\ \A c \in Ids : Stands(placed[c]) => Past(c) \/ Shows(c)
  /\ \A c \in Ids : Drawn(placed[c]) /\ Drawn(pass.add[c])

\* No command of the data is hidden by a claim on its name.
NamesInv == Running /\ Good(data) => reserved \cap NamesIn(data) = {}

\* Where the pass under way, or the last one, leaves a command; and where it should be.
Final(c) == IF pass.add[c] # Nowhere THEN pass.add[c]
            ELSE IF c \in pass.drop THEN Nowhere ELSE placed[c]
Wanted(c) == IF c \in Listed(data) THEN Assigned(c) ELSE Nowhere

\* When nothing has asked for another pass, that one was decided from what is the case now.
PlanInv ==
  /\ ~pass.busy => pass = NoPass
  /\ loaded = "loaded" /\ ~updated /\ ~queued /\ Good(data) => \A c \in Ids : Final(c) = Wanted(c)

SettledInv == StandInv /\ NamesInv /\ PlanInv

LEMMA InitSettled == Init => SettledInv
BY PlacesAssumption
   DEF Init, SettledInv, StandInv, NamesInv, PlanInv, Stands, Drawn, Running, NoPass, Hidden, Places

LEMMA SettledTold ==
  ASSUME Typed, AgeInv, ClaimInv, SettledInv
  PROVE  SettledIsShown
<1> SUFFICES ASSUME loaded = "loaded", ~updated, ~queued, ~pass.busy, Trusted(data)
             PROVE  Shown(data)
  BY DEF SettledIsShown
<1>1. Good(data) /\ Held
  BY DEF Trusted, AgeInv, Good, Held, Running
<1>2. \A c \in Ids : placed[c] = Wanted(c)
  BY <1>1 DEF SettledInv, PlanInv, Final, NoPass, Hidden
<1>3. ASSUME NEW c \in live PROVE c \in Listed(data)
  BY <1>2 DEF ClaimInv, Wanted, Typed, TypeOK
<1>4. ASSUME NEW c \in Listed(data) PROVE c \in live /\ records[c] = Assigned(c)
  <2>1. c \in Ids /\ placed[c] = Assigned(c)
    BY <1>2 DEF Listed, Wanted
  <2>2. Stands(placed[c])
    BY <2>1 DEF Stands, Assigned
  <2>3. ~Past(c)
    BY <1>1 DEF Past
  <2>4. QED
    BY <2>1, <2>2, <2>3 DEF SettledInv, StandInv, Shows
<1>5. QED
  BY <1>3, <1>4 DEF Shown

-----------------------------------------------------------------------------
(* Buttons stand where they are believed *)

\* What this reading could have listed and does not have is past.
LEMMA MissingWillBePast ==
  ASSUME AgeInv', Held', NEW c \in Ids, Below(c)', c \notin Listed(data')
  PROVE  Past(c)'
<1>1. Before(data', Bridge') /\ (Coming' => Before(data', answer'))
  BY DEF AgeInv
<1>2. c < data'.next
  BY DEF Below
<1>3. QED
  BY <1>1, <1>2 DEF Past, Before

StandStep(c) == Stands(placed[c])' => Past(c)' \/ Shows(c)'

\* Nothing is done to this button, or its command is found to be gone.
LEMMA StandsOn ==
  ASSUME Typed, AgeInv, RecordsInv, StandInv, [Next]_vars, NEW c \in Ids,
         placed'[c] = placed[c], Stands(placed[c])' => Stands(placed[c]),
         Shows(c) => Shows(c)' \/ Past(c)'
  PROVE  StandStep(c)
<1>1. placed[c] # Nowhere => Below(c)
  BY DEF RecordsInv, Known
<1>2. Stands(placed[c]) => placed[c] # Nowhere
  BY PlacesAssumption DEF Stands, Places
<1>3. QED
  BY <1>1, <1>2, PastStays DEF StandStep, StandInv, Stands, There

LEMMA AddStands ==
  ASSUME Typed, AgeInv, RecordsInv, StandInv, [Next]_vars, subentries' = subentries,
         NEW add, AddButtons(add), NEW c \in Ids
  PROVE  StandStep(c)
<1>1. placed'[c] = (IF add[c] # Nowhere THEN add[c] ELSE placed[c])
  BY DEF AddButtons
<1>2. CASE add[c] # Nowhere
  BY <1>1, <1>2 DEF AddButtons, StandStep, Stands, Shows, There
<1>3. CASE add[c] = Nowhere
  <2>1. Shows(c) => Shows(c)'
    BY <1>1, <1>3, PlacesAssumption DEF AddButtons, Shows, Places
  <2>2. Stands(placed[c])' => Stands(placed[c])
    BY <1>1, <1>3 DEF Stands, There
  <2>3. QED
    BY <1>1, <1>3, <2>1, <2>2, StandsOn
<1>4. QED
  BY <1>2, <1>3

LEMMA ReconcileStands ==
  ASSUME Typed, AgeInv, AgeInv', ClaimInv, RecordsInv, StandInv, [Next]_vars,
         UNCHANGED <<placed, subentries>>, loaded' # "unloaded",
         NEW s, s = data', Reconcile(s), NEW c \in Ids
  PROVE  StandStep(c)
<1>1. ASSUME Shows(c), ~Shows(c)' PROVE Past(c)'
  <2>1. Good(s) /\ c \notin Listed(s)
    BY <1>1 DEF Reconcile, Good, Shows
  <2>2. Below(c)
    BY <1>1 DEF Shows, ClaimInv, RecordsInv, Known
  <2>3. QED
    BY <2>1, <2>2, BelowStays, MissingWillBePast DEF Held
<1>2. Stands(placed[c])' => Stands(placed[c])
  BY DEF Stands, There
<1>3. QED
  BY <1>1, <1>2, StandsOn

LEMMA KeptStands ==
  ASSUME Typed, AgeInv, RecordsInv, StandInv, [Next]_vars,
         UNCHANGED <<placed, live, records, subentries>>, NEW c \in Ids
  PROVE  StandStep(c)
BY StandsOn DEF Stands, Shows, There

\* The steps that change no button, and leave what is to be done.
Still ==
  /\ UNCHANGED <<loaded, data, subentries, queued, pass, placed, live, records>>
  /\ updated => updated'

LEMMA StillSteps ==
  /\ PollAnswer \/ LearnNext \/ BridgeNext \/ UNCHANGED vars => Still
  /\ ManageNext => Still \/ \E t \in Targets : CreateTarget(t) \/ RemoveTarget(t)
<1>1. PollAnswer \/ UNCHANGED vars => Still
  BY DEF PollAnswer, vars, Still, readVars, entryVars, buttonVars
<1>0. ASSUME NEW c, NEW p, NEW own, SetPlace(c, p, own) PROVE updated => updated'
  BY <1>0 DEF SetPlace
<1>2. LearnNext => Still
  <2>1. Learned => Still
    BY <1>0 DEF Learned, Still, readVars, buttonVars
  <2>2. ASSUME NEW n \in Names, NEW p \in Places, StartLearn(n, p) PROVE Still
    BY <2>2 DEF StartLearn, Still, readVars, entryVars, buttonVars
  <2>3. ArmLearn \/ LearnAnswered \/ LearnGivesUp \/ LearnFails \/ CloseLearn => Still
    BY DEF ArmLearn, LearnAnswered, LearnGivesUp, LearnFails, CloseLearn, Still, readVars, entryVars,
           buttonVars
  <2>4. QED
    BY <2>1, <2>2, <2>3 DEF LearnNext
<1>3. BridgeNext => Still
  BY DEF BridgeNext, Captures, CaptureFails, LearnElsewhere, RenameElsewhere, Delete, Edit, Outside,
         ReplaceHardware, ReconnectHardware, RestoreBegin, RestoreCommit, Disconnects, Still,
         readVars, entryVars, buttonVars
<1>4. ManageNext => Still \/ \E t \in Targets : CreateTarget(t) \/ RemoveTarget(t)
  <2>1. RenameSaved \/ (\E c \in Ids, p \in Places : MoveCommand(c, p)) => Still
    BY <1>0 DEF RenameSaved, MoveCommand, Still, readVars, buttonVars
  <2>2. QED
    BY <2>1
       DEF ManageNext, RenameOnBridge, RenameFails, RenameCommand, Still, readVars, entryVars, buttonVars
<1>5. QED
  BY <1>1, <1>2, <1>3, <1>4

LEMMA ButtonStands ==
  ASSUME Typed, AgeInv, AgeInv', ClaimInv, RecordsInv, StandInv, [Next]_vars, NEW c \in Ids
  PROVE  StandStep(c)
<1>1. CASE PollArrives \/ PollFails \/ Setup \/ Activate
  <2>1. CASE PollArrives
    <3>1. loaded' # "unloaded"
      BY <2>1 DEF PollArrives, AgeInv, Running
    <3>2. QED
      BY <2>1, <3>1, ReconcileStands DEF PollArrives, Listeners
  <2>2. CASE PollFails
    BY <2>2, ReconcileStands DEF PollFails, Listeners, Running
  <2>3. CASE Setup
    BY <2>3, ReconcileStands DEF Setup, readVars
  <2>4. CASE Activate
    BY <2>4, ReconcileStands DEF Activate, readVars
  <2>5. QED
    BY <1>1, <2>1, <2>2, <2>3, <2>4
<1>2. CASE EntryUpdated
  BY <1>2, KeptStands DEF EntryUpdated
<1>3. CASE Still
  BY <1>3, KeptStands DEF Still
<1>12. CASE FirstRefresh
  BY <1>12, KeptStands DEF FirstRefresh, buttonVars, entryVars
<1>4. CASE Unload
  BY <1>4, PlacesAssumption DEF Unload, Hidden, StandStep, Stands, Places
<1>5. CASE SetupButtons
  BY <1>5, AddStands DEF SetupButtons, entryVars
<1>6. CASE FinishPass
  BY <1>6, AddStands DEF FinishPass, entryVars
<1>7. CASE StartPass
  <2>1. subentries' = subentries
    BY <1>7 DEF StartPass, entryVars
  <2>2. (\E add : AddButtons(add)) \/ UNCHANGED <<placed, live, records>>
    <3>1. PICK lapsed \in MayLapse :
            LET shown == Visible(lapsed)
                kept == {d \in shown : placed[d] = Assigned(d)}
                drop == {d \in Ids \ kept : placed[d] # Nowhere}
                add == [d \in Ids |-> IF d \in shown \ kept THEN Assigned(d) ELSE Nowhere]
            IN IF drop = {} THEN AddButtons(add) /\ UNCHANGED pass
               ELSE pass' = [busy |-> TRUE, drop |-> drop, add |-> add]
                    /\ UNCHANGED <<placed, live, records>>
      BY <1>7 DEF StartPass
    <3>2. QED
      BY <3>1
  <2>3. QED
    BY <2>1, <2>2, AddStands, KeptStands
<1>8. ASSUME NEW d \in Ids, RemoveButton(d) PROVE StandStep(c)
  <2>1. /\ placed' = [placed EXCEPT ![d] = Nowhere] /\ live' = live \ {d}
        /\ UNCHANGED <<records, subentries>> /\ placed \in [Ids -> Places \cup {Nowhere}]
    BY <1>8 DEF RemoveButton, entryVars, Typed, TypeOK
  <2>2. CASE c = d
    BY <2>1, <2>2, PlacesAssumption DEF StandStep, Stands, Places
  <2>3. CASE c # d
    BY <2>1, <2>3, StandsOn DEF Stands, Shows, There
  <2>4. QED
    BY <2>2, <2>3
<1>9. ASSUME NEW t \in Targets, CreateTarget(t) PROVE StandStep(c)
  <2>1. /\ UNCHANGED <<placed, live, records>> /\ subentries[t] = "new"
        /\ subentries' = [subentries EXCEPT ![t] = "there"]
    BY <1>9 DEF CreateTarget, buttonVars
  <2>2. Stands(placed[c])' => Stands(placed[c])
    BY <2>1 DEF Stands, There, StandInv, Drawn, Typed, TypeOK
  <2>3. QED
    BY <2>1, <2>2, StandsOn DEF Shows
<1>10. ASSUME NEW t \in Targets, RemoveTarget(t) PROVE StandStep(c)
  <2>1. /\ placed' = placed /\ live' = {d \in live : records[d] # t}
        /\ records' = [d \in Ids |-> IF records[d] = t THEN Nowhere ELSE records[d]]
        /\ subentries' = [subentries EXCEPT ![t] = "gone"]
        /\ subentries \in [Targets -> {"new", "there", "gone"}]
    BY <1>10 DEF RemoveTarget, Typed, TypeOK
  <2>2. CASE placed[c] = t
    BY <2>1, <2>2, PlacesAssumption DEF StandStep, Stands, There
  <2>3. CASE placed[c] # t
    <3>1. Stands(placed[c])' => Stands(placed[c])
      BY <2>1 DEF Stands, There
    <3>2. Shows(c) => Shows(c)'
      BY <2>1, <2>3 DEF Shows
    <3>3. QED
      BY <2>1, <3>1, <3>2, StandsOn
  <2>4. QED
    BY <2>2, <2>3
<1>11. QED
  BY <1>1, <1>2, <1>3, <1>4, <1>5, <1>6, <1>7, <1>8, <1>9, <1>10, <1>12, StillSteps
     DEF Next, ReadNext, EntryNext, ButtonNext

\* Places are of targets that were there at some time, and targets are not taken back to before.
LEMMA PlaceMoves ==
  ASSUME Typed, [Next]_vars, NEW c \in Ids
  PROVE  /\ placed'[c] \in {placed[c], pass.add[c], Assigned(c), Nowhere}
         /\ pass'.add[c] \in {pass.add[c], Assigned(c), Nowhere}
<1>1. CASE PollArrives \/ PollFails \/ FirstRefresh \/ Setup \/ Activate \/ EntryUpdated
  BY <1>1 DEF PollArrives, PollFails, FirstRefresh, Setup, Activate, EntryUpdated, buttonVars
<1>2. CASE Still
  BY <1>2 DEF Still
<1>3. CASE Unload
  BY <1>3 DEF Unload, NoPass, Hidden
<1>4. CASE SetupButtons
  BY <1>4 DEF SetupButtons, AddButtons
<1>5. CASE FinishPass
  BY <1>5 DEF FinishPass, AddButtons, NoPass, Hidden
<1>6. CASE StartPass
  <2>1. PICK lapsed \in MayLapse :
          LET shown == Visible(lapsed)
              kept == {d \in shown : placed[d] = Assigned(d)}
              drop == {d \in Ids \ kept : placed[d] # Nowhere}
              add == [d \in Ids |-> IF d \in shown \ kept THEN Assigned(d) ELSE Nowhere]
          IN IF drop = {} THEN AddButtons(add) /\ UNCHANGED pass
             ELSE pass' = [busy |-> TRUE, drop |-> drop, add |-> add]
                  /\ UNCHANGED <<placed, live, records>>
    BY <1>6 DEF StartPass
  <2> DEFINE kept == {d \in Visible(lapsed) : placed[d] = Assigned(d)}
             drop == {d \in Ids \ kept : placed[d] # Nowhere}
             add == [d \in Ids |-> IF d \in Visible(lapsed) \ kept THEN Assigned(d) ELSE Nowhere]
  <2>2. \/ AddButtons(add) /\ UNCHANGED pass
        \/ pass' = [busy |-> TRUE, drop |-> drop, add |-> add] /\ UNCHANGED <<placed, live, records>>
    BY <2>1
  <2>3. add[c] \in {Assigned(c), Nowhere}
    OBVIOUS
  <2> HIDE DEF kept, drop, add
  <2>4. QED
    BY <2>2, <2>3 DEF AddButtons
<1>7. ASSUME NEW d \in Ids, RemoveButton(d)
      PROVE  placed'[c] \in {placed[c], Nowhere} /\ pass'.add = pass.add
  BY <1>7 DEF RemoveButton, Pass, Typed, TypeOK
<1>8. ASSUME NEW t \in Targets, CreateTarget(t) \/ RemoveTarget(t) PROVE UNCHANGED <<placed, pass>>
  BY <1>8 DEF CreateTarget, RemoveTarget, buttonVars
<1>9. QED
  BY <1>1, <1>2, <1>3, <1>4, <1>5, <1>6, <1>7, <1>8, StillSteps
     DEF Next, ReadNext, EntryNext, ButtonNext

LEMMA TargetMoves ==
  ASSUME Typed, [Next]_vars, NEW t \in Targets, subentries[t] # "new"
  PROVE  subentries'[t] # "new"
<1>1. ASSUME NEW u \in Targets, CreateTarget(u) \/ RemoveTarget(u) PROVE subentries'[t] # "new"
  BY <1>1 DEF CreateTarget, RemoveTarget, Typed, TypeOK
<1>2. CASE subentries' = subentries
  BY <1>2
<1>3. QED
  BY <1>1, <1>2, StillSteps
     DEF Next, ReadNext, PollArrives, PollFails, EntryNext, FirstRefresh, Setup, SetupButtons, Activate, Unload,
         EntryUpdated, ButtonNext, StartPass, FinishPass, RemoveButton, Still, entryVars

LEMMA StandInvStep ==
  Typed /\ AgeInv /\ AgeInv' /\ ClaimInv /\ RecordsInv /\ StandInv /\ [Next]_vars => StandInv'
<1> SUFFICES ASSUME Typed, AgeInv, AgeInv', ClaimInv, RecordsInv, StandInv, [Next]_vars,
                    NEW c \in Ids
             PROVE  /\ (Stands(placed[c]) => Past(c) \/ Shows(c))'
                    /\ Drawn(placed[c])' /\ Drawn(pass.add[c])'
  BY DEF StandInv
<1>1. (Stands(placed[c]) => Past(c) \/ Shows(c))'
  BY ButtonStands DEF StandStep
<1>2. \A p \in {placed[c], pass.add[c], Assigned(c), Nowhere} : p \in Targets => subentries[p] # "new"
  BY PlacesAssumption DEF StandInv, Drawn, Assigned, There, Places
<1>3. \A p \in {placed'[c], pass'.add[c]} : p \in Targets => subentries'[p] # "new"
  BY <1>2, PlaceMoves, TargetMoves
<1>4. QED
  BY <1>1, <1>3 DEF Drawn

-----------------------------------------------------------------------------
(* Every pass is of the state it is in *)

LEMMA ReconcileNames ==
  ASSUME NEW s, Reconcile(s), Good(s)
  PROVE  reserved' \cap NamesIn(s) = {}
BY DEF Reconcile, Good

LEMMA NamesStep == Typed /\ AgeInv /\ NamesInv /\ [Next]_vars => NamesInv'
<1> SUFFICES ASSUME Typed, AgeInv, NamesInv, [Next]_vars, Running', Good(data')
             PROVE  reserved' \cap NamesIn(data') = {}
  BY DEF NamesInv
<1>1. CASE PollArrives \/ PollFails \/ Setup \/ Activate
  <2>1. (Reconcile(data) /\ data' = data) \/ Reconcile(data')
    BY <1>1 DEF PollArrives, PollFails, Setup, Activate, Listeners, readVars
  <2>2. QED
    BY <2>1, ReconcileNames
<1>2. ASSUME data' = data, loaded' = loaded \/ Running, reserved' \subseteq reserved
      PROVE  reserved' \cap NamesIn(data') = {}
  BY <1>2 DEF NamesInv, Running
<1>3. CASE EntryUpdated \/ SetupButtons
  BY <1>2, <1>3 DEF EntryUpdated, SetupButtons, readVars, mirrorVars, Running
<1>4. CASE ButtonNext
  BY <1>2, <1>4 DEF ButtonNext, StartPass, FinishPass, RemoveButton, readVars, mirrorVars
<1>5. CASE LearnNext
  <2>1. ASSUME NEW n \in Names, NEW p \in Places, StartLearn(n, p)
        PROVE  reserved' \cap NamesIn(data') = {}
    BY <2>1 DEF StartLearn, readVars, NamesInv, Running
  <2>2. QED
    BY <1>2, <1>5, <2>1
       DEF LearnNext, ArmLearn, LearnAnswered, LearnGivesUp, LearnFails, Learned, CloseLearn, readVars,
           mirrorVars
<1>6. CASE ManageNext
  BY <1>2, <1>6
     DEF ManageNext, RenameOnBridge, RenameFails, RenameSaved, CreateTarget, RemoveTarget,
         MoveCommand, RenameCommand, readVars, mirrorVars
<1>7. CASE BridgeNext
  BY <1>2, <1>7
     DEF BridgeNext, Captures, CaptureFails, LearnElsewhere, RenameElsewhere, Delete, Edit, Outside,
         ReplaceHardware, ReconnectHardware, RestoreBegin, RestoreCommit, Disconnects, readVars,
         mirrorVars
<1>8. CASE PollAnswer \/ UNCHANGED vars
  BY <1>2, <1>8 DEF PollAnswer, vars, readVars, mirrorVars
<1>9. ~Unload /\ ~FirstRefresh
  BY DEF Unload, FirstRefresh, Running
<1>10. QED
  BY <1>1, <1>3, <1>4, <1>5, <1>6, <1>7, <1>8, <1>9 DEF Next, ReadNext, EntryNext

\* The steps after which another pass is to come, or none is yet possible.
Asked == ~(loaded = "loaded" /\ ~updated /\ ~queued /\ Good(data))

LEMMA AskedAgain ==
  /\ PollArrives \/ PollFails \/ FirstRefresh \/ Setup \/ SetupButtons \/ Activate \/ Unload \/ EntryUpdated => Asked'
  /\ \A t \in Targets : CreateTarget(t) \/ RemoveTarget(t) => Asked'
  /\ [Next]_vars /\ UNCHANGED loaded /\ loaded = "loaded" /\ meta' # meta => Asked'
<1>1. PollArrives \/ PollFails \/ FirstRefresh \/ Setup \/ SetupButtons \/ Unload => Asked'
  BY DEF PollArrives, PollFails, FirstRefresh, Setup, SetupButtons, Unload, Listeners, Running, Asked
<1>2. Activate => Asked'
  BY DEF Activate, readVars, Asked, Good
<1>3. EntryUpdated => Asked'
  BY DEF EntryUpdated, Asked
<1>4. \A t \in Targets : CreateTarget(t) \/ RemoveTarget(t) => Asked'
  BY DEF CreateTarget, RemoveTarget, Running, Asked
<1>5. ASSUME [Next]_vars, UNCHANGED loaded, loaded = "loaded", meta' # meta PROVE Asked'
  <2>1. ~PollAnswer /\ ~ButtonNext /\ ~BridgeNext /\ ~UNCHANGED vars
    BY <1>5
       DEF PollAnswer, ButtonNext, StartPass, FinishPass, RemoveButton, BridgeNext, Captures,
           CaptureFails, LearnElsewhere, RenameElsewhere, Delete, Edit, Outside, ReplaceHardware,
           ReconnectHardware, RestoreBegin, RestoreCommit, Disconnects, vars, entryVars
  <2>2. ASSUME NEW c, NEW p, NEW own, SetPlace(c, p, own) PROVE updated'
    BY <1>5, <2>2 DEF SetPlace, Running
  <2>3. CASE LearnNext
    <3>1. Learned
      BY <1>5, <2>3
         DEF LearnNext, ArmLearn, LearnAnswered, LearnGivesUp, LearnFails, CloseLearn, StartLearn,
             entryVars
    <3>2. QED
      BY <1>5, <2>2, <3>1 DEF Learned, Asked
  <2>4. CASE ManageNext
    <3>1. RenameSaved \/ \E c \in Ids, p \in Places : MoveCommand(c, p)
      BY <1>5, <2>4
         DEF ManageNext, RenameOnBridge, RenameFails, CreateTarget, RemoveTarget, RenameCommand,
             entryVars
    <3>2. QED
      BY <2>2, <3>1 DEF RenameSaved, MoveCommand, Asked
  <2>5. QED
    BY <1>1, <1>2, <1>3, <1>5, <2>1, <2>3, <2>4 DEF Next, ReadNext, EntryNext
<1>6. QED
  BY <1>1, <1>2, <1>3, <1>4, <1>5

\* What a pass decides: with data that are ours, every listed command is visible.
LEMMA AllVisible ==
  ASSUME Typed, AgeInv, NamesInv, Running, Held, NEW lapsed \in MayLapse
  PROVE  Visible(lapsed) = Listed(data)
<1>1. Trusted(data)
  BY DEF Held, AgeInv, Good, Trusted
<1>2. reserved \cap NamesIn(data) = {}
  BY DEF NamesInv, Held
<1>3. lapsed = {}
  BY <1>1, <1>2 DEF MayLapse
<1>4. \A c \in Listed(data) : data.names[c] \notin reserved
  BY <1>2 DEF NamesIn
<1>5. QED
  BY <1>1, <1>3, <1>4 DEF Visible

LEMMA PassDecides ==
  ASSUME Typed, AgeInv, ClaimInv, NamesInv, PlanInv, StartPass, Good(data), NEW c \in Ids
  PROVE  Final(c)' = Wanted(c)'
<1>1. Running /\ Held /\ pass = NoPass
  BY DEF StartPass, ClaimInv, PlanInv, Held, Running
<1>2. Wanted(c)' = Wanted(c)
  BY DEF StartPass, readVars, entryVars, Wanted, Assigned, There
<1>3. PICK lapsed \in MayLapse :
        LET shown == Visible(lapsed)
            kept == {d \in shown : placed[d] = Assigned(d)}
            drop == {d \in Ids \ kept : placed[d] # Nowhere}
            add == [d \in Ids |-> IF d \in shown \ kept THEN Assigned(d) ELSE Nowhere]
        IN IF drop = {} THEN AddButtons(add) /\ UNCHANGED pass
           ELSE pass' = [busy |-> TRUE, drop |-> drop, add |-> add]
                /\ UNCHANGED <<placed, live, records>>
  BY DEF StartPass
<1> DEFINE kept == {d \in Visible(lapsed) : placed[d] = Assigned(d)}
           drop == {d \in Ids \ kept : placed[d] # Nowhere}
           add == [d \in Ids |-> IF d \in Visible(lapsed) \ kept THEN Assigned(d) ELSE Nowhere]
<1>4. \/ drop = {} /\ AddButtons(add) /\ UNCHANGED pass
      \/ pass' = [busy |-> TRUE, drop |-> drop, add |-> add] /\ UNCHANGED <<placed, live, records>>
  BY <1>3
<1>5. Visible(lapsed) = Listed(data)
  BY <1>1, AllVisible
<1>6. Assigned(c) # Nowhere
  BY AssignedTyped, PlacesAssumption
<1>7. (IF add[c] # Nowhere THEN add[c] ELSE IF c \in drop THEN Nowhere ELSE placed[c]) = Wanted(c)
  BY <1>5, <1>6 DEF Wanted
<1> HIDE DEF kept, drop, add
<1>8. CASE drop = {} /\ AddButtons(add) /\ UNCHANGED pass
  <2>1. Final(c)' = placed'[c]
    BY <1>1, <1>8 DEF Final, NoPass, Hidden
  <2>2. QED
    BY <1>2, <1>7, <1>8, <2>1 DEF AddButtons
<1>9. CASE pass' = [busy |-> TRUE, drop |-> drop, add |-> add] /\ UNCHANGED <<placed, live, records>>
  BY <1>2, <1>7, <1>9 DEF Final
<1>10. QED
  BY <1>4, <1>8, <1>9

LEMMA PlanStep ==
  Typed /\ AgeInv /\ ClaimInv /\ NamesInv /\ PlanInv /\ [Next]_vars => PlanInv'
<1> SUFFICES ASSUME Typed, AgeInv, ClaimInv, NamesInv, PlanInv, [Next]_vars PROVE PlanInv'
  OBVIOUS
<1> DEFINE Resting == ~pass'.busy => pass' = NoPass
           Decided == ~Asked' => \A c \in Ids : Final(c)' = Wanted(c)'
<1>1. Decided /\ Resting => PlanInv'
  BY DEF PlanInv, Asked
<1>2. CASE \/ PollArrives \/ PollFails \/ FirstRefresh \/ Setup \/ SetupButtons \/ Activate
           \/ EntryUpdated
  <2>1. pass' = pass
    BY <1>2
       DEF PollArrives, PollFails, FirstRefresh, Setup, SetupButtons, Activate, EntryUpdated, buttonVars
  <2>2. QED
    BY <1>1, <1>2, <2>1, AskedAgain DEF PlanInv
<1>3. CASE Unload
  BY <1>1, <1>3, AskedAgain DEF Unload
<1>4. ASSUME NEW t \in Targets, CreateTarget(t) \/ RemoveTarget(t) PROVE PlanInv'
  <2>1. pass' = pass
    BY <1>4 DEF CreateTarget, RemoveTarget, buttonVars
  <2>2. QED
    BY <1>1, <1>4, <2>1, AskedAgain DEF PlanInv
<1>5. CASE Still
  <2>1. ASSUME ~Asked' PROVE ~Asked /\ meta' = meta
    BY <1>5, <2>1, AskedAgain DEF Still, Asked
  <2>2. QED
    BY <1>1, <1>5, <2>1 DEF Still, PlanInv, Asked, Final, Wanted, Assigned, There
<1>6. CASE StartPass
  <2>1. Resting
    BY <1>6 DEF StartPass, PlanInv
  <2>2. Good(data') => Good(data)
    BY <1>6 DEF StartPass, readVars
  <2>3. QED
    BY <1>1, <1>6, <2>1, <2>2, PassDecides DEF Asked
<1>7. CASE FinishPass
  <2>1. /\ pass' = NoPass /\ pass.drop = {} /\ UNCHANGED <<loaded, updated, queued, data, meta, subentries>>
        /\ \A c \in Ids : placed'[c] = IF pass.add[c] # Nowhere THEN pass.add[c] ELSE placed[c]
    BY <1>7 DEF FinishPass, AddButtons, readVars, entryVars
  <2>2. \A c \in Ids : Final(c)' = Final(c)
    BY <2>1 DEF Final, NoPass, Hidden
  <2>3. QED
    BY <1>1, <2>1, <2>2 DEF PlanInv, Asked, Wanted, Assigned, There
<1>8. ASSUME NEW d \in Ids, RemoveButton(d) PROVE PlanInv'
  <2>1. /\ d \in pass.drop /\ placed' = [placed EXCEPT ![d] = Nowhere]
        /\ pass'.busy = pass.busy /\ pass'.add = pass.add /\ pass'.drop = pass.drop \ {d}
        /\ UNCHANGED <<loaded, updated, queued, data, meta, subentries>>
        /\ placed \in [Ids -> Places \cup {Nowhere}]
    BY <1>8 DEF RemoveButton, readVars, entryVars, Pass, Typed, TypeOK
  <2>2. \A c \in Ids : Final(c)' = Final(c)
    BY <2>1 DEF Final
  <2>3. pass.busy
    BY <2>1 DEF PlanInv, NoPass
  <2>4. QED
    BY <1>1, <2>1, <2>2, <2>3 DEF PlanInv, Asked, Wanted, Assigned, There
<1>9. QED
  BY <1>2, <1>3, <1>4, <1>5, <1>6, <1>7, <1>8, StillSteps DEF Next, ReadNext, EntryNext, ButtonNext

LEMMA SettledAlways == Spec => [](Typed /\ AgeInv /\ ClaimInv /\ RecordsInv /\ SettledInv)
<1>1. Typed /\ AgeInv /\ AgeInv' /\ ClaimInv /\ RecordsInv /\ SettledInv /\ [Next]_vars => SettledInv'
  BY StandInvStep, NamesStep, PlanStep DEF SettledInv
<1>2. QED
  BY <1>1, InitSettled, RecordsAlways, PTL DEF Spec

\* Once nothing is pending, the entities are those of the last reading and stand where the options
\* say, whatever came in between: for every number of commands and targets, and any sequence of
\* polls, flows, removed targets, suspended passes, reloads and changes of hardware (_sync).
THEOREM SettledShows == Spec => []SettledIsShown
<1>1. Typed /\ AgeInv /\ ClaimInv /\ SettledInv => SettledIsShown
  BY SettledTold
<1>2. QED
  BY <1>1, SettledAlways, PTL
=============================================================================
