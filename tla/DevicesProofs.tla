---------------------------- MODULE DevicesProofs ----------------------------
(***************************************************************************)
(* Proofs about Devices, for every number of commands, targets, titles,    *)
(* areas, nodes and outside events.                                        *)
(***************************************************************************)
EXTENDS Devices, TLAPS

-----------------------------------------------------------------------------
(* What updating one field of a store leaves of the others *)

LEMMA EntryWithTarget ==
  ASSUME NEW e \in Entry, NEW t \in Targets, NEW r \in Target \cup {NoTarget}
  PROVE  /\ [e EXCEPT !.targets[t] = r] \in Entry
         /\ [e EXCEPT !.targets[t] = r].targets = [e.targets EXCEPT ![t] = r]
         /\ [e EXCEPT !.targets[t] = r].version = e.version
         /\ [e EXCEPT !.targets[t] = r].old = e.old
         /\ [e EXCEPT !.targets[t] = r].node = e.node
<1>1. [e.targets EXCEPT ![t] = r] \in [Targets -> Target \cup {NoTarget}]
  BY DEF Entry
<1> QED
  BY <1>1 DEF Entry

LEMMA DeviceWithArea ==
  ASSUME NEW ds \in Registered, NEW t \in Targets, ds.of[t] # NoDevice, NEW area \in Places
  PROVE  /\ [ds EXCEPT !.of[t].area = area] \in Registered
         /\ [ds EXCEPT !.of[t].area = area].via = ds.via
         /\ [ds EXCEPT !.of[t].area = area].of = [ds.of EXCEPT ![t] = [title |-> ds.of[t].title, area |-> area]]
         /\ ds.of[t] \in Device /\ [title |-> ds.of[t].title, area |-> area] \in Device
<1>1. ds.of[t] \in Device
  BY DEF Registered
<1>2. [ds.of[t] EXCEPT !.area = area] = [title |-> ds.of[t].title, area |-> area]
  BY <1>1 DEF Device
<1>3. [title |-> ds.of[t].title, area |-> area] \in Device
  BY <1>1 DEF Device
<1>4. [ds.of EXCEPT ![t] = [title |-> ds.of[t].title, area |-> area]] \in [Targets -> Device \cup {NoDevice}]
  BY <1>3 DEF Registered
<1>5. [ds EXCEPT !.of[t].area = area]
        = [ds EXCEPT !.of = [ds.of EXCEPT ![t] = [title |-> ds.of[t].title, area |-> area]]]
  BY <1>2 DEF Registered
<1> QED
  BY <1>1, <1>3, <1>4, <1>5 DEF Registered

LEMMA DeviceMoved ==
  ASSUME NEW ds \in Registered, NEW t \in Targets, ds.of[t] # NoDevice, NEW area \in Places
  PROVE  /\ [ds EXCEPT !.of[t].area = area].of[t] \in Device
         /\ [ds EXCEPT !.of[t].area = area].of[t] # NoDevice
         /\ [ds EXCEPT !.of[t].area = area].of[t].area = area
<1> DEFINE moved == [title |-> ds.of[t].title, area |-> area]
<1>1. [ds EXCEPT !.of[t].area = area].of = [ds.of EXCEPT ![t] = moved] /\ moved \in Device
  BY DeviceWithArea
<1>2. [ds EXCEPT !.of[t].area = area].of[t] = moved
  BY <1>1 DEF Registered
<1>3. moved # NoDevice /\ moved.area = area
  BY <1>1, DevicesAssumption
<1> QED
  BY <1>1, <1>2, <1>3

LEMMA DeviceGone ==
  ASSUME NEW ds \in Registered, NEW t \in Targets
  PROVE  /\ [ds EXCEPT !.of[t] = NoDevice] \in Registered
         /\ [ds EXCEPT !.of[t] = NoDevice].via = ds.via
         /\ [ds EXCEPT !.of[t] = NoDevice].of = [ds.of EXCEPT ![t] = NoDevice]
<1>1. [ds.of EXCEPT ![t] = NoDevice] \in [Targets -> Device \cup {NoDevice}]
  BY DEF Registered
<1> QED
  BY <1>1 DEF Registered

\* A sync gives the defined targets a device of theirs and changes nothing else.
LEMMA SyncGivesDevices ==
  ASSUME entry \in Entry, NEW of \in [Targets -> Device \cup {NoDevice}]
  PROVE  /\ Synced(of) \in [Targets -> Device \cup {NoDevice}]
         /\ \A t \in Targets :
              /\ t \notin Defined => Synced(of)[t] = of[t]
              /\ t \in Defined =>
                   /\ entry.targets[t] \in Target
                   /\ Synced(of)[t] \in Device /\ Synced(of)[t] # NoDevice
                   /\ Synced(of)[t].title = entry.targets[t].title
                   /\ of[t] = NoDevice => Synced(of)[t].area = entry.targets[t].area
                   /\ of[t] # NoDevice => Synced(of)[t].area = of[t].area
<1> SUFFICES ASSUME NEW t \in Targets
             PROVE  /\ Synced(of)[t] \in Device \cup {NoDevice}
                    /\ t \notin Defined => Synced(of)[t] = of[t]
                    /\ t \in Defined =>
                         /\ entry.targets[t] \in Target
                         /\ Synced(of)[t] \in Device /\ Synced(of)[t] # NoDevice
                         /\ Synced(of)[t].title = entry.targets[t].title
                         /\ of[t] = NoDevice => Synced(of)[t].area = entry.targets[t].area
                         /\ of[t] # NoDevice => Synced(of)[t].area = of[t].area
  BY DEF Synced
<1>1. CASE t \notin Defined
  BY <1>1 DEF Synced
<1>2. CASE t \in Defined
  <2>1. entry.targets[t] \in Target
    BY <1>2 DEF Defined, Entry
  <2>2. Synced(of)[t] = [title |-> entry.targets[t].title,
                         area |-> IF of[t] = NoDevice THEN entry.targets[t].area ELSE of[t].area]
    BY <1>2 DEF Synced, SyncedDevice
  <2>3. (IF of[t] = NoDevice THEN entry.targets[t].area ELSE of[t].area) \in Places
    BY <2>1 DEF Target, Device
  <2>4. Synced(of)[t] \in Device
    BY <2>1, <2>2, <2>3 DEF Device, Target
  <2> QED
    BY <1>2, <2>1, <2>2, <2>4, DevicesAssumption
<1> QED
  BY <1>1, <1>2

-----------------------------------------------------------------------------
(* Types *)

\* What TypeOK needs to be inductive: the files know no target id that was not given, and an
\* entry of this schema or a later one has no command subentries.
TypeInv ==
  /\ TypeOK
  /\ \A t \in Targets : disk.entry.targets[t] # NoTarget \/ disk.devices.of[t] # NoDevice => t \in minted
  /\ entry.version # 1 => entry.old = {}
  /\ disk.entry.version # 1 => disk.entry.old = {}

LEMMA InitTypes == Init => TypeInv
<1> SUFFICES ASSUME Init PROVE TypeInv
  OBVIOUS
<1>1. PICK version \in 1..3, node \in Nodes, old \in SUBSET Commands :
        /\ version # 1 => old = {}
        /\ entry = [version |-> version, node |-> node, old |-> old, targets |-> [t \in Targets |-> NoTarget]]
        /\ devices = [via |-> node, of |-> [t \in Targets |-> NoDevice]]
        /\ records = [c \in Commands |-> IF c \in old THEN "attached" ELSE "detached"]
  BY DEF Init
<1>2. entry \in Entry /\ devices \in Registered /\ records \in Records
  BY <1>1 DEF Entry, Registered, Records
<1>3. /\ disk = [entry |-> entry, devices |-> devices, records |-> records]
      /\ nodes = Nodes /\ state = "not_loaded" /\ boundTo = NoNode /\ missed = FALSE /\ unheard = {}
      /\ updated = FALSE /\ form = Closed /\ minted = {} /\ events = 0 /\ wish = [t \in Targets |-> NoArea]
  BY DEF Init
<1>4. disk \in [entry : Entry, devices : Registered, records : Records]
  BY <1>2, <1>3
<1>5. \A t \in Targets : entry.targets[t] = NoTarget /\ devices.of[t] = NoDevice
  BY <1>1
<1>6. wish \in [Targets -> Places] /\ events \in 0..MaxEvents
  BY <1>3, DevicesAssumption DEF Places
<1>7. entry.version # 1 => entry.old = {}
  BY <1>1
<1>8. disk.entry = entry /\ disk.devices = devices
  BY <1>3
<1> QED
  BY <1>2, <1>3, <1>4, <1>5, <1>6, <1>7, <1>8 DEF TypeInv, TypeOK, States

LEMMA CountsEvents == ASSUME events \in 0..MaxEvents, Event PROVE events' \in 0..MaxEvents
  BY DevicesAssumption DEF Event

\* The entry, its devices or what listens to them change, and neither the files nor the ids given.
LEMMA MemoryTypes ==
  ASSUME TypeInv, UNCHANGED <<disk, minted>>,
         entry' \in Entry, devices' \in Registered, records' \in Records,
         events' \in 0..MaxEvents, wish' \in [Targets -> Places],
         nodes' \subseteq Nodes, state' \in States, boundTo' \in Nodes \cup {NoNode},
         missed' \in BOOLEAN, unheard' \subseteq Targets, updated' \in BOOLEAN, form' \in Form \cup {Closed},
         \A t \in Targets : entry'.targets[t] # NoTarget => t \in minted,
         \A t \in Targets : devices'.of[t] # NoDevice => t \in minted,
         entry'.version # 1 => entry'.old = {},
         state' # "not_loaded" => entry'.version = 2,
         boundTo' = NoNode <=> state' \in {"not_loaded", "setup_error"}
  PROVE  TypeInv'
  BY DEF TypeInv, TypeOK

\* A form that is open for longer is still a form, of the same target.
LEMMA FormStays ==
  ASSUME form \in Form \cup {Closed}
  PROVE  /\ Outdated(form) \in Form \cup {Closed}
         /\ form = Closed => Outdated(form) = Closed
         /\ form # Closed =>
              Outdated(form) \in Form /\ Outdated(form).target = form.target /\ ~Outdated(form).fresh
  BY DEF Form, Outdated

\* What a changed target does to what listens to the entry.
LEMMA AnnouncedTypes ==
  ASSUME TypeInv, NEW t \in Targets, Announced(t)
  PROVE  /\ UNCHANGED <<state, boundTo, missed>>
         /\ unheard' \subseteq Targets /\ updated' \in BOOLEAN
  BY DEF TypeInv, TypeOK, Announced, Loaded

LEMMA SubmitTypes == ASSUME TypeInv, SubmitForm PROVE TypeInv'
<1> DEFINE t == form.target
<1>1. /\ form \in Form /\ t \in Targets /\ form.offers \in Places
      /\ entry \in Entry /\ devices \in Registered /\ wish \in [Targets -> Places]
      /\ events' \in 0..MaxEvents
  BY CountsEvents DEF TypeInv, TypeOK, SubmitForm, Form
<1>2. UNCHANGED <<records, disk, nodes, minted>> /\ form' = Closed
  BY DEF SubmitForm
<1>3. CASE t \notin Defined
  <2>1. UNCHANGED <<entry, devices, loading, updated, wish>>
    BY <1>3 DEF SubmitForm
  <2> QED
    BY <1>1, <1>2, <2>1, MemoryTypes DEF TypeInv, TypeOK, loading
<1>4. CASE t \in Defined
  <2>1. PICK title \in Titles, area \in Areas \cup {form.offers} :
          /\ entry' = [entry EXCEPT !.targets[t] = [title |-> title, area |-> area]]
          /\ devices' = IF Moves(t, area) THEN [devices EXCEPT !.of = Placed(@, t, area)] ELSE devices
          /\ Announced(t)
          /\ wish' = [wish EXCEPT ![t] =
               IF devices.of[t] = NoDevice THEN area
               ELSE IF form.fresh /\ Loaded THEN IF area = form.offers THEN @ ELSE area
               ELSE devices'.of[t].area]
    BY <1>4 DEF SubmitForm
  <2>2. area \in Places /\ [title |-> title, area |-> area] \in Target
    BY <1>1, <2>1 DEF Places, Target
  <2>3. /\ entry' \in Entry /\ entry'.targets = [entry.targets EXCEPT ![t] = [title |-> title, area |-> area]]
        /\ entry'.version = entry.version /\ entry'.old = entry.old
    BY <1>1, <2>1, <2>2, EntryWithTarget
  <2>4. devices' \in Registered /\ \A u \in Targets : devices'.of[u] # NoDevice => devices.of[u] # NoDevice
    <3>1. CASE devices.of[t] # NoDevice /\ Moves(t, area)
      <4>1. devices' = [devices EXCEPT !.of[t].area = area]
        BY <1>1, <2>1, <3>1 DEF Placed, Registered
      <4> QED
        BY <1>1, <2>2, <3>1, <4>1, DeviceWithArea DEF Registered
    <3>2. CASE ~(devices.of[t] # NoDevice /\ Moves(t, area))
      <4>1. devices' = devices
        BY <1>1, <2>1, <3>2 DEF Placed, Registered
      <4> QED
        BY <1>1, <4>1
    <3> QED
      BY <3>1, <3>2
  <2>5. wish' \in [Targets -> Places]
    <3>1. CASE devices.of[t] = NoDevice
      BY <1>1, <2>1, <2>2, <3>1
    <3>2. CASE devices.of[t] # NoDevice
      <4>1. devices'.of[t] \in Device
        <5>1. CASE Moves(t, area)
          <6>1. devices' = [devices EXCEPT !.of[t].area = area]
            BY <1>1, <2>1, <3>2, <5>1 DEF Placed, Registered
          <6> QED
            BY <1>1, <2>2, <3>2, <6>1, DeviceMoved
        <5>2. CASE ~Moves(t, area)
          BY <1>1, <2>1, <3>2, <5>2 DEF Registered
        <5> QED
          BY <5>1, <5>2
      <4>2. devices'.of[t].area \in Places
        BY <4>1 DEF Device
      <4> QED
        BY <1>1, <2>1, <2>2, <4>2
    <3> QED
      BY <3>1, <3>2
  <2>6. \A u \in Targets : entry'.targets[u] # NoTarget => u \in minted
    BY <1>1, <1>4, <2>3 DEF TypeInv, TypeOK, Entry, Defined
  <2>7. UNCHANGED <<state, boundTo, missed>> /\ unheard' \subseteq Targets /\ updated' \in BOOLEAN
    BY <1>1, <2>1, AnnouncedTypes
  <2> QED
    BY <1>1, <1>2, <2>3, <2>4, <2>5, <2>6, <2>7, MemoryTypes DEF TypeInv, TypeOK
<1> QED
  BY <1>3, <1>4

LEMMA StepTypes == ASSUME TypeInv, [Next]_vars PROVE TypeInv'
<1>0. /\ entry \in Entry /\ devices \in Registered /\ records \in Records
      /\ disk.entry \in Entry /\ disk.devices \in Registered /\ disk.records \in Records
      /\ wish \in [Targets -> Places] /\ events \in 0..MaxEvents /\ minted \subseteq Targets
      /\ form \in Form \cup {Closed} /\ nodes \subseteq Nodes
      /\ state \in States /\ boundTo \in Nodes \cup {NoNode} /\ unheard \subseteq Targets
      /\ missed \in BOOLEAN /\ updated \in BOOLEAN
  BY DEF TypeInv, TypeOK
<1>1. CASE Migrate
  <2>1. entry' = [entry EXCEPT !.version = 2, !.old = @ \ Retiring(entry, records)]
    BY <1>1 DEF Migrate
  <2>2. Retiring(entry, records) = entry.old
    BY <1>1 DEF Retiring, Migrate
  <2>3. /\ entry' \in Entry /\ entry'.version = 2 /\ entry'.old = {} /\ entry'.targets = entry.targets
    <3>1. entry.old \ Retiring(entry, records) = {}
      BY <2>2
    <3>2. entry' = [version |-> 2, node |-> entry.node, old |-> {}, targets |-> entry.targets]
      BY <1>0, <2>1, <3>1 DEF Entry
    <3> QED
      BY <1>0, <3>2 DEF Entry
  <2>4. records' \in Records
    BY <1>0, <1>1, <2>2 DEF Migrate, Retired, SubentriesRemoved, Detached, Records
  <2>5. UNCHANGED <<devices, disk, nodes, state, boundTo, missed, unheard, updated, form, minted, events, wish>>
    BY <1>1 DEF Migrate, loading
  <2> QED
    BY <1>0, <2>3, <2>4, <2>5, MemoryTypes DEF TypeInv, TypeOK
<1>2. CASE StartSetup \/ SetupError \/ SetupFails
  <2>1. UNCHANGED <<stores, disk, nodes, missed, unheard, updated, form, minted, events, wish>>
    BY <1>2 DEF StartSetup, SetupError, SetupFails
  <2>2. CASE StartSetup
    <3>1. state' = "asking" /\ boundTo' \in Nodes /\ boundTo' # NoNode /\ entry.version = 2
      BY <1>0, <2>2, DevicesAssumption DEF StartSetup
    <3> QED
      BY <1>0, <2>1, <3>1, MemoryTypes DEF TypeInv, TypeOK, stores, States
  <2>3. CASE SetupError
    <3>1. state = "not_loaded" /\ state' = "setup_error" /\ boundTo' = boundTo /\ entry.version = 2
      BY <2>3 DEF SetupError
    <3> QED
      BY <1>0, <2>1, <3>1, MemoryTypes DEF TypeInv, TypeOK, stores, States
  <2>4. CASE SetupFails
    <3>1. state' = "not_loaded" /\ boundTo' = NoNode
      BY <2>4 DEF SetupFails
    <3> QED
      BY <1>0, <2>1, <3>1, MemoryTypes DEF TypeInv, TypeOK, stores, States
  <2> QED
    BY <1>2, <2>2, <2>3, <2>4
<1>3. CASE Answered
  <2>1. state = "asking" /\ state' = "opening" /\ unheard' = {} /\ boundTo \in nodes
    BY <1>3 DEF Answered
  <2>2. UNCHANGED <<entry, records, disk, nodes, boundTo, missed, updated, form, minted, events, wish>>
    BY <1>3 DEF Answered
  <2>3. Linked(devices.via, boundTo) \in Nodes \cup {NoNode}
    BY <1>0 DEF Linked, NodeDevice, Registered
  <2>4. Synced(devices.of) \in [Targets -> Device \cup {NoDevice}]
    BY <1>0, SyncGivesDevices DEF Registered
  <2>5. devices' \in Registered /\ devices'.of = Synced(devices.of)
    BY <1>3, <2>3, <2>4 DEF Answered, Registered
  <2>6. \A t \in Targets : devices'.of[t] # NoDevice => t \in minted
    <3>1. \A t \in Targets : t \notin Defined => Synced(devices.of)[t] = devices.of[t]
      BY <1>0, SyncGivesDevices DEF Registered
    <3> QED
      BY <2>5, <3>1 DEF TypeInv, TypeOK, Defined
  <2> QED
    BY <1>0, <2>1, <2>2, <2>5, <2>6, MemoryTypes DEF TypeInv, TypeOK, States
<1>14. CASE Load
  <2>1. state = "opening" /\ state' = "loaded" /\ missed' \in BOOLEAN /\ updated' \in BOOLEAN
    BY <1>14 DEF Load
  <2>2. UNCHANGED <<entry, devices, disk, nodes, boundTo, unheard, minted, events, wish>>
    BY <1>14 DEF Load
  <2>3. records' \in Records
    BY <1>0, <1>14 DEF Load, Detached, Records
  <2>4. form' \in Form \cup {Closed}
    BY <1>0, <1>14, FormStays DEF Load
  <2> QED
    BY <1>0, <2>1, <2>2, <2>3, <2>4, MemoryTypes DEF TypeInv, TypeOK, States
<1>15. ASSUME Unload, UNCHANGED <<stores, disk, nodes, minted, wish>>, events' \in 0..MaxEvents
       PROVE  TypeInv'
  <2>1. /\ state' = "not_loaded" /\ boundTo' = NoNode /\ missed' = FALSE /\ unheard' = {}
        /\ updated' = FALSE /\ form' \in Form \cup {Closed}
    BY <1>0, <1>15, FormStays DEF Unload
  <2>2. UNCHANGED <<entry, devices, records, disk, nodes, minted, wish>>
    BY <1>15 DEF stores
  <2> QED
    BY <1>0, <1>15, <2>1, <2>2, MemoryTypes DEF TypeInv, TypeOK, States
<1>16. CASE Reload
  BY <1>0, <1>15, <1>16, CountsEvents DEF Reload
<1>4. CASE UpdateListener
  <2>1. UNCHANGED <<entry, records, disk, nodes, minted, events, wish>>
    BY <1>4 DEF UpdateListener
  <2>2. CASE entry.node # boundTo
    BY <1>0, <1>4, <1>15, <2>1, <2>2 DEF UpdateListener, stores
  <2>3. CASE entry.node = boundTo
    <3>1. /\ devices' = [devices EXCEPT !.of = Synced(devices.of)] /\ UNCHANGED <<state, boundTo, missed, form>>
          /\ updated' = FALSE /\ unheard' = {}
      BY <1>4, <2>3 DEF UpdateListener
    <3>2. Synced(devices.of) \in [Targets -> Device \cup {NoDevice}]
      BY <1>0, SyncGivesDevices DEF Registered
    <3>3. devices' \in Registered /\ devices'.of = Synced(devices.of)
      BY <1>0, <3>1, <3>2 DEF Registered
    <3>4. \A t \in Targets : devices'.of[t] # NoDevice => t \in minted
      <4>1. \A t \in Targets : t \notin Defined => Synced(devices.of)[t] = devices.of[t]
        BY <1>0, SyncGivesDevices DEF Registered
      <4> QED
        BY <3>3, <4>1 DEF TypeInv, TypeOK, Defined
    <3> QED
      BY <1>0, <2>1, <3>1, <3>3, <3>4, MemoryTypes DEF TypeInv, TypeOK
  <2> QED
    BY <2>2, <2>3
<1>5. CASE SubmitForm
  BY <1>5, SubmitTypes
<1>6. CASE PowerCut
  <2>1. /\ entry' = disk.entry /\ devices' = disk.devices /\ records' = disk.records
        /\ state' = "not_loaded" /\ boundTo' = NoNode /\ missed' = FALSE /\ unheard' = {}
        /\ updated' = FALSE /\ form' = Closed
        /\ UNCHANGED <<disk, nodes, minted>> /\ events' \in 0..MaxEvents
    BY <1>0, <1>6, CountsEvents DEF PowerCut
  <2>2. wish' \in [Targets -> Places]
    <3> DEFINE W(t) == IF disk.devices.of[t] # NoDevice THEN disk.devices.of[t].area
                       ELSE IF disk.entry.targets[t] # NoTarget THEN disk.entry.targets[t].area
                       ELSE wish[t]
    <3>1. wish' = [t \in Targets |-> W(t)]
      BY <1>6 DEF PowerCut
    <3>2. ASSUME NEW t \in Targets PROVE W(t) \in Places
      BY <1>0 DEF Registered, Entry, Device, Target
    <3> HIDE DEF W
    <3> QED
      BY <3>1, <3>2
  <2> QED
    BY <1>0, <2>1, <2>2, MemoryTypes DEF TypeInv, TypeOK, States
<1>7. CASE WriteEntry \/ WriteDevices \/ WriteRecords
  <2>1. UNCHANGED <<stores, nodes, state, boundTo, missed, unheard, updated, form, minted, events, wish>>
    BY <1>7 DEF WriteEntry, WriteDevices, WriteRecords, loading
  <2>2. disk \in [entry : Entry, devices : Registered, records : Records]
    BY DEF TypeInv, TypeOK
  <2>3. /\ disk' \in [entry : Entry, devices : Registered, records : Records]
        /\ disk'.entry \in {entry, disk.entry} /\ disk'.devices \in {devices, disk.devices}
    BY <1>0, <1>7, <2>2 DEF WriteEntry, WriteDevices, WriteRecords
  <2> QED
    BY <2>1, <2>3 DEF TypeInv, TypeOK, stores, Loaded, Event
<1>8. ASSUME NEW n \in Nodes, Rebind(n) \/ NodeComes(n) \/ NodeGoes(n) PROVE TypeInv'
  <2>1. UNCHANGED <<records, disk, state, boundTo, missed, unheard, form, minted, wish>> /\ events' \in 0..MaxEvents
    BY <1>0, <1>8, CountsEvents DEF Rebind, NodeComes, NodeGoes, loading, stores
  <2>2. /\ entry' \in Entry /\ entry'.version = entry.version /\ entry'.old = entry.old
        /\ entry'.targets = entry.targets /\ updated' \in BOOLEAN
    BY <1>0, <1>8 DEF Rebind, NodeComes, NodeGoes, Entry, stores, Loaded
  <2>3. devices' \in Registered /\ devices'.of = devices.of /\ nodes' \subseteq Nodes
    BY <1>0, <1>8 DEF Rebind, NodeComes, NodeGoes, Registered, stores
  <2> QED
    BY <1>0, <2>1, <2>2, <2>3, MemoryTypes DEF TypeInv, TypeOK
<1>9. ASSUME NEW t \in Targets, CreateTarget(t) PROVE TypeInv'
  <2>1. PICK title \in Titles, area \in Places :
          /\ entry' = [entry EXCEPT !.targets[t] = [title |-> title, area |-> area]]
          /\ wish' = [wish EXCEPT ![t] = area]
    BY <1>9 DEF CreateTarget
  <2>2. /\ minted' = minted \cup {t} /\ Announced(t) /\ events' \in 0..MaxEvents
        /\ UNCHANGED <<devices, records, disk, nodes, form>>
    BY <1>0, <1>9, CountsEvents DEF CreateTarget
  <2>3. [title |-> title, area |-> area] \in Target
    BY <2>1 DEF Target
  <2>4. /\ entry' \in Entry /\ entry'.targets = [entry.targets EXCEPT ![t] = [title |-> title, area |-> area]]
        /\ entry'.version = entry.version /\ entry'.old = entry.old
    BY <1>0, <2>1, <2>3, EntryWithTarget
  <2>5. wish' \in [Targets -> Places]
    BY <1>0, <2>1
  <2>6. UNCHANGED <<state, boundTo, missed>> /\ unheard' \subseteq Targets /\ updated' \in BOOLEAN
    BY <2>2, AnnouncedTypes
  <2>7. \A u \in Targets : entry'.targets[u] # NoTarget => u \in minted'
    BY <1>0, <2>2, <2>4 DEF TypeInv, TypeOK, Entry
  <2> QED
    BY <1>0, <2>2, <2>4, <2>5, <2>6, <2>7 DEF TypeInv, TypeOK
<1>10. ASSUME NEW t \in Targets, OpenForm(t) PROVE TypeInv'
  <2>1. /\ UNCHANGED <<stores, disk, nodes, state, boundTo, missed, unheard, updated, minted, events, wish>>
        /\ form' = [target |-> t, offers |-> CurrentArea(t), fresh |-> TRUE] /\ t \in Defined
    BY <1>10 DEF OpenForm, loading
  <2>2. entry.targets[t].area \in Places
    BY <1>0, <2>1 DEF Defined, Entry, Target
  <2>3. DeviceArea(t) \in Places
    BY <1>0 DEF DeviceArea, Registered, Device, Places
  <2>4. form' \in Form
    BY <2>1, <2>2, <2>3 DEF CurrentArea, Form
  <2> QED
    BY <1>0, <2>1, <2>4, MemoryTypes DEF TypeInv, TypeOK, stores
<1>11. ASSUME NEW t \in Targets, RemoveTarget(t) PROVE TypeInv'
  <2>1. /\ UNCHANGED <<records, disk, nodes, state, boundTo, missed, unheard, form, minted, wish>>
        /\ entry' = [entry EXCEPT !.targets[t] = NoTarget]
        /\ devices' = [devices EXCEPT !.of[t] = NoDevice] /\ updated' = Loaded /\ events' \in 0..MaxEvents
    BY <1>0, <1>11, CountsEvents DEF RemoveTarget, loading
  <2>2. /\ entry' \in Entry /\ entry'.targets = [entry.targets EXCEPT ![t] = NoTarget]
        /\ entry'.version = entry.version /\ entry'.old = entry.old
    BY <1>0, <2>1, EntryWithTarget
  <2>3. devices' \in Registered /\ devices'.of = [devices.of EXCEPT ![t] = NoDevice]
    BY <1>0, <2>1, DeviceGone
  <2>4. updated' \in BOOLEAN
    BY <2>1 DEF Loaded
  <2>5. \A u \in Targets : (entry'.targets[u] # NoTarget => u \in minted) /\ (devices'.of[u] # NoDevice => u \in minted)
    BY <1>0, <2>2, <2>3 DEF TypeInv, TypeOK, Entry, Registered
  <2> QED
    BY <1>0, <2>1, <2>2, <2>3, <2>4, <2>5, MemoryTypes DEF TypeInv, TypeOK
<1>12. ASSUME NEW t \in Targets, MoveDevice(t) PROVE TypeInv'
  <2>1. PICK area \in Places :
          devices' = [devices EXCEPT !.of[t].area = area] /\ wish' = [wish EXCEPT ![t] = area]
    BY <1>12 DEF MoveDevice
  <2>2. /\ UNCHANGED <<entry, records, disk, nodes, state, boundTo, missed, unheard, updated, minted>>
        /\ devices.of[t] # NoDevice /\ events' \in 0..MaxEvents
    BY <1>0, <1>12, CountsEvents DEF MoveDevice, loading
  <2>3. /\ devices' \in Registered
        /\ \A u \in Targets : devices'.of[u] # NoDevice => devices.of[u] # NoDevice
    BY <1>0, <2>1, <2>2, DeviceWithArea DEF Registered
  <2>4. form' \in Form \cup {Closed}
    BY <1>0, <1>12, FormStays DEF MoveDevice
  <2>5. wish' \in [Targets -> Places]
    BY <1>0, <2>1
  <2> QED
    BY <1>0, <2>2, <2>3, <2>4, <2>5, MemoryTypes DEF TypeInv, TypeOK
<1>13. CASE UNCHANGED vars
  BY <1>13 DEF vars, stores, loading, TypeInv, TypeOK
<1> QED
  BY <1>1, <1>2, <1>3, <1>4, <1>5, <1>6, <1>7, <1>8, <1>9, <1>10, <1>11, <1>12, <1>13, <1>14, <1>16 DEF Next

\* Entry, devices, records and form of Devices keep their types; a target id is given once.
THEOREM TypeCorrect == Spec => []TypeOK
<1>1. TypeInv => TypeOK
  BY DEF TypeInv
<1> QED
  BY <1>1, InitTypes, StepTypes, PTL DEF Spec

-----------------------------------------------------------------------------
(* History *)

LEMMA HistoryStep == ASSUME TypeInv, HistoryKept, [Next]_vars PROVE HistoryKept'
<1>0. /\ records \in Records /\ disk \in [entry : Entry, devices : Registered, records : Records]
      /\ \A c \in Commands : records[c] # "deleted" /\ disk.records[c] # "deleted"
  BY DEF TypeInv, TypeOK, HistoryKept
<1>1. CASE Migrate
  <2> DEFINE old == Retiring(entry, records)
  <2>1. records' = Retired(records, old) /\ UNCHANGED disk
    BY <1>1 DEF Migrate
  <2>2. \A c \in Commands : c \in old => Detached(records, old)[c] # "attached"
    BY <1>0 DEF Detached
  <2>3. \A c \in Commands : Detached(records, old)[c] # "deleted"
    BY <1>0 DEF Detached
  <2>4. \A c \in Commands : Retired(records, old)[c] = Detached(records, old)[c]
    BY <2>2 DEF Retired, SubentriesRemoved
  <2> QED
    BY <1>0, <2>1, <2>3, <2>4 DEF HistoryKept
<1>2. CASE Load
  <2>1. records' = Detached(records, Commands \ entry.old) /\ UNCHANGED disk
    BY <1>2 DEF Load
  <2> QED
    BY <1>0, <2>1 DEF HistoryKept, Detached
<1>3. CASE PowerCut
  BY <1>0, <1>3 DEF PowerCut, HistoryKept
<1>4. CASE WriteEntry \/ WriteDevices \/ WriteRecords
  <2>1. records' = records /\ disk'.records \in {records, disk.records}
    BY <1>0, <1>4 DEF WriteEntry, WriteDevices, WriteRecords, stores
  <2> QED
    BY <1>0, <2>1 DEF HistoryKept
<1>5. CASE UNCHANGED <<records, disk>>
  BY <1>0, <1>5 DEF HistoryKept
<1>6. StartSetup \/ SetupError \/ SetupFails \/ Answered \/ UpdateListener \/ Reload \/ SubmitForm
        => UNCHANGED <<records, disk>>
  BY DEF StartSetup, SetupError, SetupFails, Answered, UpdateListener, Reload, SubmitForm, stores
<1>7. \A n \in Nodes : Rebind(n) \/ NodeComes(n) \/ NodeGoes(n) => UNCHANGED <<records, disk>>
  BY DEF Rebind, NodeComes, NodeGoes, stores
<1>8. \A t \in Targets : CreateTarget(t) \/ OpenForm(t) \/ RemoveTarget(t) \/ MoveDevice(t) => UNCHANGED <<records, disk>>
  BY DEF CreateTarget, OpenForm, RemoveTarget, MoveDevice, stores
<1>9. UNCHANGED vars => UNCHANGED <<records, disk>>
  BY DEF vars, stores
<1> QED
  BY <1>1, <1>2, <1>3, <1>4, <1>5, <1>6, <1>7, <1>8, <1>9 DEF Next

\* No power cut during or after the migration of _async_migrate_to_targets costs a record.
THEOREM HistoryIsKept == Spec => []HistoryKept
<1>1. Init => HistoryKept
  <2> SUFFICES ASSUME Init PROVE HistoryKept
    OBVIOUS
  <2>1. PICK old \in SUBSET Commands :
          records = [c \in Commands |-> IF c \in old THEN "attached" ELSE "detached"]
    BY DEF Init
  <2>2. disk.records = records
    BY DEF Init
  <2> QED
    BY <2>1, <2>2 DEF HistoryKept
<1> QED
  BY <1>1, InitTypes, StepTypes, HistoryStep, PTL DEF Spec

-----------------------------------------------------------------------------
(* Devices and their targets *)

Followed ==
  \A t \in Defined \ unheard : devices.of[t] # NoDevice /\ devices.of[t].title = entry.targets[t].title

\* What DevicesFollowTargets needs to be inductive: devices follow from the answer on, and while
\* the listener is due the bridge already hangs where it should.
FollowInv ==
  /\ DevicesFollowTargets
  /\ state \in {"opening", "loaded"} => devices.via \in {boundTo, NoNode}
  /\ state = "opening" => Followed

\* A change of the entry that is announced, with the bridge left where it hangs, and one target
\* changed at most, of which nobody hears when it happens while the replica is read.
LEMMA AnnouncedFollows ==
  ASSUME FollowInv, NEW t, UNCHANGED <<state, boundTo>>, updated' = Loaded, unheard \subseteq unheard',
         devices'.via \in {devices.via, NoNode},
         \A u \in Targets \ {t} : entry'.targets[u] = entry.targets[u] /\ devices'.of[u] = devices.of[u],
         (state = "opening" /\ t \in Targets) => (t \in unheard' \/ entry'.targets[t] = NoTarget)
  PROVE  FollowInv'
<1>1. devices'.via \in {boundTo', NoNode} \/ state' \notin {"opening", "loaded"}
  BY DEF FollowInv
<1>2. DevicesFollowTargets'
  BY DEF DevicesFollowTargets, Loaded
<1>3. state' = "opening" => Followed'
  <2> SUFFICES ASSUME state = "opening", NEW u \in Targets, entry'.targets[u] # NoTarget, u \notin unheard'
               PROVE  devices'.of[u] # NoDevice /\ devices'.of[u].title = entry'.targets[u].title
    BY DEF Followed, Defined
  <2>1. u # t
    OBVIOUS
  <2>2. entry'.targets[u] = entry.targets[u] /\ devices'.of[u] = devices.of[u]
    BY <2>1
  <2> QED
    BY <2>2 DEF FollowInv, Followed, Defined
<1> QED
  BY <1>1, <1>2, <1>3 DEF FollowInv

\* What is synced follows.
LEMMA SyncedFollows ==
  ASSUME entry \in Entry, devices \in Registered, UNCHANGED entry, devices'.of = Synced(devices.of)
  PROVE  Followed'
<1>1. \A t \in Defined : Synced(devices.of)[t] # NoDevice /\ Synced(devices.of)[t].title = entry.targets[t].title
  BY SyncGivesDevices DEF Registered, Defined
<1> QED
  BY <1>1 DEF Followed, Defined

LEMMA FollowStep == ASSUME TypeInv, FollowInv, [Next]_vars PROVE FollowInv'
<1>0. /\ entry \in Entry /\ devices \in Registered /\ form \in Form \cup {Closed}
      /\ boundTo \in Nodes \cup {NoNode}
  BY DEF TypeInv, TypeOK
<1>1. CASE UNCHANGED <<entry, devices, state, boundTo, missed, unheard, updated>>
  BY <1>1 DEF FollowInv, DevicesFollowTargets, Followed, Loaded, Defined
<1>2. ASSUME state' \notin {"opening", "loaded"} PROVE FollowInv'
  BY <1>2 DEF FollowInv, DevicesFollowTargets, Loaded
<1>3. StartSetup \/ SetupError \/ SetupFails \/ Reload \/ Migrate \/ PowerCut => state' \notin {"opening", "loaded"}
  BY DEF StartSetup, SetupError, SetupFails, Reload, Unload, Migrate, PowerCut, loading
<1>4. CASE Answered
  <2>1. /\ boundTo \in nodes /\ state' = "opening" /\ UNCHANGED <<entry, boundTo>>
        /\ devices' = [via |-> Linked(devices.via, boundTo), of |-> Synced(devices.of)]
    BY <1>4 DEF Answered
  <2>2. Linked(devices.via, boundTo) \in {boundTo, NoNode}
    BY <2>1, DevicesAssumption DEF Linked, NodeDevice, TypeInv, TypeOK
  <2>3. Followed'
    BY <1>0, <2>1, SyncedFollows
  <2>4. devices'.via \in {boundTo', NoNode}
    BY <2>1, <2>2
  <2> QED
    BY <2>1, <2>3, <2>4 DEF FollowInv, DevicesFollowTargets, Loaded
<1>5. CASE Load
  <2>1. /\ state = "opening" /\ state' = "loaded" /\ missed' = (entry.node # boundTo)
        /\ UNCHANGED <<entry, devices, boundTo, unheard>>
    BY <1>5 DEF Load
  <2>2. Followed' /\ devices'.via \in {boundTo', NoNode}
    BY <2>1 DEF FollowInv, Followed, Defined
  <2>3. entry'.node = boundTo' \/ missed'
    BY <2>1
  <2> QED
    BY <2>1, <2>2, <2>3 DEF FollowInv, DevicesFollowTargets, Followed
<1>6. CASE UpdateListener
  <2>1. CASE entry.node # boundTo
    BY <1>2, <1>6, <2>1 DEF UpdateListener, Unload
  <2>2. CASE entry.node = boundTo
    <3>1. /\ devices' = [devices EXCEPT !.of = Synced(devices.of)]
          /\ UNCHANGED <<entry, state, boundTo>> /\ state = "loaded"
      BY <1>6, <2>2 DEF UpdateListener, Loaded
    <3>2. devices'.of = Synced(devices.of) /\ devices'.via = devices.via
      BY <1>0, <3>1 DEF Registered
    <3>3. Followed'
      BY <1>0, <3>1, <3>2, SyncedFollows
    <3>4. devices'.via \in {boundTo', NoNode} /\ entry'.node = boundTo'
      BY <2>2, <3>1, <3>2 DEF FollowInv
    <3> QED
      BY <3>1, <3>3, <3>4 DEF FollowInv, DevicesFollowTargets, Followed
  <2> QED
    BY <2>1, <2>2
<1>7. CASE SubmitForm
  <2> DEFINE t == form.target
  <2>1. CASE t \notin Defined
    BY <1>1, <1>7, <2>1 DEF SubmitForm, loading
  <2>2. CASE t \in Defined
    <3>1. PICK title \in Titles, area \in Areas \cup {form.offers} :
            /\ entry' = [entry EXCEPT !.targets[t] = [title |-> title, area |-> area]]
            /\ devices' = IF Moves(t, area) THEN [devices EXCEPT !.of = Placed(@, t, area)] ELSE devices
            /\ Announced(t)
      BY <1>7, <2>2 DEF SubmitForm
    <3>2. devices'.via = devices.via
      BY <1>0, <3>1 DEF Registered
    <3>3. \A u \in Targets \ {t} : entry'.targets[u] = entry.targets[u] /\ devices'.of[u] = devices.of[u]
      BY <1>0, <3>1 DEF Entry, Registered, Placed
    <3>4. /\ UNCHANGED <<state, boundTo>> /\ updated' = Loaded /\ unheard \subseteq unheard'
          /\ state = "opening" => t \in unheard'
      BY <3>1 DEF Announced
    <3> HIDE DEF t
    <3> QED
      BY <3>2, <3>3, <3>4, AnnouncedFollows
  <2> QED
    BY <2>1, <2>2
<1>8. ASSUME NEW n \in Nodes, Rebind(n) PROVE FollowInv'
  <2>1. entry'.targets = entry.targets /\ devices' = devices
    BY <1>0, <1>8 DEF Rebind, Entry
  <2>2. /\ UNCHANGED <<state, boundTo, unheard>> /\ updated' = Loaded
    BY <1>8 DEF Rebind, loading
  <2>3. CASE state = "opening"
    <3>1. Followed'
      BY <2>1, <2>2, <2>3 DEF FollowInv, Followed, Defined
    <3> QED
      BY <2>1, <2>2, <2>3, <3>1 DEF FollowInv, DevicesFollowTargets, Loaded
  <2>4. CASE state # "opening"
    BY <2>1, <2>2, <2>4 DEF FollowInv, DevicesFollowTargets, Loaded
  <2> QED
    BY <2>3, <2>4
<1>9. ASSUME NEW n \in Nodes, NodeGoes(n) PROVE FollowInv'
  <2>1. devices'.of = devices.of /\ devices'.via \in {devices.via, NoNode}
    BY <1>0, <1>9 DEF NodeGoes, Registered
  <2>2. UNCHANGED <<entry, state, boundTo, missed, unheard, updated>>
    BY <1>9 DEF NodeGoes, loading
  <2> QED
    BY <2>1, <2>2 DEF FollowInv, DevicesFollowTargets, Followed, Loaded, Defined
<1>10. ASSUME NEW t \in Targets, CreateTarget(t) PROVE FollowInv'
  <2>1. PICK title \in Titles, area \in Places :
          entry' = [entry EXCEPT !.targets[t] = [title |-> title, area |-> area]]
    BY <1>10 DEF CreateTarget
  <2>2. \A u \in Targets \ {t} : entry'.targets[u] = entry.targets[u]
    BY <1>0, <2>1 DEF Entry
  <2>3. /\ UNCHANGED <<state, boundTo, devices>> /\ updated' = Loaded /\ unheard \subseteq unheard'
        /\ state = "opening" => t \in unheard'
    BY <1>10 DEF CreateTarget, Announced
  <2> QED
    BY <2>2, <2>3, AnnouncedFollows
<1>11. ASSUME NEW t \in Targets, RemoveTarget(t) PROVE FollowInv'
  <2>1. /\ entry' = [entry EXCEPT !.targets[t] = NoTarget] /\ devices' = [devices EXCEPT !.of[t] = NoDevice]
        /\ UNCHANGED <<state, boundTo, unheard>> /\ updated' = Loaded
    BY <1>11 DEF RemoveTarget, loading
  <2>2. devices'.via = devices.via /\ devices'.of = [devices.of EXCEPT ![t] = NoDevice]
    BY <1>0, <2>1, DeviceGone
  <2>3. entry'.targets[t] = NoTarget
    BY <1>0, <2>1 DEF Entry
  <2>4. \A u \in Targets \ {t} : entry'.targets[u] = entry.targets[u] /\ devices'.of[u] = devices.of[u]
    BY <1>0, <2>1, <2>2 DEF Entry, Registered
  <2> QED
    BY <2>1, <2>2, <2>3, <2>4, AnnouncedFollows
<1>12. ASSUME NEW t \in Targets, MoveDevice(t) PROVE FollowInv'
  <2>1. PICK area \in Places : devices' = [devices EXCEPT !.of[t].area = area]
    BY <1>12 DEF MoveDevice
  <2>2. devices.of[t] # NoDevice /\ UNCHANGED <<entry, state, boundTo, missed, unheard, updated>>
    BY <1>12 DEF MoveDevice, loading
  <2>3. /\ devices'.via = devices.via
        /\ devices'.of = [devices.of EXCEPT ![t] = [title |-> devices.of[t].title, area |-> area]]
        /\ [title |-> devices.of[t].title, area |-> area] \in Device
    BY <1>0, <2>1, <2>2, DeviceWithArea
  <2>4. \A u \in Targets : devices.of[u] # NoDevice =>
          devices'.of[u] # NoDevice /\ devices'.of[u].title = devices.of[u].title
    BY <1>0, <2>3, DevicesAssumption DEF Registered
  <2> QED
    BY <2>2, <2>3, <2>4 DEF FollowInv, DevicesFollowTargets, Followed, Loaded, Defined
<1>13. WriteEntry \/ WriteDevices \/ WriteRecords \/ UNCHANGED vars
         => UNCHANGED <<entry, devices, state, boundTo, missed, unheard, updated>>
  BY DEF WriteEntry, WriteDevices, WriteRecords, vars, stores, loading
<1>14. (\E n \in Nodes : NodeComes(n)) \/ (\E t \in Targets : OpenForm(t))
         => UNCHANGED <<entry, devices, state, boundTo, missed, unheard, updated>>
  BY DEF NodeComes, OpenForm, stores, loading
<1> QED
  BY <1>1, <1>2, <1>3, <1>4, <1>5, <1>6, <1>7, <1>8, <1>9, <1>10, <1>11, <1>12, <1>13, <1>14 DEF Next

\* A loaded entry has a device for each target, named as the target is, whenever its update
\* listener has run (async_sync_target_devices, async_register_bridge_device), but for what was
\* changed while async_setup_entry waited and nothing listened.
THEOREM DevicesFollow == Spec => []DevicesFollowTargets
<1>1. Init => FollowInv
  BY DEF Init, FollowInv, DevicesFollowTargets, Loaded
<1>2. FollowInv => DevicesFollowTargets
  BY DEF FollowInv
<1> QED
  BY <1>1, <1>2, InitTypes, StepTypes, FollowStep, PTL DEF Spec

-----------------------------------------------------------------------------
(* Areas *)

\* A device that is yet to be made will be put where the user wants it.
Pending == \A t \in Defined : devices.of[t] = NoDevice => wish[t] = entry.targets[t].area

\* A form that shows how things are offers the area the device has.
Offered ==
  (form # Closed /\ form.fresh /\ Loaded /\ form.target \in Defined) => form.offers = CurrentArea(form.target)

AreaInv ==
  /\ AreaIsTheUsers /\ Pending /\ Offered
  /\ form # Closed => form.target \in minted

\* Syncing moves no device, puts the new ones where they are wanted, and changes no form's offer.
LEMMA SyncKeepsAreas ==
  ASSUME TypeInv, AreaInv, UNCHANGED <<entry, minted, wish, form>>, Loaded' => Loaded,
         devices'.of = Synced(devices.of)
  PROVE  AreaInv'
<1>1. /\ entry \in Entry /\ devices.of \in [Targets -> Device \cup {NoDevice}]
      /\ form \in Form \cup {Closed}
  BY DEF TypeInv, TypeOK, Registered
<1>2. \A t \in Targets :
        /\ t \notin Defined => devices'.of[t] = devices.of[t]
        /\ t \in Defined =>
             /\ devices'.of[t] \in Device /\ devices'.of[t] # NoDevice
             /\ devices.of[t] = NoDevice => devices'.of[t].area = entry.targets[t].area
             /\ devices.of[t] # NoDevice => devices'.of[t].area = devices.of[t].area
  BY <1>1, SyncGivesDevices
<1>3. AreaIsTheUsers'
  BY <1>2 DEF AreaInv, AreaIsTheUsers, Pending
<1>4. Pending'
  BY <1>2 DEF Pending, Defined
<1>5. form' # Closed => form'.target \in minted'
  BY DEF AreaInv
<1>6. Offered'
  <2> SUFFICES ASSUME form # Closed, form.fresh, Loaded', form.target \in Defined
               PROVE  form.offers = CurrentArea(form.target)'
    BY DEF Offered, Defined
  <2>1. form.offers = CurrentArea(form.target) /\ Loaded
    BY DEF AreaInv, Offered
  <2>2. DeviceArea(form.target)' # NoArea =>
          DeviceArea(form.target)' = DeviceArea(form.target) \/ devices.of[form.target] = NoDevice
    BY <1>2 DEF DeviceArea, Defined
  <2> QED
    BY <1>2, <2>1 DEF CurrentArea, DeviceArea, Defined
<1> QED
  BY <1>3, <1>4, <1>5, <1>6 DEF AreaInv

\* Neither does taking the entry down or up again.
LEMMA OutdatingKeepsAreas ==
  ASSUME TypeInv, AreaInv, UNCHANGED <<entry, devices, minted, wish>>, form' = Outdated(form)
  PROVE  AreaInv'
<1>1. form' # Closed => form # Closed /\ form'.target = form.target /\ ~form'.fresh
  BY FormStays DEF TypeInv, TypeOK
<1> QED
  BY <1>1 DEF AreaInv, AreaIsTheUsers, Pending, Offered, Defined

LEMMA SubmitKeepsAreas == ASSUME TypeInv, AreaInv, SubmitForm PROVE AreaInv'
<1> DEFINE t == form.target
<1>0. /\ form \in Form /\ t \in Targets /\ form.offers \in Places
      /\ entry \in Entry /\ devices \in Registered /\ wish \in [Targets -> Places]
  BY DEF TypeInv, TypeOK, SubmitForm, Form
<1>1. form' = Closed /\ minted' = minted
  BY DEF SubmitForm
<1>2. CASE t \notin Defined
  BY <1>1, <1>2 DEF SubmitForm, AreaInv, AreaIsTheUsers, Pending, Offered, Defined
<1>3. CASE t \in Defined
  <2>1. PICK title \in Titles, area \in Areas \cup {form.offers} :
          /\ entry' = [entry EXCEPT !.targets[t] = [title |-> title, area |-> area]]
          /\ devices' = IF Moves(t, area) THEN [devices EXCEPT !.of = Placed(@, t, area)] ELSE devices
          /\ wish' = [wish EXCEPT ![t] =
               IF devices.of[t] = NoDevice THEN area
               ELSE IF form.fresh /\ Loaded THEN IF area = form.offers THEN @ ELSE area
               ELSE devices'.of[t].area]
    BY <1>3 DEF SubmitForm
  <2>2. area \in Places /\ [title |-> title, area |-> area] \in Target
    BY <1>0, <2>1 DEF Places, Target
  <2>3. entry'.targets = [entry.targets EXCEPT ![t] = [title |-> title, area |-> area]]
    BY <1>0, <2>1, <2>2, EntryWithTarget
  <2>4. \A u \in Targets \ {t} : /\ entry'.targets[u] = entry.targets[u] /\ wish'[u] = wish[u]
                                 /\ devices'.of[u] = devices.of[u]
    BY <1>0, <2>1, <2>3 DEF Entry, Registered, Placed
  <2>5. CASE devices.of[t] = NoDevice
    <3>1. devices' = devices /\ wish'[t] = area /\ entry'.targets[t].area = area
      BY <1>0, <2>1, <2>3, <2>5 DEF Placed, Registered, Entry
    <3> QED
      BY <1>0, <1>1, <2>4, <2>5, <3>1 DEF AreaInv, AreaIsTheUsers, Pending, Offered, Defined
  <2>6. CASE devices.of[t] # NoDevice
    <3>1. devices'.of[t] # NoDevice /\ wish'[t] = devices'.of[t].area
      <4>1. CASE Moves(t, area)
        <5>1. devices' = [devices EXCEPT !.of[t].area = area]
          BY <1>0, <2>1, <2>6, <4>1 DEF Placed, Registered
        <5>2. devices'.of[t] # NoDevice /\ devices'.of[t].area = area
          BY <1>0, <2>2, <2>6, <5>1, DeviceMoved
        <5>3. form.fresh => form.offers = CurrentArea(t)
          BY <1>0, <1>3, <4>1 DEF AreaInv, Offered, Moves, SubmitForm
        <5>4. form.fresh => area # form.offers
          BY <4>1, <5>3 DEF Moves
        <5> QED
          BY <1>0, <2>1, <2>6, <4>1, <5>2, <5>4 DEF Moves
      <4>2. CASE ~Moves(t, area)
        <5>1. devices' = devices
          BY <2>1, <4>2
        <5>2. devices.of[t].area = wish[t]
          BY <1>0, <2>6 DEF AreaInv, AreaIsTheUsers
        <5>3. (form.fresh /\ Loaded) => form.offers = CurrentArea(t)
          BY <1>0, <1>3 DEF AreaInv, Offered, SubmitForm
        <5>4. (form.fresh /\ Loaded) => area = form.offers
          BY <4>2, <5>3 DEF Moves
        <5> QED
          BY <1>0, <2>1, <2>6, <5>1, <5>2, <5>4
      <4> QED
        BY <4>1, <4>2
    <3> QED
      BY <1>0, <1>1, <2>4, <3>1 DEF AreaInv, AreaIsTheUsers, Pending, Offered, Defined
  <2> QED
    BY <2>5, <2>6
<1> QED
  BY <1>2, <1>3

LEMMA AreaStep == ASSUME TypeInv, AreaInv, [Next]_vars PROVE AreaInv'
<1>0. /\ entry \in Entry /\ devices \in Registered /\ wish \in [Targets -> Places]
      /\ disk.entry \in Entry /\ disk.devices \in Registered
      /\ form \in Form \cup {Closed} /\ minted \subseteq Targets
      /\ \A t \in Targets : entry.targets[t] # NoTarget \/ devices.of[t] # NoDevice => t \in minted
  BY DEF TypeInv, TypeOK
<1>1. ASSUME UNCHANGED <<entry.targets, devices.of, form, minted, wish>>, Loaded' => Loaded PROVE AreaInv'
  BY <1>1 DEF AreaInv, AreaIsTheUsers, Pending, Offered, Defined, Loaded, CurrentArea, DeviceArea
<1>2. CASE Load \/ Reload
  BY <1>2, OutdatingKeepsAreas DEF Load, Reload, Unload, stores
<1>3. CASE UpdateListener
  <2>1. CASE entry.node # boundTo
    BY <1>3, <2>1, OutdatingKeepsAreas DEF UpdateListener, Unload
  <2>2. CASE entry.node = boundTo
    <3>1. devices'.of = Synced(devices.of) /\ UNCHANGED <<entry, minted, wish, form, state>>
      BY <1>0, <1>3, <2>2 DEF UpdateListener, Registered
    <3> QED
      BY <3>1, SyncKeepsAreas DEF Loaded
  <2> QED
    BY <2>1, <2>2
<1>13. CASE Answered
  <2>1. devices'.of = Synced(devices.of) /\ UNCHANGED <<entry, minted, wish, form>> /\ state' = "opening"
    BY <1>13 DEF Answered
  <2> QED
    BY <2>1, SyncKeepsAreas DEF Loaded
<1>4. CASE SubmitForm
  BY <1>4, SubmitKeepsAreas
<1>5. CASE PowerCut
  <2>1. /\ entry' = disk.entry /\ devices' = disk.devices /\ form' = Closed
        /\ wish' = [t \in Targets |->
                     IF disk.devices.of[t] # NoDevice THEN disk.devices.of[t].area
                     ELSE IF disk.entry.targets[t] # NoTarget THEN disk.entry.targets[t].area
                     ELSE wish[t]]
    BY <1>5 DEF PowerCut
  <2> QED
    BY <2>1 DEF AreaInv, AreaIsTheUsers, Pending, Offered, Defined
<1>6. CASE Migrate
  <2>1. entry'.targets = entry.targets
    BY <1>0, <1>6 DEF Migrate, Entry
  <2> QED
    BY <1>1, <1>6, <2>1 DEF Migrate, loading, Loaded
<1>7. ASSUME NEW n \in Nodes, Rebind(n) \/ NodeComes(n) \/ NodeGoes(n) PROVE AreaInv'
  <2>1. entry'.targets = entry.targets /\ devices'.of = devices.of
    BY <1>0, <1>7 DEF Rebind, NodeComes, NodeGoes, Entry, Registered, stores
  <2> QED
    BY <1>1, <1>7, <2>1 DEF Rebind, NodeComes, NodeGoes, loading, Loaded
<1>8. ASSUME NEW t \in Targets, CreateTarget(t) PROVE AreaInv'
  <2>1. PICK title \in Titles, area \in Places :
          /\ entry' = [entry EXCEPT !.targets[t] = [title |-> title, area |-> area]]
          /\ wish' = [wish EXCEPT ![t] = area]
    BY <1>8 DEF CreateTarget
  <2>2. /\ t \notin minted /\ minted' = minted \cup {t}
        /\ UNCHANGED <<devices, state, form>>
    BY <1>8 DEF CreateTarget, Announced
  <2>3. entry'.targets = [entry.targets EXCEPT ![t] = [title |-> title, area |-> area]]
    BY <1>0, <2>1, EntryWithTarget DEF Target
  <2>4. devices.of[t] = NoDevice /\ (form # Closed => form.target # t)
    BY <1>0, <2>2 DEF AreaInv
  <2>5. \A u \in Targets \ {t} : entry'.targets[u] = entry.targets[u] /\ wish'[u] = wish[u]
    BY <1>0, <2>1, <2>3 DEF Entry
  <2>6. entry'.targets[t].area = area /\ wish'[t] = area
    BY <1>0, <2>1, <2>3 DEF Entry
  <2>7. AreaIsTheUsers' /\ Pending'
    BY <2>2, <2>4, <2>5, <2>6 DEF AreaInv, AreaIsTheUsers, Pending, Defined
  <2>8. form' # Closed => form'.target \in minted' /\ form'.target \in Targets \ {t}
    BY <1>0, <2>2, <2>4 DEF AreaInv
  <2>9. Offered'
    BY <2>2, <2>5, <2>8 DEF AreaInv, Offered, Defined, Loaded, CurrentArea, DeviceArea
  <2> QED
    BY <2>7, <2>8, <2>9 DEF AreaInv
<1>9. ASSUME NEW t \in Targets, OpenForm(t) PROVE AreaInv'
  <2>1. /\ UNCHANGED <<entry, devices, state, minted, wish>> /\ t \in Defined
        /\ form' = [target |-> t, offers |-> CurrentArea(t), fresh |-> TRUE]
    BY <1>9 DEF OpenForm, stores, loading
  <2>2. form'.target = t /\ form'.offers = CurrentArea(t) /\ t \in minted
    BY <1>0, <2>1 DEF Defined
  <2>3. Offered'
    BY <2>1, <2>2 DEF Offered, CurrentArea, DeviceArea, Loaded
  <2> QED
    BY <2>1, <2>2, <2>3 DEF AreaInv, AreaIsTheUsers, Pending, Defined
<1>10. ASSUME NEW t \in Targets, RemoveTarget(t) PROVE AreaInv'
  <2>1. /\ entry' = [entry EXCEPT !.targets[t] = NoTarget] /\ devices' = [devices EXCEPT !.of[t] = NoDevice]
        /\ UNCHANGED <<state, form, minted, wish>>
    BY <1>10 DEF RemoveTarget, loading
  <2>2. entry'.targets = [entry.targets EXCEPT ![t] = NoTarget] /\ devices'.of = [devices.of EXCEPT ![t] = NoDevice]
    BY <1>0, <2>1, EntryWithTarget, DeviceGone
  <2>3. entry'.targets[t] = NoTarget /\ devices'.of[t] = NoDevice
    BY <1>0, <2>2 DEF Entry, Registered
  <2>4. \A u \in Targets \ {t} : entry'.targets[u] = entry.targets[u] /\ devices'.of[u] = devices.of[u]
    BY <1>0, <2>2 DEF Entry, Registered
  <2> QED
    BY <1>0, <2>1, <2>3, <2>4 DEF AreaInv, AreaIsTheUsers, Pending, Offered, Defined, Loaded, CurrentArea, DeviceArea, Form
<1>11. ASSUME NEW t \in Targets, MoveDevice(t) PROVE AreaInv'
  <2>1. PICK area \in Places :
          devices' = [devices EXCEPT !.of[t].area = area] /\ wish' = [wish EXCEPT ![t] = area]
    BY <1>11 DEF MoveDevice
  <2>2. /\ devices.of[t] # NoDevice /\ UNCHANGED <<entry, state, minted>>
        /\ form' = IF form # Closed /\ form.target = t THEN Outdated(form) ELSE form
    BY <1>11 DEF MoveDevice, loading
  <2>3. devices'.of[t] # NoDevice /\ devices'.of[t].area = area
    BY <1>0, <2>1, <2>2, DeviceMoved
  <2>4. \A u \in Targets \ {t} : devices'.of[u] = devices.of[u] /\ wish'[u] = wish[u]
    BY <1>0, <2>1, <2>2, DeviceWithArea DEF Registered
  <2>5. AreaIsTheUsers' /\ Pending'
    BY <1>0, <2>1, <2>2, <2>3, <2>4 DEF AreaInv, AreaIsTheUsers, Pending, Defined
  <2>6. form' # Closed => form # Closed /\ form'.target = form.target
    BY <1>0, <2>2, FormStays
  <2>7. Offered'
    <3>1. CASE form # Closed /\ form.target = t
      <4>1. ~form'.fresh
        BY <1>0, <2>2, <3>1, FormStays
      <4> QED
        BY <4>1 DEF Offered
    <3>2. CASE ~(form # Closed /\ form.target = t)
      <4>1. form' = form /\ (form # Closed => form.target \in Targets \ {t})
        BY <1>0, <2>2, <3>2 DEF Form
      <4> QED
        BY <2>2, <2>4, <4>1 DEF AreaInv, Offered, Defined, Loaded, CurrentArea, DeviceArea
    <3> QED
      BY <3>1, <3>2
  <2> QED
    BY <2>2, <2>5, <2>6, <2>7 DEF AreaInv
<1>12. StartSetup \/ SetupError \/ SetupFails \/ WriteEntry \/ WriteDevices \/ WriteRecords \/ UNCHANGED vars
         => UNCHANGED <<entry.targets, devices.of, form, minted, wish>> /\ (Loaded' => Loaded)
  BY DEF StartSetup, SetupError, SetupFails, WriteEntry, WriteDevices, WriteRecords, vars, stores, loading, Loaded
<1> QED
  BY <1>1, <1>2, <1>3, <1>4, <1>5, <1>6, <1>7, <1>8, <1>9, <1>10, <1>11, <1>12, <1>13 DEF Next

\* A target's device is where the user last put it: async_register_target_device places it once,
\* and async_set_target_area moves it only when the user changed the field of a form that shows
\* how things are. A form that no longer does may move it, and what it does is taken for the wish.
THEOREM AreaStays == Spec => []AreaIsTheUsers
<1>1. Init => AreaInv
  BY DEF Init, AreaInv, AreaIsTheUsers, Pending, Offered, Defined
<1>2. AreaInv => AreaIsTheUsers
  BY DEF AreaInv
<1> QED
  BY <1>1, <1>2, InitTypes, StepTypes, AreaStep, PTL DEF Spec
=============================================================================
