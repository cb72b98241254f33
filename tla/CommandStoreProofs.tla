------------------------- MODULE CommandStoreProofs -------------------------
(***************************************************************************)
(* Theorems about CommandStore for every number of slots, names, waveforms *)
(* and identities, every configuration and every bound: what holds while   *)
(* it runs, then what a boot reads from flash after a clean stop and after *)
(* a power cut, and that the store implements StoreContract.               *)
(***************************************************************************)
EXTENDS CommandStore, FiniteSetTheorems, TLAPS

-----------------------------------------------------------------------------
(* Registries *)

LEMMA FreeIsCommand == Free \in Command
BY DEF Free, Command, COMMAND_ID_NONE

LEMMA BlankIsRegistry == Blank \in Registry
BY FreeIsCommand DEF Blank, Registry, NoCommands, COMMAND_ID_FIRST

LEMMA MintedIsRegistry ==
  ASSUME NEW b \in BridgeIds \cup {ZeroId}
  PROVE  Minted(b) \in Registry
BY BlankIsRegistry DEF Minted, Registry, REVISION_INITIAL

\* What begin() loads is a registry whatever the records hold.
LEMMA ReadIsRegistry ==
  ASSUME TypeOK, NEW c
  PROVE  ReadRegistry(c) \in Registry
BY FreeIsCommand, BlankIsRegistry DEF ReadRegistry, TypeOK, Registry

LEMMA FoundByName ==
  ASSUME NEW slots \in [Slots -> Command], NEW n, HasName(slots, n)
  PROVE  /\ SlotOfName(slots, n) \in Slots
         /\ slots[SlotOfName(slots, n)].name = n
         /\ Occupied(slots[SlotOfName(slots, n)])
BY DEF HasName, SlotOfName, Taken

LEMMA FoundById ==
  ASSUME NEW slots \in [Slots -> Command], NEW i, HasId(slots, i)
  PROVE  /\ SlotOfId(slots, i) \in Slots
         /\ slots[SlotOfId(slots, i)].command_id = i
         /\ Occupied(slots[SlotOfId(slots, i)])
BY DEF HasId, SlotOfId, Taken

-----------------------------------------------------------------------------
(* Type correctness *)

LEMMA ShowType ==
  ASSUME TypeOK, NEW r \in Registry, Show(r)
  PROVE  /\ listed' \in [BridgeIds \cup {ZeroId} -> SUBSET Nat]
         /\ high' \in [BridgeIds \cup {ZeroId} -> Nat]
<1>1. Ids(r.slots) \subseteq Nat
  BY DEF Ids, Taken, Registry, Command
<1>2. listed' \in [BridgeIds \cup {ZeroId} -> SUBSET Nat]
  BY <1>1 DEF Show, TypeOK, Registry
<1>3. \A n, m \in Nat : Greater(n, m) \in Nat
  BY DEF Greater
<1>4. r.revision \in Nat /\ r.bridge_id \in BridgeIds \cup {ZeroId}
  BY DEF Registry
<1>5. high' \in [BridgeIds \cup {ZeroId} -> Nat]
  <2>1. CASE StaleRestore \/ r.restoring
    BY <2>1 DEF Show, TypeOK
  <2>2. CASE ~(StaleRestore \/ r.restoring)
    <3>1. high' = [high EXCEPT ![r.bridge_id] = Greater(@, r.revision)]
      BY <2>2 DEF Show
    <3>2. Greater(high[r.bridge_id], r.revision) \in Nat
      BY <1>3, <1>4 DEF TypeOK
    <3>3. QED
      BY <1>4, <3>1, <3>2 DEF TypeOK
  <2>3. QED
    BY <2>1, <2>2
<1>6. QED
  BY <1>2, <1>5

\* An accepted operation hands Commit a registry, a slot to write and its own name. This is
\* what every operation has in common; the proofs about steps start from it.
Operation ==
  \E o \in Ops \ {"begin"}, s \in 0..MaxSlots, r \in Registry : Commit(o, s, r)

LEMMA OperationType ==
  ASSUME TypeOK, Operation,
         known' \subseteq BridgeIds \cup {ZeroId}, abandoned' \subseteq BridgeIds \cup {ZeroId}
  PROVE  TypeOK'
BY DEF Operation, Commit, TypeOK, flash, Slots

\* What every accepted operation does besides changing RAM.
LEMMA OperationFacts ==
  ASSUME Operation
  PROVE  /\ undo' = ram /\ index' = index /\ header' = header /\ payload' = payload
         /\ cfg' = cfg /\ fault' = fault /\ failed' = failed /\ high' = high
         /\ op' # "begin" /\ pc' = IF target' = 0 THEN "index" ELSE "payload"
BY DEF Operation, Commit, flash

\* The counters a step may write.
LEMMA CountersAreNat ==
  ASSUME TypeOK
  PROVE  /\ ram.next_command_id + 1 \in Nat
         /\ ram.revision + 1 \in Nat
         /\ ram.slots \in [Slots -> Command]
         /\ Slots \subseteq 0..MaxSlots /\ 0 \in 0..MaxSlots
BY ConstantsAssumption DEF TypeOK, Registry, Slots

LEMMA PutCommits ==
  ASSUME TypeOK, NEW n \in Names, NEW w \in Waves, Put(n, w)
  PROVE  Operation
<1>1. CASE HasName(ram.slots, n)
  <2> DEFINE s == SlotOfName(ram.slots, n)
             r == [ram EXCEPT !.slots[s].wave = w, !.revision = @ + 1]
  <2>1. s \in Slots
    BY <1>1, CountersAreNat, FoundByName
  <2>2. [ram.slots[s] EXCEPT !.wave = w] \in Command
    BY <2>1, CountersAreNat DEF Command
  <2>3. [ram.slots EXCEPT ![s].wave = w] \in [Slots -> Command]
    BY <2>1, <2>2, CountersAreNat
  <2>4. r \in Registry
    BY <2>3, CountersAreNat DEF TypeOK, Registry
  <2>5. Commit("put", s, r)
    BY <1>1 DEF Put
  <2>6. QED
    BY <2>1, <2>4, <2>5, CountersAreNat DEF Operation, Ops
<1>2. CASE ~HasName(ram.slots, n)
  <2> DEFINE c == [command_id |-> ram.next_command_id, name |-> n, wave |-> w]
             r(s) == [ram EXCEPT !.slots[s] = c, !.next_command_id = @ + 1, !.revision = @ + 1]
  <2>1. PICK s \in Slots : Commit("put", s, r(s))
    BY <1>2 DEF Put
  <2>2. c \in Command
    BY DEF TypeOK, Registry, Command
  <2>3. [ram.slots EXCEPT ![s] = c] \in [Slots -> Command]
    BY <2>2, CountersAreNat
  <2> HIDE DEF c
  <2>4. r(s) \in Registry
    BY <2>3, CountersAreNat DEF TypeOK, Registry
  <2>5. QED
    BY <2>1, <2>4, CountersAreNat DEF Operation, Ops
<1>3. QED
  BY <1>1, <1>2

LEMMA RenameCommits ==
  ASSUME TypeOK, NEW i, NEW n \in Names, Rename(i, n)
  PROVE  Operation
<1> DEFINE s == SlotOfId(ram.slots, i)
           r == [ram EXCEPT !.slots[s].name = n, !.revision = @ + 1]
<1>1. HasId(ram.slots, i)
  BY DEF Rename, RenameVerdict, Writable
<1>2. s \in Slots
  BY <1>1, CountersAreNat, FoundById
<1>3. [ram.slots[s] EXCEPT !.name = n] \in Command
  BY <1>2, CountersAreNat DEF Command
<1>4. [ram.slots EXCEPT ![s].name = n] \in [Slots -> Command]
  BY <1>2, <1>3, CountersAreNat
<1>5. r \in Registry
  BY <1>4, CountersAreNat DEF TypeOK, Registry
<1>6. Commit("rename", 0, r)
  BY DEF Rename
<1>7. QED
  BY <1>5, <1>6, CountersAreNat DEF Operation, Ops

LEMMA RemoveCommits ==
  ASSUME TypeOK, NEW i, Remove(i)
  PROVE  Operation
<1> DEFINE s == SlotOfId(ram.slots, i)
           r == [ram EXCEPT !.slots[s] = Free, !.revision = @ + 1]
<1>1. [ram.slots EXCEPT ![s] = Free] \in [Slots -> Command]
  BY CountersAreNat, FreeIsCommand
<1>2. r \in Registry
  BY <1>1, CountersAreNat DEF TypeOK, Registry
<1>3. Commit("remove", 0, r)
  BY DEF Remove
<1>4. QED
  BY <1>2, <1>3, CountersAreNat DEF Operation, Ops

LEMMA ClearAllCommits ==
  ASSUME TypeOK, ClearAll
  PROVE  Operation
<1> DEFINE r == [ram EXCEPT !.slots = NoCommands, !.restoring = FALSE, !.revision = @ + 1]
<1>1. NoCommands \in [Slots -> Command]
  BY FreeIsCommand DEF NoCommands
<1>2. r \in Registry
  BY <1>1, CountersAreNat DEF TypeOK, Registry
<1>3. Commit("clear_all", 0, r)
  BY DEF ClearAll
<1>4. QED
  BY <1>2, <1>3, CountersAreNat DEF Operation, Ops

LEMMA FactoryResetCommits ==
  ASSUME NEW b \in BridgeIds \cup {ZeroId}, FactoryReset(b)
  PROVE  Operation
BY MintedIsRegistry, ConstantsAssumption DEF FactoryReset, Operation, Ops

LEMMA RestoreBeginCommits ==
  ASSUME TypeOK, NEW b \in BridgeIds, NEW n \in Nat, RestoreBegin(b, n)
  PROVE  Operation
<1> DEFINE r == [ram EXCEPT !.bridge_id = b, !.next_command_id = n,
                            !.restoring = TRUE, !.revision = @ + 1]
<1>1. r \in Registry
  BY CountersAreNat DEF TypeOK, Registry
<1>2. Commit("restore_begin", 0, r)
  BY DEF RestoreBegin
<1>3. QED
  BY <1>1, <1>2, CountersAreNat DEF Operation, Ops

LEMMA ImportCommandCommits ==
  ASSUME TypeOK, NEW i \in Nat, NEW n \in Names, NEW w \in Waves, ImportCommand(i, n, w)
  PROVE  Operation
<1> DEFINE c == [command_id |-> i, name |-> n, wave |-> w]
           r(s) == [ram EXCEPT !.slots[s] = c, !.revision = @ + 1]
<1>1. PICK s \in Slots : Commit("import_command", s, r(s))
  BY DEF ImportCommand
<1>2. c \in Command
  BY DEF Command
<1>3. [ram.slots EXCEPT ![s] = c] \in [Slots -> Command]
  BY <1>2, CountersAreNat
<1> HIDE DEF c
<1>4. r(s) \in Registry
  BY <1>3, CountersAreNat DEF TypeOK, Registry
<1>5. QED
  BY <1>1, <1>4, CountersAreNat DEF Operation, Ops

LEMMA RestoreCommitCommits ==
  ASSUME TypeOK, NEW source \in Nat, RestoreCommit(source)
  PROVE  Operation
<1> DEFINE v == Greater(source, ram.revision) + 1
           r == [ram EXCEPT !.restoring = FALSE, !.revision = v]
<1>1. v \in Nat
  BY DEF Greater, TypeOK, Registry
<1> HIDE DEF v
<1>2. r \in Registry
  BY <1>1 DEF TypeOK, Registry
<1>3. Commit("restore_commit", 0, r)
  BY DEF RestoreCommit, v
<1>4. QED
  BY <1>2, <1>3, CountersAreNat DEF Operation, Ops

LEMMA TypeStep == TypeOK /\ [Next]_vars => TypeOK'
<1> SUFFICES ASSUME TypeOK, [Next]_vars PROVE TypeOK'
  OBVIOUS
<1>1. ASSUME NEW n \in Names, NEW w \in Waves, Put(n, w) PROVE TypeOK'
  BY <1>1, PutCommits, OperationType DEF Put, TypeOK
<1>2. ASSUME NEW i, NEW n \in Names, Rename(i, n) PROVE TypeOK'
  BY <1>2, RenameCommits, OperationType DEF Rename, TypeOK
<1>3. ASSUME NEW i, Remove(i) PROVE TypeOK'
  BY <1>3, RemoveCommits, OperationType DEF Remove, TypeOK
<1>4. ASSUME ClearAll PROVE TypeOK'
  <2>1. known' = known /\ abandoned' \subseteq abandoned \cup {ram.bridge_id}
    BY <1>4 DEF ClearAll
  <2>2. ram.bridge_id \in BridgeIds \cup {ZeroId}
    BY DEF TypeOK, Registry
  <2>3. QED
    BY <1>4, <2>1, <2>2, ClearAllCommits, OperationType DEF TypeOK
<1>5. ASSUME NEW b \in BridgeIds \cup {ZeroId}, FactoryReset(b) PROVE TypeOK'
  BY <1>5, FactoryResetCommits, OperationType DEF FactoryReset, TypeOK
<1>6. ASSUME NEW b \in BridgeIds, NEW n \in Nat, RestoreBegin(b, n) PROVE TypeOK'
  BY <1>6, RestoreBeginCommits, OperationType DEF RestoreBegin, TypeOK
<1>7. ASSUME NEW i \in Nat, NEW n \in Names, NEW w \in Waves, ImportCommand(i, n, w)
      PROVE TypeOK'
  BY <1>7, ImportCommandCommits, OperationType DEF ImportCommand, TypeOK
<1>8. ASSUME NEW source \in Nat, RestoreCommit(source) PROVE TypeOK'
  BY <1>8, RestoreCommitCommits, OperationType DEF RestoreCommit, TypeOK
<1>9. CASE SavePayload
  <2>1. ram.slots[target].wave \in Waves \cup {NoWave}
    BY <1>9 DEF SavePayload, TypeOK, Registry, Command
  <2>2. QED
    BY <1>9, <2>1 DEF SavePayload, TypeOK, seen
<1>10. CASE SaveIndex
  BY <1>10, ConstantsAssumption DEF SaveIndex, TypeOK, seen, Config, Slots
<1>11. CASE SaveHeader
  <2>1. listed' \in [BridgeIds \cup {ZeroId} -> SUBSET Nat]
        /\ high' \in [BridgeIds \cup {ZeroId} -> Nat]
    BY <1>11, ShowType DEF SaveHeader, TypeOK
  <2>2. header' \in [kind : {"missing", "bad", "alien", "valid"}, slot_count : 0..MaxSlots]
    BY <1>11, ConstantsAssumption DEF SaveHeader, TypeOK, Config, Slots
  <2>3. QED
    BY <1>11, <2>1, <2>2, BlankIsRegistry, ConstantsAssumption
    DEF SaveHeader, Return, TypeOK, Faults
<1>12. CASE SaveFails
  <2>1. ram' \in Registry
    BY <1>12 DEF SaveFails, TypeOK
  <2>2. listed' \in [BridgeIds \cup {ZeroId} -> SUBSET Nat]
        /\ high' \in [BridgeIds \cup {ZeroId} -> Nat]
    BY <1>12, <2>1, ShowType DEF SaveFails
  <2>3. QED
    BY <1>12, <2>1, <2>2, BlankIsRegistry, ConstantsAssumption
    DEF SaveFails, Return, TypeOK, flash
<1>13. CASE PowerCut
  BY <1>13, BlankIsRegistry, ConstantsAssumption DEF PowerCut, TypeOK, flash, seen, Faults
<1>14. ASSUME NEW c \in Configs, Begin(c) PROVE TypeOK'
  <2>1. ReadRegistry(c) \in Registry
    BY ReadIsRegistry
  <2>2. listed' \in [BridgeIds \cup {ZeroId} -> SUBSET Nat]
        /\ high' \in [BridgeIds \cup {ZeroId} -> Nat]
    BY <1>14, <2>1, ShowType DEF Begin
  <2>3. ReadFault(c) \in Faults
    BY DEF ReadFault, HeaderFault, Faults
  <2>4. QED
    BY <1>14, <2>1, <2>2, <2>3 DEF Begin, TypeOK, flash
<1>15. ASSUME NEW c \in Configs, NEW b \in BridgeIds \cup {ZeroId}, BeginFresh(c, b)
       PROVE TypeOK'
  BY <1>15, MintedIsRegistry DEF BeginFresh, TypeOK, flash, Ops
<1>16. CASE Decay
  <2>1. header' \in [kind : {"missing", "bad", "alien", "valid"}, slot_count : 0..MaxSlots]
    BY <1>16, ConstantsAssumption DEF Decay, TypeOK
  <2>2. index' \in [slot_count : 0..MaxSlots, reg : Registry]
    BY <1>16, BlankIsRegistry, ConstantsAssumption DEF Decay, TypeOK
  <2>3. payload' \in [Slots -> Waves \cup {NoWave}]
    BY <1>16 DEF Decay, TypeOK
  <2>4. decays' \in 0..MaxDecays
    BY <1>16, ConstantsAssumption DEF Decay, TypeOK
  <2>5. QED
    BY <1>16, <2>1, <2>2, <2>3, <2>4 DEF Decay, TypeOK, call
<1>17. CASE UNCHANGED vars
  BY <1>17 DEF vars, flash, call, seen, TypeOK
<1>18. /\ 0..COMMAND_ID_LAST \subseteq Nat /\ 0..COMMAND_ID_LAST + 1 \subseteq Nat
       /\ 0..REVISION_MAX + 1 \subseteq Nat
  BY ConstantsAssumption
<1>19. QED
  BY <1>1, <1>2, <1>3, <1>4, <1>5, <1>6, <1>7, <1>8, <1>9, <1>10, <1>11, <1>12, <1>13, <1>14,
     <1>15, <1>16, <1>17, <1>18 DEF Next

\* Every variable keeps its type, whatever fails and whenever the power goes: in particular
\* a payload save always has a slot to write (write_payload_ is never called with slot -1).
THEOREM TypeCorrect == Spec => []TypeOK
<1>1. Init => TypeOK
  BY BlankIsRegistry, ConstantsAssumption DEF Init, TypeOK, Faults
<1>2. QED
  BY <1>1, TypeStep, PTL DEF Spec

-----------------------------------------------------------------------------
(* Unique ids and names *)

LEMMA BlankIsWellFormed == WellFormed(Blank)
BY DEF WellFormed, Blank, NoCommands, Taken, Occupied, Free

LEMMA MintedIsWellFormed == ASSUME NEW b PROVE WellFormed(Minted(b))
BY DEF WellFormed, Minted, Blank, NoCommands, Taken, Occupied, Free

\* A registry whose commands all stand in another one, under a counter no lower, is as well
\* formed as that one.
LEMMA FewerCommands ==
  ASSUME NEW q \in Registry, NEW r \in Registry, WellFormed(q),
         r.next_command_id >= q.next_command_id,
         \A s \in Slots : r.slots[s] = q.slots[s] \/ r.slots[s] = Free
  PROVE  WellFormed(r)
<1>1. \A s \in Taken(r.slots) : s \in Taken(q.slots) /\ r.slots[s] = q.slots[s]
  BY DEF Taken, Occupied, Free
<1>2. \A s \in Taken(q.slots) : q.slots[s].command_id \in Nat
  BY DEF Taken, Registry, Command
<1>3. r.next_command_id \in Nat /\ q.next_command_id \in Nat
  BY DEF Registry
<1>4. QED
  BY <1>1, <1>2, <1>3 DEF WellFormed

\* Putting a command with a new id and a new name into one slot keeps a registry well formed.
LEMMA OneMoreCommand ==
  ASSUME NEW q \in Registry, NEW r \in Registry, WellFormed(q),
         NEW s \in Slots, NEW c \in Command,
         r.slots = [q.slots EXCEPT ![s] = c],
         r.next_command_id >= q.next_command_id,
         c.command_id < r.next_command_id, c.name \in ValidNames,
         \A t \in Taken(q.slots) \ {s} :
            q.slots[t].command_id # c.command_id /\ q.slots[t].name # c.name
  PROVE  WellFormed(r)
<1>1. \A t \in Taken(r.slots) : t = s \/ (t \in Taken(q.slots) /\ r.slots[t] = q.slots[t])
  BY DEF Taken, Registry
<1>2. r.slots[s] = c
  BY DEF Registry
<1>3. \A t \in Taken(q.slots) : q.slots[t].command_id \in Nat
  BY DEF Taken, Registry, Command
<1>4. /\ r.next_command_id \in Nat /\ q.next_command_id \in Nat
      /\ c.command_id \in Nat
  BY DEF Registry, Command
<1>5. ASSUME NEW t \in Taken(r.slots), NEW u \in Taken(r.slots),
             \/ r.slots[t].command_id = r.slots[u].command_id
             \/ r.slots[t].name = r.slots[u].name
      PROVE  t = u
  BY <1>1, <1>2, <1>5 DEF WellFormed
<1>6. ASSUME NEW t \in Taken(r.slots)
      PROVE  r.slots[t].command_id < r.next_command_id /\ r.slots[t].name \in ValidNames
  BY <1>1, <1>2, <1>3, <1>4 DEF WellFormed
<1>7. QED
  BY <1>5, <1>6 DEF WellFormed

LEMMA PutWellFormed ==
  ASSUME TypeOK, WellFormed(ram), NEW n \in Names, NEW w \in Waves, Put(n, w), TypeOK'
  PROVE  WellFormed(ram')
<1>1. ram \in Registry /\ ram' \in Registry /\ ram.next_command_id \in Nat
  BY DEF TypeOK, Registry
<1>2. n \in ValidNames
  BY DEF Put, PutVerdict, Writable
<1>3. CASE HasName(ram.slots, n)
  <2> DEFINE s == SlotOfName(ram.slots, n)
             c == [ram.slots[s] EXCEPT !.wave = w]
  <2>1. s \in Slots /\ s \in Taken(ram.slots) /\ ram.slots[s].name = n
    BY <1>3, FoundByName, CountersAreNat DEF Taken
  <2>2. ram' = [ram EXCEPT !.slots[s].wave = w, !.revision = @ + 1]
    BY <1>3 DEF Put, Commit
  <2> HIDE DEF s
  <2>3. c \in Command /\ c.command_id = ram.slots[s].command_id /\ c.name = n
    BY <2>1, CountersAreNat DEF Command
  <2>4. ram'.slots = [ram.slots EXCEPT ![s] = c]
    BY <2>1, <2>2, <1>1 DEF Registry
  <2>5. ram'.next_command_id = ram.next_command_id
    BY <2>2, <1>1 DEF Registry
  <2> HIDE DEF c
  <2>6. \A t \in Taken(ram.slots) \ {s} : /\ ram.slots[t].command_id # c.command_id
                                          /\ ram.slots[t].name # c.name
    BY <2>1, <2>3 DEF WellFormed
  <2>7. c.command_id < ram.next_command_id
    BY <2>1, <2>3 DEF WellFormed
  <2>8. QED
    BY <2>1, <2>3, <2>4, <2>5, <2>6, <2>7, <1>1, <1>2, OneMoreCommand
<1>4. CASE ~HasName(ram.slots, n)
  <2> DEFINE c == [command_id |-> ram.next_command_id, name |-> n, wave |-> w]
  <2>1. PICK s \in Slots :
          ram' = [ram EXCEPT !.slots[s] = c, !.next_command_id = @ + 1, !.revision = @ + 1]
    BY <1>4 DEF Put, Commit
  <2>2. c \in Command /\ c.command_id = ram.next_command_id /\ c.name = n
    BY <1>1 DEF Command
  <2> HIDE DEF c
  <2>3. ram'.slots = [ram.slots EXCEPT ![s] = c]
        /\ ram'.next_command_id = ram.next_command_id + 1
    BY <2>1, <1>1 DEF Registry
  <2>4. \A t \in Taken(ram.slots) : /\ ram.slots[t].command_id # ram.next_command_id
                                    /\ ram.slots[t].name # n
    BY <1>1, <1>4 DEF WellFormed, HasName
  <2>5. QED
    BY <2>2, <2>3, <2>4, <1>1, <1>2, OneMoreCommand
<1>5. QED
  BY <1>3, <1>4

LEMMA RenameWellFormed ==
  ASSUME TypeOK, WellFormed(ram), NEW i, NEW n \in Names, Rename(i, n), TypeOK'
  PROVE  WellFormed(ram')
<1> DEFINE s == SlotOfId(ram.slots, i)
           c == [ram.slots[s] EXCEPT !.name = n]
<1>1. /\ ram \in Registry /\ ram' \in Registry /\ ram.next_command_id \in Nat
      /\ n \in ValidNames /\ HasId(ram.slots, i) /\ ram.slots[s].name # n
      /\ ~HasName(ram.slots, n)
  BY DEF TypeOK, Registry, Rename, RenameVerdict, Writable
<1>2. s \in Slots /\ s \in Taken(ram.slots)
  BY <1>1, FoundById, CountersAreNat DEF Taken
<1>3. ram' = [ram EXCEPT !.slots[s].name = n, !.revision = @ + 1]
  BY DEF Rename, Commit
<1> HIDE DEF s
<1>4. c \in Command /\ c.command_id = ram.slots[s].command_id /\ c.name = n
  BY <1>1, <1>2, CountersAreNat DEF Command
<1>5. ram'.slots = [ram.slots EXCEPT ![s] = c]
      /\ ram'.next_command_id = ram.next_command_id
  BY <1>1, <1>2, <1>3 DEF Registry
<1> HIDE DEF c
<1>6. \A t \in Taken(ram.slots) \ {s} : /\ ram.slots[t].command_id # c.command_id
                                        /\ ram.slots[t].name # c.name
  BY <1>1, <1>2, <1>4 DEF WellFormed, HasName
<1>7. c.command_id < ram.next_command_id
  BY <1>2, <1>4 DEF WellFormed
<1>8. QED
  BY <1>1, <1>2, <1>4, <1>5, <1>6, <1>7, OneMoreCommand

LEMMA RemoveWellFormed ==
  ASSUME TypeOK, WellFormed(ram), NEW i, Remove(i), TypeOK'
  PROVE  WellFormed(ram')
<1>1. ram \in Registry /\ ram' \in Registry /\ ram.next_command_id \in Nat
  BY DEF TypeOK, Registry
<1>2. ram' = [ram EXCEPT !.slots[SlotOfId(ram.slots, i)] = Free, !.revision = @ + 1]
  BY DEF Remove, Commit
<1>3. /\ ram'.next_command_id = ram.next_command_id
      /\ \A s \in Slots : ram'.slots[s] = ram.slots[s] \/ ram'.slots[s] = Free
  BY <1>1, <1>2 DEF Registry
<1>4. QED
  BY <1>1, <1>3, FewerCommands

LEMMA EmptyWellFormed ==
  ASSUME NEW r, r.slots = NoCommands
  PROVE  WellFormed(r) /\ Ids(r.slots) = {}
BY DEF WellFormed, NoCommands, Taken, Occupied, Free, Ids

LEMMA RestoreBeginWellFormed ==
  ASSUME TypeOK, NEW b, NEW n, RestoreBegin(b, n)
  PROVE  WellFormed(ram')
<1>1. Taken(ram.slots) = {}
  BY DEF RestoreBegin, RestoreBeginVerdict
<1>2. ram'.slots = ram.slots
  BY DEF RestoreBegin, Commit, TypeOK, Registry
<1>3. QED
  BY <1>1, <1>2 DEF WellFormed

LEMMA ImportCommandWellFormed ==
  ASSUME TypeOK, WellFormed(ram), NEW i \in Nat, NEW n \in Names, NEW w \in Waves,
         ImportCommand(i, n, w), TypeOK'
  PROVE  WellFormed(ram')
<1> DEFINE c == [command_id |-> i, name |-> n, wave |-> w]
<1>1. /\ ram \in Registry /\ ram' \in Registry /\ ram.next_command_id \in Nat
      /\ n \in ValidNames /\ ~(i >= ram.next_command_id)
      /\ ~HasId(ram.slots, i) /\ ~HasName(ram.slots, n)
  BY DEF TypeOK, Registry, ImportCommand, ImportVerdict
<1>2. PICK s \in Slots : ram' = [ram EXCEPT !.slots[s] = c, !.revision = @ + 1]
  BY DEF ImportCommand, Commit
<1>3. c \in Command /\ c.command_id = i /\ c.name = n
  BY DEF Command
<1> HIDE DEF c
<1>4. ram'.slots = [ram.slots EXCEPT ![s] = c] /\ ram'.next_command_id = ram.next_command_id
  BY <1>1, <1>2 DEF Registry
<1>5. \A t \in Taken(ram.slots) : ram.slots[t].command_id # i /\ ram.slots[t].name # n
  BY <1>1 DEF HasId, HasName
<1>6. QED
  BY <1>1, <1>3, <1>4, <1>5, OneMoreCommand

LEMMA RestoreCommitWellFormed ==
  ASSUME TypeOK, WellFormed(ram), NEW source, RestoreCommit(source)
  PROVE  WellFormed(ram')
<1>1. ram'.slots = ram.slots /\ ram'.next_command_id = ram.next_command_id
  BY DEF RestoreCommit, Commit, TypeOK, Registry
<1>2. QED
  BY <1>1 DEF WellFormed

LEMMA BeginWellFormed ==
  ASSUME TypeOK, WellFormed(index.reg), NEW c
  PROVE  WellFormed(ReadRegistry(c))
<1>1. CASE HeaderFault # "NONE"
  BY <1>1, BlankIsWellFormed DEF ReadRegistry
<1>2. CASE HeaderFault = "NONE"
  <2>1. index.reg \in Registry /\ ReadRegistry(c) \in Registry
    BY ReadIsRegistry DEF TypeOK
  <2>2. index.reg.next_command_id \in Nat
    BY <2>1 DEF Registry
  <2>3. /\ ReadRegistry(c).next_command_id = index.reg.next_command_id
        /\ \A s \in Slots : \/ ReadRegistry(c).slots[s] = index.reg.slots[s]
                             \/ ReadRegistry(c).slots[s] = Free
    BY <1>2, <2>1 DEF ReadRegistry, Registry
  <2>4. QED
    BY <2>1, <2>2, <2>3, FewerCommands
<1>3. QED
  BY <1>1, <1>2

\* An operation keeps the old registry for a rollback and leaves flash alone.
LEMMA OperationWellFormed ==
  ASSUME RegistryWellFormed, WellFormed(ram'), Operation
  PROVE  RegistryWellFormed'
BY DEF Operation, Commit, flash, RegistryWellFormed, WellFormed

LEMMA WellFormedStep == TypeOK /\ RegistryWellFormed /\ [Next]_vars => RegistryWellFormed'
<1> SUFFICES ASSUME TypeOK, RegistryWellFormed, [Next]_vars PROVE RegistryWellFormed'
  OBVIOUS
<1>0. TypeOK' /\ WellFormed(ram) /\ WellFormed(undo) /\ WellFormed(index.reg)
  BY TypeStep DEF RegistryWellFormed
<1>1. ASSUME NEW n \in Names, NEW w \in Waves, Put(n, w) PROVE RegistryWellFormed'
  BY <1>0, <1>1, PutWellFormed, PutCommits, OperationWellFormed
<1>2. ASSUME NEW i, NEW n \in Names, Rename(i, n) PROVE RegistryWellFormed'
  BY <1>0, <1>2, RenameWellFormed, RenameCommits, OperationWellFormed
<1>3. ASSUME NEW i, Remove(i) PROVE RegistryWellFormed'
  BY <1>0, <1>3, RemoveWellFormed, RemoveCommits, OperationWellFormed
<1>4. ASSUME ClearAll PROVE RegistryWellFormed'
  <2>1. ram'.slots = NoCommands
    BY <1>4 DEF ClearAll, Commit, TypeOK, Registry
  <2>2. QED
    BY <1>4, <2>1, EmptyWellFormed, ClearAllCommits, OperationWellFormed
<1>5. ASSUME NEW b \in BridgeIds \cup {ZeroId}, FactoryReset(b) PROVE RegistryWellFormed'
  <2>1. ram' = Minted(b)
    BY <1>5 DEF FactoryReset, Commit
  <2>2. QED
    BY <1>5, <2>1, MintedIsWellFormed, FactoryResetCommits, OperationWellFormed
<1>6. ASSUME NEW b \in BridgeIds, NEW n \in Nat, RestoreBegin(b, n) PROVE RegistryWellFormed'
  BY <1>0, <1>6, RestoreBeginWellFormed, RestoreBeginCommits, OperationWellFormed
<1>7. ASSUME NEW i \in Nat, NEW n \in Names, NEW w \in Waves, ImportCommand(i, n, w)
      PROVE RegistryWellFormed'
  BY <1>0, <1>7, ImportCommandWellFormed, ImportCommandCommits, OperationWellFormed
<1>8. ASSUME NEW source \in Nat, RestoreCommit(source) PROVE RegistryWellFormed'
  BY <1>0, <1>8, RestoreCommitWellFormed, RestoreCommitCommits, OperationWellFormed
<1>9. CASE SavePayload
  BY <1>0, <1>9 DEF SavePayload, RegistryWellFormed
<1>10. CASE SaveIndex
  BY <1>0, <1>10 DEF SaveIndex, RegistryWellFormed
<1>11. CASE SaveHeader
  BY <1>0, <1>11, BlankIsWellFormed DEF SaveHeader, Return, RegistryWellFormed
<1>12. CASE SaveFails
  <2>1. ram' = ram \/ ram' = undo
    BY <1>12 DEF SaveFails
  <2>2. QED
    BY <1>0, <1>12, <2>1, BlankIsWellFormed DEF SaveFails, Return, RegistryWellFormed, flash
<1>13. CASE PowerCut
  BY <1>0, <1>13, BlankIsWellFormed DEF PowerCut, RegistryWellFormed, flash
<1>14. ASSUME NEW c \in Configs, Begin(c) PROVE RegistryWellFormed'
  BY <1>0, <1>14, BeginWellFormed DEF Begin, RegistryWellFormed, flash
<1>15. ASSUME NEW c \in Configs, NEW b \in BridgeIds \cup {ZeroId}, BeginFresh(c, b)
       PROVE RegistryWellFormed'
  BY <1>0, <1>15, MintedIsWellFormed DEF BeginFresh, RegistryWellFormed, flash
<1>16. CASE Decay
  BY <1>0, <1>16, BlankIsWellFormed DEF Decay, RegistryWellFormed, call
<1>17. CASE UNCHANGED vars
  BY <1>0, <1>17 DEF vars, flash, call, RegistryWellFormed
<1>18. /\ 0..COMMAND_ID_LAST \subseteq Nat /\ 0..COMMAND_ID_LAST + 1 \subseteq Nat
       /\ 0..REVISION_MAX + 1 \subseteq Nat
  BY ConstantsAssumption
<1>19. QED
  BY <1>1, <1>2, <1>3, <1>4, <1>5, <1>6, <1>7, <1>8, <1>9, <1>10, <1>11, <1>12, <1>13, <1>14,
     <1>15, <1>16, <1>17, <1>18 DEF Next

\* Ids and names are unique and every id is below next_command_id, in RAM, in what a failed
\* save would roll back to and in the index on flash, at every step of every operation.
THEOREM WellFormedAlways == Spec => []RegistryWellFormed
<1>1. Init => RegistryWellFormed
  BY BlankIsWellFormed DEF Init, RegistryWellFormed
<1>2. QED
  BY <1>1, WellFormedStep, TypeCorrect, PTL DEF Spec

-----------------------------------------------------------------------------
(* Data that could not be read *)

\* While the store is read-only only a factory reset gets as far as saving.
SavesWhileReadOnly ==
  /\ (read_only /\ pc \in {"payload", "index", "header"}) => op = "factory_reset"
  /\ pc = "off" => ~read_only

LEMMA SavesWhileReadOnlyStep ==
  SavesWhileReadOnly /\ [Next]_vars => SavesWhileReadOnly'
<1> SUFFICES ASSUME SavesWhileReadOnly, [Next]_vars PROVE SavesWhileReadOnly'
  OBVIOUS
<1>1. ASSUME NEW n \in Names, NEW w \in Waves, Put(n, w) PROVE SavesWhileReadOnly'
  BY <1>1 DEF Put, PutVerdict, Writable, Commit, SavesWhileReadOnly, read_only
<1>2. ASSUME NEW i, NEW n \in Names, Rename(i, n) PROVE SavesWhileReadOnly'
  BY <1>2 DEF Rename, RenameVerdict, Writable, Commit, SavesWhileReadOnly, read_only
<1>3. ASSUME NEW i, Remove(i) PROVE SavesWhileReadOnly'
  BY <1>3 DEF Remove, RemoveVerdict, Writable, Commit, SavesWhileReadOnly, read_only
<1>4. CASE ClearAll
  BY <1>4 DEF ClearAll, ClearVerdict, Commit, SavesWhileReadOnly, read_only
<1>5. ASSUME NEW b, FactoryReset(b) PROVE SavesWhileReadOnly'
  BY <1>5 DEF FactoryReset, Commit, SavesWhileReadOnly, read_only
<1>6. ASSUME NEW b, NEW n, RestoreBegin(b, n) PROVE SavesWhileReadOnly'
  BY <1>6 DEF RestoreBegin, RestoreBeginVerdict, Commit, SavesWhileReadOnly, read_only
<1>7. ASSUME NEW i, NEW n, NEW w, ImportCommand(i, n, w) PROVE SavesWhileReadOnly'
  BY <1>7 DEF ImportCommand, ImportVerdict, Commit, SavesWhileReadOnly, read_only
<1>8. ASSUME NEW source, RestoreCommit(source) PROVE SavesWhileReadOnly'
  BY <1>8 DEF RestoreCommit, RestoreCommitVerdict, Commit, SavesWhileReadOnly, read_only
<1>9. CASE SavePayload \/ SaveIndex
  BY <1>9 DEF SavePayload, SaveIndex, SavesWhileReadOnly, read_only
<1>10. CASE SaveHeader \/ SaveFails \/ PowerCut
  BY <1>10 DEF SaveHeader, SaveFails, PowerCut, Return, SavesWhileReadOnly, read_only
<1>11. ASSUME NEW c, Begin(c) PROVE SavesWhileReadOnly'
  BY <1>11 DEF Begin, SavesWhileReadOnly, read_only
<1>12. ASSUME NEW c, NEW b, BeginFresh(c, b) PROVE SavesWhileReadOnly'
  BY <1>12 DEF BeginFresh, SavesWhileReadOnly, read_only
<1>13. CASE Decay
  BY <1>13 DEF Decay, call, SavesWhileReadOnly, read_only
<1>14. CASE UNCHANGED vars
  BY <1>14 DEF vars, call, SavesWhileReadOnly, read_only
<1>15. QED
  BY <1>1, <1>2, <1>3, <1>4, <1>5, <1>6, <1>7, <1>8, <1>9, <1>10, <1>11, <1>12, <1>13, <1>14
  DEF Next

\* A session that could not read its records (read_only_) never writes one: only a factory
\* reset, which discards them, and damage while the board is off change them.
THEOREM ReadOnlyFreezes == Spec => ReadOnlyFreezesFlash
<1> DEFINE A == [(read_only /\ pc \in {"idle", "payload", "index", "header"}
                   /\ op # "factory_reset") => UNCHANGED flash]_vars
<1>1. Init => SavesWhileReadOnly
  BY DEF Init, SavesWhileReadOnly, read_only
<1>2. SavesWhileReadOnly /\ [Next]_vars => A
  <2> SUFFICES ASSUME SavesWhileReadOnly, [Next]_vars, read_only,
                      pc \in {"idle", "payload", "index", "header"}, op # "factory_reset"
               PROVE  UNCHANGED flash
    OBVIOUS
  <2>1. pc = "idle"
    BY DEF SavesWhileReadOnly
  <2>2. ASSUME NEW o, NEW s, NEW r, Commit(o, s, r) PROVE UNCHANGED flash
    BY <2>2 DEF Commit
  <2>3. CASE Next
    <3>1. ~SavePayload /\ ~SaveIndex /\ ~SaveHeader /\ ~SaveFails /\ ~Decay
      BY <2>1 DEF SavePayload, SaveIndex, SaveHeader, SaveFails, Decay
    <3>2. \A c \in Configs : ~Begin(c) /\ \A b \in BridgeIds \cup {ZeroId} : ~BeginFresh(c, b)
      BY <2>1 DEF Begin, BeginFresh
    <3>3. PowerCut => UNCHANGED flash
      BY DEF PowerCut
    <3>4. ASSUME NEW n, NEW w, Put(n, w) PROVE UNCHANGED flash
      BY <2>2, <3>4 DEF Put
    <3>5. ASSUME NEW i, NEW n, Rename(i, n) \/ Remove(i) PROVE UNCHANGED flash
      BY <2>2, <3>5 DEF Rename, Remove
    <3>6. ASSUME NEW b, NEW n, ClearAll \/ FactoryReset(b) \/ RestoreBegin(b, n)
          PROVE UNCHANGED flash
      BY <2>2, <3>6 DEF ClearAll, FactoryReset, RestoreBegin
    <3>7. ASSUME NEW i, NEW n, NEW w, ImportCommand(i, n, w) PROVE UNCHANGED flash
      BY <2>2, <3>7 DEF ImportCommand
    <3>8. ASSUME NEW source, RestoreCommit(source) PROVE UNCHANGED flash
      BY <2>2, <3>8 DEF RestoreCommit
    <3>9. QED
      BY <2>3, <3>1, <3>2, <3>3, <3>4, <3>5, <3>6, <3>7, <3>8 DEF Next
  <2>4. CASE UNCHANGED vars
    BY <2>4 DEF vars
  <2>5. QED
    BY <2>3, <2>4
<1>3. QED
  BY <1>1, <1>2, SavesWhileReadOnlyStep, PTL DEF Spec, ReadOnlyFreezesFlash

-----------------------------------------------------------------------------
(* An id is never given twice *)

\* The counter of registry r is above every id in `shown` for its identity.
Above(r, shown) == r.bridge_id # ZeroId => \A i \in shown[r.bridge_id] : i < r.next_command_id

\* Every command of r has been listed under its identity.
AllListed(r) == Ids(r.slots) \subseteq listed[r.bridge_id]

\* The counters are above what was listed in every copy that may become the registry: in
\* RAM, in what a failed save puts back, and on flash. The last index save wrote RAM; what a
\* failed save puts back was already listed, or is an empty registry.
IdInv ==
  /\ \A r \in {ram, undo, index.reg} : Above(r, listed) /\ r.bridge_id \in known \cup {ZeroId}
  /\ pc = "header" => index.reg = ram
  /\ pc = "off" => undo = Blank
  /\ pc = "idle" => AllListed(ram)
  /\ pc \in {"payload", "index", "header"} => AllListed(undo)
  /\ (pc \in {"payload", "index", "header"} /\ op \in {"begin", "factory_reset"})
        => Ids(ram.slots) = {}
  /\ \A b \in BridgeIds \ known : listed[b] = {}

LEMMA BlankIsAbove == ASSUME NEW shown PROVE Above(Blank, shown)
BY DEF Above, Blank

LEMMA EmptyIds == Ids(NoCommands) = {}
BY DEF Ids, Taken, NoCommands, Occupied, Free

\* Showing a registry lists its ids under its identity and under no other.
LEMMA ShowLists ==
  ASSUME ~StaleRestore, TypeOK, NEW r \in Registry, Show(r)
  PROVE  /\ listed'[r.bridge_id] = listed[r.bridge_id] \cup Ids(r.slots)
         /\ \A b \in (BridgeIds \cup {ZeroId}) \ {r.bridge_id} : listed'[b] = listed[b]
         /\ r.bridge_id \in BridgeIds \cup {ZeroId}
<1>1. listed' = [listed EXCEPT ![r.bridge_id] = @ \cup Ids(r.slots)]
  BY DEF Show
<1>2. QED
  BY <1>1 DEF TypeOK, Registry

\* Showing what was already listed changes nothing.
LEMMA ShowAgain ==
  ASSUME ~StaleRestore, TypeOK, NEW r \in Registry, Show(r), Ids(r.slots) \subseteq listed[r.bridge_id]
  PROVE  listed' = listed
<1>1. listed' = [listed EXCEPT ![r.bridge_id] = @ \cup Ids(r.slots)]
  BY DEF Show
<1>2. QED
  BY <1>1 DEF TypeOK, Registry

LEMMA BelowCounter ==
  ASSUME NEW r, WellFormed(r)
  PROVE  \A i \in Ids(r.slots) : i < r.next_command_id
BY DEF WellFormed, Ids

\* Showing a registry whose counter was above what is listed keeps it above.
LEMMA ShowAbove ==
  ASSUME ~StaleRestore, TypeOK, NEW r \in Registry, Show(r), Above(r, listed), WellFormed(r)
  PROVE  Above(r, listed')
BY ShowLists, BelowCounter DEF Above

\* The same identity under a counter no lower.
LEMMA StillAbove ==
  ASSUME NEW q \in Registry, NEW r \in Registry, r.bridge_id = q.bridge_id,
         r.next_command_id >= q.next_command_id,
         NEW shown \in [BridgeIds \cup {ZeroId} -> SUBSET Nat], Above(q, shown)
  PROVE  Above(r, shown)
<1>1. /\ q.next_command_id \in Nat /\ r.next_command_id \in Nat
      /\ q.bridge_id \in BridgeIds \cup {ZeroId}
  BY DEF Registry
<1>2. \A i \in shown[q.bridge_id] : i \in Nat
  BY <1>1
<1>3. QED
  BY <1>1, <1>2 DEF Above

\* An operation keeps the invariant if the counter it leaves in RAM is above what is listed
\* under the identity it leaves there.
LEMMA OperationIdInv ==
  ASSUME TypeOK, IdInv, pc = "idle", Operation, Above(ram', listed),
         ram'.bridge_id \in known' \cup {ZeroId}, known \subseteq known',
         op' = "factory_reset" => Ids(ram'.slots) = {}
  PROVE  IdInv'
<1>1. /\ undo' = ram /\ index' = index /\ listed' = listed /\ op' # "begin"
      /\ pc' \in {"payload", "index"}
  BY DEF Operation, Commit, flash
<1>2. \A q \in {ram', undo', index'.reg} :
        Above(q, listed') /\ q.bridge_id \in known' \cup {ZeroId}
  BY <1>1 DEF IdInv
<1>3. AllListed(undo)'
  BY <1>1 DEF IdInv, AllListed
<1>4. QED
  BY <1>1, <1>2, <1>3 DEF IdInv

\* The operations that keep the identity and never lower the counter.
LEMMA SameIdentityIdInv ==
  ASSUME TypeOK, TypeOK', IdInv, pc = "idle", Operation, op' # "factory_reset",
         ram'.bridge_id = ram.bridge_id, ram'.next_command_id >= ram.next_command_id,
         known' = known
  PROVE  IdInv'
<1>1. Above(ram', listed)
  BY StillAbove DEF TypeOK, IdInv
<1>2. QED
  BY <1>1, OperationIdInv DEF IdInv

LEMMA IdInvStep ==
  ASSUME ~StaleRestore
  PROVE  TypeOK /\ RegistryWellFormed /\ IdInv /\ [Next]_vars => IdInv'
<1> SUFFICES ASSUME TypeOK, RegistryWellFormed, IdInv, [Next]_vars PROVE IdInv'
  OBVIOUS
<1>0. /\ TypeOK' /\ ram \in Registry /\ ram.next_command_id \in Nat
      /\ ram.next_command_id >= ram.next_command_id
      /\ ram.next_command_id + 1 >= ram.next_command_id
  BY TypeStep DEF TypeOK, Registry
<1>1. ASSUME NEW n \in Names, NEW w \in Waves, Put(n, w) PROVE IdInv'
  <2>1. /\ ram'.bridge_id = ram.bridge_id /\ op' = "put" /\ known' = known /\ pc = "idle"
        /\ ram'.next_command_id \in {ram.next_command_id, ram.next_command_id + 1}
    BY <1>0, <1>1 DEF Put, Commit, Registry
  <2>2. QED
    BY <1>0, <1>1, <2>1, PutCommits, SameIdentityIdInv
<1>2. ASSUME NEW i, NEW n \in Names, Rename(i, n) PROVE IdInv'
  <2>1. /\ ram'.bridge_id = ram.bridge_id /\ op' = "rename" /\ known' = known /\ pc = "idle"
        /\ ram'.next_command_id = ram.next_command_id
    BY <1>0, <1>2 DEF Rename, Commit, Registry
  <2>2. QED
    BY <1>0, <1>2, <2>1, RenameCommits, SameIdentityIdInv
<1>3. ASSUME NEW i, Remove(i) PROVE IdInv'
  <2>1. /\ ram'.bridge_id = ram.bridge_id /\ op' = "remove" /\ known' = known /\ pc = "idle"
        /\ ram'.next_command_id = ram.next_command_id
    BY <1>0, <1>3 DEF Remove, Commit, Registry
  <2>2. QED
    BY <1>0, <1>3, <2>1, RemoveCommits, SameIdentityIdInv
<1>4. CASE ClearAll
  <2>1. /\ ram'.bridge_id = ram.bridge_id /\ op' = "clear_all" /\ known' = known /\ pc = "idle"
        /\ ram'.next_command_id = ram.next_command_id
    BY <1>0, <1>4 DEF ClearAll, Commit, Registry
  <2>2. QED
    BY <1>0, <1>4, <2>1, ClearAllCommits, SameIdentityIdInv
<1>5. ASSUME NEW b \in BridgeIds \cup {ZeroId}, FactoryReset(b) PROVE IdInv'
  <2>1. /\ ram' = Minted(b) /\ pc = "idle" /\ known' = known \cup {b}
        /\ b = ZeroId \/ b \in BridgeIds \ known
    BY <1>5 DEF FactoryReset, Fresh, Commit
  <2>2. ram'.bridge_id = b /\ Ids(ram'.slots) = {}
    BY <2>1, EmptyIds DEF Minted, Blank
  <2>3. Above(ram', listed)
    BY <2>1, <2>2 DEF Above, IdInv
  <2>4. QED
    BY <1>5, <2>1, <2>2, <2>3, FactoryResetCommits, OperationIdInv
<1>6. ASSUME NEW b \in BridgeIds, NEW n \in Nat, RestoreBegin(b, n) PROVE IdInv'
  <2>1. /\ ram'.bridge_id = b /\ ram'.next_command_id = n /\ op' = "restore_begin"
        /\ pc = "idle" /\ known' = known \cup {b}
    BY <1>0, <1>6 DEF RestoreBegin, Commit, Registry
  <2>2. \A i \in listed[b] : i < n
    BY <1>6 DEF RestoreBegin
  <2>3. Above(ram', listed)
    BY <2>1, <2>2 DEF Above
  <2>4. QED
    BY <1>6, <2>1, <2>3, RestoreBeginCommits, OperationIdInv
<1>7. ASSUME NEW i \in Nat, NEW n \in Names, NEW w \in Waves, ImportCommand(i, n, w)
      PROVE IdInv'
  <2>1. /\ ram'.bridge_id = ram.bridge_id /\ op' = "import_command" /\ known' = known
        /\ pc = "idle" /\ ram'.next_command_id = ram.next_command_id
    BY <1>0, <1>7 DEF ImportCommand, Commit, Registry
  <2>2. QED
    BY <1>0, <1>7, <2>1, ImportCommandCommits, SameIdentityIdInv
<1>8. ASSUME NEW source \in Nat, RestoreCommit(source) PROVE IdInv'
  <2>1. /\ ram'.bridge_id = ram.bridge_id /\ op' = "restore_commit" /\ known' = known
        /\ pc = "idle" /\ ram'.next_command_id = ram.next_command_id
    BY <1>0, <1>8 DEF RestoreCommit, Commit, Registry
  <2>2. QED
    BY <1>0, <1>8, <2>1, RestoreCommitCommits, SameIdentityIdInv
<1>9. CASE SavePayload
  BY <1>9 DEF SavePayload, IdInv, AllListed, seen
<1>10. CASE SaveIndex
  BY <1>10 DEF SaveIndex, IdInv, AllListed, seen
<1>11. CASE SaveHeader
  <2>1. /\ Show(ram) /\ pc = "header" /\ pc' = "idle" /\ ram' = ram /\ undo' = Blank
        /\ index' = index /\ index.reg = ram /\ known' = known
    BY <1>11 DEF SaveHeader, Return, IdInv
  <2>2. Above(ram, listed')
    BY <1>0, <2>1, ShowAbove DEF IdInv, RegistryWellFormed
  <2>3. AllListed(ram)'
    BY <1>0, <2>1, ShowLists DEF AllListed
  <2>4. \A b \in BridgeIds \ known : listed'[b] = {}
    BY <1>0, <2>1, ShowLists, ConstantsAssumption DEF IdInv
  <2>5. Blank.bridge_id = ZeroId
    BY DEF Blank
  <2>6. QED
    BY <2>1, <2>2, <2>3, <2>4, <2>5, BlankIsAbove DEF IdInv
<1>12. CASE SaveFails
  <2>1. /\ Show(ram') /\ pc \in {"payload", "index", "header"} /\ pc' = "idle"
        /\ undo' = Blank /\ index' = index /\ known' = known
        /\ ram' = IF op \in {"begin", "factory_reset"} THEN ram ELSE undo
    BY <1>12 DEF SaveFails, Return, flash
  <2>2. Ids(ram'.slots) \subseteq listed[ram'.bridge_id]
    BY <2>1 DEF IdInv, AllListed
  <2>3. ram' \in Registry
    BY <1>0 DEF TypeOK
  <2>4. listed' = listed
    BY <2>1, <2>2, <2>3, ShowAgain
  <2>5. Blank.bridge_id = ZeroId
    BY DEF Blank
  <2>6. QED
    BY <2>1, <2>2, <2>4, <2>5, BlankIsAbove DEF IdInv, AllListed
<1>13. CASE PowerCut
  <2>1. /\ ram' = Blank /\ undo' = Blank /\ index' = index /\ pc' = "off"
        /\ known' = known /\ listed' = listed
    BY <1>13 DEF PowerCut, flash, seen
  <2>2. Blank.bridge_id = ZeroId
    BY DEF Blank
  <2>3. QED
    BY <2>1, <2>2, BlankIsAbove DEF IdInv
<1>14. ASSUME NEW c \in Configs, Begin(c) PROVE IdInv'
  <2> DEFINE r == ReadRegistry(c)
  <2>1. /\ Show(r) /\ pc' = "idle" /\ ram' = r /\ undo' = Blank /\ index' = index
        /\ known' = known /\ op' = op
    BY <1>14 DEF Begin, flash, IdInv
  <2>2. r \in Registry /\ index.reg \in Registry
    BY ReadIsRegistry DEF TypeOK
  <2>3. WellFormed(r)
    BY BeginWellFormed DEF RegistryWellFormed
  <2>4. \/ r = Blank
        \/ r.bridge_id = index.reg.bridge_id /\ r.next_command_id = index.reg.next_command_id
    BY <2>2 DEF ReadRegistry, Registry
  <2>5. Above(r, listed) /\ r.bridge_id \in known \cup {ZeroId}
    BY <2>4 DEF IdInv, Above, Blank
  <2> HIDE DEF r
  <2>6. Above(r, listed')
    BY <2>1, <2>2, <2>3, <2>5, ShowAbove
  <2>7. AllListed(ram)'
    BY <2>1, <2>2, ShowLists DEF AllListed
  <2>8. \A b \in BridgeIds \ known : listed'[b] = {}
    BY <2>1, <2>2, <2>5, ShowLists, ConstantsAssumption DEF IdInv
  <2>9. Above(index.reg, listed')
    <3>1. CASE index.reg.bridge_id = r.bridge_id /\ index.reg.next_command_id = r.next_command_id
      BY <3>1, <2>6 DEF Above
    <3>2. CASE r = Blank
      <4>1. listed' = listed
        BY <3>2, <2>1, <2>2, ShowAgain, EmptyIds DEF Blank
      <4>2. QED
        BY <4>1 DEF IdInv
    <3>3. QED
      BY <2>4, <3>1, <3>2 DEF r
  <2>10. Blank.bridge_id = ZeroId
    BY DEF Blank
  <2>11. QED
    BY <2>1, <2>5, <2>6, <2>7, <2>8, <2>9, <2>10, BlankIsAbove DEF IdInv
<1>15. ASSUME NEW c \in Configs, NEW b \in BridgeIds \cup {ZeroId}, BeginFresh(c, b)
       PROVE IdInv'
  <2>1. /\ ram' = Minted(b) /\ pc' = "index" /\ op' = "begin" /\ known' = known \cup {b}
        /\ undo' = Blank /\ index' = index /\ listed' = listed
        /\ b = ZeroId \/ b \in BridgeIds \ known
    BY <1>15 DEF BeginFresh, Fresh, flash, IdInv
  <2>2. ram'.bridge_id = b /\ Ids(ram'.slots) = {}
    BY <2>1, EmptyIds DEF Minted, Blank
  <2>3. Above(ram', listed)
    BY <2>1, <2>2 DEF Above, IdInv
  <2>4. Blank.bridge_id = ZeroId /\ Ids(Blank.slots) = {}
    BY EmptyIds DEF Blank
  <2>5. QED
    BY <2>1, <2>2, <2>3, <2>4, BlankIsAbove DEF IdInv, AllListed
<1>16. CASE Decay
  <2>1. /\ index'.reg \in {index.reg, Blank} /\ pc' = "off" /\ ram' = ram /\ undo' = undo
        /\ known' = known /\ listed' = listed /\ undo = Blank
    BY <1>16 DEF Decay, call, IdInv
  <2>2. Blank.bridge_id = ZeroId
    BY DEF Blank
  <2>3. QED
    BY <2>1, <2>2, BlankIsAbove DEF IdInv
<1>17. CASE UNCHANGED vars
  BY <1>17 DEF vars, flash, call, seen, IdInv, AllListed
<1>18. /\ 0..COMMAND_ID_LAST \subseteq Nat /\ 0..COMMAND_ID_LAST + 1 \subseteq Nat
       /\ 0..REVISION_MAX + 1 \subseteq Nat
  BY ConstantsAssumption
<1>19. QED
  BY <1>1, <1>2, <1>3, <1>4, <1>5, <1>6, <1>7, <1>8, <1>9, <1>10, <1>11, <1>12, <1>13, <1>14,
     <1>15, <1>16, <1>17, <1>18 DEF Next

\* next_command_id stays above every id a reader has seen under the same identity, so put never
\* assigns one a second time, as long as no restore brings a counter older than that.
THEOREM IdsAreNeverReissued ==
  ASSUME ~StaleRestore
  PROVE  Spec => []IdsNeverReissued
<1>1. Init => IdInv
  <2>1. Blank.bridge_id = ZeroId
    BY DEF Blank
  <2>2. QED
    BY <2>1, BlankIsAbove, ConstantsAssumption DEF Init, IdInv
<1>2. IdInv => IdsNeverReissued
  BY DEF IdInv, Above, IdsNeverReissued
<1>3. TypeOK /\ RegistryWellFormed /\ IdInv /\ [Next]_vars => IdInv'
  BY IdInvStep
<1>4. QED
  BY <1>1, <1>2, <1>3, TypeCorrect, WellFormedAlways, PTL DEF Spec

-----------------------------------------------------------------------------
(* Revisions *)

\* Registry r counts: its identity was drawn, no restore is open, none was given up.
Visible(r) == ~r.restoring /\ r.bridge_id \notin abandoned \cup {ZeroId}

\* RAM shows the highest revision while idle, and a higher one while it is being saved. What a
\* failed save puts back is the highest one shown, and what a boot would load is no lower. An
\* identity that is minted has neither a revision nor a record on flash.
RevisionInv ==
  /\ (pc = "idle" /\ Visible(ram)) => ram.revision = high[ram.bridge_id]
  /\ (Saving /\ (Visible(ram) \/ op = "restore_commit")) => ram.revision > high[ram.bridge_id]
  /\ (Saving /\ op \notin {"begin", "factory_reset"} /\ Visible(undo))
        => undo.revision = high[undo.bridge_id]
  /\ Visible(index.reg) => index.reg.revision >= high[index.reg.bridge_id]
  /\ (Saving /\ op \in {"begin", "factory_reset"} /\ ram.bridge_id # ZeroId)
        => index.reg = ram \/ index.reg.bridge_id # ram.bridge_id
  /\ \A b \in BridgeIds \ known : high[b] = 0

\* Showing a registry raises the revision of its identity to at least its own, and no other.
LEMMA ShowRaises ==
  ASSUME ~StaleRestore, TypeOK, NEW r \in Registry, Show(r)
  PROVE  /\ \A b \in (BridgeIds \cup {ZeroId}) \ {r.bridge_id} : high'[b] = high[b]
         /\ r.restoring => high' = high
         /\ (~r.restoring /\ r.revision >= high[r.bridge_id]) => high'[r.bridge_id] = r.revision
         /\ (~r.restoring /\ r.revision = high[r.bridge_id]) => high' = high
         /\ r.bridge_id \in BridgeIds \cup {ZeroId}
         /\ r.revision \in Nat /\ high[r.bridge_id] \in Nat
<1>1. r.bridge_id \in BridgeIds \cup {ZeroId} /\ r.revision \in Nat /\ r.restoring \in BOOLEAN
  BY DEF Registry
<1>2. high \in [BridgeIds \cup {ZeroId} -> Nat] /\ high[r.bridge_id] \in Nat
  BY <1>1 DEF TypeOK
<1>3. r.revision >= high[r.bridge_id] => Greater(high[r.bridge_id], r.revision) = r.revision
  BY <1>1, <1>2 DEF Greater
<1>4. r.restoring => high' = high
  BY DEF Show
<1>5. ~r.restoring => high' = [high EXCEPT ![r.bridge_id] = Greater(@, r.revision)]
  BY DEF Show
<1>6. (~r.restoring /\ r.revision >= high[r.bridge_id])
        => high' = [high EXCEPT ![r.bridge_id] = r.revision]
  BY <1>3, <1>5
<1>7. \A b \in (BridgeIds \cup {ZeroId}) \ {r.bridge_id} : high'[b] = high[b]
  BY <1>1, <1>2, <1>4, <1>5
<1>8. (~r.restoring /\ r.revision >= high[r.bridge_id]) => high'[r.bridge_id] = r.revision
  BY <1>1, <1>2, <1>6
<1>9. (~r.restoring /\ r.revision = high[r.bridge_id]) => high' = high
  BY <1>1, <1>2, <1>6
<1>10. QED
  BY <1>1, <1>2, <1>4, <1>7, <1>8, <1>9

\* The operations that go on with the sequence of the registry they change.
LEMMA NextRevision ==
  ASSUME TypeOK, RevisionInv, pc = "idle", Operation, known' = known,
         ram'.bridge_id = ram.bridge_id, ram'.restoring = ram.restoring,
         ram'.revision = ram.revision + 1, abandoned' = abandoned,
         op' \notin {"factory_reset", "restore_commit"}
  PROVE  RevisionInv'
<1>1. /\ undo' = ram /\ index' = index /\ high' = high
      /\ pc' \in {"payload", "index"} /\ op' # "begin"
  BY OperationFacts
<1>2. /\ ram.revision \in Nat /\ ram.bridge_id \in BridgeIds \cup {ZeroId}
  BY DEF TypeOK, Registry
<1>3. Visible(ram)' => ram'.revision > high'[ram'.bridge_id]
  BY <1>1, <1>2 DEF RevisionInv, Visible
<1>4. Visible(undo)' => undo'.revision = high'[undo'.bridge_id]
  BY <1>1 DEF RevisionInv, Visible
<1>5. Visible(index.reg)' => index'.reg.revision >= high'[index'.reg.bridge_id]
  BY <1>1 DEF RevisionInv, Visible
<1>6. \A b \in BridgeIds \ known' : high'[b] = 0
  BY <1>1 DEF RevisionInv
<1>7. QED
  BY <1>1, <1>3, <1>4, <1>5, <1>6 DEF RevisionInv, Saving

LEMMA RevisionStep ==
  ASSUME ~StaleRestore
  PROVE  TypeOK /\ IdInv /\ RevisionInv /\ [Next]_vars => RevisionInv'
<1> SUFFICES ASSUME TypeOK, IdInv, RevisionInv, [Next]_vars PROVE RevisionInv'
  OBVIOUS
<1>0. /\ TypeOK' /\ ram \in Registry /\ ram.revision \in Nat
      /\ ram.bridge_id \in BridgeIds \cup {ZeroId}
      /\ high \in [BridgeIds \cup {ZeroId} -> Nat]
  BY TypeStep DEF TypeOK, Registry
<1>1. ASSUME NEW n \in Names, NEW w \in Waves, Put(n, w) PROVE RevisionInv'
  <2>1. /\ ram'.bridge_id = ram.bridge_id /\ op' = "put" /\ known' = known /\ pc = "idle"
        /\ ram'.revision = ram.revision + 1 /\ ram'.restoring = ram.restoring
        /\ abandoned' = abandoned
    BY <1>0, <1>1 DEF Put, Commit, Registry
  <2>2. QED
    BY <1>1, <2>1, PutCommits, NextRevision
<1>2. ASSUME NEW i, NEW n \in Names, Rename(i, n) PROVE RevisionInv'
  <2>1. /\ ram'.bridge_id = ram.bridge_id /\ op' = "rename" /\ known' = known /\ pc = "idle"
        /\ ram'.revision = ram.revision + 1 /\ ram'.restoring = ram.restoring
        /\ abandoned' = abandoned
    BY <1>0, <1>2 DEF Rename, Commit, Registry
  <2>2. QED
    BY <1>2, <2>1, RenameCommits, NextRevision
<1>3. ASSUME NEW i, Remove(i) PROVE RevisionInv'
  <2>1. /\ ram'.bridge_id = ram.bridge_id /\ op' = "remove" /\ known' = known /\ pc = "idle"
        /\ ram'.revision = ram.revision + 1 /\ ram'.restoring = ram.restoring
        /\ abandoned' = abandoned
    BY <1>0, <1>3 DEF Remove, Commit, Registry
  <2>2. QED
    BY <1>3, <2>1, RemoveCommits, NextRevision
<1>4. CASE ClearAll
  <2>1. /\ ram'.bridge_id = ram.bridge_id /\ op' = "clear_all" /\ known' = known /\ pc = "idle"
        /\ ram'.revision = ram.revision + 1 /\ ram'.restoring = FALSE
        /\ abandoned' = abandoned \cup (IF ram.restoring THEN {ram.bridge_id} ELSE {})
    BY <1>0, <1>4 DEF ClearAll, Commit, Registry
  <2>2. /\ undo' = ram /\ index' = index /\ high' = high
        /\ pc' \in {"payload", "index"}
    BY <1>4, ClearAllCommits, OperationFacts
  <2>3. Visible(ram)' => Visible(ram)
    BY <2>1 DEF Visible
  <2>4. Visible(ram)' => ram'.revision > high'[ram'.bridge_id]
    BY <1>0, <2>1, <2>2, <2>3 DEF RevisionInv
  <2>5. Visible(undo)' => undo'.revision = high'[undo'.bridge_id]
    BY <2>1, <2>2 DEF RevisionInv, Visible
  <2>6. Visible(index.reg)' => index'.reg.revision >= high'[index'.reg.bridge_id]
    BY <2>1, <2>2 DEF RevisionInv, Visible
  <2>7. QED
    BY <2>1, <2>2, <2>4, <2>5, <2>6 DEF RevisionInv, Saving
<1>5. ASSUME NEW b \in BridgeIds \cup {ZeroId}, FactoryReset(b) PROVE RevisionInv'
  <2>1. /\ ram' = Minted(b) /\ pc = "idle" /\ known' = known \cup {b} /\ op' = "factory_reset"
        /\ b = ZeroId \/ b \in BridgeIds \ known
        /\ abandoned' = abandoned
    BY <1>5 DEF FactoryReset, Fresh, Commit
  <2>2. ram'.bridge_id = b /\ ram'.revision = 1
    BY <2>1 DEF Minted, Blank, REVISION_INITIAL
  <2>3. /\ index' = index /\ high' = high /\ pc' \in {"payload", "index"}
    BY <1>5, FactoryResetCommits, OperationFacts
  <2>4. Visible(ram)' => ram'.revision > high'[ram'.bridge_id]
    BY <2>1, <2>2, <2>3 DEF RevisionInv, Visible
  <2>5. b # ZeroId => index'.reg.bridge_id # b
    BY <2>1, <2>3 DEF IdInv
  <2>6. Visible(index.reg)' => index'.reg.revision >= high'[index'.reg.bridge_id]
    BY <2>1, <2>3 DEF RevisionInv, Visible
  <2>7. QED
    BY <2>1, <2>2, <2>3, <2>4, <2>5, <2>6 DEF RevisionInv, Saving
<1>6. ASSUME NEW b \in BridgeIds, NEW n \in Nat, RestoreBegin(b, n) PROVE RevisionInv'
  <2>1. /\ ram'.restoring = TRUE /\ op' = "restore_begin" /\ pc = "idle"
        /\ known' = known \cup {b} /\ abandoned' = abandoned
    BY <1>0, <1>6 DEF RestoreBegin, Commit, Registry
  <2>2. /\ undo' = ram /\ index' = index /\ high' = high
        /\ pc' \in {"payload", "index"}
    BY <1>6, RestoreBeginCommits, OperationFacts
  <2>3. Visible(undo)' => undo'.revision = high'[undo'.bridge_id]
    BY <2>1, <2>2 DEF RevisionInv, Visible
  <2>4. Visible(index.reg)' => index'.reg.revision >= high'[index'.reg.bridge_id]
    BY <2>1, <2>2 DEF RevisionInv, Visible
  <2>5. ~Visible(ram)'
    BY <2>1 DEF Visible
  <2>6. QED
    BY <2>1, <2>2, <2>3, <2>4, <2>5 DEF RevisionInv, Saving
<1>7. ASSUME NEW i \in Nat, NEW n \in Names, NEW w \in Waves, ImportCommand(i, n, w)
      PROVE RevisionInv'
  <2>1. /\ ram'.bridge_id = ram.bridge_id /\ op' = "import_command" /\ known' = known
        /\ pc = "idle" /\ ram'.revision = ram.revision + 1 /\ ram'.restoring = ram.restoring
        /\ abandoned' = abandoned
    BY <1>0, <1>7 DEF ImportCommand, Commit, Registry
  <2>2. QED
    BY <1>7, <2>1, ImportCommandCommits, NextRevision
<1>8. ASSUME NEW source \in Nat, RestoreCommit(source) PROVE RevisionInv'
  <2>1. /\ ram'.bridge_id = ram.bridge_id /\ op' = "restore_commit" /\ known' = known
        /\ pc = "idle" /\ ram'.revision = Greater(source, ram.revision) + 1
        /\ abandoned' = abandoned /\ ram.restoring /\ source >= high[ram.bridge_id]
    BY <1>0, <1>8 DEF RestoreCommit, RestoreCommitVerdict, Commit, Registry
  <2>2. /\ undo' = ram /\ index' = index /\ high' = high
        /\ pc' \in {"payload", "index"}
    BY <1>8, RestoreCommitCommits, OperationFacts
  <2>3. high[ram.bridge_id] \in Nat
    BY <1>0
  <2>4. ram'.revision > high'[ram'.bridge_id]
    BY <1>0, <2>1, <2>2, <2>3 DEF Greater
  <2>5. ~Visible(undo)'
    BY <2>1, <2>2 DEF Visible
  <2>6. Visible(index.reg)' => index'.reg.revision >= high'[index'.reg.bridge_id]
    BY <2>1, <2>2 DEF RevisionInv, Visible
  <2>7. QED
    BY <2>1, <2>2, <2>4, <2>5, <2>6 DEF RevisionInv, Saving
<1>9. CASE SavePayload
  BY <1>9 DEF SavePayload, RevisionInv, Saving, Visible, seen
<1>10. CASE SaveIndex
  <2>1. /\ index'.reg = ram /\ ram' = ram /\ undo' = undo /\ op' = op /\ Saving /\ Saving'
        /\ pc' = "header" /\ high' = high /\ abandoned' = abandoned /\ known' = known
    BY <1>10 DEF SaveIndex, Saving, seen
  <2>2. Visible(index.reg)' => index'.reg.revision >= high'[index'.reg.bridge_id]
    BY <1>0, <2>1 DEF RevisionInv, Visible
  <2>3. QED
    BY <2>1, <2>2 DEF RevisionInv, Visible
<1>11. CASE SaveHeader
  <2>1. /\ Show(ram) /\ pc = "header" /\ pc' = "idle" /\ ram' = ram
        /\ index' = index /\ index.reg = ram /\ known' = known /\ Saving
    BY <1>11 DEF SaveHeader, Return, IdInv, Saving
  <2>2. Visible(ram)' => Visible(ram) \/ op = "restore_commit"
    BY <1>11, <2>1 DEF SaveHeader, Visible
  <2>3. Visible(ram)' => ram'.revision = high'[ram'.bridge_id]
    BY <1>0, <2>1, <2>2, ShowRaises DEF RevisionInv, Visible
  <2>4. Visible(index.reg)' => index'.reg.revision >= high'[index'.reg.bridge_id]
    BY <1>0, <2>1, <2>3 DEF Visible
  <2>5. \A b \in BridgeIds \ known' : high'[b] = 0
    BY <1>0, <2>1, ShowRaises, ConstantsAssumption DEF RevisionInv, IdInv
  <2>6. QED
    BY <2>1, <2>3, <2>4, <2>5 DEF RevisionInv, Saving
<1>12. CASE SaveFails
  <2>1. /\ Show(ram') /\ pc' = "idle" /\ index' = index /\ known' = known
        /\ ram' = IF op \in {"begin", "factory_reset"} THEN ram ELSE undo
        /\ abandoned' = abandoned /\ ram' \in Registry /\ Saving
    BY <1>0, <1>12 DEF SaveFails, Return, flash, Saving, TypeOK
  <2>2. ram'.bridge_id \in known \cup {ZeroId}
    BY <2>1 DEF IdInv
  <2>3. \A b \in BridgeIds \ known' : high'[b] = 0
    BY <2>1, <2>2, ShowRaises, ConstantsAssumption DEF RevisionInv
  <2>4. Visible(ram)' => ram'.revision >= high[ram'.bridge_id]
    BY <1>0, <2>1, ShowRaises DEF RevisionInv, Visible
  <2>5. Visible(ram)' => ram'.revision = high'[ram'.bridge_id]
    BY <2>1, <2>4, ShowRaises DEF Visible
  <2>6. ASSUME Visible(index.reg)'
        PROVE  index'.reg.revision >= high'[index'.reg.bridge_id]
    <3>1. Visible(index.reg) /\ index.reg.revision >= high[index.reg.bridge_id]
          /\ index.reg.bridge_id \in BridgeIds
      BY <2>1, <2>6 DEF RevisionInv, Visible, TypeOK, Registry
    <3>2. CASE index.reg.bridge_id # ram'.bridge_id
      BY <3>1, <3>2, <2>1, ShowRaises
    <3>3. CASE index.reg.bridge_id = ram'.bridge_id /\ ram'.restoring
      BY <3>1, <3>3, <2>1, ShowRaises
    <3>4. CASE index.reg.bridge_id = ram'.bridge_id /\ ~ram'.restoring
      <4>1. Visible(ram)'
        BY <3>1, <3>4, <2>1 DEF Visible
      <4>2. CASE op \in {"begin", "factory_reset"}
        <5>1. ram.bridge_id # ZeroId /\ index.reg = ram'
          BY <4>2, <2>1, <3>1, <3>4 DEF RevisionInv, Visible
        <5>2. QED
          BY <5>1, <4>1, <2>1, <2>5, ShowRaises
      <4>3. CASE op \notin {"begin", "factory_reset"}
        <5>1. ram'.revision = high[ram'.bridge_id]
          BY <4>1, <4>3, <2>1 DEF RevisionInv, Visible
        <5>2. high' = high
          BY <5>1, <2>1, <3>4, ShowRaises
        <5>3. QED
          BY <5>2, <3>1, <2>1
      <4>4. QED
        BY <4>2, <4>3
    <3>5. QED
      BY <3>2, <3>3, <3>4
  <2>7. QED
    BY <2>1, <2>3, <2>5, <2>6 DEF RevisionInv, Saving
<1>13. CASE PowerCut
  BY <1>13 DEF PowerCut, RevisionInv, Saving, Visible, flash, seen
<1>14. ASSUME NEW c \in Configs, Begin(c) PROVE RevisionInv'
  <2> DEFINE r == ReadRegistry(c)
  <2>1. /\ Show(r) /\ pc' = "idle" /\ ram' = r /\ index' = index /\ known' = known
        /\ abandoned' = abandoned
    BY <1>14 DEF Begin, flash
  <2>2. r \in Registry /\ index.reg \in Registry
    BY ReadIsRegistry DEF TypeOK
  <2>3. \/ r.bridge_id = ZeroId
        \/ /\ r.bridge_id = index.reg.bridge_id /\ r.revision = index.reg.revision
           /\ r.restoring = index.reg.restoring
    BY <2>2 DEF ReadRegistry, Registry, Blank
  <2> HIDE DEF r
  <2>4. r.bridge_id \in known \cup {ZeroId}
    BY <2>3 DEF IdInv
  <2>5. \A b \in BridgeIds \ known' : high'[b] = 0
    BY <2>1, <2>2, <2>4, ShowRaises, ConstantsAssumption DEF RevisionInv
  <2>6. Visible(ram)' => ram'.revision = high'[ram'.bridge_id]
    BY <2>1, <2>2, <2>3, ShowRaises DEF RevisionInv, Visible
  <2>7. ASSUME Visible(index.reg)'
        PROVE  index'.reg.revision >= high'[index'.reg.bridge_id]
    <3>1. Visible(index.reg) /\ index.reg.revision >= high[index.reg.bridge_id]
          /\ index.reg.bridge_id \in BridgeIds /\ index.reg.bridge_id # ZeroId
      BY <2>1, <2>7, <2>2 DEF RevisionInv, Visible, Registry
    <3>2. CASE r.bridge_id = ZeroId
      BY <3>1, <3>2, <2>1, <2>2, ShowRaises
    <3>3. CASE r.bridge_id # ZeroId
      BY <3>1, <3>3, <2>1, <2>2, <2>3, ShowRaises DEF Visible
    <3>4. QED
      BY <3>2, <3>3
  <2>8. QED
    BY <2>1, <2>5, <2>6, <2>7 DEF RevisionInv, Saving
<1>15. ASSUME NEW c \in Configs, NEW b \in BridgeIds \cup {ZeroId}, BeginFresh(c, b)
       PROVE RevisionInv'
  <2>1. /\ ram' = Minted(b) /\ pc' = "index" /\ op' = "begin" /\ known' = known \cup {b}
        /\ undo' = Blank /\ index' = index /\ high' = high /\ abandoned' = abandoned
        /\ b = ZeroId \/ b \in BridgeIds \ known
    BY <1>15 DEF BeginFresh, Fresh, flash, IdInv
  <2>2. ram'.bridge_id = b /\ ram'.revision = 1
    BY <2>1 DEF Minted, Blank, REVISION_INITIAL
  <2>3. Visible(ram)' => ram'.revision > high'[ram'.bridge_id]
    BY <2>1, <2>2 DEF RevisionInv, Visible
  <2>4. b # ZeroId => index'.reg.bridge_id # b
    BY <2>1 DEF IdInv
  <2>5. Visible(index.reg)' => index'.reg.revision >= high'[index'.reg.bridge_id]
    BY <2>1 DEF RevisionInv, Visible
  <2>6. QED
    BY <2>1, <2>2, <2>3, <2>4, <2>5 DEF RevisionInv, Saving
<1>16. CASE Decay
  <2>1. /\ index'.reg \in {index.reg, Blank} /\ pc = "off" /\ pc' = "off"
        /\ known' = known /\ high' = high /\ abandoned' = abandoned
    BY <1>16 DEF Decay, call
  <2>2. Blank.bridge_id = ZeroId
    BY DEF Blank
  <2>3. Visible(index.reg)' => index'.reg.revision >= high'[index'.reg.bridge_id]
    BY <2>1, <2>2 DEF RevisionInv, Visible
  <2>4. QED
    BY <2>1, <2>3 DEF RevisionInv, Saving
<1>17. CASE UNCHANGED vars
  BY <1>17 DEF vars, flash, call, seen, RevisionInv, Saving, Visible
<1>18. /\ 0..COMMAND_ID_LAST \subseteq Nat /\ 0..COMMAND_ID_LAST + 1 \subseteq Nat
       /\ 0..REVISION_MAX + 1 \subseteq Nat
  BY ConstantsAssumption
<1>19. QED
  BY <1>1, <1>2, <1>3, <1>4, <1>5, <1>6, <1>7, <1>8, <1>9, <1>10, <1>11, <1>12, <1>13, <1>14,
     <1>15, <1>16, <1>17, <1>18 DEF Next

LEMMA RevisionsFrom ==
  ASSUME ~StaleRestore
  PROVE  Spec => [](IdInv /\ RevisionInv)
<1>1. Init => IdInv /\ RevisionInv
  <2>1. Blank.bridge_id = ZeroId
    BY DEF Blank
  <2>2. Init => IdInv
    BY <2>1, BlankIsAbove, ConstantsAssumption DEF Init, IdInv
  <2>3. Init => RevisionInv
    BY <2>1 DEF Init, RevisionInv, Saving, Visible
  <2>4. QED
    BY <2>2, <2>3
<1>2. TypeOK /\ RegistryWellFormed /\ IdInv /\ [Next]_vars => IdInv'
  BY IdInvStep
<1>3. TypeOK /\ IdInv /\ RevisionInv /\ [Next]_vars => RevisionInv'
  BY RevisionStep
<1>4. QED
  BY <1>1, <1>2, <1>3, TypeCorrect, WellFormedAlways, PTL DEF Spec

\* The revision in RAM between two operations is the highest one ever shown under its identity:
\* no crash, failed save, rollback or completed restore goes back (write_index_, load_index_,
\* restore_commit), as long as no restore brings counters older than the board has shown.
THEOREM RevisionsNeverBehind ==
  ASSUME ~StaleRestore
  PROVE  Spec => []RevisionNeverBehind
<1>1. IdInv /\ RevisionInv => RevisionNeverBehind
  BY DEF RevisionInv, RevisionNeverBehind, Visible
<1>2. QED
  BY <1>1, RevisionsFrom, PTL

\* An operation that completes (put, rename, remove, clear_all, factory_reset, restore_commit)
\* publishes a revision higher than any its identity has shown, so that Home Assistant, which
\* compares revisions only, never takes a changed registry for the one it knows.
THEOREM RevisionsAreFresh ==
  ASSUME ~StaleRestore
  PROVE  Spec => RevisionIsFresh
<1> DEFINE A == [(Completes /\ ~ram.restoring /\ ram.bridge_id \notin abandoned \cup {ZeroId})
                   => ram.revision > high[ram.bridge_id]]_vars
<1>1. IdInv /\ RevisionInv /\ [Next]_vars => A
  BY DEF RevisionInv, Completes, Visible, Saving
<1>2. QED
  BY <1>1, RevisionsFrom, PTL DEF Spec, RevisionIsFresh

-----------------------------------------------------------------------------
(* Registries that survive a boot *)

\* A slot without a command is blank: the index record has nothing else to say of it; and the
\* counter never names COMMAND_ID_NONE.
Tidy(r) == /\ r.next_command_id >= COMMAND_ID_FIRST
           /\ \A s \in Slots : Occupied(r.slots[s]) \/ r.slots[s] = Free
TidyInv == Tidy(ram) /\ Tidy(undo) /\ Tidy(index.reg)

\* What an operation may do to the slots: it writes the waveform of slot `target`, and of no
\* other, where it fits; an import only where nothing was; and no command disappears but by a
\* removal, a clear or a factory reset.
Writes ==
  /\ target' # 0 => /\ target' \in Slots /\ op' \in {"put", "import_command"}
                    /\ Fits(cfg, target', ram'.slots[target'])
                    /\ op' = "import_command" => ~Occupied(ram.slots[target'])
  /\ \A s \in Taken(ram'.slots) \ {target'} :
        s \in Taken(ram.slots) /\ ram'.slots[s].wave = ram.slots[s].wave
  /\ op' \notin {"clear_all", "factory_reset"} =>
        \A s \in Taken(ram.slots) : \/ ram'.slots[s].command_id = ram.slots[s].command_id
                                    \/ op' = "remove" /\ ram'.slots[s] = Free

\* Every command of r has room under the configuration.
Fitting(r) == \A s \in Taken(r.slots) : Fits(cfg, s, r.slots[s])

LEMMA FreeIsFree == ~Occupied(Free)
BY DEF Occupied, Free

LEMMA BlankIsTidy == Tidy(Blank) /\ Taken(Blank.slots) = {}
BY FreeIsFree DEF Tidy, Blank, NoCommands, COMMAND_ID_FIRST, Taken

\* Replacing the command of one slot by another command keeps a registry tidy.
LEMMA OneSlotTidy ==
  ASSUME NEW q \in Registry, Tidy(q), NEW r, NEW s \in Slots, NEW c,
         r.slots = [q.slots EXCEPT ![s] = c], Occupied(c) \/ c = Free,
         r.next_command_id \in {q.next_command_id, q.next_command_id + 1}
  PROVE  Tidy(r)
<1>1. q.slots \in [Slots -> Command] /\ q.next_command_id \in Nat
  BY DEF Registry
<1>2. \A t \in Slots : Occupied(r.slots[t]) \/ r.slots[t] = Free
  BY <1>1 DEF Tidy
<1>3. r.next_command_id >= COMMAND_ID_FIRST
  BY <1>1 DEF Tidy, COMMAND_ID_FIRST
<1>4. QED
  BY <1>2, <1>3 DEF Tidy

\* What the records hold for the commands that are in RAM, when RAM is what a boot would read.
LEMMA Reread ==
  ASSUME TypeOK, Reading = [fault |-> fault, reg |-> ram]
  PROVE  \A s \in Taken(ram.slots) :
           /\ Fits(cfg, s, ram.slots[s])
           /\ payload[s] = ram.slots[s].wave
<1>1. ram = ReadRegistry(cfg)
  BY DEF Reading
<1>2. CASE HeaderFault # "NONE"
  BY <1>1, <1>2, BlankIsTidy DEF ReadRegistry
<1>3. CASE HeaderFault = "NONE"
  <2>1. \A s \in Slots : ram.slots[s] = IF Readable(cfg, s) THEN index.reg.slots[s] ELSE Free
    BY <1>1, <1>3 DEF ReadRegistry, TypeOK, Registry
  <2>2. QED
    BY <2>1, FreeIsFree DEF Taken, Readable
<1>4. QED
  BY <1>2, <1>3

LEMMA PutWrites ==
  ASSUME TypeOK, Tidy(ram), NEW n \in Names, NEW w \in Waves, Put(n, w)
  PROVE  (Fitting(ram) => Writes) /\ Tidy(ram')
<1>1. /\ ram \in Registry /\ ram.slots \in [Slots -> Command] /\ ram.next_command_id \in Nat
      /\ cfg.max_commands \in Slots /\ Slots = 1..MaxSlots /\ MaxSlots \in Nat
  BY ConstantsAssumption DEF TypeOK, Registry, Config, Slots
<1>2. Pulses[w] <= cfg.max_pulses
  <2>1. ~Unstorable(w)
    BY DEF Put, PutVerdict, Writable
  <2>2. Pulses[w] \in Nat /\ cfg.max_pulses \in Nat
    BY ConstantsAssumption DEF TypeOK, Config
  <2>3. QED
    BY <2>1, <2>2 DEF Unstorable
<1>3. CASE HasName(ram.slots, n)
  <2> DEFINE s == SlotOfName(ram.slots, n)
             c == [ram.slots[s] EXCEPT !.wave = w]
  <2>1. s \in Slots /\ s \in Taken(ram.slots) /\ Occupied(ram.slots[s])
    BY <1>1, <1>3, FoundByName DEF Taken
  <2>2. /\ ram' = [ram EXCEPT !.slots[s].wave = w, !.revision = @ + 1]
        /\ target' = s /\ op' = "put"
    BY <1>3 DEF Put, Commit
  <2> HIDE DEF s
  <2>3. c.wave = w /\ c.command_id = ram.slots[s].command_id /\ Occupied(c)
    BY <1>1, <2>1 DEF Command, Occupied
  <2>4. ram'.slots = [ram.slots EXCEPT ![s] = c]
    BY <1>1, <2>1, <2>2 DEF Registry
  <2>5. ram'.next_command_id = ram.next_command_id
    BY <1>1, <2>2 DEF Registry
  <2>6. Fitting(ram) => s <= cfg.max_commands
    BY <2>1 DEF Fitting, Fits
  <2> HIDE DEF c
  <2>7. Tidy(ram')
    BY <1>1, <2>1, <2>3, <2>4, <2>5, OneSlotTidy
  <2>8. Fitting(ram) => Fits(cfg, s, ram'.slots[s])
    BY <1>1, <1>2, <2>1, <2>3, <2>4, <2>6 DEF Fits
  <2>9. \A t \in Slots : ram'.slots[t] = IF t = s THEN c ELSE ram.slots[t]
    BY <1>1, <2>4
  <2>10. \A t \in Taken(ram'.slots) \ {s} :
           t \in Taken(ram.slots) /\ ram'.slots[t].wave = ram.slots[t].wave
    BY <2>9 DEF Taken
  <2>11. \A t \in Taken(ram.slots) : ram'.slots[t].command_id = ram.slots[t].command_id
    BY <2>3, <2>9 DEF Taken
  <2>12. Fitting(ram) => Writes
    BY <2>1, <2>2, <2>8, <2>10, <2>11 DEF Writes
  <2>13. QED
    BY <2>7, <2>12
<1>4. CASE ~HasName(ram.slots, n)
  <2> DEFINE c == [command_id |-> ram.next_command_id, name |-> n, wave |-> w]
  <2>1. PICK s \in Slots :
          /\ ram' = [ram EXCEPT !.slots[s] = c, !.next_command_id = @ + 1, !.revision = @ + 1]
          /\ IsFirstFree(ram.slots, s) /\ target' = s /\ op' = "put"
    BY <1>4 DEF Put, Commit
  <2>2. c.wave = w /\ c.command_id # 0
    BY <1>1 DEF Tidy, COMMAND_ID_FIRST
  <2> HIDE DEF c
  <2>3. ram'.slots = [ram.slots EXCEPT ![s] = c]
        /\ ram'.next_command_id = ram.next_command_id + 1
    BY <2>1, <1>1 DEF Registry
  <2>4. Occupied(c)
    BY <2>2 DEF Occupied, COMMAND_ID_NONE
  <2>5. Tidy(ram')
    BY <1>1, <2>3, <2>4, OneSlotTidy
  <2>6. s <= cfg.max_commands /\ ~Occupied(ram.slots[s])
    BY <1>1, <2>1 DEF IsFirstFree, FreeSlots
  <2>7. \A t \in Slots : ram'.slots[t] = IF t = s THEN c ELSE ram.slots[t]
    BY <1>1, <2>3
  <2>8. Fits(cfg, s, ram'.slots[s])
    BY <1>2, <2>2, <2>6, <2>7 DEF Fits
  <2>9. \A t \in Taken(ram'.slots) \ {s} :
          t \in Taken(ram.slots) /\ ram'.slots[t].wave = ram.slots[t].wave
    BY <2>7 DEF Taken
  <2>10. \A t \in Taken(ram.slots) : ram'.slots[t].command_id = ram.slots[t].command_id
    BY <2>6, <2>7 DEF Taken
  <2>11. Writes
    BY <2>1, <2>8, <2>9, <2>10 DEF Writes
  <2>12. QED
    BY <2>5, <2>11
<1>5. QED
  BY <1>3, <1>4

LEMMA RenameWrites ==
  ASSUME TypeOK, Tidy(ram), NEW i, NEW n \in Names, Rename(i, n)
  PROVE  Writes /\ Tidy(ram')
<1> DEFINE s == SlotOfId(ram.slots, i)
           c == [ram.slots[s] EXCEPT !.name = n]
<1>1. /\ ram \in Registry /\ ram.slots \in [Slots -> Command]
      /\ HasId(ram.slots, i)
  BY DEF TypeOK, Registry, Rename, RenameVerdict, Writable
<1>2. s \in Slots /\ Occupied(ram.slots[s])
  BY <1>1, FoundById
<1>3. ram' = [ram EXCEPT !.slots[s].name = n, !.revision = @ + 1]
      /\ target' = 0 /\ op' = "rename"
  BY DEF Rename, Commit
<1> HIDE DEF s
<1>4. c.command_id = ram.slots[s].command_id /\ c.wave = ram.slots[s].wave /\ Occupied(c)
  BY <1>1, <1>2 DEF Command, Occupied
<1>5. ram'.slots = [ram.slots EXCEPT ![s] = c]
      /\ ram'.next_command_id = ram.next_command_id
  BY <1>1, <1>2, <1>3 DEF Registry
<1> HIDE DEF c
<1>6. Tidy(ram')
  BY <1>1, <1>2, <1>4, <1>5, OneSlotTidy
<1>7. \A t \in Slots : ram'.slots[t] = IF t = s THEN c ELSE ram.slots[t]
  BY <1>1, <1>5
<1>8. \A t \in Taken(ram'.slots) :
         t \in Taken(ram.slots) /\ ram'.slots[t].wave = ram.slots[t].wave
  BY <1>2, <1>4, <1>7 DEF Taken
<1>9. \A t \in Taken(ram.slots) : ram'.slots[t].command_id = ram.slots[t].command_id
  BY <1>4, <1>7 DEF Taken
<1>10. QED
  BY <1>3, <1>6, <1>8, <1>9 DEF Writes

LEMMA RemoveWrites ==
  ASSUME TypeOK, Tidy(ram), NEW i, Remove(i)
  PROVE  Writes /\ Tidy(ram')
<1> DEFINE s == SlotOfId(ram.slots, i)
<1>1. /\ ram \in Registry /\ ram.slots \in [Slots -> Command]
      /\ HasId(ram.slots, i)
  BY DEF TypeOK, Registry, Remove, RemoveVerdict, Writable
<1>2. s \in Slots
  BY <1>1, FoundById
<1>3. ram' = [ram EXCEPT !.slots[s] = Free, !.revision = @ + 1] /\ target' = 0 /\ op' = "remove"
  BY DEF Remove, Commit
<1> HIDE DEF s
<1>4. ram'.slots = [ram.slots EXCEPT ![s] = Free]
      /\ ram'.next_command_id = ram.next_command_id
  BY <1>1, <1>3 DEF Registry
<1>5. Tidy(ram')
  BY <1>1, <1>2, <1>4, OneSlotTidy
<1>6. \A t \in Slots : ram'.slots[t] = IF t = s THEN Free ELSE ram.slots[t]
  BY <1>1, <1>4
<1>7. \A t \in Taken(ram'.slots) :
         t \in Taken(ram.slots) /\ ram'.slots[t].wave = ram.slots[t].wave
  BY <1>6, FreeIsFree DEF Taken
<1>8. \A t \in Taken(ram.slots) : \/ ram'.slots[t].command_id = ram.slots[t].command_id
                                  \/ op' = "remove" /\ ram'.slots[t] = Free
  BY <1>3, <1>6 DEF Taken
<1>9. QED
  BY <1>3, <1>5, <1>7, <1>8 DEF Writes

LEMMA ClearAllWrites ==
  ASSUME TypeOK, Tidy(ram), ClearAll
  PROVE  Writes /\ Tidy(ram')
<1>1. /\ ram'.slots = NoCommands /\ ram'.next_command_id = ram.next_command_id
      /\ target' = 0 /\ op' = "clear_all"
  BY DEF ClearAll, Commit, TypeOK, Registry
<1>2. \A s \in Slots : ram'.slots[s] = Free
  BY <1>1 DEF NoCommands
<1>3. Taken(ram'.slots) = {}
  BY <1>2, FreeIsFree DEF Taken
<1>4. QED
  BY <1>1, <1>2, <1>3 DEF Writes, Tidy

LEMMA FactoryResetWrites ==
  ASSUME NEW b, FactoryReset(b)
  PROVE  Writes /\ Tidy(ram')
<1>1. ram' = Minted(b) /\ target' = 0 /\ op' = "factory_reset"
  BY DEF FactoryReset, Commit
<1>2. ram'.slots = Blank.slots /\ ram'.next_command_id = Blank.next_command_id
  BY <1>1 DEF Minted, Blank
<1>3. QED
  BY <1>1, <1>2, BlankIsTidy DEF Writes, Tidy

LEMMA RestoreBeginWrites ==
  ASSUME TypeOK, Tidy(ram), NEW b \in BridgeIds, NEW n \in Nat, RestoreBegin(b, n)
  PROVE  Writes /\ Tidy(ram')
<1>1. /\ ram'.slots = ram.slots /\ ram'.next_command_id = n
      /\ target' = 0 /\ op' = "restore_begin"
  BY DEF RestoreBegin, Commit, TypeOK, Registry
<1>2. n >= COMMAND_ID_FIRST
  BY DEF RestoreBegin, RestoreBeginVerdict, COMMAND_ID_FIRST
<1>3. QED
  BY <1>1, <1>2 DEF Writes, Tidy

LEMMA ImportCommandWrites ==
  ASSUME TypeOK, Tidy(ram), NEW i \in Nat, NEW n \in Names, NEW w \in Waves,
         ImportCommand(i, n, w)
  PROVE  Writes /\ Tidy(ram')
<1> DEFINE c == [command_id |-> i, name |-> n, wave |-> w]
<1>1. /\ ram \in Registry /\ ram.slots \in [Slots -> Command]
      /\ cfg.max_commands \in Slots /\ Slots = 1..MaxSlots /\ MaxSlots \in Nat
  BY ConstantsAssumption DEF TypeOK, Registry, Config, Slots
<1>2. i # COMMAND_ID_NONE /\ Pulses[w] <= cfg.max_pulses
  <2>1. ~Unstorable(w) /\ i # COMMAND_ID_NONE
    BY DEF ImportCommand, ImportVerdict
  <2>2. Pulses[w] \in Nat /\ cfg.max_pulses \in Nat
    BY ConstantsAssumption DEF TypeOK, Config
  <2>3. QED
    BY <2>1, <2>2 DEF Unstorable
<1>3. PICK s \in Slots : /\ ram' = [ram EXCEPT !.slots[s] = c, !.revision = @ + 1]
                         /\ IsFirstFree(ram.slots, s) /\ target' = s /\ op' = "import_command"
  BY DEF ImportCommand, Commit
<1>4. Occupied(c) /\ c.wave = w
  BY <1>2 DEF Occupied
<1> HIDE DEF c
<1>5. ram'.slots = [ram.slots EXCEPT ![s] = c] /\ ram'.next_command_id = ram.next_command_id
  BY <1>1, <1>3 DEF Registry
<1>6. Tidy(ram')
  BY <1>1, <1>4, <1>5, OneSlotTidy
<1>7. s <= cfg.max_commands /\ ~Occupied(ram.slots[s])
  BY <1>1, <1>3 DEF IsFirstFree, FreeSlots
<1>8. \A t \in Slots : ram'.slots[t] = IF t = s THEN c ELSE ram.slots[t]
  BY <1>1, <1>5
<1>9. Fits(cfg, s, ram'.slots[s])
  BY <1>2, <1>4, <1>7, <1>8 DEF Fits
<1>10. \A t \in Taken(ram'.slots) \ {s} :
         t \in Taken(ram.slots) /\ ram'.slots[t].wave = ram.slots[t].wave
  BY <1>8 DEF Taken
<1>11. \A t \in Taken(ram.slots) : ram'.slots[t].command_id = ram.slots[t].command_id
  BY <1>7, <1>8 DEF Taken
<1>12. Writes
  BY <1>3, <1>7, <1>9, <1>10, <1>11 DEF Writes
<1>13. QED
  BY <1>6, <1>12

LEMMA RestoreCommitWrites ==
  ASSUME TypeOK, Tidy(ram), NEW source, RestoreCommit(source)
  PROVE  Writes /\ Tidy(ram')
<1>1. /\ ram'.slots = ram.slots /\ ram'.next_command_id = ram.next_command_id
      /\ target' = 0 /\ op' = "restore_commit"
  BY DEF RestoreCommit, Commit, TypeOK, Registry
<1>2. QED
  BY <1>1 DEF Writes, Tidy

-----------------------------------------------------------------------------
(* What a boot reads *)

\* The record of slot s holds the waveform registry r has there.
Holds(r, s) == Fits(cfg, s, r.slots[s]) /\ payload[s] = r.slots[s].wave

\* As long as no save has failed: between operations a boot would find RAM; until the index is
\* saved it would find what was there before, but for the waveform a relearn replaces; then
\* the index holds RAM and the payloads go with it.
Recoverable ==
  /\ pc = "idle" => Reading = [fault |-> fault, reg |-> ram] /\ header.kind # "missing"
  /\ Saving => (op = "begin" <=> header.kind = "missing")
  /\ (pc = "payload" \/ (pc = "index" /\ ~Relearning /\ op # "begin"))
        => Reading = [fault |-> fault, reg |-> undo]
  /\ pc = "payload" => /\ op \in {"put", "import_command"}
                       /\ op = "import_command" => ~Occupied(undo.slots[target])
                       /\ Fits(cfg, target, ram.slots[target])
                       /\ \A s \in Taken(ram.slots) \ {target} : Holds(ram, s)
  /\ pc \in {"index", "header"} => \A s \in Taken(ram.slots) : Holds(ram, s)
  /\ pc = "header" => index = [slot_count |-> cfg.max_commands, reg |-> ram]
  /\ (Saving /\ header.kind \in {"bad", "alien"}) => HeaderFault = fault /\ undo = Blank
RecoveryInv == failed = "none" => Recoverable

\* What the index names is what RAM held before the operation, and what RAM held before it is
\* still there but for what the operation is about.
Kept ==
  /\ (pc \in {"payload", "index"} /\ op \notin {"begin", "factory_reset"})
        => \A s \in Taken(index.reg.slots) :
              Fits(cfg, s, index.reg.slots[s]) => undo.slots[s] = index.reg.slots[s]
  /\ (Saving /\ op \notin {"begin", "clear_all", "factory_reset"})
        => \A s \in Taken(undo.slots) : \/ ram.slots[s].command_id = undo.slots[s].command_id
                                        \/ op = "remove" /\ ram.slots[s] = Free
KeptInv == failed = "none" => Kept

LEMMA OperationTidy ==
  ASSUME TidyInv, Operation, Tidy(ram')
  PROVE  TidyInv'
BY OperationFacts DEF TidyInv, Tidy

\* Without a fault every command of the index that fits is read.
LEMMA NothingLost ==
  ASSUME TypeOK, NEW r, Reading = [fault |-> "NONE", reg |-> r]
  PROVE  /\ HeaderFault = "NONE" /\ PayloadFaults(cfg) = {}
         /\ \A s \in Slots : r.slots[s] = IF Readable(cfg, s) THEN index.reg.slots[s] ELSE Free
         /\ \A s \in Taken(index.reg.slots) :
              Fits(cfg, s, index.reg.slots[s]) => r.slots[s] = index.reg.slots[s]
<1>1. r = ReadRegistry(cfg) /\ ReadFault(cfg) = "NONE"
  BY DEF Reading
<1>2. HeaderFault = "NONE" /\ PayloadFaults(cfg) = {}
  BY <1>1 DEF ReadFault
<1>3. \A s \in Slots : r.slots[s] = IF Readable(cfg, s) THEN index.reg.slots[s] ELSE Free
  BY <1>1, <1>2 DEF ReadRegistry, TypeOK, Registry
<1>4. \A s \in Taken(index.reg.slots) : Fits(cfg, s, index.reg.slots[s]) => Readable(cfg, s)
  BY <1>2 DEF PayloadFaults, Readable, Taken
<1>5. QED
  BY <1>2, <1>3, <1>4 DEF Taken

LEMMA OperationRecovery ==
  ASSUME TypeOK, RecoveryInv, SavesWhileReadOnly', pc = "idle", Operation, Writes
  PROVE  RecoveryInv' /\ KeptInv'
<1> SUFFICES ASSUME failed = "none" PROVE Recoverable' /\ Kept'
  BY OperationFacts DEF RecoveryInv, KeptInv
<1>1. /\ undo' = ram /\ index' = index /\ header' = header /\ payload' = payload
      /\ cfg' = cfg /\ fault' = fault
      /\ op' # "begin" /\ pc' = IF target' = 0 THEN "index" ELSE "payload"
  BY OperationFacts
<1>2. Reading = [fault |-> fault, reg |-> ram] /\ header.kind # "missing"
  BY DEF RecoveryInv, Recoverable
<1>3. \A s \in Taken(ram.slots) : Fits(cfg, s, ram.slots[s]) /\ payload[s] = ram.slots[s].wave
  BY <1>2, Reread
<1>4. \A s \in Taken(ram'.slots) \ {target'} : Holds(ram, s)'
  BY <1>1, <1>3 DEF Writes, Holds, Fits
<1>5. Reading' = Reading
  BY <1>1 DEF Reading, ReadFault, ReadRegistry, HeaderFault, PayloadFaults, Readable
<1>6. pc' = "index" => \A s \in Taken(ram'.slots) : Holds(ram, s)'
  <2>1. pc' = "index" => target' = 0
    BY <1>1
  <2>2. \A s \in Taken(ram'.slots) : s # 0
    BY ConstantsAssumption DEF Taken, Slots
  <2>3. QED
    BY <1>4, <2>1, <2>2
<1>7. header.kind \in {"bad", "alien"} => HeaderFault' = fault' /\ undo' = Blank
  <2>1. ASSUME header.kind \in {"bad", "alien"} PROVE HeaderFault # "NONE"
    BY <2>1 DEF HeaderFault
  <2>2. HeaderFault # "NONE" => fault = HeaderFault /\ ram = Blank
    BY <1>2 DEF Reading, ReadFault, ReadRegistry
  <2>3. HeaderFault' = HeaderFault
    BY <1>1 DEF HeaderFault
  <2>4. QED
    BY <1>1, <2>1, <2>2, <2>3
<1>8. pc' = "payload" => /\ op' \in {"put", "import_command"}
                         /\ op' = "import_command" => ~Occupied(undo'.slots[target'])
                         /\ Fits(cfg', target', ram'.slots[target'])
  BY <1>1 DEF Writes
<1>9. Recoverable'
  BY <1>1, <1>2, <1>4, <1>5, <1>6, <1>7, <1>8 DEF Recoverable, Saving
<1>10. op' \notin {"begin", "factory_reset"} =>
         \A s \in Taken(index.reg.slots) :
            Fits(cfg, s, index.reg.slots[s]) => ram.slots[s] = index.reg.slots[s]
  <2>1. op' # "factory_reset" => fault = "NONE"
    BY <1>1 DEF SavesWhileReadOnly, read_only
  <2>2. QED
    BY <1>2, <2>1, NothingLost
<1>11. Kept'
  BY <1>1, <1>10 DEF Kept, Writes
<1>12. QED
  BY <1>9, <1>11

\* Once index and header agree and the payloads go with the index, a boot reads the index whole.
LEMMA WholeRegistry ==
  (/\ TypeOK /\ Tidy(index.reg) /\ HeaderFault = "NONE"
   /\ \A s \in Taken(index.reg.slots) : Holds(index.reg, s))
   => Reading = [fault |-> "NONE", reg |-> index.reg]
<1> SUFFICES ASSUME TypeOK, Tidy(index.reg), HeaderFault = "NONE",
                    \A s \in Taken(index.reg.slots) : Holds(index.reg, s)
             PROVE  Reading = [fault |-> "NONE", reg |-> index.reg]
  OBVIOUS
<1>1. PayloadFaults(cfg) = {}
  BY DEF PayloadFaults, Holds
<1>2. index.reg \in Registry /\ index.reg.slots \in [Slots -> Command]
  BY DEF TypeOK, Registry
<1>3. \A s \in Slots : (IF Readable(cfg, s) THEN index.reg.slots[s] ELSE Free) = index.reg.slots[s]
  BY DEF Tidy, Holds, Readable, Taken
<1>4. [s \in Slots |-> IF Readable(cfg, s) THEN index.reg.slots[s] ELSE Free] = index.reg.slots
  BY <1>2, <1>3
<1>5. [index.reg EXCEPT !.slots = index.reg.slots] = index.reg
  BY <1>2 DEF Registry
<1>6. ReadRegistry(cfg) = index.reg
  BY <1>4, <1>5 DEF ReadRegistry
<1>7. ReadFault(cfg) = "NONE"
  BY <1>1 DEF ReadFault
<1>8. QED
  BY <1>6, <1>7 DEF Reading

\* The payload save of an operation that found its slot free is not seen by a boot.
LEMMA SavePayloadUnseen ==
  ASSUME TypeOK, SavesWhileReadOnly, Recoverable, SavePayload, ~Relearning
  PROVE  Reading' = [fault |-> fault', reg |-> undo']
<1>1. /\ payload' = [payload EXCEPT ![target] = ram.slots[target].wave] /\ index' = index
      /\ header' = header /\ cfg' = cfg /\ fault' = fault /\ undo' = undo /\ pc = "payload"
      /\ target \in Slots
  BY DEF SavePayload, TypeOK
<1>2. Reading = [fault |-> fault, reg |-> undo] /\ op \in {"put", "import_command"}
  BY <1>1 DEF Recoverable
<1>3. fault = "NONE"
  BY <1>1, <1>2 DEF SavesWhileReadOnly, read_only
<1>4. ~Occupied(undo.slots[target])
  <2>1. target # 0
    BY <1>1, ConstantsAssumption DEF Slots
  <2>2. QED
    BY <1>1, <1>2, <2>1 DEF Recoverable, Relearning
<1>5. /\ HeaderFault = "NONE" /\ PayloadFaults(cfg) = {}
      /\ \A s \in Slots : undo.slots[s] = IF Readable(cfg, s) THEN index.reg.slots[s] ELSE Free
  BY <1>2, <1>3, NothingLost
<1>6. ~(Occupied(index.reg.slots[target]) /\ Fits(cfg, target, index.reg.slots[target]))
  BY <1>1, <1>4, <1>5 DEF Readable, PayloadFaults, Taken
<1>7. \A s \in Slots \ {target} : payload'[s] = payload[s]
  BY <1>1 DEF TypeOK
<1>8. HeaderFault' = HeaderFault
  BY <1>1 DEF HeaderFault
<1>9. \A s \in Slots : Readable(cfg, s)' = Readable(cfg, s)
  BY <1>1, <1>6, <1>7 DEF Readable
<1>10. PayloadFaults(cfg)' = {}
  BY <1>1, <1>5, <1>6, <1>7 DEF PayloadFaults, Taken
<1>11. ReadFault(cfg)' = "NONE"
  BY <1>5, <1>8, <1>10 DEF ReadFault
<1>12. ReadRegistry(cfg)' = ReadRegistry(cfg)
  BY <1>1, <1>5, <1>8, <1>9 DEF ReadRegistry
<1>13. QED
  BY <1>1, <1>2, <1>3, <1>11, <1>12 DEF Reading

\* The saves of an operation take what a boot would find from the old registry to the new one.
LEMMA RecoverySaves ==
  ASSUME TypeOK, SavesWhileReadOnly, TidyInv, RecoveryInv, KeptInv, failed = "none",
         SavePayload \/ SaveIndex \/ SaveHeader
  PROVE  Recoverable' /\ Kept'
<1>0. Recoverable /\ Kept
  BY DEF RecoveryInv, KeptInv
<1>1. CASE SavePayload
  <2>1. /\ payload' = [payload EXCEPT ![target] = ram.slots[target].wave] /\ index' = index
        /\ header' = header /\ cfg' = cfg /\ fault' = fault /\ undo' = undo /\ ram' = ram
        /\ op' = op /\ target' = target /\ pc = "payload" /\ pc' = "index"
        /\ target \in Slots
    BY <1>1 DEF SavePayload, TypeOK
  <2>2. ~Relearning' => Reading' = [fault |-> fault', reg |-> undo']
    BY <1>0, <1>1, <2>1, SavePayloadUnseen DEF Relearning
  <2>3. Fits(cfg, target, ram.slots[target])
        /\ \A s \in Taken(ram.slots) \ {target} : Holds(ram, s)
    BY <1>0, <2>1 DEF Recoverable
  <2>4. ASSUME NEW s \in Taken(ram.slots)
        PROVE  Fits(cfg, s, ram.slots[s]) /\ payload'[s] = ram.slots[s].wave
    <3>1. CASE s = target
      BY <2>1, <2>3, <3>1 DEF TypeOK
    <3>2. CASE s # target
      BY <2>1, <2>3, <3>2 DEF TypeOK, Holds, Taken
    <3>3. QED
      BY <3>1, <3>2
  <2>5. \A s \in Taken(ram'.slots) : Holds(ram, s)'
    BY <2>1, <2>4 DEF Holds
  <2>6. HeaderFault' = HeaderFault
    BY <2>1 DEF HeaderFault
  <2>7. Recoverable'
    BY <1>0, <2>1, <2>2, <2>5, <2>6 DEF Recoverable, Saving
  <2>8. Kept'
    BY <1>0, <2>1 DEF Kept, Saving
  <2>9. QED
    BY <2>7, <2>8
<1>2. CASE SaveIndex
  <2>1. /\ payload' = payload /\ index' = [slot_count |-> cfg.max_commands, reg |-> ram]
        /\ header' = header /\ cfg' = cfg /\ fault' = fault /\ undo' = undo /\ ram' = ram
        /\ op' = op /\ target' = target /\ pc = "index" /\ pc' = "header"
    BY <1>2 DEF SaveIndex
  <2>2. \A s \in Taken(ram'.slots) : Holds(ram, s)'
    BY <1>0, <2>1 DEF Recoverable, Holds
  <2>3. header.kind \in {"bad", "alien"} => HeaderFault' = HeaderFault
    BY <2>1 DEF HeaderFault
  <2>4. Recoverable'
    BY <1>0, <2>1, <2>2, <2>3 DEF Recoverable, Saving
  <2>5. Kept'
    BY <1>0, <2>1 DEF Kept, Saving
  <2>6. QED
    BY <2>4, <2>5
<1>3. CASE SaveHeader
  <2>1. /\ payload' = payload /\ index' = index
        /\ index = [slot_count |-> cfg.max_commands, reg |-> ram]
        /\ header' = [kind |-> "valid", slot_count |-> cfg.max_commands] /\ cfg' = cfg
        /\ ram' = ram /\ pc = "header" /\ pc' = "idle"
        /\ fault' = IF op = "factory_reset" THEN "NONE" ELSE fault
    BY <1>0, <1>3 DEF SaveHeader, Return, Recoverable
  <2>2. fault' = "NONE"
    BY <2>1 DEF SavesWhileReadOnly, read_only
  <2>3. index.reg = ram /\ index.slot_count = cfg.max_commands
    BY <2>1
  <2>4. (HeaderFault = "NONE")'
    BY <2>1, <2>3 DEF HeaderFault
  <2>5. (\A s \in Taken(index.reg.slots) : Holds(index.reg, s))'
    BY <1>0, <2>1, <2>3 DEF Recoverable, Holds
  <2>6. Tidy(index.reg)'
    BY <2>1 DEF TidyInv, Tidy
  <2>7. TypeOK'
    BY <1>3, TypeStep DEF Next
  <2>8. (Reading = [fault |-> "NONE", reg |-> index.reg])'
    BY <2>4, <2>5, <2>6, <2>7, WholeRegistry, PTL
  <2>9. Recoverable'
    BY <2>1, <2>2, <2>3, <2>8 DEF Recoverable, Saving
  <2>10. Kept'
    BY <2>1 DEF Kept, Saving
  <2>11. QED
    BY <2>9, <2>10
<1>4. QED
  BY <1>1, <1>2, <1>3

LEMMA RecoveryStep ==
  TypeOK /\ SavesWhileReadOnly /\ TidyInv /\ RecoveryInv /\ KeptInv /\ [Next]_vars
    => TidyInv' /\ RecoveryInv' /\ KeptInv'
<1> SUFFICES ASSUME TypeOK, SavesWhileReadOnly, TidyInv, RecoveryInv, KeptInv, [Next]_vars
             PROVE  TidyInv' /\ RecoveryInv' /\ KeptInv'
  OBVIOUS
<1>0. /\ TypeOK' /\ SavesWhileReadOnly' /\ Tidy(ram)
      /\ (pc = "idle" /\ failed = "none") => Fitting(ram)
  BY TypeStep, SavesWhileReadOnlyStep, Reread DEF TidyInv, RecoveryInv, Recoverable, Fitting
<1>1. ASSUME Operation, pc = "idle", Tidy(ram'), failed = "none" => Writes
      PROVE  TidyInv' /\ RecoveryInv' /\ KeptInv'
  <2>1. CASE failed = "none"
    BY <1>0, <1>1, <2>1, OperationTidy, OperationRecovery
  <2>2. CASE failed # "none"
    BY <1>1, <2>2, OperationTidy, OperationFacts DEF RecoveryInv, KeptInv
  <2>3. QED
    BY <2>1, <2>2
<1>2. ASSUME NEW n \in Names, NEW w \in Waves, Put(n, w)
      PROVE  TidyInv' /\ RecoveryInv' /\ KeptInv'
  BY <1>0, <1>1, <1>2, PutCommits, PutWrites DEF Put
<1>3. ASSUME NEW i, NEW n \in Names, Rename(i, n)
      PROVE  TidyInv' /\ RecoveryInv' /\ KeptInv'
  BY <1>0, <1>1, <1>3, RenameCommits, RenameWrites DEF Rename
<1>4. ASSUME NEW i, Remove(i)
      PROVE  TidyInv' /\ RecoveryInv' /\ KeptInv'
  BY <1>0, <1>1, <1>4, RemoveCommits, RemoveWrites DEF Remove
<1>5. ASSUME ClearAll
      PROVE  TidyInv' /\ RecoveryInv' /\ KeptInv'
  BY <1>0, <1>1, <1>5, ClearAllCommits, ClearAllWrites DEF ClearAll
<1>6. ASSUME NEW b \in BridgeIds \cup {ZeroId}, FactoryReset(b)
      PROVE  TidyInv' /\ RecoveryInv' /\ KeptInv'
  BY <1>0, <1>1, <1>6, FactoryResetCommits, FactoryResetWrites DEF FactoryReset
<1>7. ASSUME NEW b \in BridgeIds, NEW n \in Nat, RestoreBegin(b, n)
      PROVE  TidyInv' /\ RecoveryInv' /\ KeptInv'
  BY <1>0, <1>1, <1>7, RestoreBeginCommits, RestoreBeginWrites DEF RestoreBegin
<1>8. ASSUME NEW i \in Nat, NEW n \in Names, NEW w \in Waves, ImportCommand(i, n, w)
      PROVE  TidyInv' /\ RecoveryInv' /\ KeptInv'
  BY <1>0, <1>1, <1>8, ImportCommandCommits, ImportCommandWrites DEF ImportCommand
<1>9. ASSUME NEW source \in Nat, RestoreCommit(source)
      PROVE  TidyInv' /\ RecoveryInv' /\ KeptInv'
  BY <1>0, <1>1, <1>9, RestoreCommitCommits, RestoreCommitWrites DEF RestoreCommit
<1>10. CASE SavePayload \/ SaveIndex \/ SaveHeader
  <2>1. TidyInv'
    BY <1>10, BlankIsTidy DEF SavePayload, SaveIndex, SaveHeader, Return, TidyInv
  <2>2. failed' = failed
    BY <1>10 DEF SavePayload, SaveIndex, SaveHeader
  <2>3. failed = "none" => Recoverable' /\ Kept'
    BY <1>10, RecoverySaves
  <2>4. QED
    BY <2>1, <2>2, <2>3 DEF RecoveryInv, KeptInv
<1>11. CASE SaveFails
  <2>1. failed' # "none"
    BY <1>11 DEF SaveFails
  <2>2. TidyInv'
    BY <1>11, BlankIsTidy DEF SaveFails, Return, flash, TidyInv
  <2>3. QED
    BY <2>1, <2>2 DEF RecoveryInv, KeptInv
<1>12. CASE PowerCut
  BY <1>12, BlankIsTidy
  DEF PowerCut, flash, TidyInv, RecoveryInv, Recoverable, KeptInv, Kept, Saving
<1>13. ASSUME NEW c \in Configs, Begin(c)
       PROVE  TidyInv' /\ RecoveryInv' /\ KeptInv'
  <2>1. /\ pc' = "idle" /\ header' = header /\ payload' = payload /\ index' = index
        /\ undo' = undo /\ cfg' = c /\ ram' = ReadRegistry(c) /\ fault' = ReadFault(c)
        /\ header.kind # "missing"
    BY <1>13 DEF Begin, flash
  <2>2. Reading' = [fault |-> fault', reg |-> ram']
    BY <2>1 DEF Reading, ReadFault, ReadRegistry, HeaderFault, PayloadFaults, Readable
  <2>3. Tidy(ReadRegistry(c))
    <3>1. CASE HeaderFault # "NONE"
      BY <3>1, BlankIsTidy DEF ReadRegistry
    <3>2. CASE HeaderFault = "NONE"
      <4>1. /\ ReadRegistry(c).next_command_id = index.reg.next_command_id
            /\ \A s \in Slots : ReadRegistry(c).slots[s] =
                                  IF Readable(c, s) THEN index.reg.slots[s] ELSE Free
        BY <3>2 DEF ReadRegistry, TypeOK, Registry
      <4>2. QED
        BY <4>1 DEF Tidy, TidyInv
    <3>3. QED
      BY <3>1, <3>2
  <2>4. TidyInv'
    BY <2>1, <2>3 DEF TidyInv, Tidy
  <2>5. QED
    BY <2>1, <2>2, <2>4 DEF RecoveryInv, Recoverable, KeptInv, Kept, Saving
<1>14. ASSUME NEW c \in Configs, NEW b \in BridgeIds \cup {ZeroId}, BeginFresh(c, b)
       PROVE  TidyInv' /\ RecoveryInv' /\ KeptInv'
  <2>1. /\ ram' = Minted(b) /\ pc' = "index" /\ op' = "begin" /\ header' = header
        /\ undo' = undo /\ index' = index /\ header.kind = "missing"
    BY <1>14 DEF BeginFresh, flash
  <2>2. Tidy(ram') /\ Taken(ram'.slots) = {}
    BY <2>1, BlankIsTidy DEF Minted, Blank, Tidy
  <2>3. TidyInv'
    BY <2>1, <2>2 DEF TidyInv, Tidy
  <2>4. QED
    BY <2>1, <2>2, <2>3 DEF RecoveryInv, Recoverable, KeptInv, Kept, Saving
<1>15. CASE Decay
  <2>1. pc' = "off"
    BY <1>15 DEF Decay, call
  <2>2. TidyInv'
    BY <1>15, BlankIsTidy DEF Decay, call, TidyInv
  <2>3. QED
    BY <2>1, <2>2 DEF RecoveryInv, Recoverable, KeptInv, Kept, Saving
<1>16. CASE UNCHANGED vars
  <2>1. TidyInv'
    BY <1>16 DEF vars, flash, call, TidyInv, Tidy
  <2>2. RecoveryInv' = RecoveryInv
    BY <1>16
    DEF vars, flash, call, RecoveryInv, Recoverable, Saving, Relearning, Holds, Reading,
        ReadFault, ReadRegistry, HeaderFault, PayloadFaults, Readable
  <2>3. KeptInv' = KeptInv
    BY <1>16 DEF vars, flash, call, KeptInv, Kept, Saving
  <2>4. QED
    BY <2>1, <2>2, <2>3
<1>17. /\ 0..COMMAND_ID_LAST \subseteq Nat /\ 0..COMMAND_ID_LAST + 1 \subseteq Nat
       /\ 0..REVISION_MAX + 1 \subseteq Nat
  BY ConstantsAssumption
<1>18. QED
  BY <1>2, <1>3, <1>4, <1>5, <1>6, <1>7, <1>8, <1>9, <1>10, <1>11, <1>12, <1>13, <1>14,
     <1>15, <1>16, <1>17 DEF Next

LEMMA RecoverableAlways == Spec => [](SavesWhileReadOnly /\ TidyInv /\ RecoveryInv /\ KeptInv)
<1>1. Init => SavesWhileReadOnly /\ TidyInv /\ RecoveryInv /\ KeptInv
  BY BlankIsTidy
  DEF Init, SavesWhileReadOnly, read_only, TidyInv, RecoveryInv, Recoverable, KeptInv, Kept, Saving
<1>2. QED
  BY <1>1, SavesWhileReadOnlyStep, RecoveryStep, TypeCorrect, PTL DEF Spec

\* As long as no save has failed, what begin() would rebuild from the records between two
\* operations is all that RAM holds, the session's fault included (write_payload_ and
\* write_index_ against load_index_): nothing that was answered OK is lost by a reboot.
THEOREM RebootsAreTransparent == Spec => []RebootIsTransparent
<1>1. RecoveryInv => RebootIsTransparent
  BY DEF RecoveryInv, Recoverable, RebootIsTransparent
<1>2. QED
  BY <1>1, RecoverableAlways, PTL

\* The power may go between any two saves of an operation: the next boot finds the registry of
\* before or of after, but for a relearn and for the first write after max_commands changed.
THEOREM CrashesAreAtomic == Spec => []CrashIsAtomic
<1>1. TypeOK /\ TidyInv /\ RecoveryInv => CrashIsAtomic
  <2> SUFFICES ASSUME TypeOK, TidyInv, RecoveryInv, Saving, op # "begin", failed = "none",
                      ~Relearning, ~Resizing
               PROVE  CrashFindsOldOrNew
    BY DEF CrashIsAtomic, Saving
  <2>0. Recoverable
    BY DEF RecoveryInv
  <2>1. CASE pc \in {"payload", "index"}
    BY <2>0, <2>1 DEF Recoverable, CrashFindsOldOrNew
  <2>2. CASE pc = "header" /\ header.kind \in {"bad", "alien"}
    <3>1. HeaderFault = fault /\ undo = Blank
      BY <2>0, <2>2 DEF Recoverable, Saving
    <3>2. HeaderFault # "NONE"
      BY <2>2 DEF HeaderFault
    <3>3. Reading = [fault |-> fault, reg |-> undo]
      BY <3>1, <3>2 DEF Reading, ReadFault, ReadRegistry
    <3>4. QED
      BY <3>3 DEF CrashFindsOldOrNew
  <2>3. CASE pc = "header" /\ header.kind = "valid"
    <3>1. index = [slot_count |-> cfg.max_commands, reg |-> ram]
          /\ \A s \in Taken(ram.slots) : Holds(ram, s)
      BY <2>0, <2>3 DEF Recoverable
    <3>2. index.slot_count = cfg.max_commands /\ index.reg = ram
      BY <3>1
    <3>3. HeaderFault = "NONE"
      BY <2>3, <3>2 DEF HeaderFault, Resizing
    <3>4. Reading = [fault |-> "NONE", reg |-> ram]
      BY <3>1, <3>2, <3>3, WholeRegistry DEF TidyInv
    <3>5. QED
      BY <3>4 DEF CrashFindsOldOrNew
  <2>4. header.kind # "missing"
    BY <2>0 DEF Recoverable
  <2>5. header.kind \in {"missing", "bad", "alien", "valid"}
    BY DEF TypeOK
  <2>6. QED
    BY <2>1, <2>2, <2>3, <2>4, <2>5 DEF Saving
<1>2. QED
  BY <1>1, RecoverableAlways, TypeCorrect, PTL

\* As long as no save has failed, writing the index drops a command only when it was removed or
\* cleared, or no longer fits the configuration, and when begin() found no header record: an
\* operation never loses another command, and no payload or index that could not be read is
\* written over. A header record that is gone is the case begin() does not keep.
THEOREM DropsAreAccountedFor == Spec => DroppedOnRequestOrAsNew
<1> DEFINE A == [(failed = "none" /\ pc = "index" /\ pc' = "header") =>
                   \A s \in Taken(index.reg.slots) :
                     \/ HasId(index'.reg.slots, index.reg.slots[s].command_id)
                     \/ Requested(s)
                     \/ TakenForNew]_vars
<1>1. TypeOK /\ TidyInv /\ RecoveryInv /\ KeptInv /\ [Next]_vars => A
  <2> SUFFICES ASSUME TypeOK, TidyInv, RecoveryInv, KeptInv, [Next]_vars,
                      failed = "none", pc = "index", pc' = "header",
                      NEW s \in Taken(index.reg.slots), ~Requested(s), ~TakenForNew
               PROVE  HasId(index'.reg.slots, index.reg.slots[s].command_id)
    OBVIOUS
  <2>1. index' = [slot_count |-> cfg.max_commands, reg |-> ram]
    <3>1. SaveIndex \/ SaveHeader \/ SavePayload \/ SaveFails \/ PowerCut \/ Decay \/ ~(pc = "index")
          \/ UNCHANGED vars
      BY DEF Next, Put, Rename, Remove, ClearAll, FactoryReset, RestoreBegin, ImportCommand,
             RestoreCommit, Begin, BeginFresh
    <3>2. SaveIndex
      BY <3>1 DEF SaveHeader, SavePayload, SaveFails, Return, PowerCut, Decay, vars, call
    <3>3. QED
      BY <3>2 DEF SaveIndex
  <2>2. /\ op \notin {"begin", "clear_all", "factory_reset"} /\ Fits(cfg, s, index.reg.slots[s])
    <3>1. op = "begin" => header.kind = "missing"
      BY DEF RecoveryInv, Recoverable, Saving
    <3>2. QED
      BY <3>1 DEF Requested, TakenForNew
  <2>3. undo.slots[s] = index.reg.slots[s]
    BY <2>2 DEF KeptInv, Kept
  <2>4. s \in Taken(undo.slots)
    BY <2>3 DEF Taken
  <2>5. ram.slots[s].command_id = undo.slots[s].command_id
    BY <2>2, <2>3, <2>4 DEF KeptInv, Kept, Saving, Requested
  <2>6. index'.reg.slots = ram.slots
    BY <2>1
  <2>7. QED
    BY <2>3, <2>4, <2>5, <2>6 DEF HasId, Taken, Occupied
<1>2. QED
  BY <1>1, RecoverableAlways, TypeCorrect, PTL DEF Spec, DroppedOnRequestOrAsNew

-----------------------------------------------------------------------------
(* The store implements its contract *)

\* Ids and counters stay in their range, and what is stored is a waveform.
Proper(r) == /\ r.next_command_id \in 1..COMMAND_ID_LAST + 1
             /\ \A s \in Taken(r.slots) : r.slots[s].wave \in Waves

\* What the contract's view of flash rests on, whether or not a save has failed: the commands in
\* RAM fit, so a save hides none; at the header save the index is RAM; a header that reads was
\* written for some number of slots; and a board answers nobody before its first save is over.
ContractInv ==
  /\ Proper(ram) /\ Proper(undo) /\ Proper(index.reg)
  /\ pc # "off" => Fitting(ram)
  /\ (Saving /\ op # "begin") => Fitting(undo)
  /\ pc = "header" => index = [slot_count |-> cfg.max_commands, reg |-> ram]
  /\ header.kind = "valid" => header.slot_count \in Slots
  /\ pc = "off" => failed = "none"
  /\ (Saving /\ op = "begin") =>
        /\ header.kind = "missing" /\ failed = "none" /\ fault = "NONE"
        /\ \E b \in BridgeIds \cup {ZeroId} : ram = Minted(b)

LEMMA BlankIsProper == Proper(Blank) /\ Fitting(Blank)
BY BlankIsTidy, ConstantsAssumption DEF Proper, Fitting, Blank, COMMAND_ID_FIRST

LEMMA MintedIsProper == ASSUME NEW b PROVE Proper(Minted(b)) /\ Fitting(Minted(b))
<1>1. /\ Minted(b).slots = Blank.slots
      /\ Minted(b).next_command_id = Blank.next_command_id
  BY DEF Minted, Blank
<1>2. QED
  BY <1>1, BlankIsProper DEF Proper, Fitting

\* An operation that leaves the waveforms alone, or writes one, keeps RAM as it has to be.
LEMMA WritesProper ==
  ASSUME TypeOK, Operation, Writes, Fitting(ram), Proper(ram),
         ram'.next_command_id \in 1..COMMAND_ID_LAST + 1,
         target' # 0 => ram'.slots[target'].wave \in Waves
  PROVE  Proper(ram') /\ Fitting(ram)'
<1>1. cfg' = cfg
  BY OperationFacts
<1>2. ASSUME NEW s \in Taken(ram'.slots) \ {target'}
      PROVE  s \in Taken(ram.slots) /\ ram'.slots[s].wave = ram.slots[s].wave
  BY DEF Writes
<1>3. ASSUME NEW s \in Taken(ram'.slots) PROVE ram'.slots[s].wave \in Waves
  <2>1. CASE s = target'
    <3>1. target' # 0
      BY <2>1, ConstantsAssumption DEF Taken, Slots
    <3>2. QED
      BY <2>1, <3>1
  <2>2. CASE s # target'
    BY <1>2, <2>2 DEF Proper
  <2>3. QED
    BY <2>1, <2>2
<1>4. ASSUME NEW s \in Taken(ram'.slots) PROVE Fits(cfg, s, ram'.slots[s])
  <2>1. CASE s = target'
    <3>1. target' # 0
      BY <2>1, ConstantsAssumption DEF Taken, Slots
    <3>2. QED
      BY <2>1, <3>1 DEF Writes
  <2>2. CASE s # target'
    BY <1>2, <2>2 DEF Fitting, Fits
  <2>3. QED
    BY <2>1, <2>2
<1>5. QED
  BY <1>1, <1>3, <1>4 DEF Proper, Fitting

\* An operation that leaves RAM as it has to be leaves everything so.
LEMMA OperationContractInv ==
  ASSUME ContractInv, pc = "idle", Operation, Proper(ram'), Fitting(ram)'
  PROVE  ContractInv'
<1>1. /\ undo' = ram /\ index' = index /\ header' = header /\ cfg' = cfg /\ op' # "begin"
      /\ pc' \in {"index", "payload"}
  BY OperationFacts
<1>2. Fitting(undo)'
  BY <1>1 DEF ContractInv, Fitting, Fits
<1>3. QED
  BY <1>1, <1>2 DEF ContractInv, Proper, Saving

\* One step per action.
LEMMA ContractInvStep ==
  TypeOK /\ TidyInv /\ SavesWhileReadOnly /\ ContractInv /\ [Next]_vars => ContractInv'
<1> SUFFICES ASSUME TypeOK, TidyInv, SavesWhileReadOnly, ContractInv, [Next]_vars PROVE ContractInv'
  OBVIOUS
<1>0. /\ Tidy(ram) /\ Proper(ram) /\ (pc = "idle" => Fitting(ram))
      /\ ram.next_command_id \in Nat /\ COMMAND_ID_LAST \in Nat
  BY ConstantsAssumption DEF TidyInv, ContractInv, TypeOK, Registry
<1>1. ASSUME Operation, pc = "idle", Writes,
             ram'.next_command_id \in 1..COMMAND_ID_LAST + 1,
             target' # 0 => ram'.slots[target'].wave \in Waves
      PROVE  ContractInv'
  BY <1>0, <1>1, WritesProper, OperationContractInv
<1>2. ASSUME NEW n \in Names, NEW w \in Waves, Put(n, w)
      PROVE  ContractInv'
  <2>1. Operation /\ Writes /\ pc = "idle"
    BY <1>0, <1>2, PutCommits, PutWrites DEF Put
  <2>2. ram'.next_command_id \in 1..COMMAND_ID_LAST + 1 /\ ram'.slots[target'].wave = w
    <3>1. CASE HasName(ram.slots, n)
      <4>1. /\ ram' = [ram EXCEPT !.slots[SlotOfName(ram.slots, n)].wave = w, !.revision = @ + 1]
            /\ target' = SlotOfName(ram.slots, n)
        BY <1>2, <3>1 DEF Put, Commit
      <4>2. /\ ram'.next_command_id = ram.next_command_id
            /\ ram'.slots[target'].wave = w
        BY <3>1, <4>1, FoundByName DEF TypeOK, Registry, Command
      <4>3. QED
        BY <1>0, <4>2 DEF Proper
    <3>2. CASE ~HasName(ram.slots, n)
      <4>1. ~(ram.next_command_id > COMMAND_ID_LAST)
        BY <1>2, <3>2 DEF Put, PutVerdict, Writable
      <4> DEFINE c == [command_id |-> ram.next_command_id, name |-> n, wave |-> w]
      <4>2. PICK s \in Slots :
              /\ ram' = [ram EXCEPT !.slots[s] = c, !.next_command_id = @ + 1, !.revision = @ + 1]
              /\ target' = s
        BY <1>2, <3>2 DEF Put, Commit
      <4>3. c.wave = w
        OBVIOUS
      <4> HIDE DEF c
      <4>4. ram'.next_command_id = ram.next_command_id + 1 /\ ram'.slots[target'] = c
        BY <4>2 DEF TypeOK, Registry
      <4>5. QED
        BY <1>0, <4>1, <4>3, <4>4 DEF Proper
    <3>3. QED
      BY <3>1, <3>2
  <2>3. QED
    BY <1>1, <2>1, <2>2
<1>3. ASSUME NEW i, NEW n \in Names, Rename(i, n)
      PROVE  ContractInv'
  <2>1. Operation /\ Writes /\ pc = "idle" /\ target' = 0
    BY <1>0, <1>3, RenameCommits, RenameWrites DEF Rename, Commit
  <2>2. ram'.next_command_id = ram.next_command_id
    BY <1>3 DEF Rename, Commit, TypeOK, Registry
  <2>3. QED
    BY <1>0, <1>1, <2>1, <2>2 DEF Proper
<1>4. ASSUME NEW i, Remove(i)
      PROVE  ContractInv'
  <2>1. Operation /\ Writes /\ pc = "idle" /\ target' = 0
    BY <1>0, <1>4, RemoveCommits, RemoveWrites DEF Remove, Commit
  <2>2. ram'.next_command_id = ram.next_command_id
    BY <1>4 DEF Remove, Commit, TypeOK, Registry
  <2>3. QED
    BY <1>0, <1>1, <2>1, <2>2 DEF Proper
<1>5. ASSUME ClearAll
      PROVE  ContractInv'
  <2>1. Operation /\ Writes /\ pc = "idle" /\ target' = 0
    BY <1>0, <1>5, ClearAllCommits, ClearAllWrites DEF ClearAll, Commit
  <2>2. ram'.next_command_id = ram.next_command_id
    BY <1>5 DEF ClearAll, Commit, TypeOK, Registry
  <2>3. QED
    BY <1>0, <1>1, <2>1, <2>2 DEF Proper
<1>6. ASSUME NEW b \in BridgeIds \cup {ZeroId}, FactoryReset(b)
      PROVE  ContractInv'
  <2>1. Operation /\ pc = "idle" /\ ram' = Minted(b)
    BY <1>6, FactoryResetCommits DEF FactoryReset, Commit
  <2>2. Proper(ram') /\ Fitting(ram)'
    BY <2>1, MintedIsProper, BlankIsTidy DEF Fitting, Minted, Blank
  <2>3. QED
    BY <2>1, <2>2, OperationContractInv
<1>7. ASSUME NEW b \in BridgeIds, NEW n \in Nat, RestoreBegin(b, n)
      PROVE  ContractInv'
  <2>1. Operation /\ Writes /\ pc = "idle" /\ target' = 0
    BY <1>0, <1>7, RestoreBeginCommits, RestoreBeginWrites DEF RestoreBegin, Commit
  <2>2. ram'.next_command_id = n
    BY <1>7 DEF RestoreBegin, Commit, TypeOK, Registry
  <2>3. n \in 1..COMMAND_ID_LAST + 1
    BY <1>0, <1>7 DEF RestoreBegin, RestoreBeginVerdict, COMMAND_ID_FIRST
  <2>4. QED
    BY <1>1, <2>1, <2>2, <2>3
<1>8. ASSUME NEW i \in Nat, NEW n \in Names, NEW w \in Waves, ImportCommand(i, n, w)
      PROVE  ContractInv'
  <2>1. Operation /\ Writes /\ pc = "idle"
    BY <1>0, <1>8, ImportCommandCommits, ImportCommandWrites DEF ImportCommand
  <2> DEFINE c == [command_id |-> i, name |-> n, wave |-> w]
  <2>2. PICK s \in Slots : ram' = [ram EXCEPT !.slots[s] = c, !.revision = @ + 1] /\ target' = s
    BY <1>8 DEF ImportCommand, Commit
  <2>3. c.wave = w
    OBVIOUS
  <2> HIDE DEF c
  <2>4. ram'.next_command_id = ram.next_command_id /\ ram'.slots[target'] = c
    BY <2>2 DEF TypeOK, Registry
  <2>5. QED
    BY <1>0, <1>1, <2>1, <2>3, <2>4 DEF Proper
<1>9. ASSUME NEW source \in Nat, RestoreCommit(source)
      PROVE  ContractInv'
  <2>1. Operation /\ Writes /\ pc = "idle" /\ target' = 0
    BY <1>0, <1>9, RestoreCommitCommits, RestoreCommitWrites DEF RestoreCommit, Commit
  <2>2. ram'.next_command_id = ram.next_command_id
    BY <1>9 DEF RestoreCommit, Commit, TypeOK, Registry
  <2>3. QED
    BY <1>0, <1>1, <2>1, <2>2 DEF Proper
<1>10. CASE SavePayload
  BY <1>10 DEF SavePayload, ContractInv, Saving, Fitting, Fits, Proper
<1>11. CASE SaveIndex
  BY <1>11 DEF SaveIndex, ContractInv, Saving, Fitting, Fits, Proper
<1>12. CASE SaveHeader
  <2>1. cfg.max_commands \in Slots
    BY ConstantsAssumption DEF TypeOK, Config
  <2>2. QED
    BY <1>12, <2>1, BlankIsProper DEF SaveHeader, Return, ContractInv, Saving, Fitting, Fits, Proper
<1>13. CASE SaveFails
  <2>1. /\ cfg' = cfg /\ header' = header /\ index' = index /\ pc' = "idle" /\ undo' = Blank
        /\ Saving /\ ram' = IF op \in {"begin", "factory_reset"} THEN ram ELSE undo
    BY <1>13 DEF SaveFails, Return, flash, Saving
  <2>2. Proper(ram') /\ Fitting(ram)'
    BY <2>1 DEF ContractInv, Saving, Fitting, Fits
  <2>3. QED
    BY <2>1, <2>2, BlankIsProper DEF ContractInv, Saving, Proper
<1>14. CASE PowerCut
  BY <1>14, BlankIsProper DEF PowerCut, flash, ContractInv, Saving, Proper
<1>15. ASSUME NEW c \in Configs, Begin(c)
       PROVE  ContractInv'
  <2>1. /\ ram' = ReadRegistry(c) /\ cfg' = c /\ pc' = "idle" /\ undo' = undo /\ index' = index
        /\ header' = header
    BY <1>15 DEF Begin, flash
  <2>2. Proper(ram') /\ \A s \in Taken(ram'.slots) : Fits(c, s, ram'.slots[s])
    <3>1. CASE HeaderFault # "NONE"
      BY <2>1, <3>1, BlankIsTidy, BlankIsProper DEF ReadRegistry
    <3>2. CASE HeaderFault = "NONE"
      <4>1. /\ ram'.next_command_id = index.reg.next_command_id
            /\ \A s \in Slots : ram'.slots[s] = IF Readable(c, s) THEN index.reg.slots[s] ELSE Free
        BY <2>1, <3>2 DEF ReadRegistry, TypeOK, Registry
      <4>2. QED
        BY <4>1, FreeIsFree DEF ContractInv, Proper, Taken, Readable
    <3>3. QED
      BY <3>1, <3>2
  <2>3. QED
    BY <2>1, <2>2 DEF ContractInv, Fitting, Saving, Proper
<1>16. ASSUME NEW c \in Configs, NEW b \in BridgeIds \cup {ZeroId}, BeginFresh(c, b)
       PROVE  ContractInv'
  <2>1. /\ ram' = Minted(b) /\ cfg' = c /\ pc' = "index" /\ undo' = undo /\ index' = index
        /\ header' = header /\ header.kind = "missing" /\ op' = "begin" /\ pc = "off"
        /\ failed' = failed /\ fault' = fault
    BY <1>16 DEF BeginFresh, flash
  <2>2. Proper(ram') /\ Fitting(ram)'
    BY <2>1, MintedIsProper, BlankIsTidy DEF Fitting, Minted, Blank
  <2>3. failed' = "none" /\ fault' = "NONE"
    BY <2>1 DEF ContractInv, SavesWhileReadOnly, read_only
  <2>4. QED
    BY <2>1, <2>2, <2>3 DEF ContractInv, Saving, Proper
<1>17. CASE Decay
  BY <1>17, BlankIsProper DEF Decay, call, ContractInv, Saving, Proper
<1>18. CASE UNCHANGED vars
  BY <1>18 DEF vars, flash, call, ContractInv, Saving, Proper, Fitting, Fits
<1>19. /\ 0..COMMAND_ID_LAST \subseteq Nat /\ 0..COMMAND_ID_LAST + 1 \subseteq Nat
       /\ 0..REVISION_MAX + 1 \subseteq Nat
  BY ConstantsAssumption
<1>20. QED
  BY <1>2, <1>3, <1>4, <1>5, <1>6, <1>7, <1>8, <1>9, <1>10, <1>11, <1>12, <1>13, <1>14,
     <1>15, <1>16, <1>17, <1>18, <1>19 DEF Next

LEMMA ContractInvAlways == Spec => []ContractInv
<1>1. Init => ContractInv
  BY BlankIsProper DEF Init, ContractInv, Saving, Proper
<1>2. QED
  BY <1>1, ContractInvStep, TypeCorrect, RecoverableAlways, PTL DEF Spec

-----------------------------------------------------------------------------
(* Names *)

\* The listing has at id i the name of the one command with that id, if there is one.
LEMMA NameAt ==
  ASSUME NEW r \in Registry, WellFormed(r), NEW i \in 1..COMMAND_ID_LAST
  PROVE  /\ \A s \in Slots : r.slots[s].command_id = i => NamesOf(r.slots)[i] = r.slots[s].name
         /\ (\A s \in Slots : r.slots[s].command_id # i) => NamesOf(r.slots)[i] = NoName
<1>1. i # 0 /\ r.slots \in [Slots -> Command]
  BY ConstantsAssumption DEF Registry
<1>2. NamesOf(r.slots)[i] = IF HasId(r.slots, i) THEN r.slots[SlotOfId(r.slots, i)].name ELSE NoName
  BY DEF NamesOf
<1>3. ASSUME NEW s \in Slots, r.slots[s].command_id = i
      PROVE  NamesOf(r.slots)[i] = r.slots[s].name
  <2>1. s \in Taken(r.slots)
    BY <1>1, <1>3 DEF Taken, Occupied, COMMAND_ID_NONE
  <2>2. HasId(r.slots, i)
    BY <1>3, <2>1 DEF HasId
  <2>3. SlotOfId(r.slots, i) = s
    BY <1>1, <1>3, <2>1, <2>2, FoundById DEF WellFormed, Taken
  <2>4. QED
    BY <1>2, <2>2, <2>3
<1>4. ASSUME \A s \in Slots : r.slots[s].command_id # i
      PROVE  NamesOf(r.slots)[i] = NoName
  BY <1>2, <1>4 DEF HasId, Taken
<1>5. QED
  BY <1>3, <1>4

\* The contract lists the commands of the store.
LEMMA Listing ==
  ASSUME NEW r \in Registry, WellFormed(r), Proper(r)
  PROVE  /\ Ids(r.slots) \subseteq 1..COMMAND_ID_LAST
         /\ Contract!Listed(NamesOf(r.slots)) = Ids(r.slots)
         /\ \A n : n \in Contract!NamesIn(NamesOf(r.slots)) <=> HasName(r.slots, n)
<1>1. /\ COMMAND_ID_LAST \in Nat /\ r.slots \in [Slots -> Command]
      /\ \A s \in Slots : r.slots[s].command_id \in Nat
      /\ r.next_command_id \in Nat /\ r.next_command_id <= COMMAND_ID_LAST + 1
  BY ConstantsAssumption DEF Registry, Command, Proper
<1>2. ASSUME NEW s \in Taken(r.slots)
      PROVE  /\ s \in Slots /\ r.slots[s].command_id \in 1..COMMAND_ID_LAST
             /\ r.slots[s].name # NoName
             /\ NamesOf(r.slots)[r.slots[s].command_id] = r.slots[s].name
  <2>1. s \in Slots /\ r.slots[s].command_id # 0
    BY DEF Taken, Occupied, COMMAND_ID_NONE
  <2>2. r.slots[s].command_id < r.next_command_id /\ r.slots[s].name \in ValidNames
    BY DEF WellFormed
  <2>3. r.slots[s].command_id \in 1..COMMAND_ID_LAST
    BY <1>1, <2>1, <2>2
  <2>4. r.slots[s].name # NoName
    BY <2>2, ConstantsAssumption
  <2>5. QED
    BY <2>1, <2>3, <2>4, NameAt
<1>3. Ids(r.slots) \subseteq 1..COMMAND_ID_LAST
  BY <1>2 DEF Ids
<1>4. ASSUME NEW i \in 1..COMMAND_ID_LAST, NamesOf(r.slots)[i] # NoName
      PROVE  \E s \in Taken(r.slots) : r.slots[s].command_id = i
  <2>1. PICK s \in Slots : r.slots[s].command_id = i
    BY <1>4, NameAt
  <2>2. i # 0
    BY <1>1
  <2>3. QED
    BY <2>1, <2>2 DEF Taken, Occupied, COMMAND_ID_NONE
<1>5. Contract!Listed(NamesOf(r.slots)) = Ids(r.slots)
  BY <1>2, <1>4 DEF Contract!Listed, Contract!Ids, Ids
<1>6. ASSUME NEW n PROVE n \in Contract!NamesIn(NamesOf(r.slots)) <=> HasName(r.slots, n)
  BY <1>2, <1>5 DEF Contract!NamesIn, Ids, HasName
<1>7. QED
  BY <1>3, <1>5, <1>6

\* What becomes of the listing when one slot changes, or is freed.
LEMMA OneNameChanges ==
  ASSUME NEW q \in Registry, WellFormed(q), NEW r \in Registry, WellFormed(r),
         NEW i \in 1..COMMAND_ID_LAST, NEW s \in Slots, NEW c \in Command,
         r.slots = [q.slots EXCEPT ![s] = c],
         q.slots[s].command_id \in {0, i},
         c.command_id = i \/ (c = Free /\ q.slots[s].command_id = i)
  PROVE  NamesOf(r.slots) = [NamesOf(q.slots) EXCEPT ![i] = IF c = Free THEN NoName ELSE c.name]
<1> DEFINE x == IF c = Free THEN NoName ELSE c.name
<1>1. /\ q.slots \in [Slots -> Command] /\ r.slots \in [Slots -> Command]
      /\ \A t \in Slots : r.slots[t] = IF t = s THEN c ELSE q.slots[t]
      /\ i # 0 /\ Free.command_id = 0
  BY ConstantsAssumption DEF Registry, Free, COMMAND_ID_NONE
<1>2. NamesOf(r.slots)[i] = x
  <2>1. CASE c.command_id = i
    <3>1. c # Free /\ r.slots[s] = c
      BY <1>1, <2>1
    <3>2. NamesOf(r.slots)[i] = r.slots[s].name
      BY <2>1, <3>1, NameAt
    <3>3. QED
      BY <3>1, <3>2
  <2>2. CASE c = Free /\ q.slots[s].command_id = i
    <3>1. ASSUME NEW t \in Slots, r.slots[t].command_id = i PROVE FALSE
      <4>1. t # s /\ q.slots[t].command_id = i
        BY <1>1, <2>2, <3>1
      <4>2. t \in Taken(q.slots) /\ s \in Taken(q.slots)
        BY <1>1, <2>2, <4>1 DEF Taken, Occupied, COMMAND_ID_NONE
      <4>3. QED
        BY <2>2, <4>1, <4>2 DEF WellFormed
    <3>2. NamesOf(r.slots)[i] = NoName
      BY <3>1, NameAt
    <3>3. QED
      BY <2>2, <3>2
  <2>3. QED
    BY <2>1, <2>2
<1>3. ASSUME NEW j \in 1..COMMAND_ID_LAST, j # i
      PROVE  NamesOf(r.slots)[j] = NamesOf(q.slots)[j]
  <2>1. j # 0 /\ c.command_id # j /\ q.slots[s].command_id # j
    BY <1>1, <1>3, ConstantsAssumption
  <2>2. CASE \E t \in Slots : q.slots[t].command_id = j
    <3>1. PICK t \in Slots : q.slots[t].command_id = j
      BY <2>2
    <3>2. t # s
      BY <2>1, <3>1
    <3>3. r.slots[t] = q.slots[t]
      BY <1>1, <3>2
    <3>4. NamesOf(q.slots)[j] = q.slots[t].name
      BY <3>1, NameAt
    <3>5. NamesOf(r.slots)[j] = r.slots[t].name
      BY <3>1, <3>3, NameAt
    <3>6. QED
      BY <3>3, <3>4, <3>5
  <2>3. CASE \A t \in Slots : q.slots[t].command_id # j
    <3>1. \A t \in Slots : r.slots[t].command_id # j
      BY <1>1, <2>1, <2>3
    <3>2. NamesOf(q.slots)[j] = NoName
      BY <2>3, NameAt
    <3>3. NamesOf(r.slots)[j] = NoName
      BY <3>1, NameAt
    <3>4. QED
      BY <3>2, <3>3
  <2>4. QED
    BY <2>2, <2>3
<1> HIDE DEF x
<1>4. /\ NamesOf(r.slots) = [j \in 1..COMMAND_ID_LAST |-> NamesOf(r.slots)[j]]
      /\ NamesOf(q.slots) = [j \in 1..COMMAND_ID_LAST |-> NamesOf(q.slots)[j]]
  BY DEF NamesOf
<1>5. NamesOf(r.slots) = [NamesOf(q.slots) EXCEPT ![i] = x]
  BY <1>2, <1>3, <1>4
<1>6. QED
  BY <1>5 DEF x

-----------------------------------------------------------------------------
(* Operations of the contract *)

\* An accepted operation starts the one that the contract knows.
LEMMA OperationStarts ==
  ASSUME pc = "idle", Operation,
         LET to == View(ram', "NONE")
             before == View(ram, fault)
         IN  \/ /\ op' # "factory_reset" /\ ~Relearning'
                /\ to \in Contract!Outcomes(before) /\ to # before
             \/ /\ op' # "factory_reset" /\ Relearning'
                /\ Contract!Writable(before) /\ to = Contract!Advanced(before)
                /\ undo'.slots[target'].command_id \in Contract!Listed(before.names)
             \/ /\ op' = "factory_reset"
                /\ \E b \in BridgeIds \cup {ZeroId} : to = Contract!Minted(b)
  PROVE  Contract!Start
<1> DEFINE to == View(ram', "NONE")
           before == View(ram, fault)
<1>1. /\ undo' = ram /\ index' = index /\ header' = header /\ payload' = payload
      /\ cfg' = cfg /\ fault' = fault /\ failed' = failed
      /\ op' # "begin" /\ pc' \in {"index", "payload"}
  BY OperationFacts
<1>2. Phase = "idle" /\ Phase' = "saving"
  BY <1>1 DEF Phase, Saving
<1>3. Shown = before /\ Shown' = before
  BY <1>1, <1>2 DEF Shown
<1>4. Doing' = [to |-> to, relearns |-> IF Relearning' THEN undo'.slots[target'].command_id ELSE 0,
                resets |-> op' = "factory_reset"]
  BY <1>2 DEF Doing, COMMAND_ID_NONE
<1>5. OnFlash' = OnFlash
  BY <1>1 DEF OnFlash, HeaderFault, LostOnFlash, HiddenOnFlash, Fits
<1>6. Resizing' = Resizing
  BY <1>1 DEF Resizing
<1> HIDE DEF to, before
<1>7. \/ Doing' \in {Contract!Operation(r, 0, FALSE) : r \in Contract!Outcomes(before) \ {before}}
      \/ /\ Contract!Writable(before)
         /\ Doing' \in {Contract!Operation(Contract!Advanced(before), c, FALSE) :
                           c \in Contract!Listed(before.names)}
      \/ Doing' \in {Contract!Operation(Contract!Minted(i), 0, TRUE) : i \in BridgeIds \cup {ZeroId}}
  <2>1. CASE op' # "factory_reset" /\ ~Relearning' /\ to \in Contract!Outcomes(before) /\ to # before
    BY <1>4, <2>1 DEF Contract!Operation
  <2>2. CASE /\ op' # "factory_reset" /\ Relearning'
             /\ Contract!Writable(before) /\ to = Contract!Advanced(before)
             /\ undo'.slots[target'].command_id \in Contract!Listed(before.names)
    BY <1>4, <2>2 DEF Contract!Operation
  <2>3. CASE op' = "factory_reset" /\ \E b \in BridgeIds \cup {ZeroId} : to = Contract!Minted(b)
    <3>1. ~Relearning'
      BY <2>3 DEF Relearning
    <3>2. QED
      BY <1>4, <2>3, <3>1 DEF Contract!Operation
  <2>4. QED
    BY <2>1, <2>2, <2>3 DEF to, before
<1>8. QED
  BY <1>1, <1>2, <1>3, <1>5, <1>6, <1>7 DEF Contract!Start

\* What the operations of Registry make of q, said field by field: records that are known by
\* their fields only are compared here, so that the steps below have to compare fields.
\* r is a registry as View shows one; q and r are two that can be written.
Shape(r) == r = [id |-> r.id, restoring |-> r.restoring, readOnly |-> r.readOnly, next |-> r.next,
                 rev |-> r.rev, names |-> r.names]
Follows(q, r) == Shape(q) /\ Shape(r) /\ q.readOnly = FALSE /\ r.readOnly = FALSE

LEMMA AdvancedOutcome ==
  ASSUME NEW q, NEW r, Follows(q, r), q.restoring = FALSE, r.restoring = FALSE,
         r.id = q.id, r.next = q.next, r.rev = q.rev + 1, r.names = q.names
  PROVE  Contract!Writable(q) /\ r = Contract!Advanced(q)
BY DEF Contract!Writable, Contract!Advanced, Follows, Shape

LEMMA LearnedOutcome ==
  ASSUME NEW q, NEW r, Follows(q, r), q.restoring = FALSE, r.restoring = FALSE, r.id = q.id,
         NEW n \in ValidNames, n \notin Contract!NamesIn(q.names),
         q.next \in Contract!Ids, Contract!Count(q.names) < MaxSlots,
         r.next = q.next + 1, r.rev = q.rev + 1, r.names = [q.names EXCEPT ![q.next] = n]
  PROVE  r \in Contract!Outcomes(q)
<1>1. r = Contract!Learned(q, n, MaxSlots)
  BY DEF Contract!Learned, Contract!Writable, Contract!Advanced, Follows, Shape
<1>2. QED
  BY <1>1 DEF Contract!Outcomes

LEMMA RenamedOutcome ==
  ASSUME NEW q, NEW r, Follows(q, r), q.restoring = FALSE, r.restoring = FALSE, r.id = q.id,
         NEW n \in ValidNames, n \notin Contract!NamesIn(q.names),
         NEW i \in Contract!Listed(q.names),
         r.next = q.next, r.rev = q.rev + 1, r.names = [q.names EXCEPT ![i] = n]
  PROVE  r \in Contract!Outcomes(q)
<1>1. r = Contract!Renamed(q, i, n)
  BY DEF Contract!Renamed, Contract!Writable, Contract!Advanced, Follows, Shape
<1>2. QED
  BY <1>1 DEF Contract!Outcomes

LEMMA RemovedOutcome ==
  ASSUME NEW q, NEW r, Follows(q, r), q.restoring = FALSE, r.restoring = FALSE, r.id = q.id,
         NEW i \in Contract!Listed(q.names),
         r.next = q.next, r.rev = q.rev + 1, r.names = [q.names EXCEPT ![i] = NoName]
  PROVE  r \in Contract!Outcomes(q)
<1>1. r = Contract!Removed(q, i)
  BY DEF Contract!Removed, Contract!Writable, Contract!Advanced, Follows, Shape
<1>2. QED
  BY <1>1 DEF Contract!Outcomes

LEMMA ClearedOutcome ==
  ASSUME NEW q, NEW r, Follows(q, r), r.restoring = FALSE, r.id = q.id,
         Contract!Listed(q.names) # {} \/ q.restoring,
         r.next = q.next, r.rev = q.rev + 1, r.names = Contract!Nothing
  PROVE  r \in Contract!Outcomes(q)
<1>3. ~q.readOnly
  BY DEF Follows
<1>4. r = Contract!Advanced([q EXCEPT !.names = Contract!Nothing, !.restoring = FALSE])
  BY DEF Contract!Advanced, Follows, Shape
<1>1. r = Contract!Cleared(q)
  BY <1>3, <1>4 DEF Contract!Cleared
<1>2. QED
  BY <1>1 DEF Contract!Outcomes

LEMMA RestoreBegunOutcome ==
  ASSUME NEW q, NEW r, Follows(q, r), r.restoring = TRUE, r.id \in BridgeIds \cup {ZeroId},
         Contract!Listed(q.names) = {}, r.next \in 1..COMMAND_ID_LAST + 1,
         r.rev = q.rev + 1, r.names = q.names
  PROVE  r \in Contract!Outcomes(q)
<1>1. r = Contract!RestoreBegun(q, r.id, r.next)
  BY DEF Contract!RestoreBegun, Contract!Advanced, Follows, Shape
<1>2. QED
  BY <1>1 DEF Contract!Outcomes

LEMMA ImportedOutcome ==
  ASSUME NEW q, NEW r, Follows(q, r), q.restoring, r.restoring = TRUE, r.id = q.id,
         NEW i \in Contract!Ids, i < q.next, i \notin Contract!Listed(q.names),
         NEW n \in ValidNames, n \notin Contract!NamesIn(q.names),
         Contract!Count(q.names) < MaxSlots,
         r.next = q.next, r.rev = q.rev + 1, r.names = [q.names EXCEPT ![i] = n]
  PROVE  r \in Contract!Outcomes(q)
<1>3. ~q.readOnly /\ q.restoring
  BY DEF Follows
<1>4. r = Contract!Advanced([q EXCEPT !.names[i] = n])
  BY DEF Contract!Advanced, Follows, Shape
<1>1. r = Contract!Imported(q, i, n, MaxSlots)
  BY <1>3, <1>4 DEF Contract!Imported
<1>2. QED
  BY <1>1 DEF Contract!Outcomes

LEMMA CommittedAt ==
  ASSUME NEW q, NEW r, NEW x, Follows(q, r), r.restoring = FALSE, r.id = q.id,
         r.next = q.next, r.rev = x + 1, r.names = q.names
  PROVE  r = Contract!Advanced([q EXCEPT !.restoring = FALSE, !.rev = x])
BY DEF Contract!Advanced, Follows, Shape

LEMMA RestoreCommittedOutcome ==
  ASSUME NEW q, NEW r, Follows(q, r), q.restoring, r.restoring = FALSE, r.id = q.id,
         NEW source \in 0..REVISION_MAX + 1,
         r.next = q.next, r.rev = Greater(source, q.rev) + 1, r.names = q.names
  PROVE  r \in Contract!Outcomes(q)
<1>1. ~q.readOnly /\ q.restoring
  BY DEF Follows
<1>2. r = Contract!Advanced([q EXCEPT !.restoring = FALSE, !.rev = Greater(source, q.rev)])
  BY CommittedAt
<1>3. r = Contract!RestoreCommitted(q, source)
  BY <1>1, <1>2 DEF Contract!RestoreCommitted, Greater
<1>4. QED
  BY <1>3 DEF Contract!Outcomes

\* What an operation that is accepted finds.
Found == /\ TypeOK /\ TypeOK' /\ RegistryWellFormed /\ RegistryWellFormed'
         /\ ContractInv /\ TidyInv

\* The registry before and after the step, and what the contract lists before it.
LEMMA FoundFacts ==
  ASSUME Found
  PROVE  /\ ram \in Registry /\ WellFormed(ram) /\ Proper(ram) /\ ram.slots \in [Slots -> Command]
         /\ ram' \in Registry /\ WellFormed(ram')
         /\ ram.revision \in Nat /\ ram.next_command_id \in Nat /\ COMMAND_ID_LAST \in Nat
         /\ Tidy(ram)
         /\ Contract!Listed(NamesOf(ram.slots)) = Ids(ram.slots)
         /\ \A n : n \in Contract!NamesIn(NamesOf(ram.slots)) <=> HasName(ram.slots, n)
<1>1. /\ ram \in Registry /\ WellFormed(ram) /\ Proper(ram) /\ ram.slots \in [Slots -> Command]
      /\ ram' \in Registry /\ WellFormed(ram')
      /\ ram.revision \in Nat /\ ram.next_command_id \in Nat /\ COMMAND_ID_LAST \in Nat
      /\ Tidy(ram)
  BY ConstantsAssumption DEF Found, TypeOK, RegistryWellFormed, ContractInv, TidyInv, Registry
<1>2. QED
  BY <1>1, Listing

\* An operation that makes of the registry what the contract makes of it starts one.
LEMMA OutcomeStarts ==
  ASSUME Found, pc = "idle", Operation, op' # "factory_reset", ~Relearning', fault = "NONE",
         ram'.revision > ram.revision, View(ram', "NONE") \in Contract!Outcomes(View(ram, fault))
  PROVE  Contract!Start
<1>1. View(ram', "NONE").rev = ram'.revision /\ View(ram, fault).rev = ram.revision
  BY DEF View
<1>2. ram'.revision \in Nat /\ ram.revision \in Nat
  BY FoundFacts DEF Registry
<1>3. View(ram', "NONE") # View(ram, fault)
  BY <1>1, <1>2
<1>4. QED
  BY <1>3, OperationStarts

\* What the listing shows before and after an operation on a store that can be written.
LEMMA Views ==
  ASSUME NEW x, NEW y, NEW f, f = "NONE",
         NEW q, q = View(x, f), NEW r, r = View(y, "NONE")
  PROVE  /\ Follows(q, r)
         /\ q.id = x.bridge_id /\ q.restoring = x.restoring /\ q.next = x.next_command_id
         /\ q.rev = x.revision /\ q.names = NamesOf(x.slots)
         /\ r.id = y.bridge_id /\ r.restoring = y.restoring /\ r.next = y.next_command_id
         /\ r.rev = y.revision /\ r.names = NamesOf(y.slots)
BY DEF View, Follows, Shape

\* Each operation of the store, once accepted, is one of the contract.
LEMMA RenameStarts ==
  ASSUME Found, NEW i \in Nat, NEW n \in Names, Rename(i, n)
  PROVE  Contract!Start
<1>1. Operation /\ pc = "idle" /\ op' = "rename"
  BY RenameCommits DEF Found, Rename, Commit
<1>2. /\ HasId(ram.slots, i) /\ ~HasName(ram.slots, n) /\ n \in ValidNames
      /\ fault = "NONE" /\ ~ram.restoring
  BY DEF Rename, RenameVerdict, Writable, read_only
<1> DEFINE s == SlotOfId(ram.slots, i)
           c == [ram.slots[s] EXCEPT !.name = n]
           q == View(ram, fault)
           r == View(ram', "NONE")
<1>3. s \in Slots /\ ram.slots[s].command_id = i /\ Occupied(ram.slots[s])
  BY <1>2, FoundFacts, FoundById
<1>4. ram' = [ram EXCEPT !.slots[s].name = n, !.revision = @ + 1]
  BY DEF Rename, Commit
<1> HIDE DEF s
<1>5. c \in Command /\ c.command_id = i /\ c.name = n /\ c # Free
  BY <1>2, <1>3, FoundFacts, ConstantsAssumption DEF Command, Occupied, Free, COMMAND_ID_NONE
<1>6. /\ ram'.slots = [ram.slots EXCEPT ![s] = c]
      /\ ram'.next_command_id = ram.next_command_id /\ ram'.revision = ram.revision + 1
      /\ ram'.bridge_id = ram.bridge_id /\ ram'.restoring = FALSE /\ ram.restoring = FALSE
  BY <1>2, <1>4, FoundFacts DEF Registry
<1> HIDE DEF c
<1>7. i \in Ids(ram.slots) /\ i \in 1..COMMAND_ID_LAST
  BY <1>2, FoundFacts, Listing DEF HasId, Ids
<1>8. NamesOf(ram'.slots) = [NamesOf(ram.slots) EXCEPT ![i] = n]
  BY <1>3, <1>5, <1>6, <1>7, FoundFacts, OneNameChanges
<1>9. i \in Contract!Listed(NamesOf(ram.slots)) /\ n \notin Contract!NamesIn(NamesOf(ram.slots))
  BY <1>2, <1>7, FoundFacts
<1>10. /\ Follows(q, r)
       /\ q.id = ram.bridge_id /\ q.restoring = FALSE /\ q.next = ram.next_command_id
       /\ q.rev = ram.revision /\ q.names = NamesOf(ram.slots)
       /\ r.id = q.id /\ r.restoring = FALSE /\ r.next = q.next /\ r.rev = q.rev + 1
       /\ r.names = [q.names EXCEPT ![i] = n]
  BY <1>2, <1>6, <1>8, Views
<1> HIDE DEF q, r
<1>11. r \in Contract!Outcomes(q)
  BY <1>2, <1>9, <1>10, RenamedOutcome
<1>12. ram'.revision > ram.revision
  BY <1>6, FoundFacts
<1>13. QED
  BY <1>1, <1>2, <1>11, <1>12, OutcomeStarts DEF Relearning, q, r

LEMMA RemoveStarts ==
  ASSUME Found, NEW i \in Nat, Remove(i)
  PROVE  Contract!Start
<1>1. Operation /\ pc = "idle" /\ op' = "remove"
  BY RemoveCommits DEF Found, Remove, Commit
<1>2. HasId(ram.slots, i) /\ fault = "NONE" /\ ~ram.restoring
  BY DEF Remove, RemoveVerdict, Writable, read_only
<1> DEFINE s == SlotOfId(ram.slots, i)
           q == View(ram, fault)
           r == View(ram', "NONE")
<1>3. s \in Slots /\ ram.slots[s].command_id = i
  BY <1>2, FoundFacts, FoundById
<1>4. ram' = [ram EXCEPT !.slots[s] = Free, !.revision = @ + 1]
  BY DEF Remove, Commit
<1> HIDE DEF s
<1>5. /\ ram'.slots = [ram.slots EXCEPT ![s] = Free]
      /\ ram'.next_command_id = ram.next_command_id /\ ram'.revision = ram.revision + 1
      /\ ram'.bridge_id = ram.bridge_id /\ ram'.restoring = FALSE /\ ram.restoring = FALSE
  BY <1>2, <1>4, FoundFacts DEF Registry
<1>6. i \in Ids(ram.slots) /\ i \in 1..COMMAND_ID_LAST
  BY <1>2, FoundFacts, Listing DEF HasId, Ids
<1>7. NamesOf(ram'.slots) = [NamesOf(ram.slots) EXCEPT ![i] = NoName]
  BY <1>3, <1>5, <1>6, FoundFacts, FreeIsCommand, OneNameChanges
<1>8. i \in Contract!Listed(NamesOf(ram.slots))
  BY <1>6, FoundFacts
<1>9. /\ Follows(q, r)
      /\ q.id = ram.bridge_id /\ q.restoring = FALSE /\ q.next = ram.next_command_id
      /\ q.rev = ram.revision /\ q.names = NamesOf(ram.slots)
      /\ r.id = q.id /\ r.restoring = FALSE /\ r.next = q.next /\ r.rev = q.rev + 1
      /\ r.names = [q.names EXCEPT ![i] = NoName]
  BY <1>2, <1>5, <1>7, Views
<1> HIDE DEF q, r
<1>10. r \in Contract!Outcomes(q)
  BY <1>8, <1>9, RemovedOutcome
<1>11. ram'.revision > ram.revision
  BY <1>5, FoundFacts
<1>12. QED
  BY <1>1, <1>2, <1>10, <1>11, OutcomeStarts DEF Relearning, q, r

\* Nothing is stored and nothing is listed.
LEMMA NothingListed == /\ NamesOf(NoCommands) = Contract!Nothing
                       /\ Contract!Listed(Contract!Nothing) = {}
BY FreeIsFree DEF NamesOf, NoCommands, HasId, Taken, Contract!Nothing, Contract!Ids, Contract!Listed

LEMMA ClearAllStarts ==
  ASSUME Found, ClearAll
  PROVE  Contract!Start
<1>1. Operation /\ pc = "idle" /\ op' = "clear_all"
  BY ClearAllCommits DEF Found, ClearAll, Commit
<1>2. (Taken(ram.slots) # {} \/ ram.restoring) /\ fault = "NONE"
  BY DEF ClearAll, ClearVerdict, read_only
<1>3. /\ ram'.slots = NoCommands
      /\ ram'.next_command_id = ram.next_command_id /\ ram'.revision = ram.revision + 1
      /\ ram'.bridge_id = ram.bridge_id /\ ram'.restoring = FALSE
  BY FoundFacts DEF ClearAll, Commit, Registry
<1> DEFINE q == View(ram, fault)
           r == View(ram', "NONE")
<1>4. Contract!Listed(NamesOf(ram.slots)) # {} \/ ram.restoring
  <2>1. (\E s \in Taken(ram.slots) : ram.slots[s].command_id \in Ids(ram.slots)) \/ ram.restoring
    BY <1>2 DEF Ids
  <2>2. QED
    BY <2>1, FoundFacts
<1>5. /\ Follows(q, r)
      /\ q.id = ram.bridge_id /\ q.restoring = ram.restoring /\ q.next = ram.next_command_id
      /\ q.rev = ram.revision /\ q.names = NamesOf(ram.slots)
      /\ r.id = q.id /\ r.restoring = FALSE /\ r.next = q.next /\ r.rev = q.rev + 1
      /\ r.names = Contract!Nothing
  BY <1>2, <1>3, Views, NothingListed
<1> HIDE DEF q, r
<1>6. Contract!Listed(q.names) # {} \/ q.restoring
  BY <1>4, <1>5
<1>7. r \in Contract!Outcomes(q)
  BY <1>5, <1>6, ClearedOutcome
<1>8. ram'.revision > ram.revision
  BY <1>3, FoundFacts
<1>9. QED
  BY <1>1, <1>2, <1>7, <1>8, OutcomeStarts DEF Relearning, q, r

LEMMA RestoreBeginStarts ==
  ASSUME Found, NEW b \in BridgeIds, NEW n \in Nat, RestoreBegin(b, n)
  PROVE  Contract!Start
<1>1. Operation /\ pc = "idle" /\ op' = "restore_begin"
  BY RestoreBeginCommits DEF Found, RestoreBegin, Commit
<1>2. Taken(ram.slots) = {} /\ fault = "NONE" /\ n \in 1..COMMAND_ID_LAST + 1
  BY FoundFacts DEF RestoreBegin, RestoreBeginVerdict, read_only, COMMAND_ID_FIRST
<1>3. /\ ram'.slots = ram.slots /\ ram'.next_command_id = n /\ ram'.revision = ram.revision + 1
      /\ ram'.bridge_id = b /\ ram'.restoring = TRUE
  BY FoundFacts DEF RestoreBegin, Commit, Registry
<1> DEFINE q == View(ram, fault)
           r == View(ram', "NONE")
<1>4. Contract!Listed(NamesOf(ram.slots)) = {}
  BY <1>2, FoundFacts DEF Ids
<1>5. /\ Follows(q, r) /\ q.rev = ram.revision /\ q.names = NamesOf(ram.slots)
      /\ r.id = b /\ r.restoring = TRUE /\ r.next = n /\ r.rev = q.rev + 1 /\ r.names = q.names
  BY <1>2, <1>3, Views
<1> HIDE DEF q, r
<1>6. r \in Contract!Outcomes(q)
  BY <1>2, <1>4, <1>5, RestoreBegunOutcome
<1>7. ram'.revision > ram.revision
  BY <1>3, FoundFacts
<1>8. QED
  BY <1>1, <1>2, <1>6, <1>7, OutcomeStarts DEF Relearning, q, r

LEMMA RestoreCommitStarts ==
  ASSUME Found, NEW source \in 0..REVISION_MAX + 1, RestoreCommit(source)
  PROVE  Contract!Start
<1>0. source \in Nat
  BY ConstantsAssumption
<1>1. Operation /\ pc = "idle" /\ op' = "restore_commit"
  BY <1>0, RestoreCommitCommits DEF Found, RestoreCommit, Commit
<1>2. ram.restoring = TRUE /\ fault = "NONE"
  BY FoundFacts DEF RestoreCommit, RestoreCommitVerdict, read_only, Registry
<1>3. /\ ram'.slots = ram.slots /\ ram'.next_command_id = ram.next_command_id
      /\ ram'.revision = Greater(source, ram.revision) + 1
      /\ ram'.bridge_id = ram.bridge_id /\ ram'.restoring = FALSE
  BY FoundFacts DEF RestoreCommit, Commit, Registry
<1> DEFINE q == View(ram, fault)
           r == View(ram', "NONE")
<1>4. /\ Follows(q, r)
      /\ q.id = ram.bridge_id /\ q.restoring = TRUE /\ q.next = ram.next_command_id
      /\ q.rev = ram.revision /\ q.names = NamesOf(ram.slots)
      /\ r.id = q.id /\ r.restoring = FALSE /\ r.next = q.next
      /\ r.rev = Greater(source, q.rev) + 1 /\ r.names = q.names
  BY <1>2, <1>3, Views
<1> HIDE DEF q, r
<1>5. r \in Contract!Outcomes(q)
  BY <1>4, RestoreCommittedOutcome
<1>6. ram'.revision > ram.revision
  BY <1>0, <1>3, FoundFacts DEF Greater
<1>7. QED
  BY <1>1, <1>2, <1>5, <1>6, OutcomeStarts DEF Relearning, q, r

LEMMA FactoryResetStarts ==
  ASSUME NEW b \in BridgeIds \cup {ZeroId}, FactoryReset(b)
  PROVE  Contract!Start
<1>1. Operation /\ pc = "idle" /\ op' = "factory_reset" /\ ram' = Minted(b)
  BY FactoryResetCommits DEF FactoryReset, Commit
<1>2. View(Minted(b), "NONE") = Contract!Minted(b)
  BY NothingListed DEF View, Minted, Blank, COMMAND_ID_FIRST, REVISION_INITIAL, Contract!Minted
<1>3. QED
  BY <1>1, <1>2, OperationStarts

\* A registry with a free slot does not list as many commands as there may be.
LEMMA RoomLeft ==
  ASSUME NEW slots \in [Slots -> Command], NEW s \in Slots, ~Occupied(slots[s])
  PROVE  Cardinality(Ids(slots)) < MaxSlots
<1> DEFINE f == [i \in Ids(slots) |-> SlotOfId(slots, i)]
<1>1. \A i \in Ids(slots) : HasId(slots, i)
  BY DEF Ids, HasId
<1>2. \A i \in Ids(slots) : /\ SlotOfId(slots, i) \in Slots \ {s}
                            /\ slots[SlotOfId(slots, i)].command_id = i
  BY <1>1, FoundById
<1>3. f \in Injection(Ids(slots), Slots \ {s})
  BY <1>2 DEF Injection, IsInjective
<1>4. IsFiniteSet(Slots) /\ Cardinality(Slots) = MaxSlots
  BY FS_Interval, ConstantsAssumption DEF Slots
<1>5. IsFiniteSet(Slots \ {s}) /\ Cardinality(Slots \ {s}) = MaxSlots - 1
  BY <1>4, FS_RemoveElement
<1>6. Cardinality(Ids(slots)) <= Cardinality(Slots \ {s}) /\ IsFiniteSet(Ids(slots))
  BY <1>3, <1>5, FS_Injection
<1>7. Cardinality(Ids(slots)) \in Nat
  BY <1>6, FS_CardinalityType
<1>8. QED
  BY <1>5, <1>6, <1>7, ConstantsAssumption

\* A command in a free slot, under an id that is not listed.
LEMMA AddedName ==
  ASSUME Found, NEW s \in Slots, ~Occupied(ram.slots[s]), NEW i \in 1..COMMAND_ID_LAST,
         NEW n \in ValidNames, NEW w \in Waves,
         ram'.slots = [ram.slots EXCEPT ![s] = [command_id |-> i, name |-> n, wave |-> w]]
  PROVE  /\ NamesOf(ram'.slots) = [NamesOf(ram.slots) EXCEPT ![i] = n]
         /\ Contract!Count(NamesOf(ram.slots)) < MaxSlots
<1> DEFINE c == [command_id |-> i, name |-> n, wave |-> w]
<1>1. c \in Command /\ c.command_id = i /\ c.name = n /\ c # Free
  BY FoundFacts, ConstantsAssumption DEF Command, Free, COMMAND_ID_NONE
<1>2. ram'.slots = [ram.slots EXCEPT ![s] = c]
  OBVIOUS
<1>3. ram.slots[s].command_id = 0
  BY DEF Occupied, COMMAND_ID_NONE
<1> HIDE DEF c
<1>4. NamesOf(ram'.slots) = [NamesOf(ram.slots) EXCEPT ![i] = n]
  BY <1>1, <1>2, <1>3, FoundFacts, OneNameChanges
<1>5. Contract!Count(NamesOf(ram.slots)) < MaxSlots
  <2>1. Contract!Listed(NamesOf(ram.slots)) = Ids(ram.slots)
    BY FoundFacts
  <2>2. Cardinality(Ids(ram.slots)) < MaxSlots
    BY FoundFacts, RoomLeft
  <2>3. QED
    BY <2>1, <2>2 DEF Contract!Count, Contract!Cardinality, Cardinality
<1>6. QED
  BY <1>4, <1>5

\* The operations that write a waveform: an import, a new name, a relearn.
LEMMA ImportCommandStarts ==
  ASSUME Found, NEW i \in Nat, i <= COMMAND_ID_LAST, NEW n \in Names, NEW w \in Waves,
         ImportCommand(i, n, w)
  PROVE  Contract!Start
<1>1. Operation /\ pc = "idle" /\ op' = "import_command"
  BY ImportCommandCommits DEF Found, ImportCommand, Commit
<1>2. /\ fault = "NONE" /\ ram.restoring = TRUE /\ n \in ValidNames /\ ~HasName(ram.slots, n)
      /\ i # 0 /\ ~(i >= ram.next_command_id) /\ ~HasId(ram.slots, i)
  BY FoundFacts DEF ImportCommand, ImportVerdict, read_only, Registry, COMMAND_ID_NONE
<1>3. i \in 1..COMMAND_ID_LAST /\ i < ram.next_command_id
  BY <1>2, FoundFacts
<1> DEFINE c == [command_id |-> i, name |-> n, wave |-> w]
           q == View(ram, fault)
           r == View(ram', "NONE")
<1>4. PICK s \in Slots : /\ IsFirstFree(ram.slots, s)
                         /\ ram' = [ram EXCEPT !.slots[s] = c, !.revision = @ + 1]
  BY DEF ImportCommand, Commit
<1>5. ~Occupied(ram.slots[s])
  BY <1>4 DEF IsFirstFree, FreeSlots
<1>6. /\ ram'.slots = [ram.slots EXCEPT ![s] = c]
      /\ ram'.next_command_id = ram.next_command_id /\ ram'.revision = ram.revision + 1
      /\ ram'.bridge_id = ram.bridge_id /\ ram'.restoring = TRUE
  BY <1>2, <1>4, FoundFacts DEF Registry
<1>7. /\ NamesOf(ram'.slots) = [NamesOf(ram.slots) EXCEPT ![i] = n]
      /\ Contract!Count(NamesOf(ram.slots)) < MaxSlots
  BY <1>2, <1>3, <1>5, <1>6, AddedName
<1>8. /\ i \notin Contract!Listed(NamesOf(ram.slots))
      /\ n \notin Contract!NamesIn(NamesOf(ram.slots))
      /\ i \in Contract!Ids
  BY <1>2, <1>3, FoundFacts DEF Ids, HasId, Contract!Ids
<1>9. /\ Follows(q, r)
      /\ q.id = ram.bridge_id /\ q.restoring = TRUE /\ q.restoring /\ q.next = ram.next_command_id
      /\ q.rev = ram.revision /\ q.names = NamesOf(ram.slots)
      /\ r.id = q.id /\ r.restoring = TRUE /\ r.next = q.next /\ r.rev = q.rev + 1
      /\ r.names = [q.names EXCEPT ![i] = n]
  BY <1>2, <1>6, <1>7, Views
<1> HIDE DEF q, r, c
<1>10. r \in Contract!Outcomes(q)
  BY <1>2, <1>3, <1>7, <1>8, <1>9, ImportedOutcome
<1>11. ram'.revision > ram.revision
  BY <1>6, FoundFacts
<1>12. QED
  BY <1>1, <1>2, <1>10, <1>11, OutcomeStarts DEF Relearning, q, r

LEMMA LearnStarts ==
  ASSUME Found, NEW n \in Names, NEW w \in Waves, Put(n, w), ~HasName(ram.slots, n)
  PROVE  Contract!Start
<1>1. Operation /\ pc = "idle" /\ op' = "put" /\ undo' = ram
  BY PutCommits, OperationFacts DEF Found, Put, Commit
<1>2. /\ fault = "NONE" /\ ram.restoring = FALSE /\ n \in ValidNames
      /\ ~(ram.next_command_id > COMMAND_ID_LAST)
  BY FoundFacts DEF Put, PutVerdict, Writable, read_only, Registry
<1> DEFINE i == ram.next_command_id
           c == [command_id |-> i, name |-> n, wave |-> w]
           q == View(ram, fault)
           r == View(ram', "NONE")
<1>3. i \in 1..COMMAND_ID_LAST
  BY <1>2, FoundFacts DEF Proper
<1>4. PICK s \in Slots : /\ IsFirstFree(ram.slots, s) /\ target' = s
                         /\ ram' = [ram EXCEPT !.slots[s] = c, !.next_command_id = @ + 1,
                                                !.revision = @ + 1]
  BY DEF Put, Commit
<1>5. ~Occupied(ram.slots[s])
  BY <1>4 DEF IsFirstFree, FreeSlots
<1>6. /\ ram'.slots = [ram.slots EXCEPT ![s] = c]
      /\ ram'.next_command_id = i + 1 /\ ram'.revision = ram.revision + 1
      /\ ram'.bridge_id = ram.bridge_id /\ ram'.restoring = FALSE
  BY <1>2, <1>4, FoundFacts DEF Registry
<1>7. /\ NamesOf(ram'.slots) = [NamesOf(ram.slots) EXCEPT ![i] = n]
      /\ Contract!Count(NamesOf(ram.slots)) < MaxSlots
  BY <1>2, <1>3, <1>5, <1>6, AddedName
<1>8. n \notin Contract!NamesIn(NamesOf(ram.slots)) /\ i \in Contract!Ids
  BY <1>3, FoundFacts DEF Contract!Ids
<1>9. /\ Follows(q, r)
      /\ q.id = ram.bridge_id /\ q.restoring = FALSE /\ q.next = i
      /\ q.rev = ram.revision /\ q.names = NamesOf(ram.slots)
      /\ r.id = q.id /\ r.restoring = FALSE /\ r.next = q.next + 1 /\ r.rev = q.rev + 1
      /\ r.names = [q.names EXCEPT ![q.next] = n]
  BY <1>2, <1>6, <1>7, Views
<1>10. ~Relearning'
  BY <1>1, <1>4, <1>5 DEF Relearning
<1> HIDE DEF q, r, c, i
<1>11. r \in Contract!Outcomes(q)
  BY <1>2, <1>7, <1>8, <1>9, LearnedOutcome
<1>12. ram'.revision > ram.revision
  BY <1>6, FoundFacts
<1>13. QED
  BY <1>1, <1>2, <1>10, <1>11, <1>12, OutcomeStarts DEF q, r

LEMMA RelearnStarts ==
  ASSUME Found, NEW n \in Names, NEW w \in Waves, Put(n, w), HasName(ram.slots, n)
  PROVE  Contract!Start
<1>1. Operation /\ pc = "idle" /\ op' = "put" /\ undo' = ram
  BY PutCommits, OperationFacts DEF Found, Put, Commit
<1>2. fault = "NONE" /\ ram.restoring = FALSE
  BY FoundFacts DEF Put, PutVerdict, Writable, read_only, Registry
<1> DEFINE s == SlotOfName(ram.slots, n)
           i == ram.slots[s].command_id
           c == [ram.slots[s] EXCEPT !.wave = w]
           q == View(ram, fault)
           r == View(ram', "NONE")
<1>3. s \in Slots /\ Occupied(ram.slots[s]) /\ ram.slots[s] \in Command
  BY FoundFacts, FoundByName
<1>4. ram' = [ram EXCEPT !.slots[s].wave = w, !.revision = @ + 1] /\ target' = s
  BY DEF Put, Commit
<1> HIDE DEF s
<1>5. c \in Command /\ c.command_id = i /\ c.name = ram.slots[s].name /\ c # Free
  BY <1>3 DEF Command, Occupied, Free, COMMAND_ID_NONE
<1>6. /\ ram'.slots = [ram.slots EXCEPT ![s] = c]
      /\ ram'.next_command_id = ram.next_command_id /\ ram'.revision = ram.revision + 1
      /\ ram'.bridge_id = ram.bridge_id /\ ram'.restoring = FALSE
  BY <1>2, <1>3, <1>4, FoundFacts DEF Registry
<1> HIDE DEF c
<1>7. i \in Contract!Listed(NamesOf(ram.slots)) /\ i \in 1..COMMAND_ID_LAST
  BY <1>3, FoundFacts, Listing DEF Ids, Taken
<1>8. NamesOf(ram'.slots) = NamesOf(ram.slots)
  <2>1. NamesOf(ram'.slots) = [NamesOf(ram.slots) EXCEPT ![i] = ram.slots[s].name]
    BY <1>3, <1>5, <1>6, <1>7, FoundFacts, OneNameChanges
  <2>2. NamesOf(ram.slots)[i] = ram.slots[s].name
    BY <1>3, <1>7, FoundFacts, NameAt
  <2>3. NamesOf(ram.slots) = [j \in 1..COMMAND_ID_LAST |-> NamesOf(ram.slots)[j]]
    BY DEF NamesOf
  <2>4. QED
    BY <2>1, <2>2, <2>3
<1>9. /\ Follows(q, r)
      /\ q.id = ram.bridge_id /\ q.restoring = FALSE /\ q.next = ram.next_command_id
      /\ q.rev = ram.revision /\ q.names = NamesOf(ram.slots)
      /\ r.id = q.id /\ r.restoring = FALSE /\ r.next = q.next /\ r.rev = q.rev + 1
      /\ r.names = q.names
  BY <1>2, <1>6, <1>8, Views
<1>10. Relearning' /\ undo'.slots[target'].command_id = i
  BY <1>1, <1>3, <1>4, ConstantsAssumption DEF Relearning, Slots
<1> HIDE DEF q, r, i
<1>11. Contract!Writable(q) /\ r = Contract!Advanced(q)
  BY <1>9, AdvancedOutcome
<1>12. QED
  BY <1>1, <1>7, <1>9, <1>10, <1>11, OperationStarts DEF q, r

-----------------------------------------------------------------------------
(* Flash, as the contract knows it *)

\* A registry nobody could read looks the same whatever the fault.
LEMMA UnreadView ==
  /\ Unreadable = Contract!Unread
  /\ \A f : f # "NONE" => View(Blank, f) = Contract!Unread
<1>1. Blank.slots = NoCommands
  BY DEF Blank
<1>2. QED
  BY <1>1, NothingListed DEF Unreadable, View, Blank, COMMAND_ID_FIRST, Contract!Unread

\* A board that is off, or that is saving its first identity, shows and does nothing.
LEMMA Quiet ==
  ASSUME Phase = "off" \/ Phase = "idle"
  PROVE  Doing = Contract!Nought /\ (Phase = "off" => Shown = Contract!Unread)
BY UnreadView DEF Doing, Shown, Contract!Nought, Contract!Operation, COMMAND_ID_NONE

\* When flash can be read, and what the contract says of it when it cannot.
FlashReads == HeaderFault = "NONE" /\ header.kind = "valid"

\* Records nobody can read.
LEMMA UnreadFlash ==
  ASSUME ~FlashReads
  PROVE  OnFlash = IF header.kind = "missing" THEN Contract!None ELSE Contract!Broken
BY UnreadView DEF FlashReads, OnFlash, Contract!None, Contract!Broken

\* The two ways in which a command of the index does not come back from a boot.
LEMMA LostAndHidden ==
  /\ \A i : i \in LostOnFlash <=>
       \E s \in Taken(index.reg.slots) :
          index.reg.slots[s].command_id = i /\ payload[s] # index.reg.slots[s].wave
  /\ \A i : i \in HiddenOnFlash <=>
       \E s \in Taken(index.reg.slots) :
          index.reg.slots[s].command_id = i /\ ~Fits(cfg, s, index.reg.slots[s])
BY DEF LostOnFlash, HiddenOnFlash

\* The commands of the index, each under its own id.
LEMMA IndexFacts ==
  ASSUME TypeOK, RegistryWellFormed, ContractInv
  PROVE  /\ index.reg \in Registry /\ WellFormed(index.reg) /\ Proper(index.reg)
         /\ index.reg.slots \in [Slots -> Command]
         /\ Contract!Listed(NamesOf(index.reg.slots)) = Ids(index.reg.slots)
         /\ Ids(index.reg.slots) \subseteq 1..COMMAND_ID_LAST
         /\ \A s, t \in Taken(index.reg.slots) :
              index.reg.slots[s].command_id = index.reg.slots[t].command_id => s = t
<1>1. index.reg \in Registry /\ WellFormed(index.reg) /\ Proper(index.reg)
  BY DEF TypeOK, RegistryWellFormed, ContractInv
<1>2. index.reg.slots \in [Slots -> Command]
  BY <1>1 DEF Registry
<1>3. QED
  BY <1>1, <1>2, Listing DEF WellFormed

\* Another waveform in the record of a command, or the right one.
LEMMA PayloadChanges ==
  ASSUME TypeOK, RegistryWellFormed, ContractInv, FlashReads,
         index' = index, header' = header, cfg' = cfg,
         NEW s \in Taken(index.reg.slots), NEW w, payload' = [payload EXCEPT ![s] = w]
  PROVE  LET i == index.reg.slots[s].command_id
         IN  /\ i \in Contract!Listed(OnFlash.reg.names) /\ i \in Contract!Ids
             /\ OnFlash' = IF w = index.reg.slots[s].wave
                           THEN [OnFlash EXCEPT !.lost = @ \ {i}]
                           ELSE [OnFlash EXCEPT !.lost = @ \cup {i}]
<1> DEFINE i == index.reg.slots[s].command_id
<1>1. FlashReads'
  BY DEF FlashReads, HeaderFault
<1>2. /\ OnFlash = [kind |-> "good", reg |-> View(index.reg, "NONE"), lost |-> LostOnFlash,
                    hidden |-> HiddenOnFlash]
      /\ OnFlash' = [kind |-> "good", reg |-> View(index.reg, "NONE"), lost |-> LostOnFlash',
                     hidden |-> HiddenOnFlash]
  BY <1>1 DEF OnFlash, FlashReads, HiddenOnFlash, Fits
<1>3. OnFlash.reg.names = NamesOf(index.reg.slots)
  BY <1>2 DEF View
<1>4. i \in Contract!Listed(OnFlash.reg.names) /\ i \in Contract!Ids
  BY <1>3, IndexFacts DEF Ids, Contract!Ids
<1>5. payload \in [Slots -> Waves \cup {NoWave}] /\ Taken(index.reg.slots) \subseteq Slots
  BY DEF TypeOK, Taken
<1>6. \A t \in Taken(index.reg.slots) : payload'[t] = IF t = s THEN w ELSE payload[t]
  BY <1>5
<1>7. \A j : j \in LostOnFlash' <=>
         \E t \in Taken(index.reg.slots) :
            index.reg.slots[t].command_id = j /\ payload'[t] # index.reg.slots[t].wave
  BY DEF LostOnFlash
<1>8. \A t \in Taken(index.reg.slots) : index.reg.slots[t].command_id = i => t = s
  BY IndexFacts
<1>9. CASE w = index.reg.slots[s].wave
  <2>1. LostOnFlash' = LostOnFlash \ {i}
    BY <1>6, <1>7, <1>8, <1>9, LostAndHidden
  <2>2. QED
    BY <1>2, <1>4, <1>9, <2>1
<1>10. CASE w # index.reg.slots[s].wave
  <2>1. LostOnFlash' = LostOnFlash \cup {i}
    BY <1>6, <1>7, <1>8, <1>10, LostAndHidden
  <2>2. QED
    BY <1>2, <1>4, <1>10, <2>1
<1>11. QED
  BY <1>9, <1>10

\* The record of a slot that the index does not use, or that nobody reads.
LEMMA PayloadUnread ==
  ASSUME TypeOK, index' = index, header' = header, cfg' = cfg,
         NEW s \in Slots, NEW w, payload' = [payload EXCEPT ![s] = w],
         ~FlashReads \/ s \notin Taken(index.reg.slots)
  PROVE  OnFlash' = OnFlash
<1>1. HeaderFault' = HeaderFault /\ HiddenOnFlash' = HiddenOnFlash
  BY DEF HeaderFault, HiddenOnFlash, Fits
<1>2. CASE ~FlashReads
  BY <1>1, <1>2 DEF FlashReads, OnFlash
<1>3. CASE s \notin Taken(index.reg.slots)
  <2>1. \A t \in Taken(index.reg.slots) : payload'[t] = payload[t]
    BY <1>3 DEF TypeOK, Taken
  <2>2. LostOnFlash' = LostOnFlash
    BY <2>1 DEF LostOnFlash
  <2>3. QED
    BY <1>1, <2>2 DEF OnFlash
<1>4. QED
  BY <1>2, <1>3

\* What is known of the store at a step of the proof.
Sound == /\ TypeOK /\ RegistryWellFormed /\ TidyInv /\ ContractInv
         /\ SavesWhileReadOnly /\ RecoveryInv

\* Before its first save a board has no header: flash amounts to nothing, whatever is saved.
LEMMA NoHeader ==
  ASSUME header.kind = "missing"
  PROVE  OnFlash = Contract!None /\ Resizing = FALSE
BY UnreadFlash DEF FlashReads, Resizing

\* A save before the last one is over changes nothing but flash.
LEMMA OnlyFlashChanges ==
  ASSUME Saving, Saving', header' = header,
         UNCHANGED <<cfg, ram, fault, op, target, undo, failed>>
  PROVE  /\ UNCHANGED <<cfg, Phase, Shown, Doing, Resizing, failed # "none">>
         /\ Phase \in {"saving", "off"}
BY DEF Saving, Phase, Shown, Doing, Resizing, Relearning

\* The payload is saved first: the index may still name what was in its place.
LEMMA SavePayloadKeeps ==
  ASSUME Sound, SavePayload
  PROVE  [Contract!Next]_Contract!vars
<1>1. /\ payload' = [payload EXCEPT ![target] = ram.slots[target].wave] /\ target \in Slots
      /\ index' = index /\ header' = header /\ cfg' = cfg /\ pc = "payload" /\ pc' = "index"
      /\ UNCHANGED <<cfg, ram, fault, op, target, undo, failed>>
  BY DEF SavePayload, Sound, TypeOK
<1>2. Saving /\ Saving'
  BY <1>1 DEF Saving
<1>3. /\ UNCHANGED <<cfg, Phase, Shown, Doing, Resizing, failed # "none">>
      /\ Phase \in {"saving", "off"}
  BY <1>1, <1>2, OnlyFlashChanges
<1>4. CASE op = "begin"
  <2>1. header.kind = "missing"
    BY <1>2, <1>4 DEF Sound, ContractInv
  <2>2. OnFlash' = OnFlash
    BY <1>1, <2>1, UnreadFlash DEF FlashReads, OnFlash
  <2>3. QED
    BY <1>3, <2>2 DEF Contract!vars
<1>5. CASE ~FlashReads \/ target \notin Taken(index.reg.slots)
  <2>1. OnFlash' = OnFlash
    BY <1>1, <1>5, PayloadUnread DEF Sound
  <2>2. QED
    BY <1>3, <2>1 DEF Contract!vars
<1>6. CASE op # "begin" /\ FlashReads /\ target \in Taken(index.reg.slots)
  <2> DEFINE i == index.reg.slots[target].command_id
  <2>1. /\ i \in Contract!Listed(OnFlash.reg.names) /\ i \in Contract!Ids
        /\ OnFlash' \in {[OnFlash EXCEPT !.lost = @ \cup {i}], [OnFlash EXCEPT !.lost = @ \ {i}]}
    BY <1>1, <1>6, PayloadChanges DEF Sound
  <2>2. Phase = "saving"
    BY <1>2, <1>6 DEF Phase, Saving
  <2>3. failed # "none" \/ i = Doing.relearns \/ i \in OnFlash.hidden
    <3> SUFFICES ASSUME failed = "none", i \notin OnFlash.hidden PROVE i = Doing.relearns
      OBVIOUS
    <3>1. /\ Reading = [fault |-> fault, reg |-> undo] /\ op \in {"put", "import_command"}
          /\ op = "import_command" => ~Occupied(undo.slots[target])
      BY <1>1 DEF Sound, RecoveryInv, Recoverable
    <3>2. fault = "NONE"
      BY <1>1, <3>1 DEF Sound, SavesWhileReadOnly, read_only
    <3>3. Fits(cfg, target, index.reg.slots[target])
      <4>1. OnFlash.hidden = HiddenOnFlash
        BY <1>6 DEF OnFlash, FlashReads
      <4>2. QED
        BY <1>6, <4>1, LostAndHidden
    <3>4. undo.slots[target] = index.reg.slots[target] /\ Occupied(undo.slots[target])
      BY <1>6, <3>1, <3>2, <3>3, NothingLost DEF Sound, Taken
    <3>5. op = "put" /\ target # 0
      BY <1>1, <3>1, <3>4, ConstantsAssumption DEF Slots
    <3>6. Relearning
      BY <3>4, <3>5 DEF Relearning
    <3>7. Doing.relearns = undo.slots[target].command_id
      BY <2>2, <3>6 DEF Doing
    <3>8. QED
      BY <3>4, <3>7
  <2> HIDE DEF i
  <2>4. Contract!Overwrite(i)
    BY <2>1, <2>3 DEF Contract!Overwrite
  <2>5. Contract!Save
    BY <1>3, <2>1, <2>2, <2>4 DEF Contract!Save
  <2>6. QED
    BY <2>5 DEF Contract!Next
<1>7. QED
  BY <1>4, <1>5, <1>6

\* Index and header of the registry in RAM on flash: it is held, and nothing is hidden.
LEMMA RamOnFlash ==
  ASSUME Sound, pc \in {"index", "header"}, failed' = failed, cfg' = cfg, payload' = payload,
         index' = [slot_count |-> cfg.max_commands, reg |-> ram],
         header'.kind = "valid", header'.slot_count = cfg.max_commands
  PROVE  /\ \E lost \in SUBSET Contract!Listed(NamesOf(ram.slots)) :
              /\ failed # "none" \/ lost = {}
              /\ OnFlash' = Contract!Good(View(ram, "NONE"), lost)
         /\ Resizing' = FALSE
<1>1. /\ index'.reg = ram /\ index'.slot_count = header'.slot_count
      /\ ram \in Registry /\ WellFormed(ram) /\ Proper(ram)
  BY DEF Sound, TypeOK, RegistryWellFormed, ContractInv
<1>2. HeaderFault' = "NONE"
  BY <1>1 DEF HeaderFault
<1>3. HiddenOnFlash' = {}
  <2>1. \A s \in Taken(ram.slots) : Fits(cfg, s, ram.slots[s])
    BY DEF Sound, ContractInv, Fitting
  <2>2. QED
    BY <1>1, <2>1 DEF HiddenOnFlash, Fits
<1>4. LostOnFlash' \subseteq Ids(ram.slots)
  BY <1>1 DEF LostOnFlash, Ids
<1>5. failed = "none" => LostOnFlash' = {}
  <2> SUFFICES ASSUME failed = "none" PROVE LostOnFlash' = {}
    OBVIOUS
  <2>1. \A s \in Taken(ram.slots) : payload[s] = ram.slots[s].wave
    BY DEF Sound, RecoveryInv, Recoverable, Holds
  <2>2. QED
    BY <1>1, <2>1 DEF LostOnFlash
<1>6. LostOnFlash' \in SUBSET Contract!Listed(NamesOf(ram.slots))
  BY <1>1, <1>4, Listing
<1>7. OnFlash' = Contract!Good(View(ram, "NONE"), LostOnFlash')
  BY <1>1, <1>2, <1>3 DEF OnFlash, Contract!Good, View
<1>8. QED
  BY <1>5, <1>6, <1>7 DEF Resizing

\* The index decides what a boot reads, if a header of the same length is there already.
LEMMA SaveIndexKeeps ==
  ASSUME Sound, SaveIndex
  PROVE  [Contract!Next]_Contract!vars
<1>1. /\ index' = [slot_count |-> cfg.max_commands, reg |-> ram] /\ payload' = payload
      /\ header' = header /\ pc = "index" /\ pc' = "header"
      /\ UNCHANGED <<cfg, ram, fault, op, target, undo, failed>>
  BY DEF SaveIndex
<1>2. Saving /\ Saving'
  BY <1>1 DEF Saving
<1>3. /\ UNCHANGED <<cfg, Phase, Shown, Doing, Resizing, failed # "none">>
      /\ Phase \in {"saving", "off"}
  BY <1>1, <1>2, OnlyFlashChanges
<1>4. CASE header.kind # "valid"
  <2>1. OnFlash' = OnFlash
    BY <1>1, <1>4 DEF OnFlash
  <2>2. QED
    BY <1>3, <2>1 DEF Contract!vars
<1>5. CASE header.kind = "valid"
  <2>1. Phase = "saving"
    BY <1>1, <1>2, <1>5 DEF Sound, ContractInv, Phase
  <2>2. Doing.to = View(ram, "NONE")
    BY <2>1 DEF Doing
  <2>3. Contract!Store
    <3>1. CASE Resizing
      <4>1. HeaderFault' # "NONE"
        BY <1>1, <1>5, <3>1 DEF HeaderFault, Resizing
      <4>2. OnFlash' = Contract!Broken
        BY <1>1, <1>5, <4>1, UnreadView DEF OnFlash, Contract!Broken
      <4>3. QED
        BY <3>1, <4>2 DEF Contract!Store
    <3>2. CASE ~Resizing
      <4>1. header.slot_count = cfg.max_commands
        BY <1>5, <3>2 DEF Resizing
      <4>2. \E lost \in SUBSET Contract!Listed(NamesOf(ram.slots)) :
              /\ failed # "none" \/ lost = {}
              /\ OnFlash' = Contract!Good(View(ram, "NONE"), lost)
        BY <1>1, <1>5, <4>1, RamOnFlash
      <4>3. Doing.to.names = NamesOf(ram.slots)
        BY <2>2 DEF View
      <4>4. Contract!Holds(Doing.to)
        BY <2>2, <4>2, <4>3 DEF Contract!Holds
      <4>5. QED
        BY <3>2, <4>4 DEF Contract!Store
    <3>3. QED
      BY <3>1, <3>2
  <2>4. Contract!Save
    BY <1>3, <2>1, <2>3 DEF Contract!Save
  <2>5. QED
    BY <2>4 DEF Contract!Next
<1>6. QED
  BY <1>4, <1>5

\* The first save of a board: it answers with an identity, saved or not.
LEMMA FirstIdentity ==
  ASSUME Sound, Saving, op = "begin"
  PROVE  /\ Phase = "off" /\ fault = "NONE" /\ failed = "none"
         /\ OnFlash = Contract!None /\ Resizing = FALSE
         /\ \E b \in BridgeIds \cup {ZeroId} :
              ram = Minted(b) /\ View(ram, "NONE") = Contract!Minted(b)
<1>1. /\ header.kind = "missing" /\ failed = "none" /\ fault = "NONE"
      /\ \E b \in BridgeIds \cup {ZeroId} : ram = Minted(b)
  BY DEF Sound, ContractInv
<1>2. \A b : View(Minted(b), "NONE") = Contract!Minted(b)
  BY NothingListed DEF View, Minted, Blank, COMMAND_ID_FIRST, REVISION_INITIAL, Contract!Minted
<1>3. Phase = "off"
  BY DEF Phase, Saving
<1>4. QED
  BY <1>1, <1>2, <1>3, NoHeader

\* The last save completes the operation, or the first boot.
LEMMA SaveHeaderKeeps ==
  ASSUME Sound, SaveHeader
  PROVE  [Contract!Next]_Contract!vars
<1>1. /\ header' = [kind |-> "valid", slot_count |-> cfg.max_commands]
      /\ fault' = IF op = "factory_reset" THEN "NONE" ELSE fault
      /\ pc = "header" /\ pc' = "idle" /\ cfg' = cfg /\ ram' = ram /\ failed' = failed
      /\ index' = index /\ payload' = payload
  BY DEF SaveHeader, Return
<1>2. index' = [slot_count |-> cfg.max_commands, reg |-> ram]
  BY <1>1 DEF Sound, ContractInv
<1>3. /\ \E lost \in SUBSET Contract!Listed(NamesOf(ram.slots)) :
           /\ failed # "none" \/ lost = {}
           /\ OnFlash' = Contract!Good(View(ram, "NONE"), lost)
      /\ Resizing' = FALSE
  BY <1>1, <1>2, RamOnFlash
<1>4. fault' = "NONE"
  BY <1>1 DEF Sound, SavesWhileReadOnly, read_only
<1>5. Saving /\ Phase' = "idle" /\ Shown' = View(ram, "NONE")
  BY <1>1, <1>4 DEF Phase, Shown, Saving
<1>6. Doing' = Contract!Nought
  BY <1>5, UnreadView DEF Doing, Contract!Nought, Contract!Operation, COMMAND_ID_NONE
<1>7. CASE op # "begin"
  <2>1. Phase = "saving"
    BY <1>1, <1>5, <1>7 DEF Phase
  <2>2. Doing.to = View(ram, "NONE") /\ Doing.to.names = NamesOf(ram.slots)
    BY <2>1 DEF Doing, View
  <2>3. Contract!Holds(Doing.to)
    BY <1>3, <2>2 DEF Contract!Holds
  <2>4. Contract!Complete
    BY <1>1, <1>3, <1>5, <1>6, <2>1, <2>2, <2>3 DEF Contract!Complete
  <2>5. QED
    BY <2>4 DEF Contract!Next
<1>8. CASE op = "begin"
  <2>1. /\ Phase = "off" /\ failed = "none" /\ OnFlash = Contract!None /\ Resizing = FALSE
        /\ \E b \in BridgeIds \cup {ZeroId} : View(ram, "NONE") = Contract!Minted(b)
    BY <1>5, <1>8, FirstIdentity
  <2>2. PICK b \in BridgeIds \cup {ZeroId} : View(ram, "NONE") = Contract!Minted(b)
    BY <2>1
  <2>3. Doing = Contract!Nought
    BY <2>1, Quiet
  <2>4. OnFlash' = Contract!Good(Contract!Minted(b), {})
    BY <1>3, <2>1, <2>2
  <2>5. OnFlash.kind = "none"
    BY <2>1 DEF Contract!None
  <2>6. Contract!FirstBoot(b)
    BY <1>1, <1>3, <1>5, <1>6, <2>1, <2>2, <2>3, <2>4, <2>5 DEF Contract!FirstBoot
  <2>7. QED
    BY <2>6 DEF Contract!Next
<1>9. QED
  BY <1>7, <1>8

\* A failed save gives the operation up; a factory reset, and a first boot, cannot be.
LEMMA SaveFailsKeeps ==
  ASSUME Sound, SaveFails
  PROVE  [Contract!Next]_Contract!vars
<1>1. /\ failed' # "none" /\ pc' = "idle" /\ cfg' = cfg /\ fault' = fault
      /\ ram' = IF op \in {"begin", "factory_reset"} THEN ram ELSE undo
      /\ index' = index /\ payload' = payload /\ header' = header
  BY DEF SaveFails, Return, flash
<1>2. Saving /\ Phase' = "idle" /\ Shown' = View(ram', fault)
  BY <1>1 DEF SaveFails, Phase, Shown, Saving
<1>3. Doing' = Contract!Nought
  BY <1>2, UnreadView DEF Doing, Contract!Nought, Contract!Operation, COMMAND_ID_NONE
<1>4. OnFlash' = OnFlash /\ Resizing' = Resizing
  BY <1>1 DEF OnFlash, HeaderFault, LostOnFlash, HiddenOnFlash, Fits, Resizing
<1>5. CASE op # "begin"
  <2>1. Phase = "saving"
    BY <1>2, <1>5 DEF Phase, Saving
  <2>2. /\ Shown = View(undo, fault) /\ Doing.to = View(ram, "NONE")
        /\ Doing.resets = (op = "factory_reset")
    BY <2>1 DEF Shown, Doing
  <2>3. Shown' = IF Doing.resets THEN [Doing.to EXCEPT !.readOnly = Shown.readOnly] ELSE Shown
    <3>1. CASE op = "factory_reset"
      <4>1. View(ram, fault) = [View(ram, "NONE") EXCEPT !.readOnly = View(undo, fault).readOnly]
        BY DEF View
      <4>2. Shown' = View(ram, fault) /\ Doing.resets
        BY <1>1, <1>2, <2>2, <3>1
      <4>3. QED
        BY <2>2, <4>1, <4>2
    <3>2. CASE op # "factory_reset"
      BY <1>1, <1>2, <1>5, <2>2, <3>2
    <3>3. QED
      BY <3>1, <3>2
  <2>4. Contract!Fail
    BY <1>1, <1>2, <1>3, <1>4, <2>1, <2>3 DEF Contract!Fail
  <2>5. QED
    BY <2>4 DEF Contract!Next
<1>6. CASE op = "begin"
  <2>1. /\ Phase = "off" /\ fault = "NONE" /\ failed = "none"
        /\ OnFlash = Contract!None /\ Resizing = FALSE
        /\ \E b \in BridgeIds \cup {ZeroId} : View(ram, "NONE") = Contract!Minted(b)
    BY <1>2, <1>6, FirstIdentity
  <2>2. PICK b \in BridgeIds \cup {ZeroId} : Shown' = Contract!Minted(b)
    BY <1>1, <1>2, <1>6, <2>1
  <2>3. Doing = Contract!Nought /\ OnFlash.kind = "none"
    BY <2>1, Quiet DEF Contract!None
  <2>4. Contract!FirstBoot(b)
    BY <1>1, <1>2, <1>3, <1>4, <2>1, <2>2, <2>3 DEF Contract!FirstBoot
  <2>5. QED
    BY <2>4 DEF Contract!Next
<1>7. QED
  BY <1>5, <1>6

\* RAM is gone; what is on flash is what it was.
LEMMA PowerCutKeeps ==
  ASSUME Sound, PowerCut
  PROVE  [Contract!Next]_Contract!vars
<1>1. /\ pc' = "off" /\ failed' = "none" /\ cfg' = cfg
      /\ index' = index /\ payload' = payload /\ header' = header
  BY DEF PowerCut, flash
<1>2. Phase' = "off" /\ Shown' = Contract!Unread
  BY <1>1, UnreadView DEF Phase, Shown, Saving
<1>3. Doing' = Contract!Nought
  BY <1>2, UnreadView DEF Doing, Contract!Nought, Contract!Operation, COMMAND_ID_NONE
<1>4. OnFlash' = OnFlash /\ Resizing' = Resizing
  BY <1>1 DEF OnFlash, HeaderFault, LostOnFlash, HiddenOnFlash, Fits, Resizing
<1>5. CASE Phase # "off"
  <2>1. Contract!PowerCut
    BY <1>1, <1>2, <1>3, <1>4, <1>5 DEF Contract!PowerCut
  <2>2. QED
    BY <2>1 DEF Contract!Next
<1>6. CASE Phase = "off"
  <2>1. Saving /\ op = "begin"
    BY <1>6 DEF Sound, TypeOK, PowerCut, Phase, Saving
  <2>2. failed = "none"
    BY <2>1, FirstIdentity
  <2>3. Doing = Contract!Nought /\ Shown = Contract!Unread
    BY <1>6, Quiet
  <2>4. QED
    BY <1>1, <1>2, <1>3, <1>4, <1>6, <2>2, <2>3 DEF Contract!vars
<1>7. QED
  BY <1>5, <1>6

-----------------------------------------------------------------------------
(* Boots, and records that go bad *)

\* A registry that is shown without some of its names, and perhaps read-only.
LEMMA Damaging ==
  ASSUME NEW q, Shape(q), NEW r, Shape(r), NEW x, NEW y,
         r.id = q.id, r.restoring = q.restoring, r.next = q.next, r.rev = q.rev,
         r.readOnly = x, r.names = y
  PROVE  r = [q EXCEPT !.readOnly = x, !.names = y]
BY DEF Shape

\* What a boot under configuration c makes of records that can be read.
LEMMA Rebooted ==
  ASSUME Sound, FlashReads, NEW c \in Configs, cfg' = c, index' = index, header' = header,
         payload' = payload
  PROVE  LET shown == View(ReadRegistry(c), ReadFault(c))
             hidden == HiddenOnFlash'
         IN  /\ hidden \subseteq Contract!Listed(OnFlash.reg.names)
             /\ OnFlash' = [OnFlash EXCEPT !.hidden = hidden]
             /\ shown = [OnFlash.reg EXCEPT
                           !.readOnly = @ \/ ~(OnFlash.lost \subseteq hidden),
                           !.names = [i \in Contract!Ids |-> IF i \in hidden \cup OnFlash.lost
                                                             THEN NoName ELSE @[i]]]
<1> DEFINE q == index.reg
           r == ReadRegistry(c)
           hidden == HiddenOnFlash'
           names == [i \in 1..COMMAND_ID_LAST |-> IF i \in hidden \cup LostOnFlash
                                                  THEN NoName ELSE NamesOf(q.slots)[i]]
<1>1. /\ q \in Registry /\ WellFormed(q) /\ q.slots \in [Slots -> Command]
      /\ Contract!Listed(NamesOf(q.slots)) = Ids(q.slots)
      /\ \A s, t \in Taken(q.slots) : q.slots[s].command_id = q.slots[t].command_id => s = t
  BY IndexFacts DEF Sound
<1>2. /\ OnFlash = [kind |-> "good", reg |-> View(q, "NONE"), lost |-> LostOnFlash,
                    hidden |-> HiddenOnFlash]
      /\ OnFlash' = [kind |-> "good", reg |-> View(q, "NONE"), lost |-> LostOnFlash, hidden |-> hidden]
  BY DEF OnFlash, FlashReads, HeaderFault, LostOnFlash
<1>3. \A i : i \in hidden <=>
        \E s \in Taken(q.slots) : q.slots[s].command_id = i /\ ~Fits(c, s, q.slots[s])
  BY DEF HiddenOnFlash, Fits
<1>4. hidden \subseteq Contract!Listed(NamesOf(q.slots))
  BY <1>1, <1>3 DEF Ids
<1>5. /\ r = [q EXCEPT !.slots = [s \in Slots |-> IF Readable(c, s) THEN q.slots[s] ELSE Free]]
      /\ \A s \in Slots : r.slots[s] = IF Readable(c, s) THEN q.slots[s] ELSE Free
      /\ r.bridge_id = q.bridge_id /\ r.restoring = q.restoring /\ r.revision = q.revision
      /\ r.next_command_id = q.next_command_id
  BY <1>1 DEF ReadRegistry, FlashReads, Registry
<1>6. ReadFault(c) # "NONE" <=> ~(LostOnFlash \subseteq hidden)
  <2>1. ReadFault(c) # "NONE" <=>
          \E s \in Taken(q.slots) : Fits(c, s, q.slots[s]) /\ payload[s] # q.slots[s].wave
    BY DEF ReadFault, FlashReads, PayloadFaults
  <2> HIDE DEF q, hidden, r
  <2>2. ASSUME NEW s \in Taken(q.slots), Fits(c, s, q.slots[s]), payload[s] # q.slots[s].wave
        PROVE  ~(LostOnFlash \subseteq hidden)
    <3>1. q.slots[s].command_id \in LostOnFlash
      BY <2>2, LostAndHidden DEF q
    <3>2. q.slots[s].command_id \notin hidden
      BY <1>1, <1>3, <2>2
    <3>3. QED
      BY <3>1, <3>2
  <2>3. ASSUME NEW i \in LostOnFlash, i \notin hidden
        PROVE  \E s \in Taken(q.slots) : Fits(c, s, q.slots[s]) /\ payload[s] # q.slots[s].wave
    BY <1>3, <2>3, LostAndHidden DEF q
  <2>4. QED
    BY <2>1, <2>2, <2>3
<1>7. NamesOf(r.slots) = names
  <2>1. r \in Registry /\ WellFormed(r)
    BY <1>1, ReadIsRegistry, BeginWellFormed DEF Sound, RegistryWellFormed
  <2>2. ASSUME NEW i \in 1..COMMAND_ID_LAST PROVE NamesOf(r.slots)[i] = names[i]
    <3>0. i # 0 /\ Free.command_id = 0
      BY DEF Free, COMMAND_ID_NONE
    <3>1. CASE \E s \in Slots : q.slots[s].command_id = i
      <4>1. PICK s \in Slots : q.slots[s].command_id = i
        BY <3>1
      <4>2. s \in Taken(q.slots) /\ Occupied(q.slots[s])
        BY <3>0, <4>1 DEF Taken, Occupied, COMMAND_ID_NONE
      <4>3. i \in hidden \cup LostOnFlash <=> ~Readable(c, s)
        BY <1>1, <1>3, <4>1, <4>2, LostAndHidden DEF Readable
      <4>4. NamesOf(q.slots)[i] = q.slots[s].name
        BY <1>1, <4>1, NameAt
      <4>5. CASE Readable(c, s)
        <5>1. r.slots[s] = q.slots[s]
          BY <1>5, <4>5
        <5>2. NamesOf(r.slots)[i] = r.slots[s].name
          BY <2>1, <4>1, <5>1, NameAt
        <5>3. QED
          BY <4>3, <4>4, <4>5, <5>1, <5>2
      <4>6. CASE ~Readable(c, s)
        <5>1. \A t \in Slots : r.slots[t].command_id # i
          <6>1. ASSUME NEW t \in Slots, r.slots[t].command_id = i PROVE FALSE
            <7>1. r.slots[t] = q.slots[t] /\ Readable(c, t)
              BY <1>5, <3>0, <6>1
            <7>2. t \in Taken(q.slots)
              BY <7>1 DEF Readable, Taken
            <7>3. QED
              BY <1>1, <4>1, <4>2, <4>6, <6>1, <7>1, <7>2
          <6>2. QED
            BY <6>1
        <5>2. NamesOf(r.slots)[i] = NoName
          BY <2>1, <5>1, NameAt
        <5>3. QED
          BY <4>3, <4>6, <5>2
      <4>7. QED
        BY <4>5, <4>6
    <3>2. CASE \A s \in Slots : q.slots[s].command_id # i
      <4>1. \A s \in Slots : r.slots[s].command_id # i
        BY <1>5, <3>0, <3>2
      <4>2. NamesOf(r.slots)[i] = NoName
        BY <2>1, <4>1, NameAt
      <4>3. NamesOf(q.slots)[i] = NoName
        BY <1>1, <3>2, NameAt
      <4>4. QED
        BY <4>2, <4>3
    <3>3. QED
      BY <3>1, <3>2
  <2>3. NamesOf(r.slots) = [i \in 1..COMMAND_ID_LAST |-> NamesOf(r.slots)[i]]
    BY DEF NamesOf
  <2> HIDE DEF r
  <2>4. QED
    BY <2>2, <2>3
<1> DEFINE from == OnFlash.reg
           shown == View(r, ReadFault(c))
           damage == from.readOnly \/ ~(OnFlash.lost \subseteq hidden)
           left == [i \in Contract!Ids |-> IF i \in hidden \cup OnFlash.lost THEN NoName
                                           ELSE from.names[i]]
<1>8. /\ from = View(q, "NONE") /\ from.names = NamesOf(q.slots) /\ from.readOnly = FALSE
      /\ OnFlash.lost = LostOnFlash /\ OnFlash' = [OnFlash EXCEPT !.hidden = hidden]
  <2>1. from = View(q, "NONE") /\ OnFlash.lost = LostOnFlash
    BY <1>2
  <2>2. View(q, "NONE").names = NamesOf(q.slots) /\ View(q, "NONE").readOnly = FALSE
    BY DEF View
  <2> HIDE DEF hidden, q
  <2>3. OnFlash' = [OnFlash EXCEPT !.hidden = hidden]
    BY <1>2
  <2>4. QED
    BY <2>1, <2>2, <2>3
<1>9. Shape(from) /\ Shape(shown)
  BY <1>8 DEF Shape, View
<1>10. /\ shown.id = from.id /\ shown.restoring = from.restoring /\ shown.next = from.next
       /\ shown.rev = from.rev /\ shown.names = left
  <2>1. names = left
    BY <1>8 DEF Contract!Ids
  <2> HIDE DEF r, q, names, left
  <2>2. QED
    BY <1>5, <1>7, <1>8, <2>1 DEF View
<1>11. shown.readOnly = damage
  <2>1. shown.readOnly = (ReadFault(c) # "NONE")
    BY DEF View
  <2>2. damage = ~(LostOnFlash \subseteq hidden)
    BY <1>8
  <2> HIDE DEF shown, damage, hidden
  <2>3. QED
    BY <1>6, <2>1, <2>2
<1> HIDE DEF shown, damage, left, from, hidden
<1>12. shown = [from EXCEPT !.readOnly = damage, !.names = left]
  BY <1>9, <1>10, <1>11, Damaging
<1>13. hidden \subseteq Contract!Listed(from.names)
  BY <1>4, <1>8
<1>14. QED
  BY <1>8, <1>12, <1>13 DEF shown, damage, left, from, hidden

\* While the board is off the contract's board is.
LEMMA Off ==
  ASSUME pc = "off"
  PROVE  Phase = "off" /\ Shown = Contract!Unread /\ Doing = Contract!Nought
BY UnreadView, Quiet DEF Phase, Saving, Shown

\* A boot that finds a header.
LEMMA BeginKeeps ==
  ASSUME Sound, NEW c \in Configs, Begin(c)
  PROVE  [Contract!Next]_Contract!vars
<1>1. /\ pc = "off" /\ pc' = "idle" /\ header.kind # "missing" /\ cfg' = c
      /\ ram' = ReadRegistry(c) /\ fault' = ReadFault(c)
      /\ index' = index /\ payload' = payload /\ header' = header /\ failed' = failed
  BY DEF Begin, flash
<1>2. /\ Phase = "off" /\ Phase' = "idle" /\ Shown' = View(ReadRegistry(c), ReadFault(c))
      /\ Doing = Contract!Nought
  BY <1>1, Off DEF Phase, Shown
<1>3. Doing' = Contract!Nought
  BY <1>2, UnreadView DEF Doing, Contract!Nought, Contract!Operation, COMMAND_ID_NONE
<1>4. Resizing' \in BOOLEAN /\ (c = cfg => Resizing' = Resizing)
  BY <1>1 DEF Resizing
<1>5. OnFlash.kind # "none"
  BY <1>1 DEF OnFlash
<1>6. \E hidden \in SUBSET Contract!Listed(OnFlash.reg.names) :
        /\ c = cfg => hidden = OnFlash.hidden
        /\ OnFlash' = [OnFlash EXCEPT !.hidden = hidden]
        /\ Shown' = [OnFlash.reg EXCEPT
                       !.readOnly = @ \/ ~(OnFlash.lost \subseteq hidden),
                       !.names = [i \in Contract!Ids |-> IF i \in hidden \cup OnFlash.lost
                                                         THEN NoName ELSE @[i]]]
  <2>1. CASE FlashReads
    <3>1. c = cfg => HiddenOnFlash' = OnFlash.hidden
      <4>1. OnFlash.hidden = HiddenOnFlash
        BY <2>1 DEF FlashReads, OnFlash
      <4>2. c = cfg => HiddenOnFlash' = HiddenOnFlash
        BY <1>1 DEF HiddenOnFlash, Fits
      <4>3. QED
        BY <4>1, <4>2
    <3> DEFINE hidden == HiddenOnFlash'
    <3>2. /\ hidden \subseteq Contract!Listed(OnFlash.reg.names)
          /\ OnFlash' = [OnFlash EXCEPT !.hidden = hidden]
          /\ View(ReadRegistry(c), ReadFault(c)) =
               [OnFlash.reg EXCEPT
                  !.readOnly = @ \/ ~(OnFlash.lost \subseteq hidden),
                  !.names = [i \in Contract!Ids |-> IF i \in hidden \cup OnFlash.lost
                                                    THEN NoName ELSE @[i]]]
      BY <1>1, <2>1, Rebooted
    <3> HIDE DEF hidden
    <3>3. QED
      BY <1>2, <3>1, <3>2 DEF hidden
  <2>2. CASE ~FlashReads
    <3>1. OnFlash = Contract!Broken
      BY <1>1, <2>2, UnreadFlash
    <3>2. OnFlash' = Contract!Broken
      BY <1>1, <2>2, UnreadView DEF FlashReads, HeaderFault, OnFlash, Contract!Broken
    <3>3. HeaderFault # "NONE"
      BY <1>1, <2>2 DEF FlashReads, HeaderFault, Sound, TypeOK
    <3>4. Shown' = Contract!Unread
      BY <1>2, <3>3, UnreadView DEF ReadRegistry, ReadFault
    <3>5. /\ OnFlash.reg = Contract!Unread /\ OnFlash.lost = {} /\ OnFlash.hidden = {}
          /\ [OnFlash EXCEPT !.hidden = {}] = Contract!Broken
      BY <3>1 DEF Contract!Broken
    <3> DEFINE from == OnFlash.reg
               hidden == {}
               damage == from.readOnly \/ ~(OnFlash.lost \subseteq hidden)
               left == [i \in Contract!Ids |-> IF i \in hidden \cup OnFlash.lost THEN NoName
                                               ELSE from.names[i]]
    <3>6. Shape(from) /\ from.readOnly = TRUE /\ from.names = [i \in Contract!Ids |-> NoName]
      BY <3>5 DEF Shape, Contract!Unread, Contract!Nothing
    <3>7. from.names = left
      BY <3>5, <3>6
    <3>8. from.readOnly = damage
      BY <3>6
    <3> HIDE DEF damage, left
    <3>9. from = [from EXCEPT !.readOnly = damage, !.names = left]
      BY <3>6, <3>7, <3>8, Damaging
    <3>10. Shown' = from /\ hidden \in SUBSET Contract!Listed(from.names) /\ hidden = OnFlash.hidden
      BY <3>4, <3>5
    <3>11. OnFlash' = [OnFlash EXCEPT !.hidden = hidden]
      BY <3>2, <3>5
    <3> HIDE DEF from, hidden
    <3>12. QED
      BY <3>9, <3>10, <3>11 DEF damage, left, from
  <2>3. QED
    BY <2>1, <2>2
<1>7. Contract!Boot(c)
  BY <1>1, <1>2, <1>3, <1>4, <1>5, <1>6 DEF Contract!Boot
<1>8. QED
  BY <1>7 DEF Contract!Next

\* A boot that finds none draws an identity, which nobody sees yet.
LEMMA BeginFreshKeeps ==
  ASSUME Sound, NEW c \in Configs, NEW b, BeginFresh(c, b)
  PROVE  [Contract!Next]_Contract!vars
<1>1. /\ pc = "off" /\ pc' = "index" /\ op' = "begin" /\ header.kind = "missing" /\ cfg' = c
      /\ header' = header /\ failed' = failed
  BY DEF BeginFresh, flash
<1>2. Phase = "off" /\ Shown = Contract!Unread /\ Doing = Contract!Nought
  BY <1>1, Off
<1>3. Phase' = "off" /\ Shown' = Contract!Unread
  BY <1>1, UnreadView DEF Phase, Saving, Shown
<1>4. Doing' = Contract!Nought
  BY <1>3, UnreadView DEF Doing, Contract!Nought, Contract!Operation, COMMAND_ID_NONE
<1>5. OnFlash = Contract!None /\ Resizing = FALSE
  BY <1>1, NoHeader
<1>6. OnFlash' = Contract!None /\ Resizing' = FALSE
  BY <1>1, UnreadView DEF OnFlash, Contract!None, Resizing
<1>7. Contract!Draw(c)
  BY <1>1, <1>2, <1>3, <1>4, <1>5, <1>6 DEF Contract!Draw, Contract!None
<1>8. QED
  BY <1>7 DEF Contract!Next

\* One record goes bad.
LEMMA DecayKeeps ==
  ASSUME Sound, Decay
  PROVE  [Contract!Next]_Contract!vars
<1>1. pc = "off" /\ pc' = "off" /\ cfg' = cfg /\ failed' = failed
  BY DEF Decay, call
<1>2. Phase = "off" /\ Shown = Contract!Unread /\ Doing = Contract!Nought
  BY <1>1, Off
<1>3. Phase' = "off" /\ Shown' = Contract!Unread
  BY <1>1, UnreadView DEF Phase, Saving, Shown
<1>4. Doing' = Contract!Nought
  BY <1>3, UnreadView DEF Doing, Contract!Nought, Contract!Operation, COMMAND_ID_NONE
<1>5. ASSUME \/ OnFlash' \in {Contract!None, Contract!Broken}
             \/ \E i \in Contract!Listed(OnFlash.reg.names) :
                   OnFlash' = [OnFlash EXCEPT !.lost = @ \cup {i}],
             Resizing' \in {Resizing, FALSE}
      PROVE  [Contract!Next]_Contract!vars
  BY <1>1, <1>2, <1>3, <1>4, <1>5 DEF Contract!Decay, Contract!Next
<1>6. ASSUME OnFlash' = OnFlash, Resizing' = Resizing
      PROVE  [Contract!Next]_Contract!vars
  BY <1>1, <1>2, <1>3, <1>4, <1>6 DEF Contract!vars
<1>7. CASE \E k \in {"missing", "bad", "alien"} : header' = [kind |-> k, slot_count |-> 0]
  <2>1. header'.kind \in {"missing", "bad", "alien"}
    BY <1>7
  <2>2. OnFlash' \in {Contract!None, Contract!Broken}
    BY <2>1, UnreadView DEF OnFlash, Contract!None, Contract!Broken
  <2>3. Resizing' = FALSE
    BY <2>1 DEF Resizing
  <2>4. QED
    BY <1>5, <2>2, <2>3
<1>8. CASE index' = [slot_count |-> 0, reg |-> Blank] /\ header' = header
  <2>1. Resizing' = Resizing
    BY <1>1, <1>8 DEF Resizing
  <2>2. CASE header.kind = "valid"
    <3>1. header.slot_count # 0
      BY <2>2, ConstantsAssumption DEF Sound, ContractInv, Slots
    <3>2. HeaderFault' # "NONE"
      BY <1>8, <2>2, <3>1 DEF HeaderFault
    <3>3. OnFlash' = Contract!Broken
      BY <1>8, <2>2, <3>2, UnreadView DEF OnFlash, Contract!Broken
    <3>4. QED
      BY <1>5, <2>1, <3>3
  <2>3. CASE header.kind # "valid"
    <3>1. OnFlash' = OnFlash
      BY <1>8, <2>3 DEF OnFlash
    <3>2. QED
      BY <1>6, <2>1, <3>1
  <2>4. QED
    BY <2>2, <2>3
<1>9. ASSUME NEW s \in Slots, payload' = [payload EXCEPT ![s] = NoWave],
             header' = header, index' = index
      PROVE  [Contract!Next]_Contract!vars
  <2>1. Resizing' = Resizing
    BY <1>1, <1>9 DEF Resizing
  <2>2. CASE ~FlashReads \/ s \notin Taken(index.reg.slots)
    <3>1. OnFlash' = OnFlash
      BY <1>1, <1>9, <2>2, PayloadUnread DEF Sound
    <3>2. QED
      BY <1>6, <2>1, <3>1
  <2>3. CASE FlashReads /\ s \in Taken(index.reg.slots)
    <3> DEFINE i == index.reg.slots[s].command_id
    <3>1. index.reg.slots[s].wave # NoWave
      BY <2>3, ConstantsAssumption DEF Sound, ContractInv, Proper
    <3>2. /\ i \in Contract!Listed(OnFlash.reg.names)
          /\ OnFlash' = [OnFlash EXCEPT !.lost = @ \cup {i}]
      BY <1>1, <1>9, <2>3, <3>1, PayloadChanges DEF Sound
    <3> HIDE DEF i
    <3>3. QED
      BY <1>5, <2>1, <3>2
  <2>4. QED
    BY <2>2, <2>3
<1>10. QED
  BY <1>7, <1>8, <1>9 DEF Decay

\* The contract sees nothing where nothing changes.
LEMMA NothingHappens ==
  ASSUME UNCHANGED vars
  PROVE  UNCHANGED Contract!vars
<1>1. UNCHANGED <<cfg, ram, fault, header, index, payload, pc, op, target, undo, failed>>
  BY DEF vars, flash, call
<1>2. Phase' = Phase /\ Resizing' = Resizing
  BY <1>1 DEF Phase, Saving, Resizing
<1>3. Shown' = Shown /\ Doing' = Doing
  BY <1>1, <1>2 DEF Shown, Doing, Relearning
<1>4. OnFlash' = OnFlash
  BY <1>1 DEF OnFlash, HeaderFault, LostOnFlash, HiddenOnFlash, Fits
<1>5. QED
  BY <1>1, <1>2, <1>3, <1>4 DEF Contract!vars

\* A board that has never run.
LEMMA ContractInit == Init => Contract!Init
<1> SUFFICES ASSUME Init PROVE Contract!Init
  OBVIOUS
<1>1. pc = "off" /\ header.kind = "missing" /\ failed = "none" /\ cfg \in Configs
  BY DEF Init
<1>2. Phase = "off" /\ Shown = Contract!Unread /\ Doing = Contract!Nought
  BY <1>1, Off
<1>3. QED
  BY <1>1, <1>2, NoHeader DEF Contract!Init

-----------------------------------------------------------------------------
(* The refinement *)

\* Every step of the store is one of the contract, or nothing the contract sees.
LEMMA ContractStep ==
  Sound /\ Sound' /\ [Next]_vars => [Contract!Next]_Contract!vars
<1> SUFFICES ASSUME Sound, Sound', [Next]_vars PROVE [Contract!Next]_Contract!vars
  OBVIOUS
<1>0. Found
  BY DEF Sound, Found
<1>1. /\ 0..COMMAND_ID_LAST \subseteq Nat /\ 0..COMMAND_ID_LAST + 1 \subseteq Nat
      /\ \A i \in 0..COMMAND_ID_LAST : i <= COMMAND_ID_LAST
  BY ConstantsAssumption
<1>2. Contract!Start => [Contract!Next]_Contract!vars
  BY DEF Contract!Next
<1>3. ASSUME NEW n \in Names, NEW w \in Waves, Put(n, w) PROVE Contract!Start
  BY <1>0, <1>3, LearnStarts, RelearnStarts
<1>4. ASSUME NEW i \in 0..COMMAND_ID_LAST, NEW n \in Names, Rename(i, n) PROVE Contract!Start
  BY <1>0, <1>1, <1>4, RenameStarts
<1>5. ASSUME NEW i \in 0..COMMAND_ID_LAST, Remove(i) PROVE Contract!Start
  BY <1>0, <1>1, <1>5, RemoveStarts
<1>6. ASSUME ClearAll PROVE Contract!Start
  BY <1>0, <1>6, ClearAllStarts
<1>7. ASSUME NEW b \in BridgeIds \cup {ZeroId}, FactoryReset(b) PROVE Contract!Start
  BY <1>7, FactoryResetStarts
<1>8. ASSUME NEW b \in BridgeIds, NEW n \in 0..COMMAND_ID_LAST + 1, RestoreBegin(b, n)
      PROVE  Contract!Start
  BY <1>0, <1>1, <1>8, RestoreBeginStarts
<1>9. ASSUME NEW i \in 0..COMMAND_ID_LAST, NEW n \in Names, NEW w \in Waves, ImportCommand(i, n, w)
      PROVE  Contract!Start
  BY <1>0, <1>1, <1>9, ImportCommandStarts
<1>10. ASSUME NEW source \in 0..REVISION_MAX + 1, RestoreCommit(source) PROVE Contract!Start
  BY <1>0, <1>10, RestoreCommitStarts
<1>11. CASE SavePayload \/ SaveIndex \/ SaveHeader \/ SaveFails \/ PowerCut \/ Decay
  BY <1>11, SavePayloadKeeps, SaveIndexKeeps, SaveHeaderKeeps, SaveFailsKeeps, PowerCutKeeps, DecayKeeps
<1>12. ASSUME NEW c \in Configs, Begin(c) PROVE [Contract!Next]_Contract!vars
  BY <1>12, BeginKeeps
<1>13. ASSUME NEW c \in Configs, NEW b \in BridgeIds \cup {ZeroId}, BeginFresh(c, b)
       PROVE  [Contract!Next]_Contract!vars
  BY <1>13, BeginFreshKeeps
<1>14. CASE UNCHANGED vars
  BY <1>14, NothingHappens
<1>15. QED
  BY <1>2, <1>3, <1>4, <1>5, <1>6, <1>7, <1>8, <1>9, <1>10, <1>11, <1>12, <1>13, <1>14 DEF Next

\* The store implements StoreContract: for its clients each operation is one whole change of the
\* registry, made when its last save is over (put, rename, remove_by_id, clear_all, factory_reset,
\* restore_begin, import_command, restore_commit), and flash holds the registry shown or the one
\* being saved, from any power cut, failed save, change of configuration or damaged record on
\* (begin, load_index_).
THEOREM StoreKeepsContract == Spec => KeepsContract
<1>1. TypeOK /\ RegistryWellFormed /\ SavesWhileReadOnly /\ TidyInv /\ RecoveryInv /\ ContractInv
        => Sound
  BY DEF Sound
<1>2. QED
  BY <1>1, ContractInit, ContractStep, TypeCorrect, WellFormedAlways, RecoverableAlways,
     ContractInvAlways, PTL DEF Spec, KeepsContract, Contract!Spec
=============================================================================
