---------------------------- MODULE CommandStore ----------------------------
(***************************************************************************)
(* The registry of learned commands kept by one board                      *)
(* (components/rf_cloner/command_store.cpp): its copy in RAM, its three    *)
(* kinds of record on flash, and every operation of CommandStore, with     *)
(* each save() a step of its own so that a save may fail, or the power may *)
(* go, between any two of them.                                            *)
(*                                                                         *)
(* The store runs on the main loop of the firmware: no operation starts    *)
(* while another one is saving. An operation that is refused returns its   *)
(* verdict and changes nothing, so it is no step here; the verdicts are    *)
(* kept, because they are the guards.                                      *)
(*                                                                         *)
(* Waveforms are opaque (Waves) with a length (Pulses); the CRC of a       *)
(* waveform in the index is the waveform itself, so a collision of the     *)
(* 16-bit CRC is not modelled. A save lands at once and in order.          *)
(***************************************************************************)
EXTENDS Naturals, FiniteSetsExt

CONSTANTS
  Names,            \* command names a caller may pass
  ValidNames,       \* those validate_name accepts
  NoName,           \* the name of a free slot
  Waves,            \* waveforms
  Pulses,           \* Pulses[w]: how many timings waveform w has
  NoWave,           \* the waveform of a free slot; a payload record nobody can read
  BridgeIds,        \* 128-bit identities, drawn at random or adopted
  ZeroId,           \* the all-zero identity left by a failed draw
  MaxSlots,         \* largest max_commands of any configuration
  Configs,          \* the configurations the board is flashed with, one at a time
  COMMAND_ID_LAST,  \* highest id that can be assigned
  REVISION_MAX,     \* highest revision that is ever written
  MaxDecays,        \* bound: how many flash records go bad in one behaviour
  StaleRestore      \* may a restore bring older counters than the board has shown? Then what it
                    \* has shown is no longer recorded

Slots == 1..MaxSlots
Config == [max_commands : Slots, max_pulses : Nat, room : Nat]

ASSUME ConstantsAssumption ==
  /\ ValidNames \subseteq Names
  /\ NoName \notin Names
  /\ NoWave \notin Waves
  /\ ZeroId \notin BridgeIds
  /\ MaxSlots \in Nat \ {0}
  /\ Configs \subseteq Config
  /\ COMMAND_ID_LAST \in Nat \ {0}
  /\ REVISION_MAX \in Nat \ {0}
  /\ Pulses \in [Waves -> Nat]
  /\ MaxDecays \in Nat
  /\ StaleRestore \in BOOLEAN

COMMAND_ID_NONE == 0
COMMAND_ID_FIRST == 1
REVISION_INITIAL == 1

Command == [command_id : Nat, name : Names \cup {NoName}, wave : Waves \cup {NoWave}]
Free == [command_id |-> COMMAND_ID_NONE, name |-> NoName, wave |-> NoWave]

\* What CommandStore holds in RAM and what the index record repeats on flash.
Registry == [bridge_id : BridgeIds \cup {ZeroId}, next_command_id : Nat, revision : Nat,
             restoring : BOOLEAN, slots : [Slots -> Command]]

NoCommands == [s \in Slots |-> Free]

\* The members of a CommandStore that begin() has not filled in.
Blank == [bridge_id |-> ZeroId, next_command_id |-> COMMAND_ID_FIRST, revision |-> 0,
          restoring |-> FALSE, slots |-> NoCommands]

Faults == {"NONE", "HEADER_INVALID", "INDEX_INVALID", "VERSION_UNSUPPORTED", "PAYLOAD_INVALID"}
Ops == {"begin", "put", "rename", "remove", "clear_all", "factory_reset",
        "restore_begin", "import_command", "restore_commit"}

VARIABLES
  cfg,        \* max_commands, max_pulses and the pulses the byte budget has room for
  ram,        \* the registry in RAM
  fault,      \* fault_; read_only_ is set exactly when it is not NONE
  header,     \* flash: the header record
  index,      \* flash: the index record; slot_count 0 is an index nobody can read
  payload,    \* flash: the payload record of each slot
  pc,         \* "off", "idle", or the save that is due: "payload", "index", "header"
  op,         \* the operation that is saving
  target,     \* the slot whose payload it saves, 0 if none
  undo,       \* the registry before the operation
  failed,     \* a save that failed since the last boot: "none", "begin" or "operation"
  \* What has been visible outside, for the properties:
  known,      \* identities this board has minted or adopted
  listed,     \* listed[b]: the command ids a reader has seen under identity b
  high,       \* high[b]: highest revision ever shown for b outside a restore
  abandoned,  \* identities whose last restore was given up with clear_all
  decays      \* records gone bad so far

flash == <<header, index, payload>>
call == <<pc, op, target, undo>>
seen == <<known, listed, high, abandoned, decays>>
vars == <<cfg, ram, fault, flash, call, failed, seen>>

read_only == fault # "NONE"

-----------------------------------------------------------------------------
(* Reading the registry *)

Occupied(c) == c.command_id # COMMAND_ID_NONE
Taken(slots) == {s \in Slots : Occupied(slots[s])}
Ids(slots) == {slots[s].command_id : s \in Taken(slots)}
HasName(slots, n) == \E s \in Taken(slots) : slots[s].name = n
HasId(slots, i) == \E s \in Taken(slots) : slots[s].command_id = i
SlotOfName(slots, n) == CHOOSE s \in Taken(slots) : slots[s].name = n
SlotOfId(slots, i) == CHOOSE s \in Taken(slots) : slots[s].command_id = i

FreeSlots(slots) == {s \in 1..cfg.max_commands : ~Occupied(slots[s])}
IsFirstFree(slots, s) == s \in FreeSlots(slots) /\ \A t \in FreeSlots(slots) : s <= t

\* The pulses of every stored waveform but the one in slot `skipped`.
PulsesHeld(slots, skipped) ==
  MapThenSumSet(LAMBDA s : Pulses[slots[s].wave], Taken(slots) \ {skipped})
OverBudget(skipped, w) == PulsesHeld(ram.slots, skipped) + Pulses[w] > cfg.room
Unstorable(w) == Pulses[w] = 0 \/ Pulses[w] > cfg.max_pulses

\* What begin() makes of the records on flash under configuration c, when there is a header.
\* A slot that no longer fits is skipped before its payload is looked at; a payload that
\* cannot be read, or is not the one the index names, costs that command and the session's
\* right to write.
Fits(c, s, entry) == s <= c.max_commands /\ Pulses[entry.wave] <= c.max_pulses
PayloadFaults(c) ==
  {s \in Taken(index.reg.slots) : /\ Fits(c, s, index.reg.slots[s])
                                  /\ payload[s] # index.reg.slots[s].wave}
Readable(c, s) ==
  LET entry == index.reg.slots[s]
  IN  Occupied(entry) /\ Fits(c, s, entry) /\ payload[s] = entry.wave
HeaderFault ==
  IF header.kind = "bad" THEN "HEADER_INVALID"
  ELSE IF header.kind = "alien" THEN "VERSION_UNSUPPORTED"
  ELSE IF index.slot_count # header.slot_count THEN "INDEX_INVALID"
  ELSE "NONE"
\* Mutant of ReadFault: a missing payload does not make the store read-only.
ReadFault_PayloadIgnored(c) == HeaderFault
ReadFault(c) ==
  IF HeaderFault # "NONE" THEN HeaderFault
  ELSE IF PayloadFaults(c) # {} THEN "PAYLOAD_INVALID"
  ELSE "NONE"
ReadRegistry(c) ==
  IF HeaderFault # "NONE" THEN Blank
  ELSE [index.reg EXCEPT !.slots =
          [s \in Slots |-> IF Readable(c, s) THEN index.reg.slots[s] ELSE Free]]

-----------------------------------------------------------------------------
(* Why an operation is refused, in the order the code asks *)

\* Mutant of Writable: read_only_ is not asked, as in factory_reset.
Writable_ReadOnlyNotAsked == IF ram.restoring THEN "RESTORE_IN_PROGRESS" ELSE "OK"
Writable ==
  IF read_only THEN "READ_ONLY"
  ELSE IF ram.restoring THEN "RESTORE_IN_PROGRESS"
  ELSE "OK"

RevisionLeft == ram.revision < REVISION_MAX

PutVerdict(n, w) ==
  IF Writable # "OK" THEN Writable
  ELSE IF n \notin ValidNames THEN "NAME_INVALID"
  ELSE IF Unstorable(w) THEN "TOO_MANY_PULSES"
  ELSE IF ~HasName(ram.slots, n) /\ FreeSlots(ram.slots) = {} THEN "STORE_FULL"
  ELSE IF ~HasName(ram.slots, n) /\ ram.next_command_id > COMMAND_ID_LAST THEN "ID_EXHAUSTED"
  ELSE IF OverBudget(IF HasName(ram.slots, n) THEN SlotOfName(ram.slots, n) ELSE 0, w)
       THEN "BUDGET_EXCEEDED"
  ELSE IF ~RevisionLeft THEN "REVISION_EXHAUSTED"
  ELSE "OK"

RenameVerdict(i, n) ==
  IF Writable # "OK" THEN Writable
  ELSE IF n \notin ValidNames THEN "NAME_INVALID"
  ELSE IF ~HasId(ram.slots, i) THEN "NOT_FOUND"
  ELSE IF ram.slots[SlotOfId(ram.slots, i)].name = n THEN "NO_CHANGE"
  ELSE IF HasName(ram.slots, n) THEN "NAME_TAKEN"
  ELSE IF ~RevisionLeft THEN "REVISION_EXHAUSTED"
  ELSE "OK"

RemoveVerdict(i) ==
  IF Writable # "OK" THEN Writable
  ELSE IF ~HasId(ram.slots, i) THEN "NOT_FOUND"
  ELSE IF ~RevisionLeft THEN "REVISION_EXHAUSTED"
  ELSE "OK"

ClearVerdict ==
  IF read_only THEN "READ_ONLY"
  ELSE IF Taken(ram.slots) = {} /\ ~ram.restoring THEN "NO_CHANGE"
  ELSE IF ~RevisionLeft THEN "REVISION_EXHAUSTED"
  ELSE "OK"

RestoreBeginVerdict(n) ==
  IF read_only THEN "READ_ONLY"
  ELSE IF Taken(ram.slots) # {} THEN "RESTORE_NOT_EMPTY"
  ELSE IF n < COMMAND_ID_FIRST \/ n > COMMAND_ID_LAST + 1 THEN "ID_CONFLICT"
  ELSE IF ~RevisionLeft THEN "REVISION_EXHAUSTED"
  ELSE "OK"

ImportVerdict(i, n, w) ==
  IF read_only THEN "READ_ONLY"
  ELSE IF ~ram.restoring THEN "RESTORE_NOT_ACTIVE"
  ELSE IF n \notin ValidNames THEN "NAME_INVALID"
  ELSE IF i = COMMAND_ID_NONE \/ i >= ram.next_command_id \/ HasId(ram.slots, i)
       THEN "ID_CONFLICT"
  ELSE IF HasName(ram.slots, n) THEN "NAME_TAKEN"
  ELSE IF Unstorable(w) THEN "TOO_MANY_PULSES"
  ELSE IF FreeSlots(ram.slots) = {} THEN "STORE_FULL"
  ELSE IF OverBudget(0, w) THEN "BUDGET_EXCEEDED"
  ELSE IF ~RevisionLeft THEN "REVISION_EXHAUSTED"
  ELSE "OK"

Greater(a, b) == IF a > b THEN a ELSE b

RestoreCommitVerdict(source) ==
  IF read_only THEN "READ_ONLY"
  ELSE IF ~ram.restoring THEN "RESTORE_NOT_ACTIVE"
  ELSE IF Greater(source, ram.revision) >= REVISION_MAX THEN "REVISION_EXHAUSTED"
  ELSE "OK"

-----------------------------------------------------------------------------
(* Operations *)

\* A reader can see registry r from now on, and what it saw is recorded. An unfinished restore
\* is progress state: its ids are listed, its revision is not one of the bridge's sequence.
Show(r) ==
  IF StaleRestore THEN UNCHANGED <<listed, high>>
  ELSE /\ listed' = [listed EXCEPT ![r.bridge_id] = @ \cup Ids(r.slots)]
       /\ high' = IF r.restoring THEN high
                  ELSE [high EXCEPT ![r.bridge_id] = Greater(@, r.revision)]

\* Mutants of Commit: a payload is saved when there is no slot; or never.
Commit_AlwaysPayload(o, s, r) ==
  /\ ram' = r /\ op' = o /\ target' = s /\ undo' = ram /\ pc' = "payload"
  /\ UNCHANGED <<cfg, fault, flash, failed, listed, high, decays>>
Commit_NoPayload(o, s, r) ==
  /\ ram' = r /\ op' = o /\ target' = s /\ undo' = ram /\ pc' = "index"
  /\ UNCHANGED <<cfg, fault, flash, failed, listed, high, decays>>

\* An accepted operation changes RAM, keeps what was there, and turns to its saves.
Commit(o, s, r) ==
  /\ ram' = r
  /\ op' = o
  /\ target' = s
  /\ undo' = ram
  /\ pc' = IF s = 0 THEN "index" ELSE "payload"
  /\ UNCHANGED <<cfg, fault, flash, failed, listed, high, decays>>

\* Mutant of Put: the id counter is not advanced.
Put_SameCounter(n, w) ==
  /\ pc = "idle"
  /\ PutVerdict(n, w) = "OK"
  /\ \E s \in Slots :
       /\ IF HasName(ram.slots, n) THEN s = SlotOfName(ram.slots, n) ELSE IsFirstFree(ram.slots, s)
       /\ Commit("put", s,
            [ram EXCEPT !.slots[s] = [command_id |-> IF HasName(ram.slots, n) THEN @.command_id
                                                     ELSE ram.next_command_id,
                                      name |-> n, wave |-> w],
                        !.revision = @ + 1])
  /\ UNCHANGED <<known, abandoned>>

\* put: a new name takes the first free slot and the next id, a known name keeps both.
Put(n, w) ==
  /\ pc = "idle"
  /\ PutVerdict(n, w) = "OK"
  /\ \/ /\ HasName(ram.slots, n)
        /\ LET s == SlotOfName(ram.slots, n)
           IN  Commit("put", s, [ram EXCEPT !.slots[s].wave = w, !.revision = @ + 1])
     \/ /\ ~HasName(ram.slots, n)
        /\ \E s \in Slots :
             /\ IsFirstFree(ram.slots, s)
             /\ Commit("put", s,
                  [ram EXCEPT !.slots[s] = [command_id |-> ram.next_command_id,
                                            name |-> n, wave |-> w],
                              !.next_command_id = @ + 1,
                              !.revision = @ + 1])
  /\ UNCHANGED <<known, abandoned>>

\* rename: the index only; the waveform is not rewritten.
Rename(i, n) ==
  /\ pc = "idle"
  /\ RenameVerdict(i, n) = "OK"
  /\ Commit("rename", 0, [ram EXCEPT !.slots[SlotOfId(ram.slots, i)].name = n,
                                     !.revision = @ + 1])
  /\ UNCHANGED <<known, abandoned>>

\* Mutants of Remove: the payload record is wiped too, before the index; the revision stays.
Remove_WipesPayload(i) ==
  /\ pc = "idle"
  /\ RemoveVerdict(i) = "OK"
  /\ Commit("remove", SlotOfId(ram.slots, i),
            [ram EXCEPT !.slots[SlotOfId(ram.slots, i)] = Free, !.revision = @ + 1])
  /\ UNCHANGED <<known, abandoned>>
Remove_SameRevision(i) ==
  /\ pc = "idle"
  /\ RemoveVerdict(i) = "OK"
  /\ Commit("remove", 0, [ram EXCEPT !.slots[SlotOfId(ram.slots, i)] = Free])
  /\ UNCHANGED <<known, abandoned>>

\* remove and remove_by_id: the payload stays behind, the id is never assigned again.
Remove(i) ==
  /\ pc = "idle"
  /\ RemoveVerdict(i) = "OK"
  /\ Commit("remove", 0, [ram EXCEPT !.slots[SlotOfId(ram.slots, i)] = Free,
                                     !.revision = @ + 1])
  /\ UNCHANGED <<known, abandoned>>

\* Mutants of ClearAll: an empty registry starts its ids over; or its revisions.
ClearAll_RestartsIds ==
  /\ pc = "idle"
  /\ ClearVerdict = "OK"
  /\ Commit("clear_all", 0, [ram EXCEPT !.slots = NoCommands, !.restoring = FALSE,
                                        !.next_command_id = COMMAND_ID_FIRST,
                                        !.revision = @ + 1])
  /\ abandoned' = abandoned \cup (IF ram.restoring THEN {ram.bridge_id} ELSE {})
  /\ UNCHANGED known
ClearAll_RestartsRevision ==
  /\ pc = "idle"
  /\ ClearVerdict = "OK"
  /\ Commit("clear_all", 0, [ram EXCEPT !.slots = NoCommands, !.restoring = FALSE,
                                        !.revision = REVISION_INITIAL])
  /\ abandoned' = abandoned \cup (IF ram.restoring THEN {ram.bridge_id} ELSE {})
  /\ UNCHANGED known

\* clear_all: drops the commands and closes a restore, keeps the identity and the id counter.
ClearAll ==
  /\ pc = "idle"
  /\ ClearVerdict = "OK"
  /\ Commit("clear_all", 0, [ram EXCEPT !.slots = NoCommands, !.restoring = FALSE,
                                        !.revision = @ + 1])
  /\ abandoned' = abandoned \cup (IF ram.restoring THEN {ram.bridge_id} ELSE {})
  /\ UNCHANGED known

\* mint_identity_: 16 random bytes never collide; the draw may fail and leave them zero.
Minted(b) == [Blank EXCEPT !.bridge_id = b, !.revision = REVISION_INITIAL]
Fresh == (BridgeIds \ known) \cup {ZeroId}

\* factory_reset: the one operation that ignores read_only_.
FactoryReset(b) ==
  /\ pc = "idle"
  /\ b \in Fresh
  /\ Commit("factory_reset", 0, Minted(b))
  /\ known' = known \cup {b}
  /\ UNCHANGED abandoned

\* restore_begin: adopt an identity and its id counter on an empty registry.
RestoreBegin(b, n) ==
  /\ pc = "idle"
  /\ RestoreBeginVerdict(n) = "OK"
  /\ StaleRestore \/ \A i \in listed[b] : i < n
  /\ Commit("restore_begin", 0, [ram EXCEPT !.bridge_id = b, !.next_command_id = n,
                                            !.restoring = TRUE, !.revision = @ + 1])
  /\ known' = known \cup {b}
  /\ UNCHANGED abandoned

\* import_command: write one command under the id it had.
ImportCommand(i, n, w) ==
  /\ pc = "idle"
  /\ ImportVerdict(i, n, w) = "OK"
  /\ \E s \in Slots :
       /\ IsFirstFree(ram.slots, s)
       /\ Commit("import_command", s,
            [ram EXCEPT !.slots[s] = [command_id |-> i, name |-> n, wave |-> w],
                        !.revision = @ + 1])
  /\ UNCHANGED <<known, abandoned>>

\* restore_commit: continue the greater of the two revision sequences.
RestoreCommit(source) ==
  /\ pc = "idle"
  /\ RestoreCommitVerdict(source) = "OK"
  /\ StaleRestore \/ source >= high[ram.bridge_id]
  /\ Commit("restore_commit", 0, [ram EXCEPT !.restoring = FALSE,
                                    !.revision = Greater(source, @) + 1])
  /\ UNCHANGED <<known, abandoned>>

-----------------------------------------------------------------------------
(* Saves *)

SavePayload ==
  /\ pc = "payload"
  /\ payload' = [payload EXCEPT ![target] = ram.slots[target].wave]
  /\ pc' = "index"
  /\ UNCHANGED <<cfg, ram, fault, header, index, op, target, undo, failed, seen>>

SaveIndex ==
  /\ pc = "index"
  /\ index' = [slot_count |-> cfg.max_commands, reg |-> ram]
  /\ pc' = "header"
  /\ UNCHANGED <<cfg, ram, fault, header, payload, op, target, undo, failed, seen>>

Return == pc' = "idle" /\ op' = "none" /\ target' = 0 /\ undo' = Blank

\* The last save; only now does factory_reset lift the read-only state.
SaveHeader ==
  /\ pc = "header"
  /\ header' = [kind |-> "valid", slot_count |-> cfg.max_commands]
  /\ fault' = IF op = "factory_reset" THEN "NONE" ELSE fault
  /\ Return
  /\ Show(ram)
  /\ abandoned' = IF op = "restore_commit" THEN abandoned \ {ram.bridge_id} ELSE abandoned
  /\ UNCHANGED <<cfg, ram, index, payload, failed, known, decays>>

\* Mutant of SaveFails: the operation stays in RAM, though flash has not got it.
SaveFails_KeepsOperation ==
  /\ pc \in {"payload", "index", "header"}
  /\ failed' = IF op = "begin" THEN "begin" ELSE "operation"
  /\ ram' = ram
  /\ Return
  /\ Show(ram)
  /\ UNCHANGED <<cfg, fault, flash, known, abandoned, decays>>

\* save() returns false: the operation puts RAM back, except begin and factory_reset.
SaveFails ==
  /\ pc \in {"payload", "index", "header"}
  /\ failed' = IF op = "begin" THEN "begin" ELSE "operation"
  /\ ram' = IF op \in {"begin", "factory_reset"} THEN ram ELSE undo
  /\ Return
  /\ Show(ram')
  /\ UNCHANGED <<cfg, fault, flash, known, abandoned, decays>>

-----------------------------------------------------------------------------
(* Power *)

\* Power goes at any moment; RAM goes with it, what was saved stays.
PowerCut ==
  /\ pc # "off"
  /\ pc' = "off" /\ op' = "none" /\ target' = 0 /\ undo' = Blank
  /\ ram' = Blank /\ fault' = "NONE" /\ failed' = "none"
  /\ UNCHANGED <<cfg, flash, seen>>

\* configure and begin, when flash holds a header.
Begin(c) ==
  /\ pc = "off"
  /\ header.kind # "missing"
  /\ cfg' = c
  /\ ram' = ReadRegistry(c)
  /\ fault' = ReadFault(c)
  /\ pc' = "idle"
  /\ Show(ReadRegistry(c))
  /\ UNCHANGED <<flash, op, target, undo, failed, known, abandoned, decays>>

\* configure and begin on a board with no header: mint an identity and write it now.
BeginFresh(c, b) ==
  /\ pc = "off"
  /\ header.kind = "missing"
  /\ b \in Fresh
  /\ cfg' = c
  /\ ram' = Minted(b)
  /\ op' = "begin"
  /\ pc' = "index"
  /\ known' = known \cup {b}
  /\ UNCHANGED <<fault, flash, target, undo, failed, listed, high, abandoned, decays>>

\* While the board is off a record is erased or damaged, or another firmware has written its
\* own format over the header.
Decay ==
  /\ pc = "off"
  /\ decays < MaxDecays
  /\ decays' = decays + 1
  /\ \/ /\ \E k \in {"missing", "bad", "alien"} : header' = [kind |-> k, slot_count |-> 0]
        /\ UNCHANGED <<index, payload>>
     \/ /\ index' = [slot_count |-> 0, reg |-> Blank]
        /\ UNCHANGED <<header, payload>>
     \/ /\ \E s \in Slots : payload' = [payload EXCEPT ![s] = NoWave]
        /\ UNCHANGED <<header, index>>
  /\ UNCHANGED <<cfg, ram, fault, call, failed, known, listed, high, abandoned>>

-----------------------------------------------------------------------------

\* A board that has never run: no record on flash.
Init ==
  /\ cfg \in Configs
  /\ ram = Blank
  /\ fault = "NONE"
  /\ header = [kind |-> "missing", slot_count |-> 0]
  /\ index = [slot_count |-> 0, reg |-> Blank]
  /\ payload = [s \in Slots |-> NoWave]
  /\ pc = "off" /\ op = "none" /\ target = 0 /\ undo = Blank
  /\ failed = "none"
  /\ known = {} /\ abandoned = {} /\ decays = 0
  /\ listed = [b \in BridgeIds \cup {ZeroId} |-> {}]
  /\ high = [b \in BridgeIds \cup {ZeroId} |-> 0]

Next ==
  \/ \E n \in Names, w \in Waves : Put(n, w)
  \/ \E i \in 0..COMMAND_ID_LAST, n \in Names : Rename(i, n)
  \/ \E i \in 0..COMMAND_ID_LAST : Remove(i)
  \/ ClearAll
  \/ \E b \in BridgeIds \cup {ZeroId} : FactoryReset(b)
  \/ \E b \in BridgeIds, n \in 0..COMMAND_ID_LAST + 1 : RestoreBegin(b, n)
  \/ \E i \in 0..COMMAND_ID_LAST, n \in Names, w \in Waves : ImportCommand(i, n, w)
  \/ \E source \in 0..REVISION_MAX + 1 : RestoreCommit(source)
  \/ SavePayload \/ SaveIndex \/ SaveHeader \/ SaveFails
  \/ PowerCut
  \/ \E c \in Configs : Begin(c)
  \/ \E c \in Configs, b \in BridgeIds \cup {ZeroId} : BeginFresh(c, b)
  \/ Decay

Spec == Init /\ [][Next]_vars

-----------------------------------------------------------------------------
(* Properties *)

TypeOK ==
  /\ cfg \in Configs
  /\ ram \in Registry /\ undo \in Registry
  /\ fault \in Faults
  /\ header \in [kind : {"missing", "bad", "alien", "valid"}, slot_count : 0..MaxSlots]
  /\ index \in [slot_count : 0..MaxSlots, reg : Registry]
  /\ payload \in [Slots -> Waves \cup {NoWave}]
  /\ pc \in {"off", "idle", "payload", "index", "header"}
  /\ op \in Ops \cup {"none"} /\ failed \in {"none", "begin", "operation"}
  /\ target \in 0..MaxSlots
  /\ pc = "payload" => target \in Slots
  /\ known \subseteq BridgeIds \cup {ZeroId}
  /\ abandoned \subseteq BridgeIds \cup {ZeroId}
  /\ listed \in [BridgeIds \cup {ZeroId} -> SUBSET Nat]
  /\ high \in [BridgeIds \cup {ZeroId} -> Nat]
  /\ decays \in 0..MaxDecays

\* No two commands share an id or a name, and every id is one the counter has passed.
WellFormed(r) ==
  /\ \A s, t \in Taken(r.slots) :
       (r.slots[s].command_id = r.slots[t].command_id \/ r.slots[s].name = r.slots[t].name)
         => s = t
  /\ \A s \in Taken(r.slots) : /\ r.slots[s].command_id < r.next_command_id
                               /\ r.slots[s].name \in ValidNames

\* Whatever was learned, renamed, imported, rolled back or reread, ids and names stay unique
\* and every id lies below next_command_id: in RAM, in what a failed save would put back, and
\* in the index a reboot would load (put, rename, import_command, load_index_).
RegistryWellFormed == WellFormed(ram) /\ WellFormed(undo) /\ WellFormed(index.reg)

\* What the next boot with the same configuration would find.
Reading == [fault |-> ReadFault(cfg), reg |-> ReadRegistry(cfg)]

\* As long as no save has failed, a reboot between two operations changes nothing: the records
\* hold all of RAM and begin() rebuilds all of it (write_index_ against load_index_).
RebootIsTransparent ==
  (pc = "idle" /\ failed = "none") => Reading = [fault |-> fault, reg |-> ram]

\* The operation found the slot it writes occupied: a relearn.
Relearning == op = "put" /\ target # 0 /\ Occupied(undo.slots[target])
\* The index is being written with another length than the header on flash declares.
Resizing == header.kind = "valid" /\ header.slot_count # cfg.max_commands

Saving == pc \in {"payload", "index", "header"}

CrashFindsOldOrNew ==
  Reading \in {[fault |-> fault, reg |-> undo], [fault |-> "NONE", reg |-> ram]}

\* A power cut in the middle of an operation leaves the registry as it was before it or as it
\* is after it. Not claimed for a relearn, which saves the new payload over the one the index on
\* flash still names, nor for the first write after max_commands has changed, when the index
\* and the header on flash have different lengths until the second is saved.
CrashIsAtomic ==
  (pc \in {"payload", "index", "header"} /\ op # "begin" /\ failed = "none"
    /\ ~Relearning /\ ~Resizing) => CrashFindsOldOrNew

\* An identity is never given an id twice: the counter is above every id a reader has ever
\* seen under this identity, over crashes, failed saves, clears and restores.
IdsNeverReissued ==
  (pc = "idle" /\ ram.bridge_id # ZeroId)
    => \A i \in listed[ram.bridge_id] : i < ram.next_command_id

\* The revision a reader sees is never behind one it has seen for the same identity, unless
\* a restore of that identity was abandoned.
RevisionNeverBehind ==
  (pc = "idle" /\ ~ram.restoring /\ ram.bridge_id \notin abandoned \cup {ZeroId})
    => ram.revision = high[ram.bridge_id]

\* Every operation that completes publishes a revision its identity has never shown, so that
\* an unchanged revision means an unchanged registry.
Completes == pc = "header" /\ pc' = "idle" /\ failed' = failed /\ op # "begin"
RevisionIsFresh ==
  [][(Completes /\ ~ram.restoring /\ ram.bridge_id \notin abandoned \cup {ZeroId})
       => ram.revision > high[ram.bridge_id]]_vars

\* Records that could not be read stay exactly as they were found until a factory reset.
ReadOnlyFreezesFlash ==
  [][(read_only /\ pc \in {"idle", "payload", "index", "header"} /\ op # "factory_reset")
       => UNCHANGED flash]_vars

\* A command is dropped at its own request: its removal, a clear, a factory reset, or a
\* configuration it no longer fits.
Requested(s) ==
  \/ op \in {"clear_all", "factory_reset"}
  \/ op = "remove" /\ undo.slots[s] = index.reg.slots[s] /\ ram.slots[s] = Free
  \/ ~Fits(cfg, s, index.reg.slots[s])

\* begin() found no header record and takes the board for a new one, whatever its index holds.
TakenForNew == op = "begin" /\ header.kind = "missing"

\* As long as no save has failed, no write drops a command from the index unasked, except one:
\* begin() on a board without a header record. A header that was lost is one of those, so of
\* all damage to the records it is the one the next boot makes final (begin, write_index_;
\* command_store.h:176 promises that anything unreadable leaves flash as found).
DroppedOnRequestOrAsNew ==
  [][(failed = "none" /\ pc = "index" /\ pc' = "header") =>
       \A s \in Taken(index.reg.slots) :
         \/ HasId(index'.reg.slots, index.reg.slots[s].command_id)
         \/ Requested(s)
         \/ TakenForNew]_vars

-----------------------------------------------------------------------------
(* The store as its clients and its next boot know it *)

NamesOf(slots) ==
  [i \in 1..COMMAND_ID_LAST |-> IF HasId(slots, i) THEN slots[SlotOfId(slots, i)].name ELSE NoName]

\* Registry r shown by a session with fault f.
View(r, f) ==
  [id |-> r.bridge_id, restoring |-> r.restoring, readOnly |-> f # "NONE",
   next |-> r.next_command_id, rev |-> r.revision,
   names |-> NamesOf(r.slots)]
Unreadable == View(Blank, "HEADER_INVALID")

\* Nobody is answered before begin() is done, and nobody is told of an operation before it is.
Phase == IF pc = "idle" THEN "idle" ELSE IF Saving /\ op # "begin" THEN "saving" ELSE "off"
Shown == IF Phase = "idle" THEN View(ram, fault)
         ELSE IF Phase = "saving" THEN View(undo, fault) ELSE Unreadable
Doing ==
  IF Phase = "saving"
  THEN [to |-> View(ram, "NONE"),
        relearns |-> IF Relearning THEN undo.slots[target].command_id ELSE COMMAND_ID_NONE,
        resets |-> op = "factory_reset"]
  ELSE [to |-> Unreadable, relearns |-> COMMAND_ID_NONE, resets |-> FALSE]

\* The commands of the index whose payload is another one, and those that do not fit.
LostOnFlash == {index.reg.slots[s].command_id : s \in
                  {s \in Taken(index.reg.slots) : payload[s] # index.reg.slots[s].wave}}
HiddenOnFlash == {index.reg.slots[s].command_id : s \in
                    {s \in Taken(index.reg.slots) : ~Fits(cfg, s, index.reg.slots[s])}}
OnFlash ==
  IF HeaderFault = "NONE" /\ header.kind = "valid"
  THEN [kind |-> "good", reg |-> View(index.reg, "NONE"),
        lost |-> LostOnFlash, hidden |-> HiddenOnFlash]
  ELSE [kind |-> IF header.kind = "missing" THEN "none" ELSE "broken", reg |-> Unreadable,
        lost |-> {}, hidden |-> {}]

Contract == INSTANCE StoreContract WITH
  Identities <- BridgeIds \cup {ZeroId}, NoIdentity <- ZeroId,
  MaxId <- COMMAND_ID_LAST, Names <- ValidNames,
  Room <- MaxSlots, Revisions <- 0..REVISION_MAX + 1,
  phase <- Phase, shown <- Shown, doing <- Doing, flash <- OnFlash,
  resized <- Resizing, torn <- failed # "none"

\* The store does what its contract says: an operation is one whole change of the registry for
\* those who look, and what flash holds is the registry shown or the one to be shown next, from
\* any power cut, failed save, reconfiguration or damaged record on (command_store.h).
KeepsContract == Contract!Spec
=============================================================================
