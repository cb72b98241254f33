# RF cloner: specifications and proofs

TLA+ modules for the ESPHome component `rf_cloner` (`components/rf_cloner/`) and for the Home
Assistant integration of the same name (`custom_components/rf_cloner/`). The modules are checked with TLC on small instances; theorems
about them are proved with TLAPS for every value of the constants. `PROJECT.json` lists the runs,
the mutants that show each property can fail, the lines of source each definition stands for, the
hazards, the findings and the theorems.

## The system

A board with an ESP32 and a CC1101 learns the waveforms of RF remotes, keeps them on flash under
a name and an immutable id, and replays them. Home Assistant drives it over the ESPHome API,
turns each command into a button entity, assigns commands to user-defined devices ("targets"),
keeps a snapshot, and can restore that snapshot onto a replacement board.

| Part | State | Operations | Talks to |
|---|---|---|---|
| Command store (`command_store.cpp`) | registry in RAM (identity, id counter, revision, restore flag, slots), read-only fault; on flash a header, an index and one payload per slot | begin, put, rename, remove, clear_all, factory_reset, restore_begin, import_command, restore_commit | flash, through ESPHome preferences, one `save()` at a time |
| Learner (`rf_cloner.cpp`) | learn state, pending name, candidate waveform, agreement count, measured gaps, deadline | learn, cancel, on_receive, loop; send, rename, delete, clear, restore calls that forward to the store | receiver (windows), store (`put`), user automations (synchronous callbacks) |
| Capture validator (`capture_validator.cpp`) | none | validate_frame, frames_agree, split_frames, frame_duration_us, estimate_gap_us | called by the learner |
| API actions, controls (`packages/`) | none | one action per component call, `rf_status`, `rf_export` | learner, store |
| Coordinator, transport (`coordinator.py`, `transport.py`) | last status, a lock | poll, learn and wait, rename, delete, send, cancel | board over the API: calls may fail or be answered late |
| Reconciler, targets (`reconcile.py`, `targets.py`, `devices.py`, `button.py`) | reservations, assignments in the entry options, entity and device registries | reconcile, purge, place, entry updated | coordinator status, Home Assistant registries |
| Snapshot (`snapshot.py`) | stored export, its identity and revision | refresh | coordinator, transport |
| Restore, replacement (`restore.py`, `config_flow.py`) | progress of a restore, binding of the entry to a board | check target, restore, rebind | transport, snapshot |
| Config flows, services (`config_flow.py`, `services.py`) | the form in progress | learn, assign, replace, reconfigure | coordinator, reconciler |
| Migration (`migration.py`) | version of an entry | migrate | Home Assistant registries |
| Codegen (`__init__.py`), entities, diagnostics, constants | none of their own | | |

### What is hard in each part, and what makes it correct

- **Command store.** One operation is up to three saves; each may fail, and power may go between
  any two. A boot may find missing, damaged or foreign records, or run with other limits than the
  records were written with. Correct means: ids and names unique, an id never assigned twice for
  an identity, a revision never shown for two contents, a reboot invisible, a cut operation whole
  or absent, unreadable data left alone.
- **Learner.** Windows of several remotes, whole or split, arrive in any order between re-arms,
  cancels, deadlines and other calls; automations call back into the component from inside its
  announcements. Correct means: only a waveform that was repeated is stored, with its own gap;
  every attempt ends, and ends once; the reason given is true.
- **Capture validator.** Relative tolerance, boundaries of the window, integer division. Correct
  means: a window is cut where the remote paused, two complete repeats agree, a cut-off one never
  passes for a complete one, and an estimated gap is as close as the documentation says.
- **Coordinator.** One status poll at a time tells apart nothing that happened between two polls;
  the lock orders Home Assistant's own calls but no other client's, and holds back a cancel. Correct
  means: what a learn reports is true, nothing is left armed behind it, and every call returns.
- **Reconciler.** Decides from a listing, which may be older than what it is compared with, which
  places and registry records to delete, and hides a command on a reservation until it has a place.
  Passes over the buttons are suspended in the middle while all this goes on. Correct means: nothing
  is purged that still exists, no id has two buttons, and Home Assistant comes to show what the
  bridge holds, where the user put it.
- **Snapshot.** Reads commands one call at a time while the registry changes, and refreshes overlap
  each other, reloads and restores. Correct means: a stored copy lists the commands of the revision it
  names, all of them and no others; it never goes back; it outlives the hardware; it catches up.
- **Restore, replacement.** A sequence of calls that may stop anywhere, to a board that answers
  nothing. Correct means: what is reported as restored is complete, and a restore that came to
  nothing has not cost the copy it was made from.
- **Devices, migration.** Three files of Home Assistant, written at different times, and an entry
  that changes while it is set up, shown in a form, or loaded. Correct means: no command loses its
  history, devices follow their targets, and where a device is stays the user's decision.

## Modules

| Module | What it is |
|---|---|
| `CommandStore` | the store and its flash, one action per operation and one per save |
| `MCCommandStore` | instances of it for TLC |
| `StoreContract` | what a store promises its clients and its next boot, over `Registry` |
| `CommandStoreProofs` | TLAPS proofs about `CommandStore`: types, uniqueness, ids, revisions, read-only sessions, reboots, power cuts, what a write of the index drops, the contract |
| `Learner` | the learn state machine, its callbacks and its clock |
| `MCLearner` | instances of it for TLC, with windows computed by `CaptureValidator` |
| `LearnerProofs` | TLAPS proofs about `Learner` |
| `CaptureValidator` | the functions of `capture_validator.cpp` |
| `Reception` | a held remote, the receive windows it fills, and what those functions make of them |
| `MCReception` | an instance of it for TLC |
| `ReceptionProofs` | TLAPS proofs about `Reception` |
| `FoldTheorems` | induction over the elements of a fold, for the proofs about `Learner` and `Reception` |
| `Organisation` | one config entry of the integration: polls, the mirror, the buttons, the flows |
| `MCOrganisation` | instances of it for TLC |
| `OrganisationProofs` | TLAPS proofs about `Organisation` |
| `Registry` | what each call a client can make turns a board's registry into |
| `Replica` | the snapshot, its refreshes, and the restore onto other hardware, over `Registry` |
| `MCReplica` | instances of it for TLC |
| `ReplicaProofs` | TLAPS proofs about `Replica` |
| `Coordinator` | the lock, the learn that waits and the calls behind it, other clients |
| `MCCoordinator` | instances of it for TLC |
| `CoordinatorProofs` | TLAPS proofs about `Coordinator` |
| `Devices` | target devices and their form, the bridge's device, migration, Home Assistant's files |
| `MCDevices` | an instance of it for TLC |
| `DevicesProofs` | TLAPS proofs about `Devices` |

What meets what: `Organisation` has a bridge of its own, `Replica` several boards over `Registry`,
`Coordinator` only the learner as `rf_status` shows it. Each takes from the others' subjects what its
own properties tell apart, at the same guards. `Registry` is what holds them together: it has every
operation of a board as one whole change, the boards of `Replica` change by these operations, and so does
the registry of `StoreContract`, which `CommandStore` is shown to implement.

### CommandStore

`ram` is the store's members, `fault` its `fault_` (`read_only_` holds exactly when it is not
`NONE`), `header`, `index` and `payload` the three kinds of record. An operation (`Put`, `Rename`,
`Remove`, `ClearAll`, `FactoryReset`, `RestoreBegin`, `ImportCommand`, `RestoreCommit`) checks its
verdict (`PutVerdict` and the others keep the order of the early returns), changes `ram`, keeps the
old registry in `undo`, and leaves `pc` at the first save that is due: `SavePayload`, `SaveIndex`,
`SaveHeader`. `SaveFails` is a `save()` that returns false: the operation puts `undo` back, except
`begin` and `factory_reset`, which do not. `PowerCut` may come at any step; `Begin` and `BeginFresh`
are `configure` and `begin` under any configuration; `Decay` damages a record while the board is
off. A refused operation changes nothing and is not a step. `remove` and `remove_by_id` are one
action.

What is abstracted: a waveform is a model value with a length; the CRC of a waveform in the index
is the waveform itself and a damaged record is one that does not read, so CRC collisions are not
modelled; the byte budget is a number of pulses (`room`), what is left of `max_storage_bytes` after
header and index; random identities do not collide, but a failed draw leaves `ZeroId`; a save lands
at once and in order, and `sync()`, whose result the code ignores, does nothing; the store always
has a backend.

The ghosts `known`, `listed`, `high` and `abandoned` record what has been visible outside: which
ids were listed under an identity, and the highest revision shown. Properties about identities and
revisions compare the registry with them.

`StaleRestore` says whether a restore may bring a `next_command_id` or a revision older than what
the board itself has shown for that identity. The store cannot know, so `IdsNeverReissued` and the
properties of revisions are checked and proved for restores that do not; with `StaleRestore = TRUE`
they fail: `docs/architecture.md:120` calls the counter one that is "never rewound", and
`restore_begin` takes any value in range on an empty registry. With `TRUE` nothing is asked of that history
and `listed` and `high` are not recorded, which leaves far fewer states: `store_flash`, whose properties
are about one session and its flash, runs with `TRUE`, `store_identities` with `FALSE`.

Two more things the model shows. `factory_reset` frees the slots in RAM before
it saves and does not put them back when the save fails. The first write after `max_commands`
changed saves an index of the new length before the header that declares it; `CrashIsAtomic`
leaves that window out (`Resizing`). Both are in the contract, next, as exceptions of their own.

### StoreContract

The store without slots, records, saves and waveforms. `shown` is the registry its clients see, `flash`
what the records amount to: a registry (`Good`), nothing, or records that cannot be read (`Broken`). `Start`
accepts an operation, one of `Registry` or a relearn or a factory reset, `Save` is any of its saves,
`Complete` the last one, when the clients see the operation, all of it, and `Fail` a save that failed.
`PowerCut`, `Boot`, `Draw`, `FirstBoot` and `Decay` are the rest of a board's life. What weakens the promise
is in the state, so that each weakness is confined to where the code has it: `lost` are commands whose
waveform is gone, which only the command being relearned is without a failed save (`torn`), `hidden` the commands
the configuration has no place for, which are the same at every boot of that configuration, and while
`resized` the flash is broken until an operation is complete. `Fail` puts the registry back except under a
factory reset (`resets`).

`CommandStore` implements it (`KeepsContract`) by the mapping at its end: nobody is answered before
`begin()` is over (`Phase`), an operation is shown when it is over and `undo` is shown until then (`Shown`),
and `OnFlash` is what header, index and payloads amount to together. A relearn, the one operation that
changes only a waveform, is told from the others by the command it replaces. No fairness is in either
specification.

### Learner

The variables are the members of `RfCloner`. Times are ages: `left` to the deadline, `settling`
since `ready_since_ms_`, `quiet` since `last_frame_us_`, `span` between the first and the last
frame; `Tick` advances them, one clock standing for `millis()` and `micros()`, which does not wrap.
`Receive` is `on_receive` with a window from `Windows`: the frames `split_frames` cuts it into, the
gaps between them, and the verdict on the window as one frame. `Consume` goes through its pairs of
neighbours as `consume_multi_frame_` does; one of them has to agree (`HasRepeats`), and those that do not are passed over. `ReceiveMulti` is a window
`consume_multi_frame_` accepts, `ReceiveSingle` one that is a frame, `ReceiveNoise` one that is
neither. `Loop` is `loop()`. `Learn`, `Cancel` and `StoreCall` are the calls from outside;
`StoreCall` stands for every call that only forwards to the store, which may leave any set of names.

Callbacks are synchronous: `stack` holds what the interrupted calls still have to do, `Return` goes
on with the top one. Calls are allowed inside callbacks up to `Depth` deep. A callback with nothing
behind it is not kept: a call made there is a call made after it. `set_state_` followed by a
`learn_*_callback_` is one callback. An attempt armed inside a callback whose caller then arms another, or
goes back to idle, is lost without a word: `Overwritten` counts it, and `OneEndPerAttempt` excepts it and no
other (see the disagreements, `rf_cloner.cpp:210`).

The main loop delivers at most one window between two passes of `loop()`, as ESPHome's receiver
does (external to this repository); `dispatched` says so.

### CaptureValidator and Reception

`CaptureValidator` translates the validator function by function over sequences of integers;
`split_frames` is a fold over the window. `Reception` supplies what the functions are for: `Pulse`
and `Gap` are a remote that repeats its frame, each pulse on time or stretched by as much as the
tolerance covers, into a window that `Open` starts anywhere in the transmission (the remote and
ESPHome's receiver, external to this repository). `sent` and `between` record what was
transmitted, and the properties compare the results with it, not with a second definition of the
same function. `Arrive` is the timing part of `on_receive` for windows of one repeat: the frame is
seen less than `LOOP_US` late, the button may have been released for `PAUSE_US`, and
`micros()` wraps at `UINT32_MAX + 1`. `Learner` measures the same intervals with an exact clock. The length
of the frame that is subtracted from the average is exact here: the receiver's idle time, which the
comment at `rf_cloner.cpp:415` calls "a systematic bias of roughly a millisecond", is outside the model,
and `EstimateIsClose` says nothing of it.

`MCLearner` builds its windows and its agreement relation from timings with these functions, so
the learner is checked on windows the validator produces.

### Organisation

Everything the integration does for one entry runs on one event loop, so an action of
`Organisation` is what happens between two awaits. Four parts meet in it:

- *Readings.* `PollAnswer` is the bridge answering `rf_status`, `PollArrives` the coordinator
  taking the answer, later; `PollFails` is the first failed refresh after a good one. Both call the
  listeners: `Reconcile` (`async_reconcile` with the purge and the pruning it does), then a pass over
  the buttons. `data`, `ok`, `mismatch` and `reserved` are the coordinator's and the reconciler's
  fields; when a claim lapses (`RESERVATION_SECONDS`) is any time a pass looks (`MayLapse`).
- *Buttons.* `StartPass`, `RemoveButton`, `FinishPass` are `_async_apply`: everything is decided when
  the lock is taken, and each removal is an await. `placed` is the platform's own dictionary, `live`
  and `records` are the entities and the registry records there really are. `EntryUpdated` is
  `async_handle_entry_update`, some time after the write that asked for it (whether Home Assistant
  runs an update listener at once or a little later depends on its version; both are behaviours).
  `FirstRefresh`, `Setup`, `SetupButtons`, `Activate`, `Unload` are the entry's life. `Setup` waits for the
  replica to be read (`__init__.py:75`) before it looks at what the first refresh read, and by then the
  bridge, the options and the records may have changed; the mirror is `Running` from that look on.
- *Flows.* `StartLearn`, `ArmLearn`, `LearnAnswered`, `LearnGivesUp`, `LearnFails`, `Learned`,
  `CloseLearn` are the learn steps and the coordinator's learn poll; `RenameCommand` to `RenameSaved`
  the dialog that renames, `MoveCommand` one that only moves; `CreateTarget`, `RemoveTarget` the
  targets. A flow outlives the entry it was opened on. `here` says that the coordinator it holds is still
  the entry's: two flows that are `here` share a lock, and a rename waits for a capture; with one of them
  from before a reload, which brings a coordinator and a lock of its own (`coordinator.py:62`), it does
  not. Two flows both from before a reload are not kept apart either, which is more than the code does.
- *The bridge*, as far as the entry sees it: it arms, also while a restore is open
  (`put()` refuses the capture later), it captures, other clients learn, rename and delete;
  the hardware is replaced, reconnected or restored onto (`backup` is the registry that is restored).
  `foreign` is history: ids the user placed while the bridge did not have them, or which were read
  from other hardware (`own` in a flow says where its id comes from).

The options hold a place per command; the icon goes with it and is not modelled, and neither are
device names and areas. Answers arrive in the order they were given, over one connection. The
registry the bridge reports is what it stores: a store that is read only or reads less than it wrote
is `CommandStore`'s subject and not composed yet. `Disconnects` keeps a change of hardware from
falling inside the last step of a flow, which takes far less time.

### Registry and Replica

`boards` holds the registry of each board, `Registry`'s operations are the calls on it. An action of
`Replica` is again what happens between two awaits of the integration:

- *The snapshot.* `Poll` is a coordinator poll, the listener it calls and the early returns of
  `async_refresh` (`Refreshable`); `AnswerExport` is one answer to `rf_export`. Calls share one
  connection and are answered in the order they were sent, so `exports` is a queue whose head is
  answered and goes to the back with its next call; which of the remaining ids comes next does not
  matter to the properties and is left open. Refreshes overlap because a poll does not wait for one.
  `replica` is in memory, `stored` on disk; `Save` is `Store.async_save`, which coalesces.
- *The entry.* `bound` is the entry's data, `at` the board the loaded entry talks to. `Load` needs an
  answer; `Reload` is what the update listener schedules; `Unloaded` cancels the refreshes with the
  entry's other background tasks.
- *Reconfigure and replace.* `Reconfigure` to `RestoreStops` are the flow and `async_restore`:
  check, begin, import one by one, commit, verify, rebind. Only the last status is an answer.
  `Room` is the byte budget, which `check_restore_target` does not look at.
- *Outside.* Users and other clients write to any board that is up; boards go down, come up, are
  reset; `Damage` is a boot that finds a waveform unreadable. `replaced` says that hardware another
  board was restored for stays off: with two live boards of one identity, both count revisions on
  from the same one, and nothing here holds.

A snapshot's `bridge_id` is always the entry's (`async_refresh` refuses any other), so `Copy` has none.
Waveforms do not change under an id and are left out. The ghost `gone` collects the ids `CommandsKept` says
nothing of: removed on request, damaged before the replica had caught up, or of a name that a repeated
restore finds on the board already and refuses to import. That last case takes a copy that lists a name twice
(`snapshot.py:34`, below); while the proof of `CommandsKept` was looked for, a precondition that the
stored copy be importable turned out not to be enough, for the copy in memory may be the one that is not. `Reconfigure` waits for refreshes and saves
under way, `Learn` on a reset board for the exports read from it: forms and captures take seconds by
hand, a queue of exports a fraction of one.

### Coordinator

A call has the `lock` it was made at and its `place` among all calls; whoever came first of those in line
at a lock `Owns` it. `Reload` makes a new coordinator with a new lock, and calls under way keep the old one:
a learn from before and calls from after it interleave. `Restores` is `async_restore`, which takes no
lock. `Ask` is a form, a button or a service that calls;
`ArmLearn`, `LearnEnds`, `LearnGivesUp`, `LearnGaveUp` are `async_learn` and `_async_await_learn`;
`Cancel` and `Change` the calls that take the lock and are one call long. The bridge may refuse to learn a
new name (`Learning`), and an attempt under way is cut off then, too. The bridge's learner is its
state as `rf_status` shows it, with `Capture`, `TimesOut` and what other clients do (`Others`). Time is
counted in poll intervals of the learn: `Tick` waits for every call that can be made, and it only
passes where somebody counts it. `attempt` and `asked` are for the properties. `data` and what
listeners make of it are `Organisation`'s subject.

### Devices

`entry`, `devices` and `records` are what Home Assistant keeps in three files; `disk` is each as last
written, `WriteEntry`, `WriteDevices`, `WriteRecords` write one, and `PowerCut` goes back to all three.
`Migrate` is `async_migrate_entry`, which never awaits. Setup waits twice: `StartSetup` reads the node from the
entry and asks the bridge; `Answered` syncs the devices and waits for the replica to be read (`__init__.py:75`);
`Load` is the rest, from which on the entry has an update listener. `SetupFails` is an answer that does not
come, and Home Assistant tries again. `SetupError` is a node that is not known (`__init__.py:50`): a
`ConfigEntryError`, which is not tried again, so only `Reload`, which the user asks for, or a restart ends it.
Two histories say what nobody listened to: `missed`, that the entry was re-pointed during its setup, and
`unheard`, the targets changed between `Answered` and `Load`. The update
listener, a call of which is due while `updated`, reloads the entry or syncs its devices. `OpenForm` and
`SubmitForm` are the reconfigure form of a target, and `form.fresh` whether what it showed still is so;
`CreateTarget`, `RemoveTarget`, `MoveDevice`, `Rebind`, `NodeComes`, `NodeGoes` come from the user. That Home
Assistant deletes devices and records with their subentry is modelled as `migration.py` relies on it.

`wish` is where the user last put each target: when a device is moved, and when the area field of its
form is changed. Nothing is said of a form that is submitted after the device has moved or the entry was
loaded or unloaded: what it does to the device is taken for the wish. That such a form moves a
device back is among the disagreements below.

## Runs

| Run | Instance | Shows |
|---|---|---|
| `store_identities` | one slot, two identities, ids to 2, revisions to 4 | `IdsNeverReissued`, `RevisionNeverBehind`, `RevisionIsFresh` |
| `store_flash` | two slots, waveforms of one and two pulses, a roomy and a tight configuration, one damaged record, ids to 2, revisions to 5, `StaleRestore` | `TypeOK`, `RegistryWellFormed`, `RebootIsTransparent`, `CrashIsAtomic`, `KeepsContract`, `ReadOnlyFreezesFlash`, `DroppedOnRequestOrAsNew` |
| `learner` | two remotes, two valid names, one slot, three repeats, calls from callbacks one deep | `TypeOK`, `NoiseGate`, `OneEndPerAttempt`, `TimeoutIsSilence`, `LearnEnds` |
| `learner_gap` | | finding: a gap measured on one remote is stored with another's waveform |
| `reception` | three remotes of 3 and 5 pulses, two gaps, windows up to 10 timings, a loop of 5 units, a clock of 128 units | `SplitIsTransmission`, `CompleteRepeatsAgree`, `RepeatsAreComplete`, `EstimateIsClose` |
| `entry` | two ids, two names, one target, three events from outside | `TypeOK`, `SettledIsShown`, `NoIdClaimedTwice`, `PlacementKept`, `RecordsKept` |
| `entry_converges` | the same with two events and a target that is yet to be created | `Converges` |
| `replica` | two boards, two ids, two names, two refreshes at once, four events | `TypeOK`, `ReplicaIsWhole`, `CommandsKept`, `RevisionsAdvance`, `SuccessIsComplete`, `MirrorConverges` |
| `replica_lost` | the replacement holds one waveform less than the bridge; two events | finding: a restore that fails, or is given up, costs the replica |
| `coordinator` | two tasks, two names, three calls, two events; Home Assistant gives up before the bridge does; other clients, a reload and a restore interfere | `TypeOK`, `ReportIsTrue`, `LearnIsWhole`, `CallsReturn` |
| `coordinator_cancel` | the bridge gives up first, no other clients | finding: a cancel waits for the learn it should end |
| `devices` | two commands, one target, two titles, two areas, two nodes, three events | `TypeOK`, `HistoryKept`, `DevicesFollowTargets`, `AreaIsTheUsers`, `MigrationEnds` |

Why the bounds are enough. Two slots are the least in which a name or an id can collide, and revisions to
5 leave the writes it takes to learn two commands, rename one and remove the other; two
waveform lengths and two configurations the least in which a slot stops fitting by index, by length
and by budget. Ids to 2 on one slot let an id be removed and assigned again; revisions to 4 let a
board be born, cleared, adopt an identity and commit it. One damaged record is every single fault
`begin()` tells apart. Identities and valid names are symmetric. For the learner, three repeats is
the default and the least that needs more than one pair; two remotes are the least that interfere;
gaps of 1, 2 and 3 lie inside and outside the limits; one call deep is the least at which an
announcement is interrupted by a learn, a cancel or a call to the store. `MaxGaps` and `MaxIntervals` bound how much an
attempt may collect; `REVISION_MAX` and `COMMAND_ID_LAST` are the code's own limits made small, so
exhaustion is reached. For the reception, ten timings hold two complete repeats of the short frame
and one between two cut-off ones, or two cut-off repeats of the long one; one of the remotes has
prefixes equal to its suffixes. The clock starts on both sides of its wrap, and the longest delay
brings an interval just over the limit that starts the measurement afresh. The proportions of the
defaults are kept (tolerance 25 %, threshold above every pulse and below every gap), the sizes are
not. For the entry, two ids are the least in which one command is learned, moved or deleted while
another stays; one target makes two places; names are symmetric. `MaxEvents` counts only what comes
from outside, so every reaction to three such events is explored in every order: a failed read
between a learn and the next poll, a target removed during a learn, an entry unloaded in the middle
of a pass, hardware replaced under an open dialog. Connecting the old hardware again and both ends
of a restore are not counted.

For the replica, two boards are the one that is replaced and the one that
replaces it; two ids are the least that make a refresh longer than one answer, and two refreshes the
least that overlap; the counter and the revision of the first board differ from a blank one's. Four
events reach a rename and a deletion between the exports of a refresh, a board that dies during one, a
restore with the board lost in it and repeated. In `replica` both boards have room for everything and
no restore is given up; `replica_lost` is about what happens otherwise. `Abandoning` says whether a
board open for a restore may be cleared. For the coordinator, one task learns while the other waits;
three calls let a cancelled learn be followed by another; `LEARN_TIMEOUT` on either side of
`learn_timeout` is what `coordinator.py` and the component's configuration allow. Two events let
a reload come into a learn and another client into what follows. For the devices, two
commands are the least of which one may be detached on disk and the other not; targets
are synced one by one and meet only where one takes a title, which is a refusal, so one target is
enough, and the proofs are for any number; two areas and none are the least a move can be told by, and each
of three events may be the power cut, the reload or what they interrupt.

Deadlock is checked in every run but those of `Replica`, `Coordinator` and `Devices`: there what comes from
outside is bounded, and an entry to which nothing more happens is where they should end. `Organisation` assumes that the event loop runs what is ready (the
setup, update listeners, passes) and that polls are sent, answered and taken, as the 30 s interval
sees to; nothing is assumed of the user, the flows or the bridge's other clients, and a poll that
fails is an event. `Converges` is about what is left when the events are over. Nothing in the store is a liveness promise, and its specification
assumes no fairness. `Replica` assumes the same of polls and setups, and that the board answers and Home Assistant saves; a flow may be left
open for ever, and a board need not come up. `Devices` assumes that what is due on the event loop runs,
that each file is written at some time, and that a bridge that is asked again and again answers
(`SF` on `Answered`: Home Assistant tries a setup again after `ConfigEntryNotReady`). It does not assume
that a setup which ended in an error is tried again: `MigrationEnds` excepts, while it stays so, the
records whose file was behind. `Coordinator` assumes that time passes, that the bridge's
deadline falls, and that a task whose call can be made makes it; not that a remote is pressed, and not that anyone
connects again. `Learner` assumes that callbacks return, that `loop()` runs while it is enabled
(the application loop calls it on every pass) and that time passes; nothing is assumed of receivers
or callers. `LearnEnds` is checked for three repeats: with `min_repeats: 2` a window that holds two
pairs of different remotes makes the capture ready afresh each time, and such windows arriving
faster than `settle_time` postpone both the commit and the deadline.

## Proofs

`CommandStoreProofs` proves, for every value of the constants that satisfies `ConstantsAssumption`:

- `TypeCorrect`: `Spec => []TypeOK`. `TypeOK` is inductive as it stands. Each operation goes
  through `Commit`, so one lemma says that committing a registry preserves `TypeOK` and one lemma
  per operation that what it commits is a registry.
- `WellFormedAlways`: `Spec => []RegistryWellFormed`. `WellFormed` of `ram` alone is not inductive:
  `SaveFails` brings `undo` back and `Begin` loads the index, so the invariant is the conjunction
  for all three, with `TypeOK`. Per operation, a lemma shows the new registry well formed from the
  old one: adding a command needs a fresh id and a fresh name, which the verdicts provide.
- `ReadOnlyFreezes`: `Spec => ReadOnlyFreezesFlash`. The property speaks of steps; the invariant it
  needs, `SavesWhileReadOnly`, says that the only operation saving in a read-only session is the
  factory reset, and that `begin` starts from no fault.
- `IdsAreNeverReissued`: `~StaleRestore` implies `Spec => []IdsNeverReissued`. The property speaks
  of RAM between two operations; RAM may come from `undo` or from the index, so `IdInv` says that
  the counter is above what was listed in all three copies, that at the header save the index is
  RAM, and that what a failed save shows was already listed or is empty. It rests on
  `WellFormedAlways` (ids lie below the counter) where a registry becomes visible. The assumption
  is needed: without it `restore_begin` may rewind the counter.
- `RevisionsNeverBehind` and `RevisionsAreFresh`: `~StaleRestore` implies `Spec => []RevisionNeverBehind`
  and `Spec => RevisionIsFresh`. A registry becomes visible from RAM, from `undo` or from the index, so
  `RevisionInv` relates the revision of each of the three to `high`: what a failed save puts back is the
  highest one shown, what a boot would load is no lower, and what is being saved is higher; and an
  identity that was never drawn has shown none. It needs `IdInv`, above, for which of the three
  there is at each `pc`.

- `RebootsAreTransparent` and `CrashesAreAtomic`: `Spec => []RebootIsTransparent` and
  `Spec => []CrashIsAtomic`. What `begin()` finds depends on three kinds of records, of which an operation
  has written some. `TidyInv` says that a slot without a command is blank, in all three registries, as
  the index does not tell free slots apart; `Recoverable` says at each `pc` what a boot would find, which
  payloads RAM can count on, and that a save under `begin` happens only without a header. All of it
  holds as long as no save has failed. A relearn and a change of length are in neither of its cases.
- `DropsAreAccountedFor`: `Spec => DroppedOnRequestOrAsNew`. `begin()` without a header record is excepted, as
  in the property: it takes the board for a new one and writes an empty index over whatever is there.
  `Kept` says that what the index names and fits is
  what RAM held before the operation, and that RAM still holds it but for what the operation is about;
  `SavesWhileReadOnly` that a session with a fault saves nothing but a factory reset.
- `StoreKeepsContract`: `Spec => KeepsContract`, the refinement. Initial states map to initial states
  (`ContractInit`), and every step to a step of the contract or to none (`ContractStep`, which rests on one
  lemma per action: `LearnStarts`, `SaveIndexKeeps`, `BeginKeeps` and so on). The invariant is `Sound`: `TypeOK`,
  `RegistryWellFormed`, what recovery needs (`TidyInv`, `RecoveryInv`, `SavesWhileReadOnly`) and `ContractInv`,
  which adds that registries are in order in all three copies (`Proper`), that what is in RAM and in `undo`
  fits the configuration, so that a save hides no command, that at the header save the index is RAM, and
  that a board answers nobody before its first save. Two bodies of lemmas carry the rest. A registry shown
  is a function from ids to names and a registry stored a function from slots to entries, so each
  operation has a lemma that says its slots amount to what `Registry` says (`LearnedOutcome` and its like), for
  which ids and names must be unique; that the contract counts commands where the store looks for a free
  slot is `RoomLeft`, by an injection of the commands into the slots. And `OnFlash` has to be followed
  through saves of one payload, of the index and of the header, of a board whose flash may be of another
  length.

`LearnerProofs` proves, for every value of the constants that satisfies `LearnerAssumption`:

- `AttemptsEndOnce`: `Spec => []OneEndPerAttempt`, at every depth, of attempts that are not `Overwritten`.
  It is inductive as it stands: `Fail` and `CommitCapture` end the one attempt that is armed, and an
  interrupted call that goes on ends none but the one armed meanwhile.
- `TimeoutMeansSilence`: `Spec => []TimeoutIsSilence`, at every depth. `SilenceInv` adds that an
  attempt without `saw_frame_` has heard nothing, and that `last_reject_` is a verdict.
- `TypeCorrect`: `Spec => []TypeOK`, at every depth. `TypeInv` adds that an armed attempt is open and
  that its name is a valid one, on which what is put into the store depends. What `consume_multi_frame_` leaves is a
  fold over the pairs of neighbours in a window; `ConsumeRuns` turns it into a run from pair to pair
  (see `FoldTheorems`), and each pair keeps the types.
- `NoisePassesNoGate`: `Spec => []NoiseGate`, at every depth. `GateInv` says it of every state, armed or
  not. Pair by pair, the count is borne by what was heard up to there (`Borne`, `HeardUpto`): an
  agreement is counted on the second frame of its pair, which resembles the candidate, and a sum over
  the waveforms that resemble it grows by what one of them grows (`TotalGrows`).

`ReceptionProofs` proves, under `LimitsAssumption` and `ReceptionAssumption`:

- `RepeatsAgree`: two readings of one frame whose pulses are stretched by no more than the
  tolerance agree in either order, for every frame and every tolerance. It is about the arithmetic,
  where the bounds are rounded down on both sides (`StretchedWithin`). `SentIsReading` says that what
  the remote of `Reception` sends is such a reading.
- `SplitRecovers`: `Spec => []SplitIsTransmission`. A timing more does to the fold of `split_frames`
  what `SplitTiming` says (`SplitNext`), so `InStep` can follow it while the remote sends: the frames cut off so
  far are the repeats before the one in the air, the gaps are those after them, and the current frame
  is the one in the air, or nothing where the window opened within a gap. It needs that no pulse, even
  stretched, passes for a gap, and every gap does: `frame_gap_min` lies between them.
- `PairsAreComplete`: `Spec => []RepeatsAreComplete`. `Faithful` says that a repeat heard from its start
  is as long as the remote has come, and any other shorter than the frame; so frames of one length are
  both whole or both cut off. Only the first and the last can be cut off, so two cut-off neighbours are
  all the window holds: that is the window excepted (`OnlyCutOff`), and for a remote that
  resembles itself it is a real exception.
- `HeldButtonIsLearned`: `Spec => []CompleteRepeatsAgree`. The rest of `Faithful`, that a repeat is pulse by
  pulse a reading of the frame, with `RepeatsAgree`; that such a repeat is valid is an assumption on the
  remote, on time and stretched throughout, and `CompleteIsValid` says it of every mixture.
- `EstimateWithinLoop`: `Spec => []EstimateIsClose`, under `ClockAssumption` as well. `micros()` shows a
  remainder, so `Arrivals` says that there is a time of which it is one, when the last repeat ended, and
  that the first one counted ended `interval_count` periods before, each seen less than a pass of
  the loop late (`ArrivesAgain`: an interval with a pause in it is longer than the limit, and starts
  afresh). The rest is `WrappedDifference` and `AverageIsClose`. `ClockAssumption` says that windows arrive
  in the order of their repeats, a loop pass being no longer than a period, and that the longest span measured and
  the pause that ends one are shorter than a turn of the clock. With `GAP_INTERVAL_TARGET` 24 and a turn
  of 71 minutes, that is every remote whose period is below about three minutes; `PAUSE_US` is the shortest
  pause, and one as long as a turn of the clock is outside the model.

`FoldTheorems` has what `LearnerProofs` and `ReceptionProofs` need. The library's induction theorems take a predicate as a
parameter, which the provers cannot instantiate; here induction is about a set `T`: if 0 is in it, and
`k + 1` with `k`, then all up to `n` are (`SegmentInduction`, from the well-foundedness of the subsets
of a finite set). `FoldExists` uses it to show that the recursive function inside `FoldLeft` exists,
which makes the `CHOOSE` that defines it a function one can reason about; `TotalIs` is the same for sums over a set.

`OrganisationProofs` proves, under `SizesAssumption`, `NoNameAssumption` and `PlacesAssumption`:

- `TypeCorrect`: `Spec => []TypeOK`. One conjunct is added, `RenamesCommand`: a dialog that renames
  is about a command, so what it records is an id.
- `IdsClaimedOnce`: `Spec => []NoIdClaimedTwice`. The property speaks of the moment before buttons
  are added. `ClaimInv` says why it holds there: the platform knows a place for every button there
  is, whatever a suspended pass will add it has yet to remove or knows to be nowhere, and there is
  no pass before the platform is set up.
- `RecordsAreKept`: `Spec => RecordsKept`. A reading may be older than what it is compared with, so the
  proof is about ages. `AgeInv` orders the readings that may still be acted on: the data held are no later
  than the answer under way, and that one no later than the bridge (`Before`), across replaced hardware and
  restores (`Bridge` is the registry of the logical bridge); the data of a first refresh are among them before the
  mirror has looked at them, and what the mirror makes of them holds once it is `Running`. `RecordsInv` says that what has been shown, or a
  suspended pass will add, is no newer than any of them (`Below`). So a trusted reading that lacks it could
  have listed it, and as ids are not given again the bridge does not have it either (`Past`).
- `PlacementsAreKept`: `Spec => PlacementKept`. A flow writes the place of a command it has just learned, so
  a placement may be newer than the data; `MetaInv` says that it is not newer than the bridge or the answer
  under way (`NotNew`), of every placement not in `foreign`, and of the ids open flows have from this bridge.
  That leaves the data, which a change of the entry is pruned against, and there the code asks for an
  id below their counter. Looking for this invariant showed `foreign` to be too small a history: with four
  events a place could be chosen for a command that other hardware lists under an id the own bridge gave
  meanwhile, a relative of `config_flow.py:547` below; now it is in `foreign`.
- `SettledShows`: `Spec => []SettledIsShown`. `StandInv`: a button the platform believes on a target that is
  there exists there, unless its command is `Past`. `NamesInv`: while the mirror is `Running`, no claim hides a
  command of the data.
  `PlanInv`: where nothing has asked for another pass, the pass under way or the last one leaves every
  command where it is wanted now (`Final`, `Wanted`), because what changes the options, the targets or the
  data also asks for a pass.

`DevicesProofs` proves, under `DevicesAssumption`:

- `TypeCorrect`: `Spec => []TypeOK`. `TypeOK` says that only target ids that were given are in use;
  `TypeInv` adds the same of the files, which a power cut brings back, and that command subentries are
  found in the first schema only. Lemmas say what setting one field of one target or device leaves alone.
- `HistoryIsKept`: `Spec => []HistoryKept`. The step that matters is `Migrate`: a record still attached
  to a subentry that goes is detached before it goes. The property speaks of memory and disk at once,
  so a power cut brings back nothing worse than what was written.
- `DevicesFollow`: `Spec => []DevicesFollowTargets`. `FollowInv` adds what holds from the answer on, before
  anybody listens: the link of the bridge's device is to the node the entry was bound to, or none, and
  every target but those `unheard` has its device (`Followed`). The two exceptions of the property, `missed`
  and `unheard`, are the two waits of the setup.
- `AreaStays`: `Spec => []AreaIsTheUsers`: through renames, syncs, reloads and power cuts, and through forms
  that still show how things are. Of others it says nothing, as `wish` takes what they do. `Pending` says where a device that is yet to be made will
  be, `Offered` that what a fresh form of a loaded entry offers is where its device is; with a target id
  given once, no form is about a target that is created while it is open.

`CoordinatorProofs` proves, under `CoordinatorAssumption`:

- `TypeCorrect`: `Spec => []TypeOK`. `TypeOK` says what the locks are, too (`Line`): a task is in line
  exactly while it has a call, no two share a place, and only the owner of a lock has got further than
  waiting for it. `Named` adds that what is armed has a name.
- `LearnsAreWhole`: `Spec => LearnIsWhole`. By `Line` a call that ends while another waits for its capture
  is at another lock, one of before or after a reload; that an
  attempt is over when its learn is needs `Attempts`: no call has an attempt later than the bridge's, and
  none before it has armed one.
- `ReportsAreTrue`: `Spec => ReportIsTrue`. The last line of `Attempts` is about the time between two
  polls: as long as the bridge is at the attempt of a learn, a name that was new and is stored was
  captured by it.

`ReplicaProofs` proves, under the assumptions of `Registry` and `Replica`:

- `TypeCorrect`: `Spec => []TypeOK`, which is inductive as it stands. One lemma says that the registries a
  board may come to are registries, and `Edits` what learning, renaming, removing, clearing and damage
  have in common.
- `ReplicaWhole`: `Spec => []ReplicaIsWhole`. A copy is made of answers to calls sent at different times, and
  saved later. `WholeInv` says of every board (`BoardsWhole`) that what it holds as ours was published; of
  every refresh (`RefreshesWhole`) that its status was published, that what it has got and what it has left
  are the ids of that status, and that the board it reads is not open for a restore and, once reset, is
  empty; of a restore (`FlowWhole`) that it imports what was published, on a board no refresh reads; and of
  the two copies (`CopiesWhole`) what the theorem says. Where it would break is a learn on a board that was
  reset, and a restore onto it, while exports from it are due: the guards of `Learn` and `Reconfigure`
  exclude both, for the reason given above.
- `SuccessComplete`: `Spec => SuccessIsComplete`. `AloneInv` says of a restore nobody disturbed that its
  board has the counter of the copy, and under each id the copy's command or none; a refused import leaves
  none. The last status tells only how many commands there are, and `CountedAll` says why counting is
  enough: a part of a finite set with as many elements as the set is all of it.
- `RevisionsNeverGoBack`: `~Abandoning` implies `Spec => RevisionsAdvance`. `AdvanceInv` has three parts.
  `OneStands`: at most one board that was not replaced has our identity. `NotAhead`: what is stored is
  not ahead of the replica, and neither of them of that board, or of the copy a restore is making into
  one. `InOrder`: no refresh that can still succeed is behind the replica, and refreshes become the
  replica in the order of their revisions. This last needs the queue: exports are answered in turn, so a
  refresh with fewer ids left, or as many and an earlier place, is done first (`InTurn`), and one
  that lost an id to a deletion is not live any more (`Live`). Without the assumption it is false: a board
  cleared while open for a restore keeps the identity and goes on from a revision of its own.

- `CommandsAreKept`: `~Abandoning` and `Slots[b] <= Room[b]` for every board imply `Spec => CommandsKept`.
  Whatever may come to be stored has to list every command that is stored and was not removed
  (`Keeps`), so `KeptInv` goes along the way a listing takes: the replica has everything stored
  (`CopiesKeep`); the board that stands for the bridge has everything of both, unless it was damaged
  at the very revision that is stored, which no refresh reads again (`BoardsKeep`, `Frozen`); of two
  refreshes the later has everything of the earlier, and the board everything of both
  (`RefreshesKeep`); and a restore has on the board what it has imported, and the rest still to do
  (`FlowKeeps`), so that what the board shows when it is committed lacks nothing. It uses
  `WholeInv` and `AdvanceInv`. Both assumptions are needed, and `replica_lost` shows it: a board without
  room refuses imports in silence, and a board cleared while open for a restore has the identity
  and not the commands.

Only model-checked: liveness (`LearnEnds`, `Converges`, `MirrorConverges`, `MigrationEnds`,
`CallsReturn`), which is out of the prover's reach. Every invariant and every action property that a passing
run checks is also a theorem, under the assumptions named here.

## Disagreements seen while modelling

Three have a run, listed above and under `findings`. These were met on the way and have none:

- `command_store.cpp:490`, `:491`: relearning a command erases its payload before the new one is
  written; a cut in between costs the command, and the session after it is read-only.
- `command_store.cpp:264`: a header record that was lost makes `begin()` take the board for a new one and write
  an empty index over one that lists commands; `command_store.h:176` and `docs/architecture.md:170` promise
  that what cannot be read is not rewritten. The index is there to be read, and is not looked at
  (`TakenForNew`).
- `rf_cloner.cpp:210`: an attempt armed from inside an announcement of `learn()` or of the commit is overwritten
  when the announcement returns, by the next attempt or by `IDLE`, and ends without a word
  (`Overwritten`); `rf_cloner.h:85` says that "re-arming while already armed cancels the previous attempt".
- `rf_cloner.cpp:321`, `docs/architecture.md:68`: "the first and last frames may be partial; those fail to agree
  and are skipped". In a window that holds only the end of one repeat and the beginning of the next, they
  agree where the remote's frame begins as it ends, and the piece becomes the candidate (`OnlyCutOff`).
- `reconcile.py:225`: a poll between the end of a capture and the flow that places the command makes
  it appear unassigned first, which the reservation of `:192` is to prevent.
- `__init__.py:97`: a failed poll is reconciled with the listing before it, so a place saved since for
  a command that listing lacks is pruned.
- `config_flow.py:547`: a learn while other hardware answers gives the id a place that belongs to a
  command yet to be restored.
- `config_flow.py:306`: the stored replica is read only from a loaded entry; once the hardware is dead
  and Home Assistant was restarted, the entry does not load and a replacement ends in `no_snapshot`.
- `snapshot.py:34`: a copy is labelled with the revision its refresh began at; commands renamed during
  it are copied as they came to be, and the copy may list a name twice, which no board imports.
- `snapshot.py:85`: "removing and re-adding the integration finds the same snapshot", but
  `__init__.py:150` deletes it with the entry.
- `config_flow.py` (`TargetSubentryFlow`): whether a form moves the device is decided against where the
  device is when it is submitted (`devices.py:147`: "the area is the user's once the device exists"), so a field
  left alone in a form that has become stale moves it back;
  and an area changed while the entry is not loaded never reaches the device.
- `coordinator.py` (`_async_await_learn`): when another client arms again, or Home Assistant gives up
  before the bridge does, a learn is reported failed although the capture was or will be stored;
  `ReportIsTrue` excludes both.
- `__init__.py` (`async_setup_entry`): an entry re-pointed while its setup waits for the old node is loaded on
  the old node, and nothing reloads it (`missed`).
- `__init__.py:75`: a target created or renamed while the setup waits for the replica is too late for the sync
  of `:72` and too early for the listener of `:107`: its device is missing, or named as before, until the
  next change of the entry (`unheard`).
- `__init__.py:50`: an entry whose node is gone ends in a setup error, and is not set up again when the node is
  back. What only the setup repairs waits for a reload or a restart: records of buttons that a power cut
  brought back attached to a subentry that is no more.
- `coordinator.py:62`: the lock that (`:60`) "keeps two Home Assistant flows from interleaving a learn with a rename" is a
  new one after a reload, while a learn task of `config_flow.py:594` goes on with the old; and
  `async_restore` takes none.

## Plan

1. `CommandStore`, `Learner`, `CaptureValidator`, `Reception` and their first proofs (done).
2. `Organisation`: readings, reservations, placement, purge, buttons, flows (done).
3. `Registry`, `Replica`: the snapshot and the restore (done). `StoreContract` over the same `Registry`,
   and `CommandStore` shown to implement it (done).
4. `Coordinator` (done).
5. `Devices` with migration, and its proofs (done).
6. The bridge of `Organisation` taken from `Registry`, so that a store that reads less than it wrote
   reaches the mirror; the first config flow (`async_step_user`), which adopts a node.

No theorem is outstanding: what is left without one is liveness.

## Not modelled

Byte layout, CRC arithmetic and name validation of the store; parsing of a bridge id and
transmission; code generation and its option bounds, which are the assumptions on the constants;
the first config flow and the wording of every form; entities, icons, diagnostics, translations. The
API actions of `packages/` forward one call each and are part of the actions that make it. Parts marked
`partly` in `PROJECT.json` say there what is left out.
