------------------------------ MODULE Replica -------------------------------
(***************************************************************************)
(* The replica Home Assistant keeps of a bridge's registry (snapshot.py),  *)
(* and the restore of it onto other hardware (restore.py, the reconfigure  *)
(* and replace steps of config_flow.py).                                   *)
(*                                                                         *)
(* A refresh of the replica begins with the status a poll brought and      *)
(* exports the listed commands one call at a time; polls do not wait for   *)
(* it, so refreshes overlap. Calls go over one connection and the board    *)
(* answers them in the order they were sent: `exports` is the queue of     *)
(* refreshes, each with one call outstanding, and AnswerExport answers the *)
(* first. A restore is a conversation of the same kind, with a board whose *)
(* refusals nobody hears.                                                  *)
(*                                                                         *)
(* The entry stands for the logical bridge Ours. It may be loaded or not,  *)
(* which it becomes only while the board it is bound to answers.           *)
(***************************************************************************)
EXTENDS Registry, Sequences

CONSTANTS
  Boards, First,    \* the hardware, and the board the entry is bound to at the start
  Ours,             \* the identity of the entry, which First has at the start
  Nobody,           \* no board; no copy
  Slots,            \* Slots[b]: max_commands of board b
  Room,             \* Room[b]: how many waveforms its byte budget holds
  Abandoning,       \* may a restore that was interrupted be given up by clearing the board?
  MaxRefreshes,     \* bound: refreshes under way at once
  MaxEvents         \* bound: what users, other clients and the hardware do

ASSUME ReplicaAssumption ==
  /\ First \in Boards /\ Nobody \notin Boards /\ Ours \in Identities
  /\ Slots \in [Boards -> Nat] /\ Room \in [Boards -> Nat]
  /\ Abandoning \in BOOLEAN
  /\ MaxRefreshes \in Nat \ {0} /\ MaxEvents \in Nat

\* A Snapshot: its bridge_id is always Ours.
Copy == [rev : Nat, next : 1..(MaxId + 1), names : Listing]
CopyOf(r) == [rev |-> r.rev, next |-> r.next, names |-> r.names]
NoCopy == [rev |-> 0, next |-> 1, names |-> Nothing]

\* An async_refresh between two exports.
Refresh == [status : Registry, todo : SUBSET Ids, got : Listing]

\* A reconfigure flow: the board it is about, the snapshot it restores, what is left to import;
\* and, for the properties, whether nobody else wrote to that board meanwhile.
Flow == [st : {"idle", "offered", "begin", "import", "verify", "restored"},
         board : Boards, copy : Copy, todo : SUBSET Ids, alone : BOOLEAN]
NoFlow == [st |-> "idle", board |-> First, copy |-> NoCopy, todo |-> {}, alone |-> TRUE]

VARIABLES
  boards,     \* the registry of each board
  up,         \* boards whose actions are registered in Home Assistant
  replaced,   \* boards another was restored for: they are never powered again
  bound,      \* entry.data: the board the entry is bound to
  at,         \* runtime_data: the board the loaded entry talks to, Nobody when not loaded
  replica,    \* SnapshotManager._snapshot
  stored,     \* the snapshot in Home Assistant's storage
  exports,    \* the refreshes under way
  flow,       \* the reconfigure flow
  events,     \* what has come from outside so far
  \* For the properties:
  published,  \* every registry a board has shown as Ours with no restore open
  gone        \* ids of ours removed on request, damaged before the replica had caught up, or of
              \* a name their copy listed twice, which no board imports

boardVars == <<boards, published, gone>>
entryVars == <<bound, at>>
copyVars == <<replica, stored, exports>>
vars == <<boardVars, up, replaced, entryVars, copyVars, flow, events>>

TypeOK ==
  /\ boards \in [Boards -> Registry] /\ up \subseteq Boards /\ replaced \subseteq Boards
  /\ bound \in Boards /\ at \in Boards \cup {Nobody}
  /\ replica \in Copy /\ stored \in Copy
  /\ exports \in Seq(Refresh) /\ Len(exports) <= MaxRefreshes
  /\ at = Nobody => replica = NoCopy /\ exports = <<>>
  /\ flow \in Flow /\ events \in 0..MaxEvents
  /\ published \subseteq Copy /\ gone \subseteq Ids

Loaded == at # Nobody
Event == events < MaxEvents /\ events' = events + 1
Idle == flow.st \in {"idle", "restored"}

\* Board b's registry becomes r.
Becomes(b, r) ==
  /\ boards' = [boards EXCEPT ![b] = r]
  /\ published' = IF r.id = Ours /\ ~r.restoring THEN published \cup {CopyOf(r)} ELSE published

-----------------------------------------------------------------------------
(* The snapshot *)

\* Mutants of Refreshable: other hardware is read, or a restore under way.
Refreshable_AnyIdentity(s) == ~s.restoring /\ ~(replica # NoCopy /\ replica.rev = s.rev)

Refreshable_WhileRestoring(s) == s.id = Ours /\ ~(replica # NoCopy /\ replica.rev = s.rev)

\* The early returns of async_refresh.
Refreshable(s) == s.id = Ours /\ ~s.restoring /\ ~(replica # NoCopy /\ replica.rev = s.rev)

\* A poll and the refresh its listener starts, up to the first export. A poll that starts none is no step.
Poll ==
  /\ at \in up /\ Len(exports) < MaxRefreshes
  /\ Refreshable(boards[at])
  /\ LET s == boards[at]
     IN  IF Listed(s.names) = {}
         THEN replica' = CopyOf(s) /\ UNCHANGED exports
         ELSE /\ exports' = Append(exports, [status |-> s, todo |-> Listed(s.names), got |-> Nothing])
              /\ UNCHANGED replica
  /\ UNCHANGED <<boardVars, up, replaced, entryVars, stored, flow, events>>

\* Mutant of AnswerExport: what is no longer there is left out.
AnswerExport_SkipsMissing ==
  /\ exports # <<>> /\ Loaded
  /\ LET e == Head(exports)
     IN  \E c \in e.todo :
           LET name == boards[at].names[c]
               left == e.todo \ {c}
               got  == [e.got EXCEPT ![c] = name]
           IN  IF at \notin up
               THEN exports' = Tail(exports) /\ UNCHANGED replica
               ELSE IF left # {}
               THEN /\ exports' = Append(Tail(exports), [e EXCEPT !.todo = left, !.got = got])
                    /\ UNCHANGED replica
               ELSE /\ exports' = Tail(exports)
                    /\ replica' = [rev |-> e.status.rev, next |-> e.status.next, names |-> got]
  /\ UNCHANGED <<boardVars, up, replaced, entryVars, stored, flow, events>>

\* The first outstanding rf_export is answered, or fails because the board is gone. A command
\* that is no longer there ends the refresh, and so does a call that fails.
AnswerExport ==
  /\ exports # <<>> /\ Loaded
  /\ LET e == Head(exports)
     IN  \E c \in e.todo :
           LET name == boards[at].names[c]
               left == e.todo \ {c}
               got  == [e.got EXCEPT ![c] = name]
           IN  IF at \notin up \/ name = NoName
               THEN exports' = Tail(exports) /\ UNCHANGED replica
               ELSE IF left # {}
               THEN /\ exports' = Append(Tail(exports), [e EXCEPT !.todo = left, !.got = got])
                    /\ UNCHANGED replica
               ELSE /\ exports' = Tail(exports)
                    /\ replica' = [rev |-> e.status.rev, next |-> e.status.next, names |-> got]
  /\ UNCHANGED <<boardVars, up, replaced, entryVars, stored, flow, events>>

\* Store.async_save: saves that are due together write the last one.
Save ==
  /\ Loaded /\ stored # replica
  /\ stored' = replica
  /\ UNCHANGED <<boardVars, up, replaced, entryVars, replica, exports, flow, events>>

-----------------------------------------------------------------------------
(* The entry *)

\* Mutant of Unloaded: the background tasks of the entry are not cancelled.
Unloaded_TasksGoOn == at' = Nobody /\ replica' = NoCopy /\ UNCHANGED exports

\* The background tasks of the entry are cancelled with it.
Unloaded == at' = Nobody /\ replica' = NoCopy /\ exports' = <<>>

\* async_setup_entry, which needs a status before it reads the snapshot.
Load ==
  /\ ~Loaded /\ bound \in up
  /\ at' = bound /\ replica' = stored
  /\ UNCHANGED <<boardVars, up, replaced, bound, stored, exports, flow, events>>

\* The reload the update listener schedules when the entry was bound to another board.
Reload ==
  /\ Loaded /\ at # bound
  /\ Unloaded
  /\ UNCHANGED <<boardVars, up, replaced, bound, stored, flow, events>>

HomeAssistantRestarts ==
  /\ Event
  /\ Unloaded
  /\ flow' = NoFlow
  /\ UNCHANGED <<boardVars, up, replaced, bound, stored>>

-----------------------------------------------------------------------------
(* Reconfigure and replace *)

\* check_restore_target
Accepts(b, copy) ==
  /\ Writable(boards[b])
  /\ Listed(boards[b].names) = {}
  /\ Count(copy.names) <= Slots[b]

\* Hardware is replaced when it no longer runs, and stays off: with two live boards of one
\* identity nothing here holds.
OtherLives(b) == \E o \in up \ {b} : boards[o].id = Ours

\* The form is answered by hand, long after a refresh under way has been read and saved. A board with the
\* identity of the entry is bound as it is; other hardware is offered a restore.
Reconfigure(b) ==
  /\ Idle /\ b \in up /\ exports = <<>> /\ (Loaded => stored = replica)
  /\ IF boards[b].id = Ours
     THEN bound' = b /\ flow' = NoFlow
     ELSE /\ Loaded /\ replica # NoCopy /\ Accepts(b, replica)
          /\ flow' = [NoFlow EXCEPT !.st = "offered", !.board = b]
          /\ UNCHANGED bound
  /\ UNCHANGED <<boardVars, up, replaced, at, copyVars, events>>

\* The user confirms: async_restore reads the status once more and begins.
Confirm ==
  /\ flow.st = "offered" /\ flow.board \in up /\ ~OtherLives(flow.board)
  /\ Event
  /\ IF Loaded /\ replica # NoCopy /\ Accepts(flow.board, replica)
     THEN flow' = [flow EXCEPT !.st = "begin", !.copy = replica, !.todo = Listed(replica.names)]
     ELSE flow' = NoFlow
  /\ UNCHANGED <<boardVars, up, replaced, entryVars, copyVars>>

Dismiss ==
  /\ flow.st = "offered"
  /\ flow' = NoFlow
  /\ UNCHANGED <<boardVars, up, replaced, entryVars, copyVars, events>>

RestoreBegin ==
  /\ flow.st = "begin" /\ flow.board \in up
  /\ Becomes(flow.board, RestoreBegun(boards[flow.board], Ours, flow.copy.next))
  /\ replaced' = replaced \cup {b \in Boards \ {flow.board} : boards[b].id = Ours}
  /\ flow' = [flow EXCEPT !.st = "import"]
  /\ UNCHANGED <<gone, up, entryVars, copyVars, events>>

RestoreImport ==
  /\ flow.st = "import" /\ flow.board \in up
  /\ \E c \in flow.todo :
       /\ Becomes(flow.board, Imported(boards[flow.board], c, flow.copy.names[c], Room[flow.board]))
       /\ flow' = [flow EXCEPT !.todo = @ \ {c}]
       /\ gone' = IF boards[flow.board].restoring /\ flow.copy.names[c] \in NamesIn(boards[flow.board].names)
                  THEN gone \cup {c} ELSE gone
  /\ UNCHANGED <<up, replaced, entryVars, copyVars, events>>

RestoreCommit ==
  /\ flow.st = "import" /\ flow.todo = {} /\ flow.board \in up
  /\ Becomes(flow.board, RestoreCommitted(boards[flow.board], flow.copy.rev))
  /\ flow' = [flow EXCEPT !.st = "verify"]
  /\ UNCHANGED <<gone, up, replaced, entryVars, copyVars, events>>

\* The status read last of all, and _rebind when it is as expected.
Verified(r, copy) ==
  /\ r.id = Ours /\ ~r.restoring
  /\ Count(r.names) = Count(copy.names)
  /\ r.rev > copy.rev

RestoreVerify ==
  /\ flow.st = "verify" /\ flow.board \in up
  /\ IF Verified(boards[flow.board], flow.copy)
     THEN bound' = flow.board /\ flow' = [flow EXCEPT !.st = "restored"]
     ELSE flow' = NoFlow /\ UNCHANGED bound
  /\ UNCHANGED <<boardVars, up, replaced, at, copyVars, events>>

\* A call of the restore raises: the flow ends where it is.
RestoreStops ==
  /\ flow.st \in {"begin", "import", "verify"} /\ flow.board \notin up
  /\ flow' = NoFlow
  /\ UNCHANGED <<boardVars, up, replaced, entryVars, copyVars, events>>

-----------------------------------------------------------------------------
(* What comes from outside *)

\* Someone other than the restore changes the registry of board b to r.
Changes(b, r) ==
  /\ Event
  /\ b \in up /\ r # boards[b]
  /\ Becomes(b, r)
  /\ flow' = IF flow.st \in {"begin", "import", "verify"} /\ b = flow.board
             THEN [flow EXCEPT !.alone = FALSE] ELSE flow
  /\ UNCHANGED <<up, replaced, entryVars, copyVars>>

\* A capture outlasts the exports under way on a board that was just reset.
Learn(b) ==
  /\ (b = at /\ boards[b].id # Ours) => exports = <<>>
  /\ \E n \in Names : Changes(b, Learned(boards[b], n, IF Slots[b] < Room[b] THEN Slots[b] ELSE Room[b]))
  /\ UNCHANGED gone

Rename(b) ==
  /\ \E c \in Ids, n \in Names : Changes(b, Renamed(boards[b], c, n))
  /\ UNCHANGED gone

\* gone is about the commands of Ours, whichever board holds them.
Forgotten(b, ids) == gone' = IF boards[b].id = Ours THEN gone \cup ids ELSE gone

Remove(b) ==
  \E c \in Listed(boards[b].names) :
    Changes(b, Removed(boards[b], c)) /\ Forgotten(b, {c})

\* Clearing a board that is open for a restore removes what was imported so far.
Clear(b) ==
  /\ boards[b].restoring => Abandoning
  /\ Changes(b, Cleared(boards[b])) /\ Forgotten(b, Listed(boards[b].names))

FactoryReset(b) ==
  /\ \E i \in Identities \ {Ours} : Changes(b, Minted(i))
  /\ UNCHANGED gone

Damage(b) ==
  \E c \in Listed(boards[b].names) :
    /\ ~boards[b].readOnly
    /\ Changes(b, Damaged(boards[b], c))
    /\ IF stored.rev = boards[b].rev THEN UNCHANGED gone ELSE Forgotten(b, {c})

GoesDown(b) ==
  /\ b \in up
  /\ Event
  /\ up' = up \ {b}
  /\ UNCHANGED <<boardVars, replaced, entryVars, copyVars, flow>>

ComesUp(b) ==
  /\ b \notin up \cup replaced
  /\ (flow.st \in {"begin", "import", "verify"} => b = flow.board)
  /\ up' = up \cup {b}
  /\ UNCHANGED <<boardVars, replaced, entryVars, copyVars, flow, events>>

-----------------------------------------------------------------------------

\* First holds the first few ids, some of them renamed; other hardware is blank.
Init ==
  /\ \E k \in 0..MaxId : \E names \in Listing :
       /\ Listed(names) = 1..k /\ Count(names) = Cardinality(NamesIn(names))
       /\ boards \in [Boards -> {[Minted(Ours) EXCEPT !.names = names, !.next = k + 1, !.rev = k + 4]}
                                 \cup {Minted(i) : i \in Identities \ {Ours}}]
       /\ \A b \in Boards : boards[b].id = Ours <=> b = First
  /\ up = Boards /\ replaced = {} /\ bound = First /\ at = Nobody
  /\ replica = NoCopy /\ stored = NoCopy /\ exports = <<>>
  /\ flow = NoFlow /\ events = 0
  /\ published = {CopyOf(boards[First])} /\ gone = {}

Next ==
  \/ Poll \/ AnswerExport \/ Save
  \/ Load \/ Reload \/ HomeAssistantRestarts
  \/ Confirm \/ Dismiss \/ RestoreBegin \/ RestoreImport \/ RestoreCommit \/ RestoreVerify \/ RestoreStops
  \/ \E b \in Boards :
       \/ Reconfigure(b)
       \/ Learn(b) \/ Rename(b) \/ Remove(b) \/ Clear(b) \/ FactoryReset(b)
       \/ Damage(b) \/ GoesDown(b) \/ ComesUp(b)

Fairness ==
  /\ WF_vars(Poll) /\ WF_vars(AnswerExport) /\ WF_vars(Save)
  /\ WF_vars(Load) /\ WF_vars(Reload)

Spec == Init /\ [][Next]_vars /\ Fairness

-----------------------------------------------------------------------------
(* Properties *)

\* A snapshot is complete: it lists the commands the bridge had at the revision it names, and
\* every one of them as the bridge had it at some time; "a refresh that cannot read every
\* command is abandoned whole", and neither other hardware nor a restore under way is read.
Whole(copy) ==
  \/ copy = NoCopy
  \/ /\ \E p \in published : /\ p.rev = copy.rev /\ p.next = copy.next
                             /\ Listed(p.names) = Listed(copy.names)
     /\ \A c \in Listed(copy.names) : \E p \in published : p.names[c] = copy.names[c]
ReplicaIsWhole == Whole(replica) /\ Whole(stored)

\* What was once snapshotted is kept until it is removed from the bridge on request: the
\* replica outlives the hardware, a damaged flash and a restore that came to nothing ("it
\* protects you from dead hardware").
CommandsKept == [][\A c \in Listed(stored.names) \ gone : c \in Listed(stored'.names)]_vars

\* Overlapping refreshes, reloads and restores: what is stored never goes back to an older
\* revision, so a later change cannot be undone by a refresh that began before it.
RevisionsAdvance == [][stored'.rev >= stored.rev]_vars

\* A restore that reports success has brought back every command under its id, the counter
\* and a later revision, if nobody else wrote to the board meanwhile.
SuccessIsComplete ==
  [][(flow.st = "verify" /\ flow'.st = "restored" /\ flow.alone) =>
       LET r == boards[flow.board]
       IN  /\ r.id = Ours /\ ~r.restoring
           /\ r.names = flow.copy.names /\ r.next = flow.copy.next /\ r.rev > flow.copy.rev]_vars

\* Once nothing happens any more and the bridge answers, the stored replica becomes, and
\* stays, the registry of the bridge.
Stable ==
  /\ Idle /\ bound \in up
  /\ boards[bound].id = Ours /\ Writable(boards[bound])
MirrorConverges == <>[]Stable => <>[](stored = CopyOf(boards[bound]))
=============================================================================
