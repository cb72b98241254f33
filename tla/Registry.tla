------------------------------ MODULE Registry ------------------------------
(***************************************************************************)
(* The registry of a board as its clients know it: what each of the calls  *)
(* a client can make turns one registry into. A call the store refuses     *)
(* leaves the registry as it is and, over the API, says nothing: only a    *)
(* later rf_status tells.                                                  *)
(*                                                                         *)
(* CommandStore has the same operations down to their saves. Here each is  *)
(* whole; a waveform never changes under its id, and revisions and the     *)
(* store do not run out other than by `room`.                              *)
(***************************************************************************)
EXTENDS Naturals, FiniteSets

CONSTANTS
  Identities,     \* of boards
  MaxId,          \* bound: command ids
  Names, NoName   \* command names; NoName: no command has this id

Ids == 1..MaxId

ASSUME RegistryAssumption == MaxId \in Nat /\ NoName \notin Names

Listing == [Ids -> Names \cup {NoName}]
Registry == [id : Identities, restoring : BOOLEAN, readOnly : BOOLEAN,
             next : 1..(MaxId + 1), rev : Nat, names : Listing]

Nothing == [c \in Ids |-> NoName]
Listed(names) == {c \in Ids : names[c] # NoName}
NamesIn(names) == {names[c] : c \in Listed(names)}
Count(names) == Cardinality(Listed(names))

Minted(i) == [id |-> i, restoring |-> FALSE, readOnly |-> FALSE, next |-> 1, rev |-> 1,
              names |-> Nothing]

Writable(r) == ~r.readOnly /\ ~r.restoring
Advanced(r) == [r EXCEPT !.rev = @ + 1]

Learned(r, n, room) ==
  IF Writable(r) /\ n \notin NamesIn(r.names) /\ r.next \in Ids /\ Count(r.names) < room
  THEN Advanced([r EXCEPT !.names[r.next] = n, !.next = @ + 1])
  ELSE r

Renamed(r, c, n) ==
  IF Writable(r) /\ c \in Listed(r.names) /\ n \notin NamesIn(r.names)
  THEN Advanced([r EXCEPT !.names[c] = n])
  ELSE r

Removed(r, c) ==
  IF Writable(r) /\ c \in Listed(r.names)
  THEN Advanced([r EXCEPT !.names[c] = NoName])
  ELSE r

\* The identity and the counter stay; an open restore is given up.
Cleared(r) ==
  IF ~r.readOnly /\ (Listed(r.names) # {} \/ r.restoring)
  THEN Advanced([r EXCEPT !.names = Nothing, !.restoring = FALSE])
  ELSE r

\* Mutant of RestoreBegun: the counter of the source is forgotten.
RestoreBegun_KeepsCounter(r, i, next) ==
  IF ~r.readOnly /\ Listed(r.names) = {}
  THEN Advanced([r EXCEPT !.id = i, !.restoring = TRUE])
  ELSE r

RestoreBegun(r, i, next) ==
  IF ~r.readOnly /\ Listed(r.names) = {}
  THEN Advanced([r EXCEPT !.id = i, !.next = next, !.restoring = TRUE])
  ELSE r

Imported(r, c, n, room) ==
  IF /\ ~r.readOnly /\ r.restoring
     /\ c < r.next /\ c \notin Listed(r.names) /\ n \notin NamesIn(r.names)
     /\ Count(r.names) < room
  THEN Advanced([r EXCEPT !.names[c] = n])
  ELSE r

\* Mutant of RestoreCommitted: the revision goes on from the local one only.
RestoreCommitted_LocalRevision(r, source) ==
  IF ~r.readOnly /\ r.restoring THEN Advanced([r EXCEPT !.restoring = FALSE]) ELSE r

RestoreCommitted(r, source) ==
  IF ~r.readOnly /\ r.restoring
  THEN Advanced([r EXCEPT !.restoring = FALSE, !.rev = IF source > @ THEN source ELSE @])
  ELSE r

\* A boot that finds the waveform of one command unreadable: the command is not listed,
\* nothing is written any more, and the revision is the one on flash.
Damaged(r, c) == [r EXCEPT !.names[c] = NoName, !.readOnly = TRUE]
=============================================================================
