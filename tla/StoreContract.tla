---------------------------- MODULE StoreContract ----------------------------
(***************************************************************************)
(* What the command store of a board promises its clients and its next     *)
(* boot (components/rf_cloner/command_store.h), without slots, records,    *)
(* saves or waveforms: the registry shown changes by the whole operations  *)
(* of Registry, the ones Replica's boards change by, and flash holds a     *)
(* whole registry too, the one shown or the one that is being saved.       *)
(*                                                                         *)
(* What weakens the promise is explicit: `lost` are the commands whose     *)
(* waveform flash no longer holds, `hidden` those the configuration has no *)
(* place for, `torn` says that a save has failed since the boot, `resized` *)
(* that flash was laid out for another number of slots. CommandStore       *)
(* implements this specification (CommandStore!KeepsContract).             *)
(***************************************************************************)
EXTENDS Registry

CONSTANTS
  NoIdentity,   \* the identity of a registry that could not be read
  Configs,      \* the configurations a board is flashed with
  Room,         \* the most commands a board may have room for
  Revisions     \* revisions a restore may bring

VARIABLES
  cfg,      \* the configuration it was last started with
  phase,    \* "off", "idle", or "saving" an operation
  shown,    \* the registry its clients see
  doing,    \* the operation that is being saved
  flash,    \* what the records on flash amount to
  resized,  \* are they laid out for another number of slots?
  torn      \* has a save failed since the boot?

vars == <<cfg, phase, shown, doing, flash, resized, torn>>

\* What a board shows that could not read its registry.
Unread == [id |-> NoIdentity, restoring |-> FALSE, readOnly |-> TRUE, next |-> 1, rev |-> 0,
           names |-> Nothing]

\* An operation: what it makes of the registry, the command whose waveform it replaces, if
\* any, and does it ignore the registry that was?
Operation(r, relearns, resets) == [to |-> r, relearns |-> relearns, resets |-> resets]
Nought == Operation(Unread, 0, FALSE)

Good(r, lost) == [kind |-> "good", reg |-> r, lost |-> lost, hidden |-> {}]
None == [kind |-> "none", reg |-> Unread, lost |-> {}, hidden |-> {}]
Broken == [kind |-> "broken", reg |-> Unread, lost |-> {}, hidden |-> {}]

\* Flash holds registry r from now on; after a failed save it may lack waveforms.
Holds(r) ==
  \E lost \in SUBSET Listed(r.names) : (torn \/ lost = {}) /\ flash' = Good(r, lost)

-----------------------------------------------------------------------------
(* Operations *)

\* What the operations make of registry r; where one makes no difference, the store refuses it.
Outcomes(r) ==
  {Learned(r, n, Room) : n \in Names}
    \cup {Renamed(r, c, n) : c \in Listed(r.names), n \in Names}
    \cup {Removed(r, c) : c \in Listed(r.names)}
    \cup {Cleared(r)}
    \cup {RestoreBegun(r, i, next) : i \in Identities, next \in 1..MaxId + 1}
    \cup {Imported(r, c, n, Room) : c \in Ids, n \in Names}
    \cup {RestoreCommitted(r, source) : source \in Revisions}

\* An operation is accepted: from now on it is being saved.
Start ==
  /\ phase = "idle" /\ phase' = "saving"
  /\ UNCHANGED <<cfg, torn, resized, flash, shown>>
  /\ \/ doing' \in {Operation(r, 0, FALSE) : r \in Outcomes(shown) \ {shown}}
     \/ /\ Writable(shown)
        /\ doing' \in {Operation(Advanced(shown), c, FALSE) : c \in Listed(shown.names)}
     \/ doing' \in {Operation(Minted(i), 0, TRUE) : i \in Identities}

\* The waveform of c on flash is replaced, or is what it should be again. Without a failed
\* save that befalls the command being learned again, or one there is no place for.
Overwrite(c) ==
  /\ c \in Listed(flash.reg.names)
  /\ torn \/ c = doing.relearns \/ c \in flash.hidden
  /\ flash' \in {[flash EXCEPT !.lost = @ \cup {c}], [flash EXCEPT !.lost = @ \ {c}]}

\* The operation reaches flash before anyone is told. Records laid out for another number of
\* slots cannot be read until it is complete.
Store == IF resized THEN flash' = Broken ELSE Holds(doing.to)

Save ==
  /\ phase = "saving"
  /\ UNCHANGED <<cfg, phase, torn, resized, doing, shown>>
  /\ Store \/ \E c \in Ids : Overwrite(c)

Complete ==
  /\ phase = "saving" /\ phase' = "idle"
  /\ UNCHANGED <<cfg, torn>>
  /\ resized' = FALSE
  /\ shown' = doing.to /\ doing' = Nought
  /\ Holds(doing.to)

\* A save fails: the registry is as it was, but a factory reset cannot be taken back, and does
\* not make a board writable that could not read its records.
Fail ==
  /\ phase = "saving" /\ phase' = "idle"
  /\ torn'
  /\ doing' = Nought
  /\ shown' = IF doing.resets THEN [doing.to EXCEPT !.readOnly = shown.readOnly] ELSE shown
  /\ UNCHANGED <<cfg, flash, resized>>

-----------------------------------------------------------------------------
(* Power *)

PowerCut ==
  /\ phase # "off" /\ phase' = "off"
  /\ shown' = Unread /\ doing' = Nought /\ torn' = FALSE
  /\ UNCHANGED <<cfg, flash, resized>>

\* The registry on flash comes back without the commands there is no place for, which are the
\* same ones in the same configuration, and without those that are lost: then nothing is
\* written any more.
Boot(c) ==
  /\ phase = "off" /\ phase' = "idle"
  /\ flash.kind # "none"
  /\ cfg' = c
  /\ \E hidden \in SUBSET Listed(flash.reg.names) :
       /\ c = cfg => hidden = flash.hidden
       /\ flash' = [flash EXCEPT !.hidden = hidden]
       /\ shown' = [flash.reg EXCEPT
                      !.readOnly = @ \/ ~(flash.lost \subseteq hidden),
                      !.names = [i \in Ids |-> IF i \in hidden \cup flash.lost THEN NoName ELSE @[i]]]
  /\ resized' \in BOOLEAN /\ (c = cfg => resized' = resized)
  /\ UNCHANGED <<doing, torn>>

\* A board that finds nothing draws an identity, and answers once it has tried to save it.
Draw(c) ==
  /\ phase = "off" /\ flash.kind = "none"
  /\ cfg' = c
  /\ UNCHANGED <<phase, shown, doing, flash, resized, torn>>

FirstBoot(i) ==
  /\ phase = "off" /\ phase' = "idle"
  /\ flash.kind = "none"
  /\ shown' = Minted(i)
  /\ \/ flash' = Good(Minted(i), {}) /\ UNCHANGED torn
     \/ torn' = TRUE /\ UNCHANGED flash
  /\ UNCHANGED <<cfg, doing, resized>>

\* Records go bad while the board is off.
Decay ==
  /\ phase = "off"
  /\ \/ flash' \in {None, Broken}
     \/ \E c \in Listed(flash.reg.names) : flash' = [flash EXCEPT !.lost = @ \cup {c}]
  /\ resized' \in {resized, FALSE}
  /\ UNCHANGED <<cfg, phase, shown, doing, torn>>

-----------------------------------------------------------------------------

Init ==
  /\ cfg \in Configs
  /\ phase = "off" /\ shown = Unread /\ doing = Nought
  /\ flash = None /\ ~resized /\ ~torn

Next ==
  \/ Start
  \/ Save
  \/ Complete \/ Fail
  \/ PowerCut
  \/ \E c \in Configs : Boot(c) \/ Draw(c)
  \/ \E i \in Identities : FirstBoot(i)
  \/ Decay

Spec == Init /\ [][Next]_vars
=============================================================================
