---------------------------- MODULE Coordinator -----------------------------
(***************************************************************************)
(* The calls Home Assistant makes on a bridge (coordinator.py, and the     *)
(* actions of services.py and buttons of button.py that lead to it), with  *)
(* the bridge's learner as rf_status shows it, a remote, and other clients *)
(* of the same bridge.                                                     *)
(*                                                                         *)
(* Tasks take turns at an asyncio.Lock, in the order they came. It is the  *)
(* coordinator's: a reload of the entry makes another, and the calls that  *)
(* were under way go on with the old one. A restore takes none. Time is    *)
(* counted in poll intervals; a call that may be made is made within one.  *)
(***************************************************************************)
EXTENDS Naturals

CONSTANTS
  Tasks,             \* of Home Assistant that make calls
  Names, NoName,
  LEARN_TIMEOUT,     \* how long async_learn waits
  learn_timeout,     \* how long the bridge does
  Others,            \* do other clients arm and cancel?
  MaxCalls, MaxEvents

ASSUME CoordinatorAssumption ==
  /\ NoName \notin Names /\ Others \in BOOLEAN
  /\ LEARN_TIMEOUT \in Nat /\ learn_timeout \in Nat
  /\ MaxCalls \in Nat /\ MaxEvents \in Nat

\* The bridge's learner and the names it has stored; `attempt` counts the attempts, refused
\* ones too, for the properties.
Bridge == [st : {"idle", "armed", "captured", "failed"}, name : Names \cup {NoName},
           left : 0..learn_timeout, attempt : Nat, names : SUBSET Names]

\* A call of a task: the lock it was made at, and its place in the line there. For the properties:
\* its attempt, and whether its name was new then and no restore has come since.
Kinds == {"learn", "cancel", "change"}
Call == [kind : Kinds, name : Names \cup {NoName},
         lock : 0..MaxEvents, place : 0..MaxCalls,
         st : {"none", "queued", "polling", "giving up"}, left : 0..LEARN_TIMEOUT,
         attempt : Nat, fresh : BOOLEAN]
NoCall == [kind |-> "change", name |-> NoName, lock |-> 0, place |-> 0, st |-> "none", left |-> 0,
           attempt |-> 0, fresh |-> FALSE]
Outcomes == {"none", "done", "learned", "failed", "timeout", "error"}

VARIABLES
  bridge, up,
  call,       \* of each task
  told,       \* how the last call that ended did
  lock,       \* of the coordinator there is: how many reloads there were
  calls,      \* how many calls were made
  events,
  asked       \* for the properties: attempts the user asked to cancel in good time

vars == <<bridge, up, call, told, lock, calls, events, asked>>

InLine(t) == call[t].place # 0

\* The lock of t is its own: it came first of those in line there.
Owns(t) == \A u \in Tasks : InLine(u) /\ call[u].lock = call[t].lock => call[t].place <= call[u].place

TypeOK ==
  /\ bridge \in Bridge /\ up \in BOOLEAN /\ call \in [Tasks -> Call] /\ told \in Outcomes
  /\ calls \in 0..MaxCalls /\ events \in 0..MaxEvents
  /\ asked \subseteq Nat
  /\ lock \in 0..events
  \* A task is in line while it has a call, nobody shares its place, and only the owner of a
  \* lock is beyond waiting for it.
  /\ \A t \in Tasks : call[t].st # "none" <=> InLine(t)
  /\ \A t, u \in Tasks : InLine(t) /\ call[t].place = call[u].place => t = u
  /\ \A t \in Tasks : call[t].st \in {"polling", "giving up"} => Owns(t)

Event == events < MaxEvents /\ events' = events + 1

-----------------------------------------------------------------------------
(* The bridge: learn, cancel and what ends an attempt (rf_cloner.cpp) *)

\* learn() on bridge b: it arms, or refuses a new name for want of a slot. Either way, an attempt
\* under way is cut off.
Armed(b, name) == [b EXCEPT !.st = "armed", !.name = name, !.left = learn_timeout, !.attempt = @ + 1]
Refused(b) == [b EXCEPT !.st = "idle", !.attempt = @ + 1]
Learning(b, name) == {Armed(b, name)} \cup (IF name \in b.names THEN {} ELSE {Refused(b)})
Cancelled(b) == IF b.st = "armed" THEN [b EXCEPT !.st = "failed"] ELSE b

\* A remote is held long enough; it may not be one that can be stored.
Capture ==
  /\ bridge.st = "armed"
  /\ Event
  /\ \/ bridge' = [bridge EXCEPT !.st = "captured", !.names = @ \cup {bridge.name}]
     \/ bridge' = [bridge EXCEPT !.st = "idle"]
  /\ UNCHANGED <<up, call, told, lock, calls, asked>>

TimesOut ==
  /\ bridge.st = "armed" /\ bridge.left = 0
  /\ bridge' = [bridge EXCEPT !.st = "failed"]
  /\ UNCHANGED <<up, call, told, lock, calls, events, asked>>

\* Another client: the bridge's own web page, an automation on the node.
OthersLearn ==
  /\ Others
  /\ Event
  /\ \E n \in Names : bridge' \in Learning(bridge, n)
  /\ UNCHANGED <<up, call, told, lock, calls, asked>>

OthersCancel ==
  /\ Others /\ bridge.st = "armed"
  /\ Event
  /\ bridge' = Cancelled(bridge)
  /\ UNCHANGED <<up, call, told, lock, calls, asked>>

Disconnects ==
  /\ Event
  /\ up /\ up' = FALSE
  /\ UNCHANGED <<bridge, call, told, lock, calls, asked>>

Reconnects ==
  /\ ~up /\ up' = TRUE
  /\ UNCHANGED <<bridge, call, told, lock, calls, events, asked>>

\* async_restore fills a bridge that is empty, with commands nobody captured; it takes no lock.
Restores ==
  /\ up /\ bridge.names = {}
  /\ Event
  /\ \E ns \in (SUBSET Names) \ {{}} : bridge' = [bridge EXCEPT !.names = ns]
  /\ call' = [t \in Tasks |-> [call[t] EXCEPT !.fresh = FALSE]]
  /\ UNCHANGED <<up, told, lock, calls, asked>>

-----------------------------------------------------------------------------
(* The lock *)

\* The entry is reloaded: a new coordinator, with a lock of its own.
Reload ==
  /\ Event
  /\ lock' = lock + 1
  /\ UNCHANGED <<bridge, up, call, told, calls, asked>>

\* Mutant of Turn: the other calls do not ask for the lock.
Turn_NoLock(t) == call[t].st = "queued" /\ (call[t].kind = "learn" => Owns(t))

\* `async with self._lock` is entered.
Turn(t) == call[t].st = "queued" /\ Owns(t)

\* Mutant of Leaves: the lock is left only by a call that succeeds.
Leaves_OnSuccess(t, outcome) ==
  /\ call' = [call EXCEPT ![t] = IF outcome = "error"
                                 THEN [NoCall EXCEPT !.lock = call[t].lock, !.place = call[t].place]
                                 ELSE NoCall]
  /\ told' = outcome

\* The call of t ends, and the lock it owns is left, however it ended.
Leaves(t, outcome) == call' = [call EXCEPT ![t] = NoCall] /\ told' = outcome

\* A form, an action or a button asks for a call; an action first that the entry is loaded.
Ask(t) ==
  /\ calls < MaxCalls /\ calls' = calls + 1
  /\ call[t].st = "none"
  /\ \E kind \in Kinds, name \in Names \cup {NoName} :
       /\ kind = "cancel" <=> name = NoName
       /\ call' = [call EXCEPT ![t] = [NoCall EXCEPT !.kind = kind, !.name = name, !.lock = lock,
                                                     !.place = calls', !.st = "queued"]]
       /\ asked' = IF kind = "cancel" /\ up /\ bridge.st = "armed" /\ bridge.left > 0
                   THEN asked \cup {bridge.attempt} ELSE asked
  /\ UNCHANGED <<bridge, up, told, lock, events>>

\* A call that cannot be made raises.
CallFails(t) ==
  /\ ~up
  /\ Turn(t) \/ call[t].st \in {"polling", "giving up"}
  /\ Leaves(t, "error")
  /\ UNCHANGED <<bridge, up, lock, calls, events, asked>>

\* async_learn, up to the first status.
ArmLearn(t) ==
  /\ Turn(t) /\ call[t].kind = "learn" /\ up
  /\ bridge' \in Learning(bridge, call[t].name)
  /\ call' = [call EXCEPT ![t].st = "polling", ![t].left = LEARN_TIMEOUT,
                          ![t].attempt = bridge'.attempt,
                          ![t].fresh = call[t].name \notin bridge.names]
  /\ UNCHANGED <<up, told, lock, calls, events, asked>>

\* Mutant of Outcome: the state alone is asked.
Outcome_StateOnly(b, name) == IF b.st = "captured" THEN "learned" ELSE "failed"

\* What _async_await_learn makes of a status that is not armed.
Outcome(b, name) == IF b.st = "captured" /\ name \in b.names THEN "learned" ELSE "failed"

\* A status of _async_await_learn that ends the wait.
LearnEnds(t) ==
  /\ call[t].st = "polling" /\ up
  /\ bridge.st # "armed"
  /\ Leaves(t, Outcome(bridge, call[t].name))
  /\ UNCHANGED <<bridge, up, lock, calls, events, asked>>

\* The last status it waits for is still armed; the cancel is a call of its own.
LearnGivesUp(t) ==
  /\ call[t].st = "polling" /\ up
  /\ bridge.st = "armed" /\ call[t].left = 0
  /\ call' = [call EXCEPT ![t].st = "giving up"]
  /\ UNCHANGED <<bridge, up, told, lock, calls, events, asked>>

\* Mutant of GivenUp: what was armed is left to its own timeout.
GivenUp_LeftArmed(b) == b

\* "leave nothing armed behind"
GivenUp(b) == Cancelled(b)

LearnGaveUp(t) ==
  /\ call[t].st = "giving up" /\ up
  /\ bridge' = GivenUp(bridge)
  /\ Leaves(t, "timeout")
  /\ UNCHANGED <<up, lock, calls, events, asked>>

\* async_cancel
Cancel(t) ==
  /\ Turn(t) /\ call[t].kind = "cancel" /\ up
  /\ bridge' = Cancelled(bridge)
  /\ Leaves(t, "done")
  /\ UNCHANGED <<up, lock, calls, events, asked>>

\* async_rename, async_delete and async_send: here, a command is deleted.
Change(t) ==
  /\ Turn(t) /\ call[t].kind = "change" /\ up
  /\ bridge' = [bridge EXCEPT !.names = @ \ {call[t].name}]
  /\ Leaves(t, "done")
  /\ UNCHANGED <<up, lock, calls, events, asked>>

\* A poll interval passes in which every call that could be made was.
Tick ==
  /\ \A t \in Tasks : ~Turn(t) /\ call[t].st # "giving up"
  /\ \A t \in Tasks : call[t].st = "polling" => up /\ call[t].left > 0
  /\ bridge.st = "armed" /\ bridge.left > 0
  /\ bridge' = [bridge EXCEPT !.left = @ - 1]
  /\ call' = [t \in Tasks |-> IF call[t].st = "polling" THEN [call[t] EXCEPT !.left = @ - 1] ELSE call[t]]
  /\ UNCHANGED <<up, told, lock, calls, events, asked>>

-----------------------------------------------------------------------------

Init ==
  /\ bridge \in {[st |-> "idle", name |-> NoName, left |-> 0, attempt |-> 0, names |-> ns] : ns \in SUBSET Names}
  /\ up = TRUE /\ call = [t \in Tasks |-> NoCall] /\ lock = 0
  /\ told = "none" /\ calls = 0 /\ events = 0 /\ asked = {}

Step(t) ==
  \/ CallFails(t) \/ ArmLearn(t) \/ LearnEnds(t) \/ LearnGivesUp(t) \/ LearnGaveUp(t)
  \/ Cancel(t) \/ Change(t)

Next ==
  \/ Capture \/ TimesOut \/ Tick
  \/ OthersLearn \/ OthersCancel \/ Disconnects \/ Reconnects \/ Restores \/ Reload
  \/ \E t \in Tasks : Ask(t) \/ Step(t)

Fairness ==
  /\ WF_vars(Tick) /\ WF_vars(TimesOut)
  /\ \A t \in Tasks : WF_vars(Step(t))

Spec == Init /\ [][Next]_vars /\ Fairness

-----------------------------------------------------------------------------
(* Properties *)

Ends(t) == call[t].st # "none" /\ call'[t].st = "none"

\* What a learn for a new name reports is true. A success: the name is stored, so a capture
\* under it came after the call, whatever other clients armed, captured or cancelled between
\* two polls. A failure: nothing was stored ("a failed learn writes nothing, so trying again
\* is always safe"), unless somebody else made an attempt meanwhile: another client, or a
\* learn at the lock of a coordinator from before or after a reload. Nothing is said of a learn
\* a restore came into.
ReportIsTrue ==
  [][\A t \in Tasks :
       (Ends(t) /\ call[t].fresh) =>
         /\ told' = "learned" => call[t].name \in bridge'.names
         /\ told' = "failed" /\ bridge'.attempt = call[t].attempt => call[t].name \notin bridge'.names]_vars

\* "Leave nothing armed behind": unless a call failed, the attempt a learn armed is over when the
\* learn returns. And no call ends at its lock meanwhile ("keeps two Home Assistant flows from
\* interleaving a learn with a rename"). A call made after a reload has another lock, and a
\* restore none: those do come between.
LearnIsWhole ==
  [][\A t \in Tasks :
       /\ (Ends(t) /\ call[t].attempt # 0 /\ told' # "error") =>
            ~(bridge'.st = "armed" /\ bridge'.attempt = call[t].attempt)
       /\ call[t].st = "polling" => \A u \in Tasks \ {t} : call[u].lock = call[t].lock => ~Ends(u)]_vars

\* No call waits for ever: not for the lock, not for a capture, not after a lost connection.
CallsReturn == \A t \in Tasks : (call[t].st = "queued") ~> (call[t].st = "none")

\* "Changed your mind mid-learn? Press Cancel learning": an attempt the user asked to cancel while
\* there was time does not run until the learn window closes.
CancelDisarms == [][TimesOut => bridge.attempt \notin asked]_vars
=============================================================================
