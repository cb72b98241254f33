------------------------- MODULE CoordinatorProofs --------------------------
(***************************************************************************)
(* Theorems about Coordinator for any number of tasks, names, calls and    *)
(* events and for all timeouts.                                            *)
(***************************************************************************)
EXTENDS Coordinator, TLAPS

-----------------------------------------------------------------------------
(* The lock *)

\* The last lines of TypeOK: a task is in line exactly while it has a call, at a place of its own,
\* and only the owner of a lock is beyond waiting for it.
Line ==
  /\ \A t \in Tasks : call[t].st # "none" <=> InLine(t)
  /\ \A t, u \in Tasks : InLine(t) /\ call[t].place = call[u].place => t = u
  /\ \A t \in Tasks : call[t].st \in {"polling", "giving up"} => Owns(t)

LEMMA Antisymmetric == \A p, q \in Nat : p <= q /\ q <= p => p = q
OBVIOUS

LEMMA PlaceIsNumber ==
  ASSUME call \in [Tasks -> Call]
  PROVE  \A t \in Tasks : call[t].place \in Nat
<1>1. \A t \in Tasks : call[t].place \in 0..MaxCalls
  BY DEF Call
<1>2. 0..MaxCalls \subseteq Nat
  BY CoordinatorAssumption
<1> QED
  BY <1>1, <1>2

\* A lock has one owner.
LEMMA OneOwner ==
  ASSUME Line, call \in [Tasks -> Call], NEW t \in Tasks, NEW u \in Tasks,
         call[t].lock = call[u].lock,
         Turn(t) \/ call[t].st \in {"polling", "giving up"},
         Turn(u) \/ call[u].st \in {"polling", "giving up"}
  PROVE  t = u
<1>1. Owns(t) /\ Owns(u) /\ InLine(t) /\ InLine(u)
  BY DEF Line, Turn
<1>2. call[t].place <= call[u].place /\ call[u].place <= call[t].place
  BY <1>1 DEF Owns
<1>3. call[t].place \in Nat /\ call[u].place \in Nat
  BY PlaceIsNumber
<1>5. call[t].place = call[u].place
  BY <1>2, <1>3, Antisymmetric
<1> QED
  BY <1>1, <1>5 DEF Line

LEMMA NoCallIsCall == NoCall \in Call /\ NoCall.st = "none" /\ NoCall.attempt = 0 /\ NoCall.place = 0
BY CoordinatorAssumption DEF NoCall, Call, Kinds

\* When a call ends, those behind it move up.
LEMMA LineMovesUp ==
  ASSUME Line, call \in [Tasks -> Call], NEW t \in Tasks, NEW outcome, Leaves(t, outcome)
  PROVE  Line' /\ call' \in [Tasks -> Call]
<1>1. /\ call' \in [Tasks -> Call] /\ ~InLine(t)' /\ call'[t].st = "none"
      /\ \A u \in Tasks \ {t} : call'[u] = call[u]
  BY NoCallIsCall DEF Leaves, InLine
<1>2. \A u \in Tasks : InLine(u)' => u # t /\ call'[u] = call[u] /\ InLine(u)
  BY <1>1 DEF InLine
<1>3. \A u \in Tasks \ {t} : Owns(u) => Owns(u)'
  BY <1>1, <1>2 DEF Owns
<1>4. \A u \in Tasks \ {t} : InLine(u) <=> InLine(u)'
  BY <1>1 DEF InLine
<1>5. \A u \in Tasks : call'[u].st # "none" <=> InLine(u)'
  BY <1>1, <1>4 DEF Line
<1>6. \A u, v \in Tasks : InLine(u)' /\ call'[u].place = call'[v].place => u = v
  <2> SUFFICES ASSUME NEW u \in Tasks, NEW v \in Tasks, InLine(u)', call'[u].place = call'[v].place
               PROVE  u = v
    OBVIOUS
  <2>1. InLine(v)'
    BY DEF InLine
  <2> QED
    BY <1>2, <2>1 DEF Line
<1>7. \A u \in Tasks : call'[u].st \in {"polling", "giving up"} => Owns(u)'
  BY <1>1, <1>3 DEF Line
<1> QED
  BY <1>1, <1>5, <1>6, <1>7 DEF Line

\* A step that leaves everybody in their places, and puts nobody but owners beyond waiting.
LEMMA LineStays ==
  ASSUME Line,
         \A u \in Tasks : /\ call'[u].st = "none" <=> call[u].st = "none"
                          /\ call'[u].place = call[u].place /\ call'[u].lock = call[u].lock
                          /\ call'[u].st \in {"polling", "giving up"} => Owns(u)
  PROVE  Line'
<1>1. \A u \in Tasks : (InLine(u)' <=> InLine(u)) /\ (Owns(u) => Owns(u)')
  BY DEF InLine, Owns
<1>2. \A u \in Tasks : call'[u].st # "none" <=> InLine(u)'
  BY <1>1 DEF Line
<1>3. \A u, v \in Tasks : InLine(u)' /\ call'[u].place = call'[v].place => u = v
  BY <1>1 DEF Line
<1>4. \A u \in Tasks : call'[u].st \in {"polling", "giving up"} => Owns(u)'
  BY <1>1
<1> QED
  BY <1>2, <1>3, <1>4 DEF Line

LEMMA SameCalls == ASSUME Line, call' = call PROVE Line'
BY DEF Line, InLine, Owns

\* A new call is behind the others.
LEMMA LineGrows ==
  ASSUME Line, call \in [Tasks -> Call], NEW t \in Tasks, call[t].st = "none",
         NEW c \in Call, c.st = "queued", call' = [call EXCEPT ![t] = c],
         \A u \in Tasks : call[u].place < c.place
  PROVE  Line'
<1>1. call'[t] = c /\ \A u \in Tasks \ {t} : call'[u] = call[u]
  OBVIOUS
<1>2. \A u \in Tasks : call[u].place \in Nat /\ c.place \in Nat
  <2>1. c.place \in 0..MaxCalls
    BY DEF Call
  <2>2. 0..MaxCalls \subseteq Nat
    BY CoordinatorAssumption
  <2> QED
    BY <2>1, <2>2, PlaceIsNumber
<1>3. InLine(t)' /\ \A u \in Tasks \ {t} : InLine(u)' <=> InLine(u)
  BY <1>1, <1>2 DEF InLine
<1>4. \A u \in Tasks \ {t} : Owns(u) => Owns(u)'
  <2> SUFFICES ASSUME NEW u \in Tasks \ {t}, Owns(u), NEW v \in Tasks, InLine(v)', call'[v].lock = call'[u].lock
               PROVE  call'[u].place <= call'[v].place
    BY DEF Owns
  <2>1. CASE v = t
    BY <1>1, <1>2, <2>1
  <2>2. CASE v # t
    BY <1>1, <1>3, <2>2 DEF Owns
  <2> QED
    BY <2>1, <2>2
<1>5. \A u \in Tasks : call'[u].st # "none" <=> InLine(u)'
  BY <1>1, <1>3 DEF Line, InLine
<1>6. \A u, v \in Tasks : InLine(u)' /\ call'[u].place = call'[v].place => u = v
  <2> SUFFICES ASSUME NEW u \in Tasks, NEW v \in Tasks, InLine(u)', call'[u].place = call'[v].place
               PROVE  u = v
    OBVIOUS
  <2>1. CASE u = t \/ v = t
    BY <1>1, <1>2, <2>1
  <2>2. CASE u # t /\ v # t
    BY <1>1, <1>3, <2>2 DEF Line
  <2> QED
    BY <2>1, <2>2
<1>7. \A u \in Tasks : call'[u].st \in {"polling", "giving up"} => Owns(u)'
  BY <1>1, <1>4 DEF Line
<1> QED
  BY <1>5, <1>6, <1>7 DEF Line

-----------------------------------------------------------------------------
(* Type correctness *)

\* Registers and counters; with Line, this is TypeOK.
Values ==
  /\ bridge \in Bridge /\ up \in BOOLEAN /\ call \in [Tasks -> Call] /\ told \in Outcomes
  /\ calls \in 0..MaxCalls /\ events \in 0..MaxEvents
  /\ asked \subseteq Nat /\ lock \in 0..events

LEMMA TypeOKParts == TypeOK <=> Values /\ Line
BY DEF TypeOK, Values, Line

\* What the bridge does with a call leaves it a bridge.
LEMMA BridgeType ==
  ASSUME NEW b \in Bridge
  PROVE  /\ \A n \in Names \cup {NoName} : Armed(b, n) \in Bridge
         /\ \A n \in Names : Learning(b, n) \subseteq Bridge
         /\ Refused(b) \in Bridge /\ Cancelled(b) \in Bridge /\ GivenUp(b) \in Bridge
<1>1. b.attempt + 1 \in Nat /\ learn_timeout \in 0..learn_timeout
  BY CoordinatorAssumption DEF Bridge
<1>2. \A n \in Names \cup {NoName} : Armed(b, n) \in Bridge
  BY <1>1 DEF Armed, Bridge
<1>3. Refused(b) \in Bridge /\ Cancelled(b) \in Bridge
  BY <1>1 DEF Refused, Cancelled, Bridge
<1>4. QED
  BY <1>2, <1>3 DEF GivenUp, Learning

LEMMA EventType ==
  ASSUME TypeOK, Event
  PROVE  events' \in 0..MaxEvents /\ lock \in 0..events' /\ lock + 1 \in 0..events'
<1>1. MaxEvents \in Nat /\ events \in 0..MaxEvents /\ lock \in 0..events
  BY CoordinatorAssumption DEF TypeOK
<1>2. events < MaxEvents /\ events' = events + 1
  BY DEF Event
<1>3. QED
  BY <1>1, <1>2

LEMMA OutcomeType == \A b, n : Outcome(b, n) \in {"learned", "failed"}
BY DEF Outcome

\* The end of a call.
LEMMA LeavesType ==
  ASSUME TypeOK, NEW t \in Tasks, NEW outcome \in Outcomes, Leaves(t, outcome), bridge' \in Bridge,
         UNCHANGED <<up, lock, calls, events, asked>>
  PROVE  TypeOK'
<1>1. Line /\ Values
  BY TypeOKParts
<1>2. Line' /\ call' \in [Tasks -> Call]
  BY <1>1, LineMovesUp DEF Values
<1>3. told' \in Outcomes
  BY DEF Leaves
<1>4. Values'
  BY <1>1, <1>2, <1>3 DEF Values
<1> QED
  BY <1>2, <1>4 DEF TypeOK, Values, Line

\* TypeOK alone is not inductive: what is captured gets the name it was armed with, and that
\* one must be a name; and no place in line was given yet that is to come.
Named ==
  /\ bridge.st = "armed" => bridge.name \in Names
  /\ \A t \in Tasks : call[t].kind = "learn" => call[t].name \in Names
  /\ \A t \in Tasks : call[t].place <= calls

LEMMA NoCallIsNoLearn == NoCall.kind # "learn" /\ NoCall.place = 0
BY DEF NoCall

LEMMA LeavesNamed ==
  ASSUME TypeOK, Named, NEW t \in Tasks, NEW outcome, Leaves(t, outcome), UNCHANGED calls,
         bridge'.st = "armed" => bridge.st = "armed" /\ bridge'.name = bridge.name
  PROVE  Named'
<1>1. /\ call \in [Tasks -> Call]
      /\ \A u \in Tasks : call'[u] = IF u = t THEN NoCall ELSE call[u]
  BY DEF TypeOK, Leaves
<1>2. 0 <= calls
  <2>1. calls \in 0..MaxCalls
    BY DEF TypeOK
  <2>2. \A n \in 0..MaxCalls : 0 <= n
    BY CoordinatorAssumption
  <2> QED
    BY <2>1, <2>2
<1> QED
  BY <1>1, <1>2, NoCallIsNoLearn DEF Named

\* A step of the bridge, or of others, or a reload.
LEMMA BridgeStepTypes ==
  ASSUME TypeOK, Named, UNCHANGED <<call, told, calls, asked>>, bridge' \in Bridge, up' \in BOOLEAN,
         events' \in 0..MaxEvents, lock' \in 0..events',
         bridge'.st = "armed" => bridge'.name \in Names
  PROVE  TypeOK' /\ Named'
<1>1. Line' /\ Values'
  BY TypeOKParts, SameCalls DEF Values
<1> QED
  BY <1>1 DEF TypeOK, Values, Line, Named

LEMMA TypeStep == TypeOK /\ Named /\ [Next]_vars => TypeOK' /\ Named'
<1> SUFFICES ASSUME TypeOK, Named, [Next]_vars PROVE TypeOK' /\ Named'
  OBVIOUS
<1>0. /\ Line /\ Values /\ call \in [Tasks -> Call] /\ bridge \in Bridge
      /\ 0..LEARN_TIMEOUT \subseteq Nat /\ LEARN_TIMEOUT \in 0..LEARN_TIMEOUT
      /\ \A t \in Tasks : call[t] \in Call
      /\ up \in BOOLEAN /\ events \in 0..MaxEvents /\ lock \in 0..events
      /\ bridge.st = "armed" => bridge.name \in Names
  BY TypeOKParts, CoordinatorAssumption DEF Values, Named
<1>1. CASE Capture
  <2>1. bridge.st = "armed" /\ bridge.names \cup {bridge.name} \in SUBSET Names
    BY <1>0, <1>1 DEF Capture, Bridge, Named
  <2>2. \/ bridge' = [bridge EXCEPT !.st = "captured", !.names = bridge.names \cup {bridge.name}]
        \/ bridge' = [bridge EXCEPT !.st = "idle"]
    BY <1>1 DEF Capture
  <2>3. bridge' \in Bridge /\ bridge'.st # "armed"
    BY <1>0, <2>1, <2>2 DEF Bridge
  <2>4. QED
    BY <1>0, <1>1, <2>3, EventType, BridgeStepTypes DEF Capture
<1>2. CASE TimesOut
  <2>1. bridge' \in Bridge /\ bridge'.st # "armed"
    BY <1>0, <1>2 DEF TimesOut, Bridge
  <2>2. QED
    BY <1>0, <1>2, <2>1, BridgeStepTypes DEF TimesOut
<1>3. CASE OthersLearn
  <2>1. PICK n \in Names : bridge' \in Learning(bridge, n)
    BY <1>3 DEF OthersLearn
  <2>2. bridge' \in Bridge /\ (bridge'.st = "armed" => bridge'.name = n)
    BY <1>0, <2>1, BridgeType DEF Learning, Armed, Refused, Bridge
  <2>3. QED
    BY <1>0, <1>3, <2>2, EventType, BridgeStepTypes DEF OthersLearn
<1>4. CASE OthersCancel
  <2>1. bridge' \in Bridge /\ bridge'.st # "armed"
    BY <1>0, <1>4, BridgeType DEF OthersCancel, Cancelled, Bridge
  <2>2. QED
    BY <1>0, <1>4, <2>1, EventType, BridgeStepTypes DEF OthersCancel
<1>5. CASE Disconnects \/ Reconnects
  <2>1. UNCHANGED <<bridge, call, told, lock, calls, asked>> /\ up' \in BOOLEAN
    BY <1>5 DEF Disconnects, Reconnects
  <2>2. events' \in 0..MaxEvents /\ lock' \in 0..events'
    BY <1>0, <1>5, <2>1, EventType DEF Disconnects, Reconnects
  <2>3. QED
    BY <1>0, <2>1, <2>2, BridgeStepTypes
<1>6. CASE Tick
  <2> DEFINE c(t) == IF call[t].st = "polling" THEN [call[t] EXCEPT !.left = @ - 1] ELSE call[t]
  <2>1. bridge.left - 1 \in 0..learn_timeout
    <3>1. bridge.left \in 0..learn_timeout /\ learn_timeout \in Nat
      BY <1>0, CoordinatorAssumption DEF Bridge
    <3>2. bridge.left > 0
      BY <1>6 DEF Tick
    <3>3. QED
      BY <3>1, <3>2
  <2>2. bridge' \in Bridge /\ bridge'.name = bridge.name /\ bridge'.st = bridge.st
    BY <1>0, <1>6, <2>1 DEF Tick, Bridge
  <2>3. ASSUME NEW t \in Tasks
        PROVE  /\ c(t) \in Call /\ c(t).st = call[t].st
               /\ c(t).kind = call[t].kind /\ c(t).name = call[t].name
               /\ c(t).lock = call[t].lock /\ c(t).place = call[t].place
    <3>1. CASE call[t].st = "polling"
      <4>1. call[t].left - 1 \in 0..LEARN_TIMEOUT
        <5>1. call[t].left \in 0..LEARN_TIMEOUT /\ LEARN_TIMEOUT \in Nat
          BY <1>0, CoordinatorAssumption DEF Call
        <5>2. call[t].left > 0
          BY <1>6, <3>1 DEF Tick
        <5>3. QED
          BY <5>1, <5>2
      <4>2. QED
        BY <1>0, <3>1, <4>1 DEF Call
    <3>2. CASE call[t].st # "polling"
      BY <1>0, <3>2
    <3>3. QED
      BY <3>1, <3>2
  <2>4. call' = [t \in Tasks |-> c(t)]
    BY <1>6 DEF Tick
  <2> HIDE DEF c
  <2>5. call' \in [Tasks -> Call]
    BY <2>3, <2>4
  <2>6. Line'
    <3>1. \A u \in Tasks : /\ call'[u].st = call[u].st /\ call'[u].place = call[u].place
                           /\ call'[u].lock = call[u].lock
      BY <2>3, <2>4
    <3>2. QED
      BY <1>0, <3>1, LineStays DEF Line
  <2>7. Values'
    BY <1>0, <1>6, <2>2, <2>5 DEF Tick, Values
  <2>8. Named'
    <3>1. calls' = calls
      BY <1>6 DEF Tick
    <3>2. QED
      BY <2>2, <2>3, <2>4, <3>1 DEF Named
  <2>9. QED
    BY <2>6, <2>7, <2>8 DEF TypeOK, Values, Line
<1>17. CASE Restores
  <2> DEFINE c(t) == [call[t] EXCEPT !.fresh = FALSE]
  <2>1. PICK ns \in (SUBSET Names) \ {{}} : bridge' = [bridge EXCEPT !.names = ns]
    BY <1>17 DEF Restores
  <2>2. bridge' \in Bridge /\ bridge'.st = bridge.st /\ bridge'.name = bridge.name
    BY <1>0, <2>1 DEF Bridge
  <2>3. ASSUME NEW t \in Tasks
        PROVE  /\ c(t) \in Call /\ c(t).st = call[t].st
               /\ c(t).kind = call[t].kind /\ c(t).name = call[t].name
               /\ c(t).lock = call[t].lock /\ c(t).place = call[t].place
    BY <1>0 DEF Call
  <2>4. call' = [t \in Tasks |-> c(t)]
    BY <1>17 DEF Restores
  <2> HIDE DEF c
  <2>5. call' \in [Tasks -> Call]
    BY <2>3, <2>4
  <2>6. Line'
    <3>1. \A u \in Tasks : /\ call'[u].st = call[u].st /\ call'[u].place = call[u].place
                           /\ call'[u].lock = call[u].lock
      BY <2>3, <2>4
    <3>2. QED
      BY <1>0, <3>1, LineStays DEF Line
  <2>7. events' \in 0..MaxEvents /\ lock' \in 0..events' /\ UNCHANGED <<up, told, calls, asked>>
    BY <1>17, EventType DEF Restores
  <2>8. Values'
    BY <1>0, <2>2, <2>5, <2>7 DEF Values
  <2>9. Named'
    BY <2>2, <2>3, <2>4, <2>7 DEF Named
  <2>10. QED
    BY <2>6, <2>8, <2>9 DEF TypeOK, Values, Line
<1>18. CASE Reload
  <2>1. events' \in 0..MaxEvents /\ lock' \in 0..events' /\ UNCHANGED <<bridge, up, call, told, calls, asked>>
    BY <1>18, EventType DEF Reload
  <2>2. QED
    BY <1>0, <2>1, BridgeStepTypes
<1>7. ASSUME NEW t \in Tasks, Ask(t) PROVE TypeOK' /\ Named'
  <2>1. PICK kind \in Kinds, name \in Names \cup {NoName} :
          /\ kind = "cancel" <=> name = NoName
          /\ call' = [call EXCEPT ![t] = [NoCall EXCEPT !.kind = kind, !.name = name, !.lock = lock,
                                                        !.place = calls', !.st = "queued"]]
          /\ asked' = IF kind = "cancel" /\ up /\ bridge.st = "armed" /\ bridge.left > 0
                      THEN asked \cup {bridge.attempt} ELSE asked
    BY <1>7 DEF Ask
  <2>2. /\ calls' = calls + 1 /\ calls \in Nat /\ calls' \in 0..MaxCalls /\ lock \in 0..MaxEvents
        /\ UNCHANGED <<bridge, up, told, lock, events>> /\ call[t].st = "none"
    BY <1>0, <1>7, CoordinatorAssumption DEF Ask, Values
  <2> DEFINE c == [NoCall EXCEPT !.kind = kind, !.name = name, !.lock = lock, !.place = calls', !.st = "queued"]
  <2>3. c \in Call /\ c.st = "queued" /\ c.kind = kind /\ c.name = name /\ c.place = calls'
    BY <2>2, NoCallIsCall, CoordinatorAssumption DEF NoCall, Call
  <2>4. call' = [call EXCEPT ![t] = c]
    BY <2>1
  <2> HIDE DEF c
  <2>5. \A u \in Tasks : call[u].place \in Nat /\ call[u].place <= calls
    <3>1. \A u \in Tasks : call[u].place \in 0..MaxCalls
      BY <1>0 DEF Call
    <3> QED
      BY <3>1, CoordinatorAssumption DEF Named
  <2>6. \A u \in Tasks : call[u].place < c.place
    BY <2>2, <2>3, <2>5
  <2>7. Line'
    BY <1>0, <2>2, <2>3, <2>4, <2>6, LineGrows
  <2>8. call' \in [Tasks -> Call]
    BY <1>0, <2>3, <2>4
  <2>9. asked' \subseteq Nat
    BY <1>0, <2>1 DEF Values, Bridge
  <2>10. Values'
    BY <1>0, <2>2, <2>8, <2>9 DEF Values
  <2>11. kind = "learn" => name \in Names
    BY <2>1
  <2>12. \A u \in Tasks : call'[u] = IF u = t THEN c ELSE call[u]
    BY <1>0, <2>4
  <2>13. \A u \in Tasks : call'[u].place <= calls'
    BY <2>2, <2>3, <2>5, <2>12
  <2>14. Named'
    BY <2>2, <2>3, <2>11, <2>12, <2>13 DEF Named
  <2>15. QED
    BY <2>7, <2>10, <2>14 DEF TypeOK, Values, Line
<1>8. ASSUME NEW t \in Tasks, CallFails(t) PROVE TypeOK' /\ Named'
  <2>1. "error" \in Outcomes
    BY DEF Outcomes
  <2>2. TypeOK'
    BY <1>0, <1>8, <2>1, LeavesType DEF CallFails
  <2>3. Named'
    BY <1>0, <1>8, LeavesNamed DEF CallFails
  <2>4. QED
    BY <2>2, <2>3
<1>9. ASSUME NEW t \in Tasks, ArmLearn(t) PROVE TypeOK' /\ Named'
  <2>1. /\ Turn(t) /\ call[t].kind = "learn" /\ call[t].name \in Names
        /\ bridge' \in Learning(bridge, call[t].name)
        /\ UNCHANGED <<up, told, lock, calls, events, asked>>
    BY <1>9 DEF ArmLearn, Named
  <2>2. bridge' \in Bridge /\ (bridge'.st = "armed" => bridge'.name \in Names)
    BY <1>0, <2>1, BridgeType DEF Learning, Armed, Refused, Bridge
  <2> DEFINE c == [call[t] EXCEPT !.st = "polling", !.left = LEARN_TIMEOUT,
                                  !.attempt = bridge'.attempt, !.fresh = call[t].name \notin bridge.names]
  <2>3. bridge'.attempt \in Nat
    BY <2>2 DEF Bridge
  <2>4. /\ c \in Call /\ c.st = "polling" /\ c.kind = call[t].kind /\ c.name = call[t].name
        /\ c.place = call[t].place /\ c.lock = call[t].lock
    BY <1>0, <2>3 DEF Call
  <2>5. call' = [call EXCEPT ![t] = c]
    BY <1>0, <1>9 DEF ArmLearn
  <2> HIDE DEF c
  <2>6. call' \in [Tasks -> Call]
    BY <1>0, <2>4, <2>5
  <2>7. call[t].st # "none" /\ Owns(t)
    BY <2>1 DEF Turn
  <2>8. \A u \in Tasks : call'[u] = IF u = t THEN c ELSE call[u]
    BY <1>0, <2>5
  <2>9. Line'
    BY <1>0, <2>4, <2>7, <2>8, LineStays DEF Line
  <2>10. Values'
    BY <1>0, <2>1, <2>2, <2>6 DEF Values
  <2>11. Named'
    BY <2>1, <2>2, <2>4, <2>8 DEF Named
  <2>12. QED
    BY <2>9, <2>10, <2>11 DEF TypeOK, Values, Line
<1>10. ASSUME NEW t \in Tasks, LearnEnds(t) PROVE TypeOK' /\ Named'
  <2>1. Outcome(bridge, call[t].name) \in Outcomes
    BY OutcomeType DEF Outcomes
  <2>2. TypeOK'
    BY <1>0, <1>10, <2>1, LeavesType DEF LearnEnds
  <2>3. Named'
    BY <1>0, <1>10, LeavesNamed DEF LearnEnds
  <2>4. QED
    BY <2>2, <2>3
<1>11. ASSUME NEW t \in Tasks, LearnGivesUp(t) PROVE TypeOK' /\ Named'
  <2> DEFINE c == [call[t] EXCEPT !.st = "giving up"]
  <2>1. /\ c \in Call /\ c.st = "giving up" /\ c.kind = call[t].kind /\ c.name = call[t].name
        /\ c.place = call[t].place /\ c.lock = call[t].lock
    BY <1>0 DEF Call
  <2>2. call' = [call EXCEPT ![t] = c] /\ call[t].st = "polling"
    BY <1>11 DEF LearnGivesUp
  <2> HIDE DEF c
  <2>3. \A u \in Tasks : call'[u] = IF u = t THEN c ELSE call[u]
    BY <1>0, <2>2
  <2>4. call' \in [Tasks -> Call]
    BY <1>0, <2>1, <2>2
  <2>5. Line'
    <3>1. Owns(t)
      BY <1>0, <2>2 DEF Line
    <3>2. QED
      BY <1>0, <2>1, <2>2, <2>3, <3>1, LineStays DEF Line
  <2>6. Values'
    BY <1>0, <1>11, <2>4 DEF LearnGivesUp, Values
  <2>7. Named'
    BY <1>11, <2>1, <2>3 DEF LearnGivesUp, Named
  <2>8. QED
    BY <2>5, <2>6, <2>7 DEF TypeOK, Values, Line
<1>12. ASSUME NEW t \in Tasks, LearnGaveUp(t) PROVE TypeOK' /\ Named'
  <2>1. "timeout" \in Outcomes /\ bridge' \in Bridge
    BY <1>0, <1>12, BridgeType DEF Outcomes, LearnGaveUp
  <2>2. TypeOK'
    BY <1>0, <1>12, <2>1, LeavesType DEF LearnGaveUp
  <2>3. bridge'.st # "armed"
    BY <1>0, <1>12 DEF LearnGaveUp, GivenUp, Cancelled, Bridge
  <2>4. Named'
    BY <1>0, <1>12, <2>3, LeavesNamed DEF LearnGaveUp
  <2>5. QED
    BY <2>2, <2>4
<1>13. ASSUME NEW t \in Tasks, Cancel(t) PROVE TypeOK' /\ Named'
  <2>1. "done" \in Outcomes /\ bridge' \in Bridge
    BY <1>0, <1>13, BridgeType DEF Outcomes, Cancel
  <2>2. TypeOK'
    BY <1>0, <1>13, <2>1, LeavesType DEF Cancel
  <2>3. bridge'.st # "armed"
    BY <1>0, <1>13 DEF Cancel, Cancelled, Bridge
  <2>4. Named'
    BY <1>0, <1>13, <2>3, LeavesNamed DEF Cancel
  <2>5. QED
    BY <2>2, <2>4
<1>14. ASSUME NEW t \in Tasks, Change(t) PROVE TypeOK' /\ Named'
  <2>1. "done" \in Outcomes /\ bridge' = [bridge EXCEPT !.names = bridge.names \ {call[t].name}]
    BY <1>14 DEF Outcomes, Change
  <2>2. bridge' \in Bridge /\ bridge'.st = bridge.st /\ bridge'.name = bridge.name
    BY <1>0, <2>1 DEF Bridge
  <2>3. TypeOK'
    BY <1>0, <1>14, <2>1, <2>2, LeavesType DEF Change
  <2>4. Named'
    BY <1>0, <1>14, <2>2, LeavesNamed DEF Change
  <2>5. QED
    BY <2>3, <2>4
<1>15. CASE UNCHANGED vars
  BY <1>0, <1>15, BridgeStepTypes DEF vars
<1>16. QED
  BY <1>1, <1>2, <1>3, <1>4, <1>5, <1>6, <1>7, <1>8, <1>9, <1>10, <1>11, <1>12, <1>13, <1>14,
     <1>15, <1>17, <1>18 DEF Next, Step

LEMMA TypeAlways == Spec => [](TypeOK /\ Named)
<1>1. Init => TypeOK /\ Named
  <2> SUFFICES ASSUME Init PROVE TypeOK /\ Named
    OBVIOUS
  <2>1. bridge \in Bridge /\ bridge.st = "idle"
    BY CoordinatorAssumption DEF Init, Bridge
  <2>2. call \in [Tasks -> Call] /\ \A t \in Tasks : call[t] = NoCall
    BY NoCallIsCall DEF Init
  <2>4. Line
    BY <2>2, NoCallIsCall DEF Line, InLine
  <2>5. Values
    BY <2>1, <2>2, CoordinatorAssumption DEF Init, Values, Outcomes
  <2>6. Named
    BY <2>1, <2>2, NoCallIsNoLearn DEF Named, Init
  <2>7. QED
    BY <2>4, <2>5, <2>6 DEF TypeOK, Values, Line
<1>2. QED
  BY <1>1, TypeStep, PTL DEF Spec

\* Whatever is lost, refused, cut off or given up: a task waits for the lock once and exactly
\* while it has a call, and only the owner of a coordinator's lock talks to the bridge (`async
\* with self._lock` around every call of it).
THEOREM TypeCorrect == Spec => []TypeOK
BY TypeAlways, PTL

-----------------------------------------------------------------------------
(* A learn is whole, and what it reports is true *)

\* Only the calls that reached the bridge name an attempt, none a later one than the bridge's;
\* and as long as no later attempt was armed, a name that was new and is stored now was
\* captured by this one.
Attempts ==
  /\ \A t \in Tasks : call[t].attempt <= bridge.attempt
  /\ \A t \in Tasks : call[t].st = "queued" => call[t].attempt = 0 /\ ~call[t].fresh
  /\ \A t \in Tasks : (call[t].st # "none" /\ call[t].fresh /\ bridge.attempt = call[t].attempt
                        /\ call[t].name \in bridge.names) => bridge.st = "captured"

\* A step of the bridge, or of others, that arms nothing and stores nothing unless it captures.
LEMMA SameAttempt ==
  ASSUME Attempts, call' = call, bridge'.attempt = bridge.attempt,
         bridge.st = "captured" => bridge'.st = "captured",
         bridge'.st = "captured" \/ bridge'.names = bridge.names
  PROVE  Attempts'
BY DEF Attempts

\* The end of a call that neither arms nor captures.
LEMMA LeavesAttempts ==
  ASSUME Attempts, call \in [Tasks -> Call], bridge \in Bridge,
         NEW t \in Tasks, NEW outcome, Leaves(t, outcome),
         bridge'.attempt = bridge.attempt, bridge'.names \subseteq bridge.names,
         bridge.st = "captured" => bridge'.st = "captured"
  PROVE  Attempts'
<1>1. \A u \in Tasks : call'[u] = IF u = t THEN NoCall ELSE call[u]
  BY DEF Leaves
<1>2. NoCall.st = "none" /\ NoCall.attempt = 0 /\ bridge.attempt \in Nat
  BY NoCallIsCall DEF Bridge
<1>3. QED
  BY <1>1, <1>2 DEF Attempts

LEMMA AttemptsStep == TypeOK /\ Attempts /\ [Next]_vars => Attempts'
<1> SUFFICES ASSUME TypeOK, Attempts, [Next]_vars PROVE Attempts'
  OBVIOUS
<1>0. /\ Line /\ call \in [Tasks -> Call] /\ bridge \in Bridge
      /\ bridge.attempt \in Nat /\ \A t \in Tasks : call[t] \in Call /\ call[t].attempt \in Nat
  BY TypeOKParts DEF Values, Bridge, Call
<1>1. CASE Capture
  <2>1. /\ bridge.st = "armed" /\ call' = call
        /\ \/ bridge' = [bridge EXCEPT !.st = "captured", !.names = @ \cup {bridge.name}]
           \/ bridge' = [bridge EXCEPT !.st = "idle"]
    BY <1>1 DEF Capture
  <2>2. bridge'.attempt = bridge.attempt
        /\ (bridge'.st = "captured" \/ bridge'.names = bridge.names)
    BY <1>0, <2>1 DEF Bridge
  <2>3. QED
    BY <2>1, <2>2, SameAttempt
<1>2. CASE TimesOut
  <2>1. /\ call' = call /\ bridge.st = "armed"
        /\ bridge'.attempt = bridge.attempt /\ bridge'.names = bridge.names
    BY <1>0, <1>2 DEF TimesOut, Bridge
  <2>2. QED
    BY <2>1, SameAttempt
<1>3. CASE OthersLearn
  <2>1. PICK n \in Names : bridge' \in Learning(bridge, n)
    BY <1>3 DEF OthersLearn
  <2>2. bridge'.attempt = bridge.attempt + 1 /\ call' = call
    BY <1>0, <1>3, <2>1 DEF OthersLearn, Learning, Armed, Refused, Bridge
  <2>3. \A t \in Tasks : call[t].attempt # bridge'.attempt /\ call[t].attempt <= bridge'.attempt
    BY <1>0, <2>2 DEF Attempts
  <2>4. QED
    BY <2>2, <2>3 DEF Attempts
<1>4. CASE OthersCancel
  <2>1. /\ call' = call /\ bridge.st = "armed"
        /\ bridge'.attempt = bridge.attempt /\ bridge'.names = bridge.names
    BY <1>0, <1>4 DEF OthersCancel, Cancelled, Bridge
  <2>2. QED
    BY <2>1, SameAttempt
<1>5. CASE Disconnects \/ Reconnects
  BY <1>5 DEF Disconnects, Reconnects, Attempts
<1>6. CASE Tick
  <2>1. /\ bridge'.attempt = bridge.attempt /\ bridge'.names = bridge.names
        /\ bridge'.st = bridge.st
    BY <1>0, <1>6 DEF Tick, Bridge
  <2>2. ASSUME NEW t \in Tasks
        PROVE  /\ call'[t].attempt = call[t].attempt /\ call'[t].st = call[t].st
               /\ call'[t].fresh = call[t].fresh /\ call'[t].name = call[t].name
    BY <1>0, <1>6 DEF Tick, Call
  <2>3. QED
    BY <2>1, <2>2 DEF Attempts
<1>7. ASSUME NEW t \in Tasks, Ask(t) PROVE Attempts'
  <2>1. PICK kind \in Kinds, name \in Names \cup {NoName} :
          call' = [call EXCEPT ![t] = [NoCall EXCEPT !.kind = kind, !.name = name, !.lock = lock,
                                                     !.place = calls', !.st = "queued"]]
    BY <1>7 DEF Ask
  <2> DEFINE c == [NoCall EXCEPT !.kind = kind, !.name = name, !.lock = lock, !.place = calls', !.st = "queued"]
  <2>2. c.attempt = 0 /\ c.fresh = FALSE /\ c.st = "queued"
    BY DEF NoCall
  <2>3. call' = [call EXCEPT ![t] = c]
    BY <2>1
  <2> HIDE DEF c
  <2>4. \A u \in Tasks : call'[u] = IF u = t THEN c ELSE call[u]
    BY <1>0, <2>3
  <2>5. bridge' = bridge
    BY <1>7 DEF Ask
  <2>6. QED
    BY <1>0, <2>2, <2>4, <2>5 DEF Attempts
<1>8. ASSUME NEW t \in Tasks, CallFails(t) PROVE Attempts'
  BY <1>0, <1>8, LeavesAttempts DEF CallFails
<1>9. ASSUME NEW t \in Tasks, ArmLearn(t) PROVE Attempts'
  <2>1. bridge'.attempt = bridge.attempt + 1 /\ bridge'.names = bridge.names
    BY <1>0, <1>9 DEF ArmLearn, Learning, Armed, Refused, Bridge
  <2>2. /\ call' = [call EXCEPT ![t].st = "polling", ![t].left = LEARN_TIMEOUT,
                               ![t].attempt = bridge'.attempt,
                               ![t].fresh = call[t].name \notin bridge.names]
    BY <1>9 DEF ArmLearn
  <2>3. /\ call'[t].st = "polling" /\ call'[t].attempt = bridge'.attempt
        /\ call'[t].fresh => call[t].name \notin bridge.names
        /\ call'[t].name = call[t].name
    BY <1>0, <2>2 DEF Call
  <2>4. \A u \in Tasks \ {t} :
          call'[u] = call[u] /\ call[u].attempt # bridge'.attempt /\ call[u].attempt <= bridge'.attempt
    BY <1>0, <2>1, <2>2 DEF Attempts
  <2>5. bridge'.attempt <= bridge'.attempt
    BY <1>0, <2>1
  <2> QED
    BY <2>1, <2>3, <2>4, <2>5 DEF Attempts
<1>15. CASE Restores
  <2>1. bridge'.attempt = bridge.attempt
    BY <1>0, <1>15 DEF Restores, Bridge
  <2>2. ASSUME NEW t \in Tasks
        PROVE  call'[t].attempt = call[t].attempt /\ call'[t].st = call[t].st /\ ~call'[t].fresh
    BY <1>0, <1>15 DEF Restores, Call
  <2>3. QED
    BY <2>1, <2>2 DEF Attempts
<1>16. CASE Reload
  BY <1>16 DEF Reload, Attempts
<1>10. ASSUME NEW t \in Tasks, LearnEnds(t) PROVE Attempts'
  BY <1>0, <1>10, LeavesAttempts DEF LearnEnds
<1>11. ASSUME NEW t \in Tasks, LearnGivesUp(t) PROVE Attempts'
  <2>1. bridge' = bridge /\ call[t].st = "polling"
        /\ call' = [call EXCEPT ![t].st = "giving up"]
    BY <1>11 DEF LearnGivesUp
  <2>2. \A u \in Tasks : /\ call'[u].attempt = call[u].attempt /\ call'[u].fresh = call[u].fresh
                         /\ call'[u].name = call[u].name
                         /\ u # t => call'[u].st = call[u].st
    BY <1>0, <2>1 DEF Call
  <2>3. call'[t].st = "giving up"
    BY <1>0, <2>1 DEF Call
  <2>4. QED
    BY <2>1, <2>2, <2>3 DEF Attempts
<1>12. ASSUME NEW t \in Tasks, LearnGaveUp(t) \/ Cancel(t) \/ Change(t) PROVE Attempts'
  <2>1. \/ bridge' = Cancelled(bridge)
        \/ bridge' = [bridge EXCEPT !.names = bridge.names \ {call[t].name}]
    BY <1>12 DEF LearnGaveUp, GivenUp, Cancel, Change
  <2>2. /\ bridge'.attempt = bridge.attempt /\ bridge'.names \subseteq bridge.names
        /\ bridge.st = "captured" => bridge'.st = "captured"
    BY <1>0, <2>1 DEF Cancelled, Bridge
  <2>3. QED
    BY <1>0, <1>12, <2>2, LeavesAttempts DEF LearnGaveUp, Cancel, Change
<1>13. CASE UNCHANGED vars
  BY <1>13 DEF vars, Attempts
<1>14. QED
  BY <1>1, <1>2, <1>3, <1>4, <1>5, <1>6, <1>7, <1>8, <1>9, <1>10, <1>11, <1>12, <1>13,
     <1>15, <1>16 DEF Next, Step

LEMMA AttemptsAlways == Spec => [](TypeOK /\ Attempts)
<1>1. Init => Attempts
  BY NoCallIsCall DEF Init, Attempts
<1>2. QED
  BY <1>1, AttemptsStep, TypeCorrect, PTL DEF Spec

\* How a call ends: by an error, by what the bridge shows of a learn, by giving up, or done.
LEMMA HowCallsEnd ==
  ASSUME TypeOK, [Next]_vars, NEW t \in Tasks, Ends(t)
  PROVE  /\ Turn(t) \/ call[t].st \in {"polling", "giving up"}
         /\ \/ told' = "error"
            \/ LearnEnds(t)
            \/ told' = "timeout" /\ LearnGaveUp(t)
            \/ told' = "done" /\ Turn(t)
<1>0. call \in [Tasks -> Call] /\ \A u \in Tasks : call[u] \in Call
  BY TypeOKParts DEF Values
<1>1. call[t].st # "none" /\ call'[t].st = "none"
  BY DEF Ends
<1>2. ~(UNCHANGED call)
  BY <1>1
<1>3. ~Tick /\ ~Restores
  <2>1. ASSUME Tick PROVE FALSE
    <3>1. call'[t] = call[t] \/ call'[t] = [call[t] EXCEPT !.left = @ - 1]
      BY <2>1 DEF Tick
    <3>2. call[t] \in Call
      BY <1>0
    <3>3. [call[t] EXCEPT !.left = @ - 1].st = call[t].st
      BY <3>2 DEF Call
    <3>4. QED
      BY <1>1, <3>1, <3>3
  <2>2. ~Restores
    BY <1>0, <1>1 DEF Restores, Call
  <2>3. QED
    BY <2>1, <2>2
<1>4. ASSUME NEW u \in Tasks PROVE ~(Ask(u) \/ ArmLearn(u) \/ LearnGivesUp(u))
  <2>1. ASSUME Ask(u) PROVE FALSE
    <3>1. PICK kind \in Kinds, name \in Names \cup {NoName} :
            call' = [call EXCEPT ![u] = [NoCall EXCEPT !.kind = kind, !.name = name, !.lock = lock,
                                                       !.place = calls', !.st = "queued"]]
      BY <2>1 DEF Ask
    <3> DEFINE c == [NoCall EXCEPT !.kind = kind, !.name = name, !.lock = lock, !.place = calls', !.st = "queued"]
    <3>2. c.st = "queued" /\ call' = [call EXCEPT ![u] = c]
      BY <3>1 DEF NoCall
    <3> HIDE DEF c
    <3>3. QED
      BY <1>0, <1>1, <3>2
  <2>2. ASSUME NEW a, NEW f,
               call' = [call EXCEPT ![u].st = "polling", ![u].left = LEARN_TIMEOUT,
                                    ![u].attempt = a, ![u].fresh = f]
        PROVE  FALSE
    <3>1. call'[u].st = "polling" /\ \A v \in Tasks \ {u} : call'[v] = call[v]
      BY <1>0, <2>2 DEF Call
    <3>2. QED
      BY <1>1, <3>1
  <2>3. ASSUME ArmLearn(u) PROVE FALSE
    BY <2>2, <2>3 DEF ArmLearn
  <2>4. ASSUME LearnGivesUp(u) PROVE FALSE
    <3>1. call'[u].st = "giving up" /\ \A v \in Tasks \ {u} : call'[v] = call[v]
      BY <1>0, <2>4 DEF LearnGivesUp, Call
    <3>2. QED
      BY <1>1, <3>1
  <2>5. QED
    BY <2>1, <2>3, <2>4
<1>5. PICK u \in Tasks : CallFails(u) \/ LearnEnds(u) \/ LearnGaveUp(u) \/ Cancel(u) \/ Change(u)
  BY <1>2, <1>3, <1>4
  DEF Next, Step, vars, Capture, TimesOut, OthersLearn, OthersCancel, Disconnects, Reconnects, Reload
<1>6. u = t
  BY <1>0, <1>1, <1>5 DEF CallFails, LearnEnds, LearnGaveUp, Cancel, Change, Leaves
<1>7. QED
  BY <1>5, <1>6 DEF CallFails, LearnEnds, LearnGaveUp, Cancel, Change, Leaves

\* A learn that returns without an error leaves nothing armed behind, and no other call made at
\* the same lock ends while it waits for its capture, however many coordinators reloads have made.
THEOREM LearnsAreWhole == Spec => LearnIsWhole
<1> DEFINE A == [\A t \in Tasks :
                   /\ (Ends(t) /\ call[t].attempt # 0 /\ told' # "error") =>
                        ~(bridge'.st = "armed" /\ bridge'.attempt = call[t].attempt)
                   /\ call[t].st = "polling" => \A u \in Tasks \ {t} : call[u].lock = call[t].lock => ~Ends(u)]_vars
<1>1. TypeOK /\ Attempts /\ [Next]_vars => A
  <2> SUFFICES ASSUME TypeOK, Attempts, [Next]_vars, NEW t \in Tasks
               PROVE  /\ (Ends(t) /\ call[t].attempt # 0 /\ told' # "error") =>
                           ~(bridge'.st = "armed" /\ bridge'.attempt = call[t].attempt)
                      /\ call[t].st = "polling" => \A u \in Tasks \ {t} : call[u].lock = call[t].lock => ~Ends(u)
    OBVIOUS
  <2>0. Line /\ bridge \in Bridge /\ call \in [Tasks -> Call]
    BY TypeOKParts DEF Values
  <2>1. ASSUME Ends(t), call[t].attempt # 0, told' # "error" PROVE bridge'.st # "armed"
    <3>1. ~Turn(t)
      BY <2>1 DEF Attempts, Turn
    <3>2. LearnEnds(t) \/ LearnGaveUp(t)
      BY <2>1, <3>1, HowCallsEnd
    <3>3. QED
      BY <2>0, <3>2 DEF LearnEnds, LearnGaveUp, GivenUp, Cancelled, Bridge
  <2>2. ASSUME call[t].st = "polling", NEW u \in Tasks \ {t}, call[u].lock = call[t].lock, Ends(u) PROVE FALSE
    BY <2>0, <2>2, HowCallsEnd, OneOwner
  <2>3. QED
    BY <2>1, <2>2
<1>2. QED
  BY <1>1, AttemptsAlways, PTL DEF Spec, LearnIsWhole

\* "learned" is reported only of a name that is stored, and "failed" of a new name only when
\* nothing was stored under it, unless somebody else made an attempt or restored the bridge in
\* between (_async_await_learn, which sees the bridge only at its polls).
THEOREM ReportsAreTrue == Spec => ReportIsTrue
<1> DEFINE A == [\A t \in Tasks :
                   (Ends(t) /\ call[t].fresh) =>
                     /\ told' = "learned" => call[t].name \in bridge'.names
                     /\ told' = "failed" /\ bridge'.attempt = call[t].attempt
                          => call[t].name \notin bridge'.names]_vars
<1>1. TypeOK /\ Attempts /\ [Next]_vars => A
  <2> SUFFICES ASSUME TypeOK, Attempts, [Next]_vars, NEW t \in Tasks, Ends(t), call[t].fresh
               PROVE  /\ told' = "learned" => call[t].name \in bridge'.names
                      /\ told' = "failed" /\ bridge'.attempt = call[t].attempt
                           => call[t].name \notin bridge'.names
    OBVIOUS
  <2>1. told' \in {"learned", "failed"} => LearnEnds(t)
    BY HowCallsEnd
  <2>2. CASE LearnEnds(t)
    <3>1. /\ bridge' = bridge /\ told' = Outcome(bridge, call[t].name)
          /\ call[t].st = "polling"
      BY <2>2 DEF LearnEnds, Leaves
    <3>2. QED
      BY <3>1 DEF Outcome, Attempts
  <2>3. QED
    BY <2>1, <2>2
<1>2. QED
  BY <1>1, AttemptsAlways, PTL DEF Spec, ReportIsTrue
=============================================================================
