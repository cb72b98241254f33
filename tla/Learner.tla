------------------------------- MODULE Learner -------------------------------
(***************************************************************************)
(* Learning one command (components/rf_cloner/rf_cloner.cpp): arming,      *)
(* collecting frames that agree, measuring the gap between them, and       *)
(* ending in a stored command or a failure.                                *)
(*                                                                         *)
(* Everything runs on the main loop of the firmware, one call at a time.   *)
(* What makes it hard is that every announcement is a synchronous callback *)
(* into user automations, which may call the component again before it     *)
(* returns: `stack` holds what the interrupted calls still have to do.     *)
(* A call made from the last statement of another call is a call made      *)
(* after it, so only the callbacks with work behind them are kept.         *)
(*                                                                         *)
(* A waveform is opaque (Waves); a receive window is what the validator    *)
(* (capture_validator.cpp) makes of it: the frames it splits into, the     *)
(* gaps between them, and the verdict on the window as one frame. One      *)
(* clock stands for millis() and micros(), read as ages that stop growing  *)
(* where the code stops telling them apart; it does not wrap.              *)
(* The registry is the set of stored names (CommandStore has the rest):    *)
(* put may always be refused.                                              *)
(***************************************************************************)
EXTENDS Integers, SequencesExt, FiniteSetsExt

CONSTANTS
  Names, ValidNames,  \* names a caller may pass, and those validate_name accepts
  NoName,             \* no attempt has been made since boot
  MaxCommands,        \* slots
  Waves,              \* waveforms that pass validate_frame
  NoWave,             \* no candidate
  Agrees,             \* <<a, b>>: b lies within the tolerance of a
  Duration,           \* Duration[w]: ticks waveform w occupies the air
  Windows,            \* receive windows
  MIN_REPEATS, SETTLE, LEARN_TIMEOUT, MIN_GAP, MAX_GAP, DEFAULT_GAP,
  GAP_INTERVAL_TARGET, GAP_MIN_INTERVALS,
  MaxGaps, MaxIntervals, \* bounds: past these gaps or intervals a window is not delivered
  Depth               \* bound: how deep callbacks call back; 0 if automations never do

Rejects == {"too_few_pulses", "too_many_pulses", "pulse_out_of_range"}
Window == [frames : Seq(Waves \cup Rejects), gaps : Seq(Nat), whole : Waves \cup Rejects]

ASSUME LearnerAssumption ==
  /\ ValidNames \subseteq Names /\ NoName \notin Names
  /\ IsFiniteSet(Waves) /\ Waves # {} /\ NoWave \notin Waves \cup Rejects /\ Waves \cap Rejects = {}
  /\ Agrees \subseteq Waves \X Waves /\ \A w \in Waves : <<w, w>> \in Agrees
  /\ Duration \in [Waves -> Nat]
  /\ Windows \subseteq Window
  /\ \A win \in Windows : \* the gap after each frame but the last
       DOMAIN win.gaps = {i \in DOMAIN win.frames : i + 1 \in DOMAIN win.frames}
  /\ MaxCommands \in Nat \ {0}
  /\ MIN_REPEATS \in Nat \ {0, 1}
  /\ SETTLE \in Nat /\ LEARN_TIMEOUT \in Nat /\ {MaxGaps, MaxIntervals} \subseteq Nat /\ Depth \in Nat
  /\ MIN_GAP \in Nat /\ MAX_GAP \in Nat /\ DEFAULT_GAP \in MIN_GAP..MAX_GAP
  /\ GAP_INTERVAL_TARGET \in Nat /\ GAP_MIN_INTERVALS \in Nat \ {0}

VARIABLES
  state,           \* state_
  pending_name,    \* pending_name_
  last_result,     \* what last_result_ says; "captured" stands for the name
  candidate,       \* candidate_, NoWave when empty
  agreements,      \* agreements_, up to MIN_REPEATS
  interval_count,  \* interval_count_
  span,            \* last_frame_us_ - first_frame_us_
  quiet,           \* time since last_frame_us_
  physical_gaps,   \* physical_gaps_, each with the waveform it was measured on
  left,            \* time to deadline_ms_ of the attempt, 0 once passed
  ready,           \* ready_
  settling,        \* time since ready_since_ms_, 0 while not ready
  saw_frame,       \* saw_frame_
  last_reject,     \* last_reject_
  looping,         \* is loop() enabled?
  dispatched,      \* has this pass of the main loop delivered its window to the attempt?
  stored,          \* names in the registry
  last_put,        \* the command this attempt handed to the store
  stack,           \* what the calls interrupted by a callback still have to do
  \* For the properties:
  heard,           \* heard[w]: frames of w received in this attempt, up to MIN_REPEATS
  timed,           \* the waveform whose arrivals span measures, NoWave if none of this attempt
  open             \* attempts armed, neither reported as ended nor overwritten from the stack

capture == <<candidate, agreements, physical_gaps, ready, settling, saw_frame, last_reject>>
timing == <<interval_count, span, quiet, timed>>
outcome == <<state, last_result, stored, last_put, stack, open, left>>
vars == <<pending_name, capture, timing, outcome, looping, dispatched, heard>>

Reasons == Rejects \cup {"timeout", "no_repeat_agreement", "cancelled", "name_rejected",
                         "store_full", "store_error"}

Smaller(a, b) == IF a < b THEN a ELSE b
Agree(a, b) == <<a, b>> \in Agrees

NoCommand == [timings |-> NoWave, gap_us |-> 0, from |-> {}]

-----------------------------------------------------------------------------
(* The gap between repeats *)

\* The median of the gaps read off the waveform.
MedianGap ==
  LET us == SortSeq([i \in DOMAIN physical_gaps |-> physical_gaps[i].us], <)
  IN  us[Len(us) \div 2 + 1]

\* estimate_gap_us: the mean interval between arrivals less the frame, 0 if implausible.
EstimatedGap ==
  LET gap == span \div interval_count - Duration[candidate]
  IN  IF interval_count >= GAP_MIN_INTERVALS /\ gap \in MIN_GAP..MAX_GAP /\ gap > 0
      THEN gap ELSE 0

\* What commit_capture_ stores, with resolve_gap_us_; `from` are the waveforms the gap was
\* measured on, none if it is the default.
Captured ==
  IF physical_gaps # <<>> /\ MedianGap \in MIN_GAP..MAX_GAP
  THEN [timings |-> candidate, gap_us |-> MedianGap,
        from |-> {physical_gaps[i].of : i \in DOMAIN physical_gaps}]
  ELSE IF EstimatedGap # 0
  THEN [timings |-> candidate, gap_us |-> EstimatedGap, from |-> {timed}]
  ELSE [timings |-> candidate, gap_us |-> DEFAULT_GAP, from |-> {}]

-----------------------------------------------------------------------------
(* Ends of an attempt *)

\* Mutant of ClearCapture: the frames of the attempt before still count.
ClearCapture_KeepsFrames ==
  /\ UNCHANGED <<candidate, agreements>>
  /\ physical_gaps' = <<>> /\ ready' = FALSE /\ settling' = 0

ClearCapture ==
  /\ candidate' = NoWave /\ agreements' = 0
  /\ physical_gaps' = <<>> /\ ready' = FALSE /\ settling' = 0

\* fail_: forget the capture and announce why. `rest` is what follows the callback.
Fail(reason, rest) ==
  /\ ClearCapture
  /\ last_result' = reason
  /\ state' = "failed"
  /\ open' = open - 1 /\ left' = 0
  /\ stack' = rest
  /\ UNCHANGED <<saw_frame, last_reject, stored, last_put>>

\* commit_capture_: hand the candidate to the store, which may refuse it.
CommitCapture ==
  /\ last_put' = Captured'
  /\ open' = open - 1 /\ left' = 0
  /\ \/ /\ pending_name \in stored \/ Cardinality(stored) < MaxCommands
        /\ stored' = stored \cup {pending_name}
        /\ last_result' = "captured"
        /\ state' = "captured"
        /\ UNCHANGED stack
     \/ /\ last_result' = "store_error"
        /\ state' = "failed"
        /\ stack' = <<[then |-> "idle", name |-> NoName]>> \o stack
        /\ UNCHANGED stored

-----------------------------------------------------------------------------
(* The public calls *)

\* A call comes from the main loop, or from inside a callback.
CanCall == Len(stack) <= Depth

\* learn, from the check of the name on. A refusal is announced before the state returns to
\* idle. `others` counts the attempts that stay open besides the one that is asked for.
Refuse(n, reason, rest, others) ==
  /\ pending_name' = n
  /\ last_result' = reason
  /\ state' = "failed"
  /\ open' = others
  /\ stack' = <<[then |-> "idle", name |-> NoName]>> \o rest
  /\ UNCHANGED <<capture, timing, stored, last_put, left, looping, heard>>

\* Mutant of Nameable: any name will do.
Nameable_NotChecked(n) == TRUE
Nameable(n) == n \in ValidNames
NoSlotFor(n) == n \notin stored /\ Cardinality(stored) >= MaxCommands

Arm(n, rest, others) ==
  \/ ~Nameable(n) /\ Refuse(n, "name_rejected", rest, others)
  \/ Nameable(n) /\ NoSlotFor(n) /\ Refuse(n, "store_full", rest, others)
  \/ /\ Nameable(n) /\ ~NoSlotFor(n)
     /\ pending_name' = n
     /\ ClearCapture /\ saw_frame' = FALSE /\ last_reject' = "ok"
     /\ last_put' = NoCommand
     /\ left' = LEARN_TIMEOUT
     /\ last_result' = ""
     /\ state' = "armed"
     /\ looping' = TRUE
     /\ open' = others + 1
     /\ heard' = [w \in Waves |-> 0]
     /\ timed' = NoWave
     /\ stack' = rest
     /\ UNCHANGED <<interval_count, span, quiet, stored>>

\* Mutant of Learn: an attempt in progress is overwritten.
Learn_NotCancelled(n) == CanCall /\ Arm(n, stack, open) /\ UNCHANGED dispatched

\* learn: an attempt in progress is cancelled first, and its callback runs before the rest.
Learn(n) ==
  /\ CanCall
  /\ \/ /\ state = "armed"
        /\ Fail("cancelled", <<[then |-> "arm", name |-> n]>> \o stack)
        /\ UNCHANGED <<pending_name, timing, looping, heard>>
     \/ state # "armed" /\ Arm(n, stack, open)
  /\ UNCHANGED dispatched

Cancel ==
  /\ CanCall
  /\ state = "armed"
  /\ Fail("cancelled", stack)
  /\ UNCHANGED <<pending_name, timing, looping, heard, dispatched>>

\* send, rename, erase, clear_all, factory_reset, the restore calls: last_result_ and the
\* names in the registry are all this component keeps of them.
StoreCall ==
  /\ CanCall
  /\ last_result' = "other"
  /\ stored' \in {S \in SUBSET ValidNames : Cardinality(S) <= MaxCommands}
  /\ UNCHANGED <<pending_name, capture, timing, state, last_put, stack, open, left, looping,
                 dispatched, heard>>

\* What an interrupted call does next does not look at the state again: an attempt armed from
\* inside its callback is overwritten, and nobody is told.
Overwritten == IF state = "armed" THEN 1 ELSE 0

\* A callback returns to the call that made it.
Return ==
  /\ stack # <<>>
  /\ \/ Head(stack).then = "arm" /\ Arm(Head(stack).name, Tail(stack), open - Overwritten)
     \/ /\ Head(stack).then = "idle"
        /\ state' = "idle"
        /\ open' = open - Overwritten
        /\ stack' = Tail(stack)
        /\ UNCHANGED <<pending_name, last_result, capture, timing, stored, last_put,
                       left, looping, heard>>
  /\ UNCHANGED dispatched

-----------------------------------------------------------------------------
(* Receiving *)

\* Two neighbours of a window that are valid frames and agree.
AgreeingPair(win, i) ==
  /\ win.frames[i] \in Waves /\ win.frames[i + 1] \in Waves
  /\ Agree(win.frames[i], win.frames[i + 1])
HasRepeats(win) == \E i \in DOMAIN win.gaps : AgreeingPair(win, i)

\* consume_multi_frame_, one pair of neighbours: a first frame unlike the candidate starts over.
ConsumePair(win, got, i) ==
  LET first == win.frames[i]
      gap == [us |-> win.gaps[i], of |-> first]
  IN  IF ~AgreeingPair(win, i) THEN got
      ELSE IF Agree(got.candidate, first)
      THEN [got EXCEPT !.agreements = Smaller(@ + 1, MIN_REPEATS), !.gaps = Append(@, gap)]
      ELSE [candidate |-> first, agreements |-> 2, gaps |-> <<gap>>, ready |-> FALSE]

Consume(win) ==
  FoldLeftDomain(LAMBDA got, i : ConsumePair(win, got, i),
                 [candidate |-> candidate, agreements |-> agreements, gaps |-> physical_gaps,
                  ready |-> ready],
                 win.gaps)

FramesOf(win, w) == Cardinality({i \in DOMAIN win.frames : win.frames[i] = w})
Hear(count) == heard' = [w \in Waves |-> Smaller(heard[w] + count[w], MIN_REPEATS)]

\* A window of several frames of which some neighbours agree.
ReceiveMulti(win) ==
  LET got == Consume(win)
  IN  /\ HasRepeats(win)
      /\ candidate' = got.candidate
      /\ agreements' = got.agreements
      /\ physical_gaps' = got.gaps
      /\ ready' = (got.agreements >= MIN_REPEATS)
      /\ settling' = IF got.ready THEN settling ELSE 0
      /\ saw_frame' = TRUE
      /\ Hear([w \in Waves |-> FramesOf(win, w)])
      /\ UNCHANGED <<timing, last_reject>>
      /\ IF ready' /\ Len(got.gaps) >= 2 THEN CommitCapture ELSE UNCHANGED outcome

\* A window that fails validate_frame does not end the attempt.
ReceiveNoise(win) ==
  /\ ~HasRepeats(win)
  /\ win.whole \in Rejects
  /\ last_reject' = win.whole
  /\ UNCHANGED <<candidate, agreements, physical_gaps, ready, settling, saw_frame, timing,
                 outcome, heard>>

\* A window that is one frame: the first, one unlike the candidate, or one more of the same.
ReceiveSingle(win) ==
  LET w == win.whole
  IN  /\ ~HasRepeats(win)
      /\ w \in Waves
      /\ UNCHANGED <<physical_gaps, last_reject>>
      /\ saw_frame' = TRUE
      /\ quiet' = 0
      /\ Hear([v \in Waves |-> IF v = w THEN 1 ELSE 0])
      /\ \/ /\ ~Agree(candidate, w)
            /\ candidate' = w /\ agreements' = 1 /\ ready' = FALSE
            /\ span' = 0 /\ interval_count' = 0 /\ timed' = w
            /\ settling' = 0
            /\ UNCHANGED outcome
         \/ /\ Agree(candidate, w)
            /\ interval_count < MaxIntervals
            /\ agreements' = Smaller(agreements + 1, MIN_REPEATS)
            /\ IF quiet > Duration[w] + MAX_GAP
               THEN span' = 0 /\ interval_count' = 0 /\ timed' = w
               ELSE /\ span' = span + quiet
                    /\ interval_count' = interval_count + 1
                    /\ UNCHANGED timed
            /\ ready' = (agreements' >= MIN_REPEATS)
            /\ settling' = IF ready THEN settling ELSE 0
            /\ UNCHANGED candidate
            /\ IF ready' /\ interval_count' >= GAP_INTERVAL_TARGET
               THEN CommitCapture ELSE UNCHANGED outcome

\* on_receive: the receiver delivers at most one window in a pass of the main loop.
Receive(win) ==
  /\ stack = <<>>
  /\ state = "armed"
  /\ ~dispatched
  /\ Len(physical_gaps) <= MaxGaps
  /\ ReceiveMulti(win) \/ ReceiveNoise(win) \/ ReceiveSingle(win)
  /\ dispatched' = (state' = "armed")
  /\ UNCHANGED <<pending_name, looping>>

-----------------------------------------------------------------------------
(* The main loop and the clock *)

\* Mutant of TimeoutReason: frames that were accepted are forgotten.
TimeoutReason_FramesForgotten == IF last_reject # "ok" THEN last_reject ELSE "timeout"

TimeoutReason ==
  IF saw_frame THEN "no_repeat_agreement"
  ELSE IF last_reject # "ok" THEN last_reject
  ELSE "timeout"

Settled == ready /\ settling >= SETTLE
\* Mutant of Expired: only a silent attempt runs into its deadline.
Expired_OnlyIfSilent == ~ready /\ ~saw_frame /\ left = 0
Expired == ~ready /\ left = 0

\* loop: commit once settled; past the deadline fail, unless a capture is settling.
Loop ==
  /\ stack = <<>>
  /\ looping
  /\ dispatched' = FALSE
  /\ looping' = (state = "armed")
  /\ \/ /\ state = "armed" /\ Settled
        /\ UNCHANGED <<capture, timing>>
        /\ CommitCapture
     \/ /\ state = "armed" /\ Expired
        /\ Fail(TimeoutReason, stack)
        /\ UNCHANGED timing
     \/ /\ state # "armed" \/ ~(Settled \/ Expired)
        /\ UNCHANGED <<capture, timing, outcome>>
  /\ UNCHANGED <<pending_name, heard>>

LongPause == Max({Duration[w] : w \in Waves}) + MAX_GAP + 1

Tick ==
  /\ stack = <<>>
  /\ quiet' = Smaller(quiet + 1, LongPause)
  /\ left' = IF left > 0 THEN left - 1 ELSE 0
  /\ settling' = IF ready THEN Smaller(settling + 1, SETTLE) ELSE 0
  /\ UNCHANGED <<pending_name, state, last_result, stored, last_put, stack, open, candidate,
                 agreements, physical_gaps, ready, saw_frame, last_reject, interval_count, span, timed, looping, dispatched, heard>>

\* setup: any registry, nothing learned, loop() disabled.
Init ==
  /\ state = "idle" /\ pending_name = NoName /\ last_result = ""
  /\ candidate = NoWave /\ agreements = 0 /\ physical_gaps = <<>>
  /\ ready = FALSE /\ settling = 0 /\ saw_frame = FALSE /\ last_reject = "ok"
  /\ interval_count = 0 /\ span = 0 /\ quiet = 0 /\ timed = NoWave
  /\ left = 0 /\ looping = FALSE /\ dispatched = FALSE
  /\ stored \in {S \in SUBSET ValidNames : Cardinality(S) <= MaxCommands}
  /\ last_put = NoCommand /\ stack = <<>>
  /\ heard = [w \in Waves |-> 0] /\ open = 0

Next ==
  \/ \E n \in Names : Learn(n)
  \/ Cancel
  \/ StoreCall
  \/ Return
  \/ \E win \in Windows : Receive(win)
  \/ Loop
  \/ Tick

\* Callbacks return, the main loop keeps coming round, and time passes.
Fairness == WF_vars(Return) /\ WF_vars(Loop) /\ WF_vars(Tick)

Spec == Init /\ [][Next]_vars /\ Fairness
-----------------------------------------------------------------------------
(* Properties *)

TypeOK ==
  /\ state \in {"idle", "armed", "captured", "failed"}
  /\ pending_name \in Names \cup {NoName}
  /\ last_result \in Reasons \cup {"", "captured", "other"}
  /\ candidate \in Waves \cup {NoWave}
  /\ agreements \in 0..MIN_REPEATS
  /\ interval_count \in 0..MaxIntervals
  /\ span \in Nat /\ quiet \in 0..LongPause
  /\ physical_gaps \in Seq([us : Nat, of : Waves])
  /\ left \in 0..LEARN_TIMEOUT /\ settling \in 0..SETTLE
  /\ {ready, saw_frame, looping, dispatched} \subseteq BOOLEAN
  /\ last_reject \in Rejects \cup {"ok"}
  /\ stored \subseteq ValidNames
  /\ last_put \in [timings : Waves \cup {NoWave}, gap_us : Nat, from : SUBSET (Waves \cup {NoWave})]
  /\ stack \in Seq([then : {"arm", "idle"}, name : Names \cup {NoName}])
  /\ heard \in [Waves -> 0..MIN_REPEATS]
  /\ timed \in Waves \cup {NoWave}
  /\ open \in Nat

\* Waveforms that may be repeats of w: they agree with it, or with one that does.
Like(w) == {v \in Waves : \E u \in Waves : Agree(w, u) /\ (Agree(u, v) \/ Agree(v, u))}
HeardLike(w) == MapThenSumSet(LAMBDA v : heard[v], Like(w))

\* The noise gate: whatever windows came, whole or split, in whatever attempt, the count of
\* agreements never exceeds the frames received in this attempt that resemble the candidate,
\* and only a count of min_repeats makes it ready to be stored.
NoiseGate ==
  state = "armed" => /\ candidate # NoWave => agreements <= HeardLike(candidate)
                     /\ ready => candidate # NoWave /\ agreements >= MIN_REPEATS

\* An attempt that was armed is reported as ended exactly once, and armed is what the state
\* says as long as it has not been, whatever the callbacks call; but for an attempt armed from
\* inside a callback whose caller goes on to arm or to return to idle (learn and commit_capture_,
\* rf_cloner.cpp:200, :210, :221, :449): that one is Overwritten and never reported.
OneEndPerAttempt == open = (IF state = "armed" THEN 1 ELSE 0)

\* "timeout" is reported only by an attempt in which nothing was received that could have
\* been a frame, accepted or rejected (docs/home-assistant.md:159).
TimeoutIsSilence ==
  (state = "failed" /\ last_result = "timeout")
    => last_reject = "ok" /\ \A w \in Waves : heard[w] = 0

\* Every attempt ends, whatever is received.
LearnEnds == state = "armed" ~> state # "armed"

-----------------------------------------------------------------------------
(* A claim of the documentation that the code does not keep *)

\* docs/architecture.md:68: "the gap between two agreeing neighbours is stored directly". The
\* gap stored with a waveform was measured on that waveform.
GapIsOfTheWaveform == last_put.from \subseteq Like(last_put.timings)
=============================================================================
