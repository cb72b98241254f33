------------------------------ MODULE Reception ------------------------------
(***************************************************************************)
(* A remote whose button is held, what the receiver makes of it, and what  *)
(* the learner reads out of that (components/rf_cloner/capture_validator,  *)
(* the arrival times in RfCloner::on_receive).                             *)
(*                                                                         *)
(* The remote sends its frame again and again, with a gap between repeats; *)
(* every pulse may last a little longer than it should. A receive window   *)
(* opens and closes anywhere. When windows hold one repeat each, they      *)
(* arrive when loop() comes round, up to LOOP_US late, and the button may  *)
(* be released and pressed again. micros() wraps at UINT32_MAX + 1.        *)
(*                                                                         *)
(* `sent` and `between` record what the remote did while the window was    *)
(* open; the properties compare the functions of CaptureValidator with it. *)
(***************************************************************************)
EXTENDS CaptureValidator

CONSTANTS
  Remotes,          \* frames of the remotes
  GAPS,             \* gaps between their repeats
  MIN_GAP, MAX_GAP, GAP_MIN_INTERVALS, GAP_INTERVAL_TARGET,
  LOOP_US,          \* longest pass of the main loop
  PAUSE_US,         \* shortest time between two presses, beyond the gap
  IDLE_US,          \* the terminator the receiver appends
  BOOT_US,          \* values of micros() when the first repeat is sent
  MaxWindow         \* bound: timings in a window

\* The longest a pulse of the remote may be: the tolerance covers it.
Stretched(timing) ==
  LET slack == (Magnitude(timing) * tolerance_percent) \div 100
  IN  IF timing < 0 THEN timing - slack ELSE timing + slack

ASSUME ReceptionAssumption ==
  /\ MIN_GAP \in Nat /\ MAX_GAP \in Nat
  /\ Remotes \subseteq Seq(Int)
  /\ \A f \in Remotes :
       /\ ValidateFrame(f) = "ok" /\ ValidateFrame([i \in DOMAIN f |-> Stretched(f[i])]) = "ok"
       /\ \A i \in DOMAIN f : ~IsGap(Stretched(f[i])) /\ ((f[i] < 0) = (i % 2 = 0))
       /\ Len(f) % 2 = 1
  /\ \A g \in GAPS : IsGap(-g) /\ g \in MIN_GAP..MAX_GAP
  /\ GAP_MIN_INTERVALS \in Nat \ {0} /\ GAP_INTERVAL_TARGET \in Nat
  /\ LOOP_US \in Nat \ {0} /\ PAUSE_US \in Nat /\ PAUSE_US >= MAX_GAP + LOOP_US
  /\ IDLE_US \in Nat /\ BOOT_US \subseteq 0..UINT32_MAX /\ MaxWindow \in Nat

\* Windows arrive in the order of their repeats, and the longest span that is measured, and the
\* pause that ends one, are shorter than the time in which micros() comes round.
ASSUME ClockAssumption ==
  \A f \in Remotes, g \in GAPS :
    LET period == FrameDuration(f) + g
    IN  /\ LOOP_US <= period
        /\ GAP_INTERVAL_TARGET * period + LOOP_US <= UINT32_MAX
        /\ period + PAUSE_US + LOOP_US <= UINT32_MAX

VARIABLES
  frame, gap,       \* the remote
  window,           \* timings of the window so far
  at,               \* what the remote sends next: frame[at], or the gap
  sent,             \* the repeats in the window: their timings, and were they heard from the start?
  between,          \* the gaps after them
  sent_us,          \* micros() when the last repeat of a whole window ended
  first_frame_us, last_frame_us, interval_count, \* of RfCloner
  arrived           \* has a whole window arrived?

clock == <<sent_us, first_frame_us, last_frame_us, interval_count, arrived>>
vars == <<frame, gap, window, at, sent, between, clock>>

AtGap == at = Len(frame) + 1
Wrapped(us) == us % (UINT32_MAX + 1)

\* The entries on_receive looks at.
Captured == StripTerminator(Append(window, -IDLE_US))
Split == SplitFrames(Captured)

-----------------------------------------------------------------------------

\* The remote sends one more pulse of its frame into the window.
Pulse ==
  /\ ~arrived /\ ~AtGap
  /\ Len(window) < MaxWindow
  /\ \E timing \in {frame[at], Stretched(frame[at])} :
       /\ window' = Append(window, timing)
       /\ sent' = IF sent = <<>> \/ at = 1
                  THEN Append(sent, [timings |-> <<timing>>, whole |-> at = 1])
                  ELSE [sent EXCEPT ![Len(sent)].timings = Append(@, timing)]
  /\ at' = at + 1
  /\ UNCHANGED <<frame, gap, between, clock>>

\* The pause between two repeats, as the receiver times it.
Gap ==
  /\ ~arrived /\ AtGap
  /\ Len(window) < MaxWindow
  /\ \E us \in {gap, gap + 1} :
       /\ window' = Append(window, -us)
       /\ between' = IF sent = <<>> THEN between ELSE Append(between, us)
  /\ at' = 1
  /\ UNCHANGED <<frame, gap, sent, clock>>

\* Mutant of Arrive: a pause does not start the measurement afresh.
Arrive_AcrossPauses(delay, pause) ==
  /\ window = frame
  /\ interval_count < GAP_INTERVAL_TARGET
  /\ sent_us' = Wrapped(sent_us + FrameDuration(window) + gap + pause)
  /\ last_frame_us' = Wrapped(sent_us' + delay)
  /\ IF ~arrived
     THEN first_frame_us' = last_frame_us' /\ interval_count' = 0
     ELSE interval_count' = interval_count + 1 /\ UNCHANGED first_frame_us
  /\ arrived' = TRUE
  /\ UNCHANGED <<frame, gap, window, at, sent, between>>

\* A window with exactly one repeat reaches on_receive, `delay` after its end; the button may
\* have been released for `pause` before it.
Arrive(delay, pause) ==
  /\ window = frame
  /\ interval_count < GAP_INTERVAL_TARGET
  /\ sent_us' = Wrapped(sent_us + FrameDuration(window) + gap + pause)
  /\ last_frame_us' = Wrapped(sent_us' + delay)
  /\ IF ~arrived \/ Wrapped(last_frame_us' - last_frame_us) > FrameDuration(window) + MAX_GAP
     THEN first_frame_us' = last_frame_us' /\ interval_count' = 0
     ELSE interval_count' = interval_count + 1 /\ UNCHANGED first_frame_us
  /\ arrived' = TRUE
  /\ UNCHANGED <<frame, gap, window, at, sent, between>>

\* A window opens anywhere in the transmission, at any of the times in BOOT_US; nothing has
\* arrived in this attempt.
Open ==
  /\ window # <<>>
  /\ window' = <<>> /\ sent' = <<>> /\ between' = <<>>
  /\ at' \in 1..Len(frame) + 1
  /\ sent_us' \in BOOT_US /\ first_frame_us' = 0 /\ last_frame_us' = 0 /\ interval_count' = 0
  /\ arrived' = FALSE
  /\ UNCHANGED <<frame, gap>>

Init ==
  /\ frame \in Remotes /\ gap \in GAPS
  /\ window = <<>> /\ sent = <<>> /\ between = <<>>
  /\ at \in 1..Len(frame) + 1
  /\ sent_us \in BOOT_US /\ first_frame_us = 0 /\ last_frame_us = 0 /\ interval_count = 0
  /\ arrived = FALSE

Next ==
  \/ Pulse
  \/ Gap
  \/ \E delay \in 0..LOOP_US - 1, pause \in {0, PAUSE_US} : Arrive(delay, pause)
  \/ Open

Spec == Init /\ [][Next]_vars

-----------------------------------------------------------------------------
(* Properties *)

Complete(i) == sent[i].whole /\ Len(sent[i].timings) = Len(frame)
\* Neighbours that consume_multi_frame_ takes for repeats.
Paired(i) == /\ ValidateFrame(Split.frames[i]) = "ok" /\ ValidateFrame(Split.frames[i + 1]) = "ok"
             /\ FramesAgree(Split.frames[i], Split.frames[i + 1])
Neighbours == 1..Len(sent) - 1

\* split_frames recovers what was transmitted: every repeat, whole or cut off, and between two
\* repeats the gap that was between them, whatever the window opens and closes on.
SplitIsTransmission ==
  /\ Split.frames = [i \in DOMAIN sent |-> sent[i].timings]
  /\ Split.gaps = [i \in Neighbours |-> between[i]]

\* Two complete repeats always pass for repeats of each other, in either order, as long as no
\* pulse was stretched by more than the tolerance: a held button can be learned.
CompleteRepeatsAgree ==
  \A i \in Neighbours : Complete(i) /\ Complete(i + 1) =>
    Paired(i) /\ FramesAgree(Split.frames[i + 1], Split.frames[i])

\* The window holds no complete repeat, only the end of one and the beginning of the next.
OnlyCutOff == Len(sent) = 2 /\ ~Complete(1) /\ ~Complete(2)

\* What consume_multi_frame_ takes for repeats of each other are complete ones, in every window
\* but one that is OnlyCutOff: there a remote whose frame begins as it ends passes its two
\* pieces for repeats, and a piece becomes the candidate. The comments (rf_cloner.cpp:321) and
\* docs/architecture.md:68 say of every window that its partial frames fail to agree.
RepeatsAreComplete ==
  \A i \in Neighbours : Paired(i) => (Complete(i) /\ Complete(i + 1)) \/ OnlyCutOff

\* The estimate is off by less than one pass of the main loop shared among the intervals, and
\* the rounding, over pauses and the wrap of micros() (capture_validator.h:72).
EstimateIsClose ==
  LET estimate == EstimateGap(Wrapped(last_frame_us - first_frame_us), interval_count,
                              FrameDuration(window), MIN_GAP, MAX_GAP, GAP_MIN_INTERVALS)
  IN  (arrived /\ estimate # 0) =>
        Magnitude(estimate - gap) * interval_count < LOOP_US + interval_count
=============================================================================
