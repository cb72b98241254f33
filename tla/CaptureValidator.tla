-------------------------- MODULE CaptureValidator --------------------------
(***************************************************************************)
(* The pure functions that judge a capture                                 *)
(* (components/rf_cloner/capture_validator.cpp). A timing is an integer,   *)
(* positive for a mark and negative for a space; a frame and a window are  *)
(* sequences of timings.                                                   *)
(***************************************************************************)
EXTENDS Integers, SequencesExt

CONSTANTS
  min_pulses, max_pulses, min_pulse_us, max_pulse_us, tolerance_percent, \* CaptureLimits
  frame_gap_min_us,  \* a space this long lies between frames
  UINT32_MAX         \* the largest uint32_t

ASSUME LimitsAssumption ==
  /\ min_pulses \in Nat \ {0} /\ max_pulses \in Nat /\ min_pulses <= max_pulses
  /\ min_pulse_us \in Nat /\ max_pulse_us \in Nat /\ min_pulse_us < max_pulse_us
  /\ tolerance_percent \in 0..100
  /\ frame_gap_min_us \in Nat
  /\ UINT32_MAX \in Nat

Magnitude(timing) == IF timing < 0 THEN -timing ELSE timing

\* strip_terminator: the last entry of a capture is the receiver's own.
StripTerminator(timings) == IF timings = <<>> THEN <<>> ELSE Front(timings)

ValidateFrame(timings) ==
  IF Len(timings) < min_pulses THEN "too_few_pulses"
  ELSE IF Len(timings) > max_pulses THEN "too_many_pulses"
  ELSE IF \E i \in DOMAIN timings : \/ timings[i] = 0
                                    \/ Magnitude(timings[i]) \notin min_pulse_us..max_pulse_us
  THEN "pulse_out_of_range"
  ELSE "ok"

\* Mutant of Within: the bounds themselves are outside.
Within_Strict(reference, candidate) ==
  candidate \in ((100 - tolerance_percent) * reference) \div 100 + 1
                  ..((100 + tolerance_percent) * reference) \div 100 - 1
Within(reference, candidate) ==
  candidate \in ((100 - tolerance_percent) * reference) \div 100
                  ..((100 + tolerance_percent) * reference) \div 100

\* Mutant of FramesAgree: the lengths are not compared.
FramesAgree_CommonPrefix(a, b) ==
  /\ a # <<>>
  /\ \A i \in DOMAIN a \cap DOMAIN b : /\ (a[i] < 0) = (b[i] < 0)
                                      /\ Within(Magnitude(a[i]), Magnitude(b[i]))

\* frames_agree: `a` is the reference, so the order matters.
FramesAgree(a, b) ==
  /\ Len(a) = Len(b) /\ a # <<>>
  /\ \A i \in DOMAIN a : /\ (a[i] < 0) = (b[i] < 0)
                         /\ Within(Magnitude(a[i]), Magnitude(b[i]))

FrameDuration(timings) ==
  LET total == FoldLeft(LAMBDA sum, t : sum + Magnitude(t), 0, timings)
  IN  IF total > UINT32_MAX THEN UINT32_MAX ELSE total

-----------------------------------------------------------------------------
(* Cutting a window into frames *)

IsGap(timing) == timing < 0 /\ -timing >= frame_gap_min_us

\* Mutant of SplitTiming: a gap is kept even when no frame came before it.
SplitTiming_KeepsEveryGap(got, timing) ==
  IF ~IsGap(timing) THEN [got EXCEPT !.current = Append(@, timing)]
  ELSE [frames |-> IF got.current = <<>> THEN got.frames ELSE Append(got.frames, got.current),
        gaps |-> Append(got.gaps, -timing), current |-> <<>>]

\* One timing of the window: it goes on the current frame, or closes one that holds something.
SplitTiming(got, timing) ==
  IF ~IsGap(timing) THEN [got EXCEPT !.current = Append(@, timing)]
  ELSE IF got.current = <<>> THEN got
  ELSE [frames |-> Append(got.frames, got.current), gaps |-> Append(got.gaps, -timing),
        current |-> <<>>]

Smaller(a, b) == IF a < b THEN a ELSE b

\* A gap with no frame after it is dropped.
SplitFrames(timings) ==
  LET got == FoldLeft(SplitTiming, [frames |-> <<>>, gaps |-> <<>>, current |-> <<>>], timings)
      frames == IF got.current = <<>> THEN got.frames ELSE Append(got.frames, got.current)
  IN  [frames |-> frames,
       gaps |-> SubSeq(got.gaps, 1, Smaller(Len(got.gaps), Len(frames) - 1))]

-----------------------------------------------------------------------------
(* The gap between frames that arrive one by one *)

\* 0 when there are too few intervals or the gap is implausible.
EstimateGap(span_us, intervals, frame_us, min_gap_us, max_gap_us, min_intervals) ==
  LET gap == span_us \div intervals - frame_us
  IN  IF intervals >= min_intervals /\ intervals > 0 /\ gap > 0 /\ gap \in min_gap_us..max_gap_us
      THEN gap ELSE 0
=============================================================================
