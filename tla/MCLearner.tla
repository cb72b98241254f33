------------------------------ MODULE MCLearner ------------------------------
(* Learner with two remotes, for TLC. What the learner makes of a waveform and of a window is   *)
(* computed by CaptureValidator from their timings; a tick of the learner's clock is ten units. *)
EXTENDS Learner

CONSTANTS light, tv, spaced, a, b

V == INSTANCE CaptureValidator WITH
       min_pulses <- 3, max_pulses <- 3, min_pulse_us <- 1, max_pulse_us <- 9,
       tolerance_percent <- 25, frame_gap_min_us <- 10, UINT32_MAX <- 2147483647
Ticks(us) == us \div 10

Timings == [w \in Waves |-> IF w = a THEN <<4, -2, 4>> ELSE <<2, -6, 2>>]
MCAgrees == {<<v, w>> \in Waves \X Waves : V!FramesAgree(Timings[v], Timings[w])}
MCDuration == [w \in Waves |-> Ticks(V!FrameDuration(Timings[w]))]

\* A valid frame by its name, any other by the reason it is rejected.
Named(frame) ==
  IF V!ValidateFrame(frame) = "ok" THEN CHOOSE w \in Waves : Timings[w] = frame
  ELSE V!ValidateFrame(frame)
Received(timings) ==
  LET split == V!SplitFrames(V!StripTerminator(Append(timings, -30)))
  IN  [frames |-> [i \in DOMAIN split.frames |-> Named(split.frames[i])],
       gaps |-> [i \in DOMAIN split.gaps |-> Ticks(split.gaps[i])],
       whole |-> Named(timings)]

\* One repeat, several with one gap between them or another, a repeat cut off, two remotes.
MCWindows ==
  LET x == Timings[a]
      y == Timings[b]
  IN  {Received(timings) : timings \in {
         <<4>>, x, y,
         <<2>> \o <<-10>> \o y \o <<-30>> \o y \o <<-30>> \o y,
         x \o <<-20>> \o x \o <<-10>> \o y \o <<-20>> \o y}}
=============================================================================
