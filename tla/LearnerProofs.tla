---------------------------- MODULE LearnerProofs ----------------------------
(***************************************************************************)
(* Theorems about Learner for every set of names, waveforms and windows    *)
(* and every limit. What a window of several frames does to the candidate  *)
(* is a fold over its pairs of neighbours: ConsumeRuns unrolls it.         *)
(***************************************************************************)
EXTENDS Learner, FoldTheorems, TLAPS

-----------------------------------------------------------------------------
(* Every attempt ends once *)

\* Arming adds one attempt to those that stay open, a refusal none.
LEMMA ArmEnds ==
  ASSUME NEW n, NEW rest, Arm(n, rest, 0)
  PROVE  OneEndPerAttempt'
<1>1. \/ state' = "failed" /\ open' = 0
      \/ state' = "armed" /\ open' = 0 + 1
  BY DEF Arm, Refuse
<1>2. QED
  BY <1>1 DEF OneEndPerAttempt

LEMMA EndStep == OneEndPerAttempt /\ [Next]_vars => OneEndPerAttempt'
<1> SUFFICES ASSUME OneEndPerAttempt, [Next]_vars PROVE OneEndPerAttempt'
  OBVIOUS
<1>1. ASSUME NEW reason, NEW rest, state = "armed", Fail(reason, rest) PROVE OneEndPerAttempt'
  <2>1. open = 1 /\ state' = "failed" /\ open' = open - 1
    BY <1>1 DEF Fail, OneEndPerAttempt
  <2>2. QED
    BY <2>1 DEF OneEndPerAttempt
<1>2. ASSUME state = "armed", CommitCapture PROVE OneEndPerAttempt'
  <2>1. open = 1 /\ state' \in {"captured", "failed"} /\ open' = open - 1
    BY <1>2 DEF CommitCapture, OneEndPerAttempt
  <2>2. QED
    BY <2>1 DEF OneEndPerAttempt
<1>3. ASSUME UNCHANGED outcome PROVE OneEndPerAttempt'
  BY <1>3 DEF outcome, OneEndPerAttempt
<1>4. ASSUME NEW n \in Names, Learn(n) PROVE OneEndPerAttempt'
  <2>1. CASE state # "armed"
    <3>1. Arm(n, stack, 0)
      BY <1>4, <2>1 DEF Learn, OneEndPerAttempt
    <3>2. QED
      BY <3>1, ArmEnds
  <2>2. CASE state = "armed"
    BY <1>1, <1>4, <2>2 DEF Learn
  <2>3. QED
    BY <2>1, <2>2
<1>5. CASE Cancel
  BY <1>1, <1>5 DEF Cancel
<1>6. CASE StoreCall
  BY <1>6 DEF StoreCall, OneEndPerAttempt
<1>7. CASE Return
  <2>1. open - Overwritten = 0
    BY DEF Overwritten, OneEndPerAttempt
  <2>2. CASE Arm(Head(stack).name, Tail(stack), open - Overwritten)
    BY <2>1, <2>2, ArmEnds
  <2>3. CASE state' = "idle" /\ open' = open - Overwritten
    BY <2>1, <2>3 DEF OneEndPerAttempt
  <2>4. QED
    BY <1>7, <2>2, <2>3 DEF Return
<1>8. ASSUME NEW win, Receive(win) PROVE OneEndPerAttempt'
  <2>1. state = "armed" /\ (UNCHANGED outcome \/ CommitCapture)
    BY <1>8 DEF Receive, ReceiveMulti, ReceiveNoise, ReceiveSingle
  <2>2. QED
    BY <1>2, <1>3, <2>1
<1>9. CASE Loop
  BY <1>1, <1>2, <1>3, <1>9 DEF Loop
<1>10. CASE Tick
  BY <1>10 DEF Tick, OneEndPerAttempt
<1>11. CASE UNCHANGED vars
  BY <1>3, <1>11 DEF vars
<1>12. QED
  BY <1>4, <1>5, <1>6, <1>7, <1>8, <1>9, <1>10, <1>11 DEF Next

\* Every attempt learn opens is announced as ended once, by fail_ or by commit_capture_, at any
\* depth of callbacks, but for those an interrupted call overwrites when its callback returns.
THEOREM AttemptsEndOnce == Spec => []OneEndPerAttempt
<1>1. Init => OneEndPerAttempt
  BY DEF Init, OneEndPerAttempt
<1>2. QED
  BY <1>1, EndStep, PTL DEF Spec

-----------------------------------------------------------------------------
(* The reason given for an end is true *)

Silent == \A w \in Waves : heard[w] = 0

\* saw_frame_ is set by the first frame of the attempt; last_reject_ holds a verdict.
SilenceInv ==
  /\ TimeoutIsSilence
  /\ state = "armed" => (saw_frame \/ Silent)
  /\ last_reject \in Rejects \cup {"ok"}

LEMMA ArmSilence ==
  ASSUME NEW n, NEW rest, NEW others, SilenceInv, Arm(n, rest, others)
  PROVE  SilenceInv'
<1>1. ASSUME NEW reason \in {"name_rejected", "store_full"}, Refuse(n, reason, rest, others)
      PROVE  SilenceInv'
  BY <1>1 DEF Refuse, SilenceInv, TimeoutIsSilence, capture
<1>2. ASSUME state' = "armed", last_reject' = "ok", heard' = [w \in Waves |-> 0]
      PROVE  SilenceInv'
  BY <1>2 DEF SilenceInv, TimeoutIsSilence, Silent
<1>3. QED
  BY <1>1, <1>2 DEF Arm

LEMMA CommitSilence ==
  ASSUME CommitCapture, last_reject' \in Rejects \cup {"ok"}
  PROVE  SilenceInv'
BY DEF CommitCapture, SilenceInv, TimeoutIsSilence

\* An attempt may fail with "timeout" only when nothing was received in it.
LEMMA FailSilence ==
  ASSUME NEW reason, NEW rest, SilenceInv, Fail(reason, rest),
         reason = "timeout" => last_reject = "ok" /\ Silent, UNCHANGED heard
  PROVE  SilenceInv'
BY DEF Fail, SilenceInv, TimeoutIsSilence, Silent

LEMMA SilenceStep == SilenceInv /\ [Next]_vars => SilenceInv'
<1> SUFFICES ASSUME SilenceInv, [Next]_vars PROVE SilenceInv'
  OBVIOUS
<1>1. ASSUME NEW n \in Names, Learn(n) PROVE SilenceInv'
  <2>1. CASE Arm(n, stack, open)
    BY <2>1, ArmSilence
  <2>2. CASE Fail("cancelled", <<[then |-> "arm", name |-> n]>> \o stack) /\ UNCHANGED heard
    BY <2>2, FailSilence
  <2>3. QED
    BY <1>1, <2>1, <2>2 DEF Learn
<1>2. CASE Cancel
  BY <1>2, FailSilence DEF Cancel
<1>3. CASE StoreCall
  BY <1>3 DEF StoreCall, capture, SilenceInv, TimeoutIsSilence, Silent
<1>4. CASE Return
  <2>1. CASE Arm(Head(stack).name, Tail(stack), open - Overwritten)
    BY <2>1, ArmSilence
  <2>2. CASE state' = "idle" /\ UNCHANGED capture
    BY <2>2 DEF capture, SilenceInv, TimeoutIsSilence
  <2>3. QED
    BY <1>4, <2>1, <2>2 DEF Return
<1>5. ASSUME NEW win, Receive(win) PROVE SilenceInv'
  <2>1. state = "armed"
    BY <1>5 DEF Receive
  <2>2. CASE ReceiveNoise(win)
    BY <2>1, <2>2 DEF ReceiveNoise, outcome, SilenceInv, TimeoutIsSilence, Silent
  <2>3. ASSUME saw_frame', UNCHANGED last_reject, CommitCapture \/ UNCHANGED outcome
        PROVE  SilenceInv'
    <3>1. CASE CommitCapture
      BY <2>3, <3>1, CommitSilence DEF SilenceInv
    <3>2. CASE UNCHANGED outcome
      BY <2>1, <2>3, <3>2 DEF outcome, SilenceInv, TimeoutIsSilence
    <3>3. QED
      BY <2>3, <3>1, <3>2
  <2>4. CASE ReceiveMulti(win)
    BY <2>3, <2>4 DEF ReceiveMulti
  <2>5. CASE ReceiveSingle(win)
    BY <2>3, <2>5 DEF ReceiveSingle
  <2>6. QED
    BY <1>5, <2>2, <2>4, <2>5 DEF Receive
<1>6. CASE Loop
  <2>1. CASE CommitCapture /\ UNCHANGED capture
    BY <2>1, CommitSilence DEF SilenceInv, capture
  <2>2. CASE state = "armed" /\ Fail(TimeoutReason, stack)
    <3>1. TimeoutReason = "timeout" => last_reject = "ok" /\ Silent
      BY <2>2 DEF TimeoutReason, SilenceInv, Rejects
    <3>2. QED
      BY <1>6, <2>2, <3>1, FailSilence DEF Loop
  <2>3. CASE UNCHANGED <<capture, outcome>>
    BY <1>6, <2>3 DEF Loop, capture, outcome, SilenceInv, TimeoutIsSilence, Silent
  <2>4. QED
    BY <1>6, <2>1, <2>2, <2>3 DEF Loop
<1>7. CASE Tick
  BY <1>7 DEF Tick, SilenceInv, TimeoutIsSilence, Silent
<1>8. CASE UNCHANGED vars
  BY <1>8 DEF vars, capture, outcome, SilenceInv, TimeoutIsSilence, Silent
<1>9. QED
  BY <1>1, <1>2, <1>3, <1>4, <1>5, <1>6, <1>7, <1>8 DEF Next

\* The reason loop() gives for a silent attempt is never given to one that received a frame or
\* refused one, however often callbacks called back.
THEOREM TimeoutMeansSilence == Spec => []TimeoutIsSilence
<1>1. Init => SilenceInv
  BY DEF Init, SilenceInv, TimeoutIsSilence, Silent
<1>2. SilenceInv => TimeoutIsSilence
  BY DEF SilenceInv
<1>3. QED
  BY <1>1, <1>2, SilenceStep, PTL DEF Spec

-----------------------------------------------------------------------------
(* What consume_multi_frame_ does, one pair of neighbours at a time *)

Gaps == Seq([us : Nat, of : Waves])
Got == [candidate : Waves \cup {NoWave}, agreements : 0..MIN_REPEATS, gaps : Gaps, ready : BOOLEAN]
Start == [candidate |-> candidate, agreements |-> agreements, gaps |-> physical_gaps, ready |-> ready]

LEMMA WindowFacts ==
  ASSUME NEW win \in Windows
  PROVE  /\ win.frames \in Seq(Waves \cup Rejects) /\ win.gaps \in Seq(Nat)
         /\ win.whole \in Waves \cup Rejects
         /\ Len(win.gaps) \in Nat /\ DOMAIN win.gaps = 1..Len(win.gaps)
         /\ \A i \in 1..Len(win.gaps) : i \in DOMAIN win.frames /\ i + 1 \in DOMAIN win.frames
         /\ win.gaps # <<>> => Len(win.frames) = Len(win.gaps) + 1
<1>1. win \in Window /\ DOMAIN win.gaps = {i \in DOMAIN win.frames : i + 1 \in DOMAIN win.frames}
  BY LearnerAssumption
<1>2. /\ win.frames \in Seq(Waves \cup Rejects) /\ win.gaps \in Seq(Nat)
      /\ win.whole \in Waves \cup Rejects
  BY <1>1 DEF Window
<1>3. /\ Len(win.gaps) \in Nat /\ DOMAIN win.gaps = 1..Len(win.gaps)
      /\ Len(win.frames) \in Nat /\ DOMAIN win.frames = 1..Len(win.frames)
  BY <1>2
<1>4. \A i \in 1..Len(win.gaps) : i \in DOMAIN win.frames /\ i + 1 \in DOMAIN win.frames
  BY <1>1, <1>3
<1>5. ASSUME win.gaps # <<>> PROVE Len(win.frames) = Len(win.gaps) + 1
  <2> DEFINE g == Len(win.gaps)
             f == Len(win.frames)
  <2>1. g # 0
    BY <1>2, <1>5
  <2>2. g \in Nat /\ f \in Nat /\ 1..g = {i \in 1..f : i + 1 \in 1..f}
    BY <1>1, <1>3
  <2> HIDE DEF g, f
  <2>3. g \in 1..g
    BY <2>1, <2>2
  <2>4. g \in 1..f /\ g + 1 \in 1..f
    BY <2>2, <2>3
  <2>5. f - 1 \in 1..f /\ (f - 1) + 1 \in 1..f
    BY <2>2, <2>4
  <2>6. f - 1 \in 1..g
    BY <2>2, <2>5
  <2>7. f = g + 1
    BY <2>2, <2>4, <2>6
  <2>8. QED
    BY <2>7 DEF f, g
<1>6. QED
  BY <1>2, <1>3, <1>4, <1>5

LEMMA PairType ==
  ASSUME NEW win \in Windows, NEW got \in Got, NEW i \in 1..Len(win.gaps)
  PROVE  ConsumePair(win, got, i) \in Got
<1> DEFINE first == win.frames[i]
           gap == [us |-> win.gaps[i], of |-> first]
<1>1. CASE ~AgreeingPair(win, i)
  <2>1. ConsumePair(win, got, i) = got
    BY <1>1 DEF ConsumePair
  <2>2. QED
    BY <2>1
<1>2. CASE AgreeingPair(win, i)
  <2>1. first \in Waves /\ win.gaps[i] \in Nat
    <3>1. i \in DOMAIN win.gaps /\ win.gaps \in Seq(Nat)
      BY WindowFacts
    <3>2. QED
      BY <1>2, <3>1 DEF AgreeingPair
  <2>2. gap \in [us : Nat, of : Waves]
    BY <2>1
  <2>3. MIN_REPEATS \in Nat /\ 2 \in 0..MIN_REPEATS
    BY LearnerAssumption
  <2>4. got.agreements \in 0..MIN_REPEATS /\ got.gaps \in Gaps
    BY DEF Got
  <2>5. Smaller(got.agreements + 1, MIN_REPEATS) \in 0..MIN_REPEATS
    BY <2>3, <2>4 DEF Smaller
  <2>6. Append(got.gaps, gap) \in Gaps /\ <<gap>> \in Gaps
    BY <2>2, <2>4 DEF Gaps
  <2> HIDE DEF gap
  <2>7. ConsumePair(win, got, i) =
          IF Agree(got.candidate, first)
          THEN [got EXCEPT !.agreements = Smaller(@ + 1, MIN_REPEATS), !.gaps = Append(@, gap)]
          ELSE [candidate |-> first, agreements |-> 2, gaps |-> <<gap>>, ready |-> FALSE]
    BY <1>2 DEF ConsumePair, gap
  <2> HIDE DEF first
  <2>8. CASE Agree(got.candidate, first)
    <3>1. ConsumePair(win, got, i) =
            [got EXCEPT !.agreements = Smaller(got.agreements + 1, MIN_REPEATS),
                        !.gaps = Append(got.gaps, gap)]
      BY <2>7, <2>8
    <3>2. QED
      BY <2>5, <2>6, <3>1 DEF Got
  <2>9. CASE ~Agree(got.candidate, first)
    <3>1. ConsumePair(win, got, i) =
            [candidate |-> first, agreements |-> 2, gaps |-> <<gap>>, ready |-> FALSE]
      BY <2>7, <2>9
    <3>2. QED
      BY <2>1, <2>3, <2>6, <3>1 DEF Got
  <2>10. QED
    BY <2>8, <2>9
<1>3. QED
  BY <1>1, <1>2

LEMMA PairsFold ==
  ASSUME NEW win \in Windows, NEW n \in Nat, n = Len(win.gaps), NEW start \in Got
  PROVE  \E g \in [SUBSET (1..n) -> Got] :
           g = [u \in SUBSET (1..n) |-> IF u = {} THEN start
                                        ELSE ConsumePair(win, g[u \ {Max(u)}], Max(u))]
<1> DEFINE step == [x \in (1..n) \X Got |-> ConsumePair(win, x[2], x[1])]
<1>1. step \in [(1..n) \X Got -> Got]
  BY PairType
<1>2. PICK g \in [SUBSET (1..n) -> Got] : IsFold(g, n, start, step)
  <2> HIDE DEF step
  <2>1. QED
    BY <1>1, FoldExists
<1>3. ASSUME NEW u \in SUBSET (1..n), u # {}
      PROVE  step[<<Max(u), g[u \ {Max(u)}]>>] = ConsumePair(win, g[u \ {Max(u)}], Max(u))
  <2>1. Max(u) \in 1..n
    BY <1>3, SegmentMax
  <2>2. g[u \ {Max(u)}] \in Got
    BY <1>2
  <2>3. QED
    BY <2>1, <2>2
<1> HIDE DEF step
<1>4. QED
  BY <1>2, <1>3 DEF IsFold

LEMMA ConsumeRuns ==
  ASSUME NEW win \in Windows, Start \in Got
  PROVE  \E run \in [0..Len(win.gaps) -> Got] :
           /\ run[0] = Start
           /\ \A k \in 1..Len(win.gaps) : run[k] = ConsumePair(win, run[k - 1], k)
           /\ Consume(win) = run[Len(win.gaps)]
<1> DEFINE n == Len(win.gaps)
           D == DOMAIN [i \in DOMAIN win.gaps |-> i]
           IsRun(g) == g = [u \in SUBSET D |->
                             IF u = {} THEN Start
                             ELSE LET x == Max(u)
                                  IN  ConsumePair(win, g[u \ {x}], [i \in DOMAIN win.gaps |-> i][x])]
           c == CHOOSE g : IsRun(g)
<1>1. n \in Nat /\ D = 1..n
  BY WindowFacts
<1>2. Consume(win) = c[D]
  BY Zenon DEF Consume, FoldLeftDomain, FoldLeft, MapThenFoldSet, Start
<1>3. \A k \in 1..n : [i \in DOMAIN win.gaps |-> i][k] = k
  BY WindowFacts
<1>4. PICK g \in [SUBSET (1..n) -> Got] :
        g = [u \in SUBSET (1..n) |-> IF u = {} THEN Start
                                     ELSE ConsumePair(win, g[u \ {Max(u)}], Max(u))]
  <2> HIDE DEF n
  <2>1. QED
    BY <1>1, PairsFold DEF n
<1>5. \A u \in SUBSET (1..n) : u # {} => [i \in DOMAIN win.gaps |-> i][Max(u)] = Max(u)
  BY <1>1, <1>3, SegmentMax
<1>6. IsRun(g)
  BY <1>1, <1>4, <1>5
<1>7. IsRun(c)
  <2>1. \E h : IsRun(h)
    BY <1>6
  <2> HIDE DEF IsRun
  <2>2. QED
    BY <2>1
<1>8. c[1..0] = Start
  <2>1. 1..0 = {} /\ 1..0 \in SUBSET D
    BY <1>1
  <2> HIDE DEF c, D
  <2>2. QED
    BY <1>7, <2>1
<1>9. ASSUME NEW k \in 0..n - 1 PROVE c[1..k + 1] = ConsumePair(win, c[1..k], k + 1)
  <2>1. k \in Nat /\ k + 1 \in 1..n /\ 1..k + 1 \in SUBSET D
    BY <1>1
  <2>2. 1..k + 1 # {} /\ Max(1..k + 1) = k + 1 /\ (1..k + 1) \ {Max(1..k + 1)} = 1..k
    BY <2>1, LastOfSegment
  <2> DEFINE u == 1..k + 1
  <2>3. c[u] = ConsumePair(win, c[u \ {Max(u)}], [i \in DOMAIN win.gaps |-> i][Max(u)])
    <3>1. u \in SUBSET D /\ u # {}
      BY <2>1, <2>2
    <3> HIDE DEF c, D, u
    <3>2. QED
      BY <1>7, <3>1
  <2> HIDE DEF c, D
  <2>4. QED
    BY <1>3, <2>1, <2>2, <2>3
<1> DEFINE T == {k \in 0..n : c[1..k] \in Got}
<1>10. \A k \in 0..n : k \in T
  <2> HIDE DEF c, n
  <2>1. 0 \in T
    BY <1>1, <1>8
  <2>2. ASSUME NEW k \in 0..n - 1, k \in T PROVE k + 1 \in T
    <3>1. k + 1 \in 1..n /\ k + 1 \in 0..n
      BY <1>1
    <3>2. QED
      BY <1>9, <2>2, <3>1, PairType DEF n
  <2> HIDE DEF T
  <2>3. QED
    BY <1>1, <2>1, <2>2, SegmentInduction
<1> DEFINE run == [k \in 0..n |-> c[1..k]]
<1>11. run \in [0..n -> Got]
  BY <1>10
<1>12. run[0] = Start
  BY <1>1, <1>8
<1>13. ASSUME NEW k \in 1..n PROVE run[k] = ConsumePair(win, run[k - 1], k)
  <2>1. k - 1 \in 0..n - 1 /\ k \in 0..n /\ k - 1 \in 0..n /\ (k - 1) + 1 = k
    BY <1>1
  <2> HIDE DEF c, n
  <2>2. QED
    BY <1>9, <2>1
<1>14. Consume(win) = run[n]
  <2>1. n \in 0..n /\ D = 1..n
    BY <1>1
  <2> HIDE DEF c, n, D
  <2>2. QED
    BY <1>2, <2>1
<1> HIDE DEF run
<1>15. QED
  BY <1>11, <1>12, <1>13, <1>14

-----------------------------------------------------------------------------
(* Types *)

Commands == [timings : Waves \cup {NoWave}, gap_us : Nat, from : SUBSET (Waves \cup {NoWave})]
Calls == [then : {"arm", "idle"}, name : Names \cup {NoName}]

LEMMA LongPauseType == LongPause \in Nat
<1>1. IsFiniteSet(Waves) /\ Waves # {} /\ Duration \in [Waves -> Nat] /\ MAX_GAP \in Nat
  BY LearnerAssumption
<1>2. Max({Duration[w] : w \in Waves}) \in {Duration[w] : w \in Waves}
  BY <1>1, LargestValue
<1>3. Max({Duration[w] : w \in Waves}) \in Nat
  BY <1>1, <1>2
<1>4. QED
  BY <1>1, <1>3 DEF LongPause

\* What is handed to the store is a waveform of the attempt, or none, with a gap.
LEMMA CapturedType ==
  ASSUME candidate' \in Waves \cup {NoWave}, physical_gaps' \in Gaps, timed' \in Waves \cup {NoWave}
  PROVE  Captured' \in Commands
<1>1. MIN_GAP..MAX_GAP \subseteq Nat /\ DEFAULT_GAP \in Nat
  BY LearnerAssumption
<1>2. \A gap \in Nat, S \in SUBSET (Waves \cup {NoWave}) :
        [timings |-> candidate', gap_us |-> gap, from |-> S] \in Commands
  BY DEF Commands
<1>3. {physical_gaps'[i].of : i \in DOMAIN physical_gaps'} \in SUBSET (Waves \cup {NoWave})
  <2>1. \A g \in Gaps : \A i \in DOMAIN g : g[i].of \in Waves
    <3>1. ASSUME NEW G, NEW g \in Seq(G), NEW i \in DOMAIN g PROVE g[i] \in G
      OBVIOUS
    <3>2. \A gap \in [us : Nat, of : Waves] : gap.of \in Waves
      OBVIOUS
    <3>3. QED
      BY <3>1, <3>2 DEF Gaps
  <2>2. QED
    BY <2>1
<1>4. CASE physical_gaps' # <<>> /\ MedianGap' \in MIN_GAP..MAX_GAP
  BY <1>1, <1>2, <1>3, <1>4 DEF Captured
<1>5. EstimatedGap' \in Nat
  BY <1>1 DEF EstimatedGap
<1>6. CASE ~(physical_gaps' # <<>> /\ MedianGap' \in MIN_GAP..MAX_GAP) /\ EstimatedGap' # 0
  <2>1. Captured' = [timings |-> candidate', gap_us |-> EstimatedGap', from |-> {timed'}]
    BY <1>6 DEF Captured
  <2>2. QED
    BY <1>2, <1>5, <2>1
<1>7. CASE ~(physical_gaps' # <<>> /\ MedianGap' \in MIN_GAP..MAX_GAP) /\ EstimatedGap' = 0
  <2>1. Captured' = [timings |-> candidate', gap_us |-> DEFAULT_GAP, from |-> {}]
    BY <1>7 DEF Captured
  <2>2. QED
    BY <1>1, <1>2, <2>1
<1>8. QED
  BY <1>4, <1>6, <1>7

\* The types, with what keeps the count of open attempts from going below zero and a refused
\* name out of the registry.
TypeInv == TypeOK /\ (state = "armed" => open > 0 /\ pending_name \in ValidNames)

OutcomeOK ==
  /\ state \in {"idle", "armed", "captured", "failed"}
  /\ last_result \in Reasons \cup {"", "captured", "other"}
  /\ stored \subseteq ValidNames
  /\ last_put \in Commands
  /\ stack \in Seq(Calls)
  /\ open \in Nat /\ (state = "armed" => open > 0)
  /\ left \in 0..LEARN_TIMEOUT
CaptureOK ==
  /\ candidate \in Waves \cup {NoWave}
  /\ agreements \in 0..MIN_REPEATS
  /\ physical_gaps \in Gaps
  /\ settling \in 0..SETTLE
  /\ ready \in BOOLEAN /\ saw_frame \in BOOLEAN
  /\ last_reject \in Rejects \cup {"ok"}
TimingOK ==
  /\ interval_count \in 0..MaxIntervals
  /\ span \in Nat /\ quiet \in 0..LongPause
  /\ timed \in Waves \cup {NoWave}
RestOK ==
  /\ pending_name \in Names \cup {NoName} /\ (state = "armed" => pending_name \in ValidNames)
  /\ looping \in BOOLEAN /\ dispatched \in BOOLEAN
  /\ heard \in [Waves -> 0..MIN_REPEATS]

LEMMA TypeParts == TypeInv <=> OutcomeOK /\ CaptureOK /\ TimingOK /\ RestOK
BY DEF TypeInv, TypeOK, OutcomeOK, CaptureOK, TimingOK, RestOK, Commands, Calls, Gaps

LEMMA TypePartsNext == TypeInv' <=> OutcomeOK' /\ CaptureOK' /\ TimingOK' /\ RestOK'
BY DEF TypeInv, TypeOK, OutcomeOK, CaptureOK, TimingOK, RestOK, Commands, Calls, Gaps

LEMMA InterruptedType ==
  ASSUME NEW t \in {"arm", "idle"}, NEW n \in Names \cup {NoName}, NEW rest \in Seq(Calls)
  PROVE  <<[then |-> t, name |-> n]>> \o rest \in Seq(Calls)
<1>1. [then |-> t, name |-> n] \in Calls
  BY DEF Calls
<1> DEFINE call == [then |-> t, name |-> n]
<1> HIDE DEF call
<1>2. <<call>> \in Seq(Calls)
  BY <1>1 DEF call
<1>3. <<call>> \o rest \in Seq(Calls)
  BY <1>2
<1>4. QED
  BY <1>3 DEF call

LEMMA ClearCaptureTypes ==
  ASSUME CaptureOK, ClearCapture, saw_frame' \in BOOLEAN, last_reject' \in Rejects \cup {"ok"}
  PROVE  CaptureOK'
<1>1. 0 \in 0..MIN_REPEATS /\ 0 \in 0..SETTLE
  BY LearnerAssumption
<1>2. physical_gaps' \in Gaps
  BY DEF ClearCapture, Gaps
<1>3. ready' \in BOOLEAN /\ candidate' \in Waves \cup {NoWave}
  BY DEF ClearCapture
<1>4. agreements' \in 0..MIN_REPEATS /\ settling' \in 0..SETTLE
  BY <1>1 DEF ClearCapture
<1>5. QED
  BY <1>2, <1>3, <1>4 DEF CaptureOK

LEMMA FailTypes ==
  ASSUME OutcomeOK, CaptureOK, NEW reason \in Reasons, NEW rest \in Seq(Calls), Fail(reason, rest),
         state = "armed"
  PROVE  OutcomeOK' /\ CaptureOK'
<1>1. CaptureOK'
  BY ClearCaptureTypes DEF Fail, CaptureOK
<1>2. OutcomeOK'
  <2>1. open \in Nat /\ open > 0
    BY DEF OutcomeOK
  <2>2. open' \in Nat
    BY <2>1 DEF Fail
  <2>3. left' \in 0..LEARN_TIMEOUT
    BY LearnerAssumption DEF Fail
  <2>4. QED
    BY <2>2, <2>3 DEF Fail, OutcomeOK
<1>3. QED
  BY <1>1, <1>2

LEMMA CommitTypes ==
  ASSUME OutcomeOK, RestOK, CommitCapture, CaptureOK', TimingOK', state = "armed"
  PROVE  OutcomeOK'
<1>1. last_put' \in Commands
  BY CapturedType DEF CommitCapture, CaptureOK, TimingOK
<1>2. open' \in Nat /\ left' \in 0..LEARN_TIMEOUT
  <2>1. open \in Nat /\ open > 0
    BY DEF OutcomeOK
  <2>2. open' \in Nat
    BY <2>1 DEF CommitCapture
  <2>3. left' \in 0..LEARN_TIMEOUT
    BY LearnerAssumption DEF CommitCapture
  <2>4. QED
    BY <2>2, <2>3
<1>3. <<[then |-> "idle", name |-> NoName]>> \o stack \in Seq(Calls)
  BY InterruptedType DEF OutcomeOK
<1>4. QED
  BY <1>1, <1>2, <1>3 DEF CommitCapture, OutcomeOK, RestOK, Reasons

LEMMA RefuseTypes ==
  ASSUME OutcomeOK, CaptureOK, TimingOK, RestOK, NEW n \in Names \cup {NoName},
         NEW reason \in {"name_rejected", "store_full"}, NEW rest \in Seq(Calls),
         NEW others \in Nat, Refuse(n, reason, rest, others), dispatched' \in BOOLEAN
  PROVE  OutcomeOK' /\ CaptureOK' /\ TimingOK' /\ RestOK'
<1>1. stack' \in Seq(Calls)
  BY InterruptedType DEF Refuse
<1>2. OutcomeOK'
  BY <1>1 DEF Refuse, OutcomeOK, Reasons
<1>3. CaptureOK' /\ TimingOK'
  BY DEF Refuse, capture, timing, CaptureOK, TimingOK
<1>4. RestOK'
  BY DEF Refuse, RestOK
<1>5. QED
  BY <1>2, <1>3, <1>4

LEMMA ArmTypes ==
  ASSUME OutcomeOK, CaptureOK, TimingOK, RestOK, NEW n \in Names \cup {NoName},
         NEW rest \in Seq(Calls), NEW others \in Nat, Arm(n, rest, others), dispatched' \in BOOLEAN
  PROVE  OutcomeOK' /\ CaptureOK' /\ TimingOK' /\ RestOK'
<1>1. CASE Refuse(n, "name_rejected", rest, others) \/ Refuse(n, "store_full", rest, others)
  BY <1>1, RefuseTypes
<1>2. ASSUME Nameable(n), ClearCapture, pending_name' = n, saw_frame' = FALSE, last_reject' = "ok",
             last_put' = NoCommand, left' = LEARN_TIMEOUT, last_result' = "", state' = "armed",
             looping' = TRUE, open' = others + 1, heard' = [w \in Waves |-> 0], timed' = NoWave,
             stack' = rest, UNCHANGED <<interval_count, span, quiet, stored>>
      PROVE  OutcomeOK' /\ CaptureOK' /\ TimingOK' /\ RestOK'
  <2>1. CaptureOK'
    BY <1>2, ClearCaptureTypes
  <2>2. TimingOK'
    BY <1>2 DEF TimingOK
  <2>3. NoCommand \in Commands
    BY DEF NoCommand, Commands
  <2>4. open' \in Nat /\ open' > 0
    <3>1. open' = others + 1
      BY <1>2
    <3>2. QED
      BY <3>1
  <2>5. left' \in 0..LEARN_TIMEOUT
    <3>1. LEARN_TIMEOUT \in 0..LEARN_TIMEOUT
      BY LearnerAssumption
    <3>2. QED
      BY <1>2, <3>1
  <2>6. OutcomeOK'
    BY <1>2, <2>3, <2>4, <2>5 DEF OutcomeOK
  <2>7. heard' \in [Waves -> 0..MIN_REPEATS]
    <3>1. 0 \in 0..MIN_REPEATS
      BY LearnerAssumption
    <3>2. QED
      BY <1>2, <3>1
  <2>8. RestOK'
    BY <1>2, <2>7 DEF RestOK, Nameable
  <2>9. QED
    BY <2>1, <2>2, <2>6, <2>8
<1>3. QED
  BY <1>1, <1>2 DEF Arm

LEMMA SmallerType ==
  ASSUME NEW a \in Nat, NEW b \in Nat
  PROVE  Smaller(a, b) \in 0..b
BY DEF Smaller

LEMMA HearTypes ==
  ASSUME heard \in [Waves -> 0..MIN_REPEATS], NEW count \in [Waves -> Nat], Hear(count)
  PROVE  heard' \in [Waves -> 0..MIN_REPEATS]
<1>1. ASSUME NEW w \in Waves PROVE Smaller(heard[w] + count[w], MIN_REPEATS) \in 0..MIN_REPEATS
  <2>1. MIN_REPEATS \in Nat /\ heard[w] \in Nat /\ count[w] \in Nat
    BY LearnerAssumption
  <2>2. heard[w] + count[w] \in Nat
    BY <2>1
  <2>3. QED
    BY <2>1, <2>2, SmallerType
<1>2. QED
  BY <1>1 DEF Hear

\* How often a waveform comes up among the first k frames of a window.
FramesUpto(win, w, k) == Cardinality({i \in 1..k : win.frames[i] = w})

LEMMA FramesUptoType ==
  ASSUME NEW win, NEW w, NEW k \in Nat
  PROVE  FramesUpto(win, w, k) \in Nat /\ IsFiniteSet({i \in 1..k : win.frames[i] = w})
<1>1. IsFiniteSet(1..k)
  BY FS_Interval
<1>2. {i \in 1..k : win.frames[i] = w} \in SUBSET (1..k)
  OBVIOUS
<1>3. IsFiniteSet({i \in 1..k : win.frames[i] = w})
  BY <1>1, <1>2, FS_Subset
<1>4. QED
  BY <1>3, FS_CardinalityType DEF FramesUpto

LEMMA FramesOfUpto ==
  ASSUME NEW win \in Windows, NEW w
  PROVE  FramesOf(win, w) = FramesUpto(win, w, Len(win.frames)) /\ FramesOf(win, w) \in Nat
<1>1. DOMAIN win.frames = 1..Len(win.frames) /\ Len(win.frames) \in Nat
  BY WindowFacts
<1>2. FramesOf(win, w) = FramesUpto(win, w, Len(win.frames))
  BY <1>1 DEF FramesOf, FramesUpto
<1>3. QED
  BY <1>1, <1>2, FramesUptoType

LEMMA StartType ==
  ASSUME CaptureOK
  PROVE  Start \in Got
BY DEF CaptureOK, Start, Got

LEMMA ConsumeType ==
  ASSUME CaptureOK, NEW win \in Windows
  PROVE  Consume(win) \in Got
<1>1. PICK run \in [0..Len(win.gaps) -> Got] : Consume(win) = run[Len(win.gaps)]
  BY StartType, ConsumeRuns
<1>2. Len(win.gaps) \in 0..Len(win.gaps)
  BY WindowFacts
<1>3. QED
  BY <1>1, <1>2

LEMMA ReceiveMultiTypes ==
  ASSUME OutcomeOK, CaptureOK, TimingOK, RestOK, NEW win \in Windows, ReceiveMulti(win),
         state = "armed"
  PROVE  CaptureOK' /\ TimingOK' /\ heard' \in [Waves -> 0..MIN_REPEATS]
<1> DEFINE got == Consume(win)
<1>1. got \in Got
  BY ConsumeType
<1> HIDE DEF got
<1>2. /\ candidate' = got.candidate /\ agreements' = got.agreements /\ physical_gaps' = got.gaps
      /\ ready' = (got.agreements >= MIN_REPEATS)
      /\ settling' = (IF got.ready THEN settling ELSE 0)
      /\ saw_frame' = TRUE /\ last_reject' = last_reject
      /\ UNCHANGED timing
      /\ Hear([w \in Waves |-> FramesOf(win, w)])
  BY DEF ReceiveMulti, got
<1>3. settling' \in 0..SETTLE
  BY <1>2, LearnerAssumption DEF CaptureOK
<1>4. CaptureOK'
  BY <1>1, <1>2, <1>3 DEF CaptureOK, Got
<1>5. TimingOK'
  BY <1>2 DEF timing, TimingOK
<1>6. [w \in Waves |-> FramesOf(win, w)] \in [Waves -> Nat]
  BY FramesOfUpto
<1>7. heard' \in [Waves -> 0..MIN_REPEATS]
  BY <1>2, <1>6, HearTypes DEF RestOK
<1>8. QED
  BY <1>4, <1>5, <1>7

LEMMA ReceiveSingleTypes ==
  ASSUME OutcomeOK, CaptureOK, TimingOK, RestOK, NEW win \in Windows, ReceiveSingle(win),
         state = "armed"
  PROVE  CaptureOK' /\ TimingOK' /\ heard' \in [Waves -> 0..MIN_REPEATS]
<1> DEFINE w == win.whole
<1>1. /\ w \in Waves /\ UNCHANGED <<physical_gaps, last_reject>> /\ saw_frame' = TRUE /\ quiet' = 0
      /\ Hear([v \in Waves |-> IF v = w THEN 1 ELSE 0])
  BY DEF ReceiveSingle
<1>2. heard' \in [Waves -> 0..MIN_REPEATS]
  <2>1. [v \in Waves |-> IF v = w THEN 1 ELSE 0] \in [Waves -> Nat]
    OBVIOUS
  <2>2. QED
    BY <1>1, <2>1, HearTypes DEF RestOK
<1>3. MIN_REPEATS \in Nat /\ 1 \in 0..MIN_REPEATS /\ 0 \in 0..SETTLE /\ MaxIntervals \in Nat
      /\ 0 \in 0..MaxIntervals /\ 0 \in 0..LongPause
  BY LearnerAssumption, LongPauseType
<1>4. CASE /\ candidate' = w /\ agreements' = 1 /\ ready' = FALSE
           /\ span' = 0 /\ interval_count' = 0 /\ timed' = w /\ settling' = 0
  <2>1. CaptureOK'
    BY <1>1, <1>3, <1>4 DEF CaptureOK
  <2>2. TimingOK'
    BY <1>1, <1>3, <1>4 DEF TimingOK
  <2>3. QED
    BY <1>2, <2>1, <2>2
<1>5. CASE /\ interval_count < MaxIntervals
           /\ agreements' = Smaller(agreements + 1, MIN_REPEATS)
           /\ IF quiet > Duration[w] + MAX_GAP
               THEN span' = 0 /\ interval_count' = 0 /\ timed' = w
               ELSE /\ span' = span + quiet
                    /\ interval_count' = interval_count + 1
                    /\ UNCHANGED timed
           /\ ready' = (agreements' >= MIN_REPEATS)
           /\ settling' = (IF ready THEN settling ELSE 0)
           /\ UNCHANGED candidate
  <2>1. agreements' \in 0..MIN_REPEATS
    <3>1. agreements + 1 \in Nat
      BY <1>3 DEF CaptureOK
    <3>2. QED
      BY <1>3, <1>5, <3>1, SmallerType
  <2>2. settling' \in 0..SETTLE
    BY <1>3, <1>5 DEF CaptureOK
  <2>3. CaptureOK'
    BY <1>1, <1>5, <2>1, <2>2 DEF CaptureOK
  <2>4. quiet \in Nat /\ span \in Nat /\ interval_count \in 0..MaxIntervals
    BY LongPauseType DEF TimingOK
  <2>5. /\ span' \in Nat /\ interval_count' \in 0..MaxIntervals
        /\ timed' \in Waves \cup {NoWave}
    <3>1. CASE span' = 0 /\ interval_count' = 0 /\ timed' = w
      BY <1>1, <1>3, <3>1
    <3>2. CASE span' = span + quiet /\ interval_count' = interval_count + 1 /\ timed' = timed
      BY <1>3, <1>5, <2>4, <3>2 DEF TimingOK
    <3>3. QED
      BY <1>5, <3>1, <3>2
  <2>6. TimingOK'
    BY <1>1, <1>3, <2>5 DEF TimingOK
  <2>7. QED
    BY <1>2, <2>3, <2>6
<1>6. QED
  BY <1>4, <1>5 DEF ReceiveSingle

LEMMA TypeStep == TypeInv /\ [Next]_vars => TypeInv'
<1> SUFFICES ASSUME OutcomeOK, CaptureOK, TimingOK, RestOK, [Next]_vars
             PROVE  OutcomeOK' /\ CaptureOK' /\ TimingOK' /\ RestOK'
  BY TypeParts, TypePartsNext
<1>1. stack \in Seq(Calls) /\ (stack # <<>> => Head(stack) \in Calls /\ Tail(stack) \in Seq(Calls))
  <2>1. stack \in Seq(Calls)
    BY DEF OutcomeOK
  <2>2. ASSUME NEW C, NEW s \in Seq(C), s # <<>> PROVE Head(s) \in C /\ Tail(s) \in Seq(C)
    BY <2>2
  <2>3. QED
    BY <2>1, <2>2
<1>2. ASSUME NEW reason \in Reasons, NEW rest \in Seq(Calls), Fail(reason, rest), state = "armed",
             UNCHANGED <<pending_name, timing, heard>>, looping' \in BOOLEAN, dispatched' \in BOOLEAN
      PROVE  OutcomeOK' /\ CaptureOK' /\ TimingOK' /\ RestOK'
  <2>1. OutcomeOK' /\ CaptureOK'
    BY <1>2, FailTypes
  <2>2. TimingOK' /\ RestOK'
    BY <1>2 DEF Fail, timing, TimingOK, RestOK
  <2>3. QED
    BY <2>1, <2>2
<1>3. ASSUME NEW n \in Names, Learn(n)
      PROVE  OutcomeOK' /\ CaptureOK' /\ TimingOK' /\ RestOK'
  <2>1. dispatched' \in BOOLEAN
    BY <1>3 DEF Learn, RestOK
  <2>2. CASE Arm(n, stack, open)
    <3>1. open \in Nat
      BY DEF OutcomeOK
    <3>2. QED
      BY <1>1, <2>1, <2>2, <3>1, ArmTypes
  <2>3. CASE /\ state = "armed" /\ Fail("cancelled", <<[then |-> "arm", name |-> n]>> \o stack)
             /\ UNCHANGED <<pending_name, timing, looping, heard>>
    <3>1. <<[then |-> "arm", name |-> n]>> \o stack \in Seq(Calls)
      BY <1>1, InterruptedType
    <3>2. looping' \in BOOLEAN
      BY <2>3 DEF RestOK
    <3> DEFINE rest == <<[then |-> "arm", name |-> n]>> \o stack
    <3> HIDE DEF rest
    <3>3. rest \in Seq(Calls) /\ Fail("cancelled", rest)
      BY <2>3, <3>1 DEF rest
    <3>4. QED
      BY <1>2, <2>1, <2>3, <3>2, <3>3 DEF Reasons
  <2>4. QED
    BY <1>3, <2>2, <2>3 DEF Learn
<1>4. CASE Cancel
  <2>1. dispatched' \in BOOLEAN /\ looping' \in BOOLEAN
    BY <1>4 DEF Cancel, RestOK
  <2>2. QED
    BY <1>1, <1>2, <1>4, <2>1 DEF Cancel, Reasons
<1>5. CASE StoreCall
  <2>1. OutcomeOK'
    BY <1>5 DEF StoreCall, OutcomeOK
  <2>2. CaptureOK' /\ TimingOK'
    BY <1>5 DEF StoreCall, capture, timing, CaptureOK, TimingOK
  <2>3. RestOK'
    BY <1>5 DEF StoreCall, RestOK
  <2>4. QED
    BY <2>1, <2>2, <2>3
<1>6. CASE Return
  <2>1. dispatched' \in BOOLEAN
    BY <1>6 DEF Return, RestOK
  <2>2. Head(stack) \in Calls /\ Tail(stack) \in Seq(Calls)
    BY <1>1, <1>6 DEF Return
  <2>6. open - Overwritten \in Nat
    <3>1. open \in Nat /\ (state = "armed" => open > 0)
      BY DEF OutcomeOK
    <3>2. (Overwritten = 1 /\ state = "armed") \/ Overwritten = 0
      BY DEF Overwritten
    <3>3. QED
      BY <3>1, <3>2
  <2>3. CASE Arm(Head(stack).name, Tail(stack), open - Overwritten)
    <3>1. Head(stack).name \in Names \cup {NoName}
      BY <2>2 DEF Calls
    <3>2. QED
      BY <2>1, <2>2, <2>3, <2>6, <3>1, ArmTypes
  <2>4. CASE /\ state' = "idle" /\ stack' = Tail(stack) /\ open' = open - Overwritten
             /\ UNCHANGED <<pending_name, last_result, capture, timing, stored, last_put,
                            left, looping, heard>>
    <3>1. OutcomeOK'
      BY <2>2, <2>4, <2>6 DEF OutcomeOK
    <3>2. CaptureOK' /\ TimingOK'
      BY <2>4 DEF capture, timing, CaptureOK, TimingOK
    <3>3. RestOK'
      BY <2>1, <2>4 DEF RestOK
    <3>4. QED
      BY <3>1, <3>2, <3>3
  <2>5. QED
    BY <1>6, <2>3, <2>4 DEF Return
<1>7. ASSUME NEW win \in Windows, Receive(win)
      PROVE  OutcomeOK' /\ CaptureOK' /\ TimingOK' /\ RestOK'
  <2>1. state = "armed" /\ pending_name' = pending_name /\ looping' = looping
        /\ dispatched' = (state' = "armed")
    BY <1>7 DEF Receive
  <2>2. CaptureOK' /\ TimingOK' /\ heard' \in [Waves -> 0..MIN_REPEATS]
    <3>1. CASE ReceiveNoise(win)
      <4>1. win.whole \in Rejects
        BY <3>1 DEF ReceiveNoise
      <4>2. QED
        BY <3>1, <4>1 DEF ReceiveNoise, timing, CaptureOK, TimingOK, RestOK
    <3>2. QED
      BY <1>7, <2>1, <3>1, ReceiveMultiTypes, ReceiveSingleTypes DEF Receive
  <2>3. CommitCapture \/ UNCHANGED outcome
    BY <1>7 DEF Receive, ReceiveMulti, ReceiveNoise, ReceiveSingle
  <2>4. OutcomeOK'
    <3>1. CASE CommitCapture
      BY <2>1, <2>2, <3>1, CommitTypes
    <3>2. CASE UNCHANGED outcome
      BY <3>2 DEF outcome, OutcomeOK
    <3>3. QED
      BY <2>3, <3>1, <3>2
  <2>5. RestOK'
    BY <2>1, <2>2 DEF RestOK
  <2>6. QED
    BY <2>2, <2>4, <2>5
<1>8. CASE Loop
  <2>1. /\ dispatched' = FALSE /\ looping' = (state = "armed")
        /\ UNCHANGED <<pending_name, heard>>
    BY <1>8 DEF Loop
  <2>2. ASSUME UNCHANGED <<capture, timing>>, CommitCapture, state = "armed"
        PROVE  OutcomeOK' /\ CaptureOK' /\ TimingOK' /\ RestOK'
    <3>1. CaptureOK' /\ TimingOK'
      BY <2>2 DEF capture, timing, CaptureOK, TimingOK
    <3>2. OutcomeOK'
      BY <2>2, <3>1, CommitTypes
    <3>3. RestOK'
      BY <2>1, <2>2 DEF RestOK
    <3>4. QED
      BY <3>1, <3>2, <3>3
  <2>3. ASSUME state = "armed", Fail(TimeoutReason, stack), UNCHANGED timing
        PROVE  OutcomeOK' /\ CaptureOK' /\ TimingOK' /\ RestOK'
    <3>1. TimeoutReason \in Reasons
      BY DEF TimeoutReason, Reasons, CaptureOK
    <3>2. looping' \in BOOLEAN /\ dispatched' \in BOOLEAN
      BY <2>1
    <3>3. QED
      BY <1>1, <1>2, <2>1, <2>3, <3>1, <3>2
  <2>4. CASE UNCHANGED <<capture, timing, outcome>>
    <3>1. OutcomeOK' /\ CaptureOK' /\ TimingOK'
      BY <2>4 DEF capture, timing, outcome, OutcomeOK, CaptureOK, TimingOK
    <3>2. RestOK'
      BY <2>1, <2>4 DEF outcome, RestOK
    <3>3. QED
      BY <3>1, <3>2
  <2>5. QED
    BY <1>8, <2>2, <2>3, <2>4 DEF Loop
<1>9. CASE Tick
  <2>1. quiet' \in 0..LongPause
    <3>1. quiet + 1 \in Nat /\ LongPause \in Nat
      BY LongPauseType DEF TimingOK
    <3>2. QED
      BY <1>9, <3>1, SmallerType DEF Tick
  <2>2. left' \in 0..LEARN_TIMEOUT
    <3>1. left \in 0..LEARN_TIMEOUT /\ LEARN_TIMEOUT \in Nat
      BY LearnerAssumption DEF OutcomeOK
    <3>2. left' = IF left > 0 THEN left - 1 ELSE 0
      BY <1>9 DEF Tick
    <3>3. QED
      BY <3>1, <3>2
  <2>3. settling' \in 0..SETTLE
    <3>1. settling + 1 \in Nat /\ SETTLE \in Nat
      BY LearnerAssumption DEF CaptureOK
    <3>2. Smaller(settling + 1, SETTLE) \in 0..SETTLE
      BY <3>1, SmallerType
    <3> DEFINE now == Smaller(settling + 1, SETTLE)
    <3>3. 0 \in 0..SETTLE /\ settling' = (IF ready THEN now ELSE 0)
      BY <1>9, <3>1 DEF Tick
    <3>4. now \in 0..SETTLE
      BY <3>2
    <3> HIDE DEF now
    <3>5. QED
      BY <3>3, <3>4
  <2>4. OutcomeOK'
    BY <1>9, <2>2 DEF Tick, OutcomeOK
  <2>5. CaptureOK'
    BY <1>9, <2>3 DEF Tick, CaptureOK
  <2>6. TimingOK'
    BY <1>9, <2>1 DEF Tick, TimingOK
  <2>7. RestOK'
    BY <1>9 DEF Tick, RestOK
  <2>8. QED
    BY <2>4, <2>5, <2>6, <2>7
<1>10. CASE UNCHANGED vars
  <2>1. OutcomeOK' /\ CaptureOK' /\ TimingOK'
    BY <1>10 DEF vars, capture, timing, outcome, OutcomeOK, CaptureOK, TimingOK
  <2>2. RestOK'
    BY <1>10 DEF vars, outcome, RestOK
  <2>3. QED
    BY <2>1, <2>2
<1>11. QED
  BY <1>3, <1>4, <1>5, <1>6, <1>7, <1>8, <1>9, <1>10 DEF Next

LEMMA TypeInit == Init => TypeInv
<1> SUFFICES ASSUME Init PROVE OutcomeOK /\ CaptureOK /\ TimingOK /\ RestOK
  BY TypeParts
<1>1. 0 \in 0..LEARN_TIMEOUT /\ 0 \in 0..MIN_REPEATS /\ 0 \in 0..SETTLE /\ 0 \in 0..MaxIntervals
      /\ 0 \in 0..LongPause
  BY LearnerAssumption, LongPauseType
<1>2. NoCommand \in Commands /\ <<>> \in Seq(Calls) /\ <<>> \in Gaps
  BY DEF NoCommand, Commands, Gaps
<1>3. OutcomeOK
  BY <1>1, <1>2 DEF Init, OutcomeOK
<1>4. CaptureOK /\ TimingOK
  BY <1>1, <1>2 DEF Init, CaptureOK, TimingOK
<1>5. RestOK
  BY <1>1 DEF Init, RestOK
<1>6. QED
  BY <1>3, <1>4, <1>5

\* Every reachable state of the learner has its types, whatever windows split into, at any depth
\* of callbacks: consume_multi_frame_ leaves a candidate and counts behind, commit_capture_ hands
\* over a waveform of the attempt, and the attempts announced as ended never outnumber those armed.
THEOREM TypeCorrect == Spec => []TypeOK
<1>1. TypeInv => TypeOK
  BY DEF TypeInv
<1>2. QED
  BY <1>1, TypeInit, TypeStep, PTL DEF Spec

-----------------------------------------------------------------------------
(* The noise gate *)

Counts == [Waves -> 0..MIN_REPEATS]

LEMMA LikeFacts ==
  ASSUME NEW w \in Waves
  PROVE  /\ Like(w) \subseteq Waves /\ IsFiniteSet(Like(w)) /\ w \in Like(w)
         /\ \A u \in Waves, v \in Waves : Agree(w, u) /\ Agree(u, v) => v \in Like(w)
         /\ \A v \in Waves : Agree(w, v) => v \in Like(w)
<1>1. Like(w) \in SUBSET Waves /\ IsFiniteSet(Waves)
  BY LearnerAssumption DEF Like
<1>2. IsFiniteSet(Like(w))
  BY <1>1, FS_Subset
<1>3. \A v \in Waves : Agree(v, v)
  BY LearnerAssumption DEF Agree
<1>4. \A u \in Waves, v \in Waves : Agree(w, u) /\ Agree(u, v) => v \in Like(w)
  BY DEF Like
<1>5. QED
  BY <1>1, <1>2, <1>3, <1>4

LEMMA HeardLikeIsTotal ==
  ASSUME NEW w
  PROVE  HeardLike(w) = Total(heard, Like(w))
BY DEF HeardLike, Total

\* f after one more frame, up to MIN_REPEATS of each waveform.
OneMore(f, v) == [w \in Waves |-> Smaller(f[w] + (IF w = v THEN 1 ELSE 0), MIN_REPEATS)]

\* A waveform has as many frames that resemble it as it has frames itself.
LEMMA TotalCounts ==
  ASSUME NEW f \in Counts, NEW w \in Waves, NEW v \in Like(w)
  PROVE  Total(f, Like(w)) \in Nat /\ f[v] <= Total(f, Like(w))
<1> DEFINE zero == [u \in Waves |-> 0]
<1>1. MIN_REPEATS \in Nat /\ Like(w) \subseteq Waves /\ IsFiniteSet(Like(w)) /\ v \in Waves
  BY LearnerAssumption, LikeFacts
<1>2. \A u \in Like(w) : zero[u] \in Nat /\ f[u] \in Nat /\ zero[u] <= f[u]
  BY <1>1 DEF Counts
<1>3. zero[v] = 0
  BY <1>1
<1> HIDE DEF zero
<1>4. /\ Total(zero, Like(w)) \in Nat /\ Total(f, Like(w)) \in Nat
      /\ Total(zero, Like(w)) + f[v] - zero[v] <= Total(f, Like(w))
  BY <1>1, <1>2, TotalGrows
<1>5. f[v] \in Nat
  BY <1>2
<1>6. QED
  BY <1>3, <1>4, <1>5

\* One more frame never lowers the sum, and raises it below MIN_REPEATS if it resembles w.
LEMMA OneMoreCounts ==
  ASSUME NEW f \in Counts, NEW v, NEW w \in Waves
  PROVE  /\ OneMore(f, v) \in Counts
         /\ Total(f, Like(w)) \in Nat /\ Total(OneMore(f, v), Like(w)) \in Nat
         /\ Total(f, Like(w)) <= Total(OneMore(f, v), Like(w))
         /\ v \in Like(w) => Smaller(Total(f, Like(w)) + 1, MIN_REPEATS) <= Total(OneMore(f, v), Like(w))
<1> DEFINE h == OneMore(f, v)
<1>1. MIN_REPEATS \in Nat /\ Like(w) \subseteq Waves /\ IsFiniteSet(Like(w)) /\ w \in Like(w)
  BY LearnerAssumption, LikeFacts
<1>2. ASSUME NEW u \in Waves
      PROVE  /\ f[u] \in Nat /\ f[u] <= MIN_REPEATS
             /\ h[u] \in 0..MIN_REPEATS /\ f[u] <= h[u]
             /\ u = v /\ f[u] < MIN_REPEATS => h[u] = f[u] + 1
             /\ f[u] = MIN_REPEATS => h[u] = MIN_REPEATS
  BY <1>1 DEF Counts, OneMore, Smaller
<1>3. h \in Counts
  BY <1>2 DEF Counts, OneMore
<1> HIDE DEF h
<1>4. \A u \in Like(w) : f[u] \in Nat /\ h[u] \in Nat /\ f[u] <= h[u]
  BY <1>1, <1>2
<1>5. ASSUME NEW x \in Like(w)
      PROVE  /\ Total(f, Like(w)) \in Nat /\ Total(h, Like(w)) \in Nat
             /\ Total(f, Like(w)) + h[x] - f[x] <= Total(h, Like(w))
  BY <1>1, <1>4, TotalGrows
<1> DEFINE a == Total(f, Like(w))
           b == Total(h, Like(w))
<1>6. a \in Nat /\ b \in Nat /\ a <= b
  <2>1. /\ a \in Nat /\ b \in Nat /\ a + h[w] - f[w] <= b
        /\ h[w] \in Nat /\ f[w] \in Nat /\ f[w] <= h[w]
    BY <1>1, <1>4, <1>5
  <2> HIDE DEF a, b
  <2>2. QED
    BY <2>1
<1>7. ASSUME v \in Like(w) PROVE Smaller(a + 1, MIN_REPEATS) <= b
  <2>1. v \in Waves
    BY <1>1, <1>7
  <2>2. CASE f[v] < MIN_REPEATS
    <3>1. h[v] = f[v] + 1 /\ f[v] \in Nat /\ a + h[v] - f[v] <= b
      BY <1>2, <1>5, <1>7, <2>1, <2>2
    <3> HIDE DEF a, b
    <3>2. a + 1 <= b
      BY <1>6, <3>1
    <3>3. QED
      BY <1>1, <1>6, <3>2 DEF Smaller
  <2>3. CASE f[v] = MIN_REPEATS
    <3>1. h[v] = MIN_REPEATS /\ h[v] <= b
      BY <1>2, <1>3, <1>7, <2>1, <2>3, TotalCounts
    <3> HIDE DEF a, b
    <3>2. QED
      BY <1>1, <1>6, <3>1 DEF Smaller
  <2>4. QED
    BY <1>1, <1>2, <2>1, <2>2, <2>3
<1>8. QED
  BY <1>3, <1>6, <1>7 DEF h

\* What has been heard when k frames of a window have been counted.
HeardUpto(win, k) == [w \in Waves |-> Smaller(heard[w] + FramesUpto(win, w, k), MIN_REPEATS)]

LEMMA FramesUptoNext ==
  ASSUME NEW win, NEW w, NEW k \in Nat
  PROVE  /\ FramesUpto(win, w, 0) = 0
         /\ FramesUpto(win, w, k + 1) =
              FramesUpto(win, w, k) + (IF w = win.frames[k + 1] THEN 1 ELSE 0)
<1> DEFINE S(n) == {i \in 1..n : win.frames[i] = w}
<1>1. S(0) = {}
  OBVIOUS
<1>2. IsFiniteSet(S(k)) /\ Cardinality(S(k)) \in Nat
  BY FramesUptoType DEF FramesUpto
<1>3. CASE w = win.frames[k + 1]
  <2>1. S(k + 1) = S(k) \cup {k + 1} /\ k + 1 \notin S(k)
    BY <1>3
  <2> HIDE DEF S
  <2>2. Cardinality(S(k + 1)) = Cardinality(S(k)) + 1
    BY <1>2, <2>1, FS_AddElement
  <2>3. QED
    BY <1>1, <1>3, <2>2, FS_EmptySet DEF FramesUpto, S
<1>4. CASE w # win.frames[k + 1]
  <2>1. S(k + 1) = S(k)
    BY <1>4
  <2> HIDE DEF S
  <2>2. Cardinality(S(k + 1)) = Cardinality(S(k)) + 0
    BY <1>2, <2>1
  <2>3. QED
    BY <1>1, <1>4, <2>2, FS_EmptySet DEF FramesUpto, S
<1>5. QED
  BY <1>3, <1>4

LEMMA HeardUptoNext ==
  ASSUME NEW win, heard \in Counts, NEW k \in Nat
  PROVE  /\ HeardUpto(win, 0) = heard
         /\ HeardUpto(win, k) \in Counts
         /\ HeardUpto(win, k + 1) = OneMore(HeardUpto(win, k), win.frames[k + 1])
<1>1. MIN_REPEATS \in Nat
  BY LearnerAssumption
<1>2. ASSUME NEW w \in Waves
      PROVE  heard[w] \in Nat /\ heard[w] <= MIN_REPEATS
  BY <1>1, <1>2 DEF Counts
<1>3. HeardUpto(win, 0) = heard
  <2>1. \A w \in Waves : Smaller(heard[w] + FramesUpto(win, w, 0), MIN_REPEATS) = heard[w]
    BY <1>1, <1>2, FramesUptoNext DEF Smaller
  <2>2. QED
    BY <2>1 DEF HeardUpto, Counts
<1>4. HeardUpto(win, k) \in Counts
  <2>1. ASSUME NEW w \in Waves
        PROVE  Smaller(heard[w] + FramesUpto(win, w, k), MIN_REPEATS) \in 0..MIN_REPEATS
    <3>1. heard[w] \in Nat /\ FramesUpto(win, w, k) \in Nat
      BY <1>2, FramesUptoType
    <3>2. heard[w] + FramesUpto(win, w, k) \in Nat
      BY <3>1
    <3>3. QED
      BY <1>1, <3>2, SmallerType
  <2>2. QED
    BY <2>1 DEF HeardUpto, Counts
<1>5. ASSUME NEW w \in Waves
      PROVE  HeardUpto(win, k + 1)[w] = OneMore(HeardUpto(win, k), win.frames[k + 1])[w]
  <2> DEFINE n == FramesUpto(win, w, k)
             d == IF w = win.frames[k + 1] THEN 1 ELSE 0
             a == heard[w]
  <2>1. n \in Nat /\ d \in {0, 1} /\ a \in Nat
    BY <1>2, FramesUptoType
  <2>2. FramesUpto(win, w, k + 1) = n + d
    BY FramesUptoNext
  <2>3. OneMore(HeardUpto(win, k), win.frames[k + 1])[w] = Smaller(Smaller(a + n, MIN_REPEATS) + d, MIN_REPEATS)
    BY DEF OneMore, HeardUpto
  <2>4. HeardUpto(win, k + 1)[w] = Smaller(a + (n + d), MIN_REPEATS)
    BY <2>2 DEF HeardUpto
  <2> HIDE DEF n, d, a
  <2>5. Smaller(Smaller(a + n, MIN_REPEATS) + d, MIN_REPEATS) = Smaller(a + (n + d), MIN_REPEATS)
    BY <1>1, <2>1 DEF Smaller
  <2>6. QED
    BY <2>3, <2>4, <2>5
<1>6. HeardUpto(win, k + 1) = OneMore(HeardUpto(win, k), win.frames[k + 1])
  BY <1>5 DEF HeardUpto, OneMore
<1>7. QED
  BY <1>3, <1>4, <1>6

\* A count of agreements that the frames f bear out.
Borne(got, f) ==
  /\ got.candidate = NoWave => got.agreements = 0
  /\ got.candidate # NoWave => got.agreements <= Total(f, Like(got.candidate))

\* More frames bear it out as well.
LEMMA StillBorne ==
  ASSUME NEW got \in Got, NEW f \in Counts, NEW v, Borne(got, f)
  PROVE  Borne(got, OneMore(f, v))
<1>1. CASE got.candidate = NoWave
  BY <1>1 DEF Borne
<1>2. CASE got.candidate # NoWave
  <2> DEFINE w == got.candidate
             a == Total(f, Like(w))
             b == Total(OneMore(f, v), Like(w))
  <2>1. w \in Waves /\ got.agreements \in Nat
    BY <1>2, LearnerAssumption DEF Got
  <2>2. a \in Nat /\ b \in Nat /\ a <= b
    BY <2>1, OneMoreCounts
  <2>3. got.agreements <= a
    BY <1>2 DEF Borne
  <2> HIDE DEF a, b
  <2>4. got.agreements <= b
    BY <2>1, <2>2, <2>3
  <2>5. QED
    BY <1>2, <2>4 DEF Borne, b
<1>3. QED
  BY <1>1, <1>2

\* A pair of neighbours is counted when its second frame is: the first was there before.
LEMMA PairBorne ==
  ASSUME NEW win \in Windows, heard \in Counts, NEW got \in Got, NEW k \in 1..Len(win.gaps),
         Borne(got, HeardUpto(win, k))
  PROVE  Borne(ConsumePair(win, got, k), HeardUpto(win, k + 1))
<1> DEFINE first == win.frames[k]
           second == win.frames[k + 1]
           f == HeardUpto(win, k)
           next == ConsumePair(win, got, k)
<1>1. k \in Nat /\ f \in Counts /\ HeardUpto(win, k + 1) = OneMore(f, second)
  <2>1. k \in Nat
    BY WindowFacts
  <2>2. QED
    BY <2>1, HeardUptoNext
<1>2. MIN_REPEATS \in Nat /\ MIN_REPEATS >= 2 /\ NoWave \notin Waves
  BY LearnerAssumption
<1>3. CASE ~AgreeingPair(win, k)
  <2>1. next = got
    BY <1>3 DEF ConsumePair
  <2> HIDE DEF f, next
  <2>2. Borne(got, OneMore(f, second))
    BY <1>1, StillBorne DEF f
  <2>3. QED
    BY <1>1, <2>1, <2>2 DEF next
<1>4. CASE AgreeingPair(win, k)
  <2>1. first \in Waves /\ second \in Waves /\ Agree(first, second)
    BY <1>4 DEF AgreeingPair
  <2>2. CASE Agree(got.candidate, first)
    <3> DEFINE w == got.candidate
               a == Total(f, Like(w))
               b == Total(OneMore(f, second), Like(w))
    <3>1. w \in Waves
      BY <2>2, LearnerAssumption DEF Agree
    <3>2. second \in Like(w)
      BY <2>1, <2>2, <3>1, LikeFacts
    <3>3. a \in Nat /\ b \in Nat /\ Smaller(a + 1, MIN_REPEATS) <= b
      BY <1>1, <3>1, <3>2, OneMoreCounts
    <3>4. got.agreements \in Nat /\ got.agreements <= a
      BY <1>2, <3>1 DEF Borne, Got
    <3>5. next.candidate = w /\ next.agreements = Smaller(got.agreements + 1, MIN_REPEATS)
      BY <1>4, <2>2 DEF ConsumePair, Got
    <3> HIDE DEF a, b, next
    <3>6. next.agreements <= b
      BY <1>2, <3>3, <3>4, <3>5 DEF Smaller
    <3>7. Borne(next, OneMore(f, second))
      BY <1>2, <3>1, <3>5, <3>6 DEF Borne, b
    <3>8. QED
      BY <1>1, <3>7 DEF next
  <2>3. CASE ~Agree(got.candidate, first)
    <3> DEFINE a == Total(f, Like(first))
               b == Total(OneMore(f, second), Like(first))
    <3>1. first \in Like(first) /\ second \in Like(first)
      BY <2>1, LikeFacts
    <3>2. a \in Nat /\ b \in Nat /\ Smaller(a + 1, MIN_REPEATS) <= b
      BY <1>1, <2>1, <3>1, OneMoreCounts
    <3>3. f[first] >= 1
      <4> DEFINE n == FramesUpto(win, first, k)
      <4>1. n >= 1 /\ n \in Nat
        <5>1. k - 1 \in Nat /\ (k - 1) + 1 = k
          BY <1>1
        <5>2. FramesUpto(win, first, k - 1) \in Nat
          BY <5>1, FramesUptoType
        <5>3. FramesUpto(win, first, (k - 1) + 1) = FramesUpto(win, first, k - 1) + 1
          BY <5>1, FramesUptoNext
        <5>4. QED
          BY <5>1, <5>2, <5>3
      <4>2. heard[first] \in Nat
        BY <1>2, <2>1 DEF Counts
      <4>3. f[first] = Smaller(heard[first] + n, MIN_REPEATS)
        BY <2>1 DEF HeardUpto
      <4> HIDE DEF n, f
      <4>4. QED
        BY <1>2, <4>1, <4>2, <4>3 DEF Smaller
    <3>4. f[first] \in Nat /\ f[first] <= a
      <4>1. f[first] <= a
        BY <1>1, <2>1, <3>1, TotalCounts
      <4>2. f[first] \in Nat
        BY <1>1, <1>2, <2>1 DEF Counts
      <4>3. QED
        BY <4>1, <4>2
    <3>5. next.candidate = first /\ next.agreements = 2
      BY <1>4, <2>3 DEF ConsumePair
    <3> HIDE DEF a, b, f, next
    <3>6. 2 <= b
      BY <1>2, <3>2, <3>3, <3>4 DEF Smaller
    <3>7. Borne(next, OneMore(f, second))
      BY <1>2, <2>1, <3>5, <3>6 DEF Borne, b
    <3>8. QED
      BY <1>1, <3>7 DEF next
  <2>4. QED
    BY <2>2, <2>3
<1>5. QED
  BY <1>3, <1>4

LEMMA ConsumeBorne ==
  ASSUME NEW win \in Windows, heard \in Counts, Start \in Got, Borne(Start, heard), HasRepeats(win)
  PROVE  Borne(Consume(win), HeardUpto(win, Len(win.frames)))
<1> DEFINE n == Len(win.gaps)
<1>1. PICK run \in [0..n -> Got] :
        /\ run[0] = Start
        /\ \A k \in 1..n : run[k] = ConsumePair(win, run[k - 1], k)
        /\ Consume(win) = run[n]
  BY ConsumeRuns
<1>2. n \in Nat /\ Len(win.frames) = n + 1
  BY WindowFacts DEF HasRepeats
<1> DEFINE T == {k \in 0..n : Borne(run[k], HeardUpto(win, k + 1))}
<1>3. 0 \in T
  <2>1. HeardUpto(win, 0) = heard /\ HeardUpto(win, 0 + 1) = OneMore(heard, win.frames[0 + 1])
    BY HeardUptoNext
  <2>2. Borne(Start, OneMore(heard, win.frames[0 + 1]))
    BY StillBorne
  <2>3. 0 \in 0..n
    BY <1>2
  <2>4. QED
    BY <1>1, <2>1, <2>2, <2>3
<1>4. ASSUME NEW k \in 0..n - 1, k \in T PROVE k + 1 \in T
  <2>1. k + 1 \in 1..n /\ k + 1 \in 0..n /\ k \in 0..n /\ (k + 1) - 1 = k
    BY <1>2
  <2>2. run[k] \in Got /\ Borne(run[k], HeardUpto(win, k + 1))
    BY <1>4, <2>1
  <2>3. run[k + 1] = ConsumePair(win, run[k], k + 1)
    BY <1>1, <2>1
  <2>4. Borne(ConsumePair(win, run[k], k + 1), HeardUpto(win, (k + 1) + 1))
    BY <2>1, <2>2, PairBorne
  <2>5. QED
    BY <2>1, <2>3, <2>4
<1>5. n \in T
  <2> HIDE DEF T, n
  <2>1. \A k \in 0..n : k \in T
    BY <1>2, <1>3, <1>4, SegmentInduction
  <2>2. QED
    BY <1>2, <2>1
<1>6. QED
  BY <1>1, <1>2, <1>5

\* The count of agreements is borne out by the frames of this attempt, and only a count of
\* MIN_REPEATS is ready; it holds between attempts as well, when nothing reads it.
GateInv ==
  /\ candidate = NoWave => agreements = 0
  /\ candidate # NoWave => agreements <= Total(heard, Like(candidate))
  /\ ready => agreements >= MIN_REPEATS

LEMMA GateIsBorne ==
  /\ Borne(Start, heard) <=> /\ candidate = NoWave => agreements = 0
                             /\ candidate # NoWave => agreements <= Total(heard, Like(candidate))
BY DEF Borne, Start

LEMMA ClearedGate ==
  ASSUME ClearCapture
  PROVE  GateInv'
<1>1. candidate' = NoWave /\ agreements' = 0 /\ ready' = FALSE
  BY DEF ClearCapture
<1>2. QED
  BY <1>1 DEF GateInv

LEMMA SameGate ==
  ASSUME GateInv, UNCHANGED <<candidate, agreements, ready, heard>>
  PROVE  GateInv'
BY DEF GateInv

LEMMA ReceiveMultiGate ==
  ASSUME CaptureOK, heard \in Counts, GateInv, NEW win \in Windows, ReceiveMulti(win)
  PROVE  GateInv'
<1> DEFINE got == Consume(win)
           all == HeardUpto(win, Len(win.frames))
<1>1. got \in Got /\ Borne(got, all)
  BY ConsumeType, ConsumeBorne, StartType, GateIsBorne DEF GateInv, ReceiveMulti
<1>2. heard' = all
  <2>1. \A w \in Waves : FramesOf(win, w) = FramesUpto(win, w, Len(win.frames))
    BY FramesOfUpto
  <2>2. QED
    BY <2>1 DEF ReceiveMulti, Hear, HeardUpto
<1> HIDE DEF got, all
<1>3. /\ candidate' = got.candidate /\ agreements' = got.agreements
      /\ ready' = (got.agreements >= MIN_REPEATS)
  BY DEF ReceiveMulti, got
<1>4. QED
  BY <1>1, <1>2, <1>3 DEF Borne, GateInv

LEMMA ReceiveSingleGate ==
  ASSUME CaptureOK, heard \in Counts, GateInv, NEW win \in Windows, ReceiveSingle(win)
  PROVE  GateInv'
<1> DEFINE w == win.whole
<1>1. MIN_REPEATS \in Nat /\ MIN_REPEATS >= 2 /\ NoWave \notin Waves
  BY LearnerAssumption
<1>2. w \in Waves /\ heard' = OneMore(heard, w)
  <2>1. w \in Waves /\ Hear([v \in Waves |-> IF v = w THEN 1 ELSE 0])
    BY DEF ReceiveSingle
  <2>2. QED
    BY <2>1 DEF Hear, OneMore
<1>3. CASE candidate' = w /\ agreements' = 1 /\ ready' = FALSE
  <2> DEFINE a == Total(heard, Like(w))
             b == Total(OneMore(heard, w), Like(w))
  <2>1. a \in Nat /\ b \in Nat /\ Smaller(a + 1, MIN_REPEATS) <= b
    BY <1>2, OneMoreCounts, LikeFacts
  <2> HIDE DEF a, b
  <2>2. 1 <= b
    BY <1>1, <2>1 DEF Smaller
  <2>3. agreements' <= Total(heard', Like(candidate'))
    BY <1>2, <1>3, <2>2 DEF b
  <2>4. QED
    BY <1>1, <1>2, <1>3, <2>3 DEF GateInv
<1>4. CASE /\ Agree(candidate, w) /\ UNCHANGED candidate
           /\ agreements' = Smaller(agreements + 1, MIN_REPEATS)
           /\ ready' = (agreements' >= MIN_REPEATS)
  <2> DEFINE a == Total(heard, Like(candidate))
             b == Total(OneMore(heard, w), Like(candidate))
  <2>1. candidate \in Waves /\ candidate # NoWave
    BY <1>1, <1>4, LearnerAssumption DEF Agree
  <2>2. w \in Like(candidate)
    BY <1>2, <1>4, <2>1, LikeFacts
  <2>3. a \in Nat /\ b \in Nat /\ Smaller(a + 1, MIN_REPEATS) <= b
    BY <1>2, <2>1, <2>2, OneMoreCounts
  <2>4. agreements \in Nat /\ agreements <= a
    BY <1>1, <2>1 DEF GateInv, CaptureOK
  <2> HIDE DEF a, b
  <2>5. agreements' <= b
    BY <1>1, <1>4, <2>3, <2>4 DEF Smaller
  <2>6. agreements' <= Total(heard', Like(candidate'))
    BY <1>2, <1>4, <2>5 DEF b
  <2>7. QED
    BY <1>4, <2>1, <2>6 DEF GateInv
<1>5. QED
  BY <1>3, <1>4 DEF ReceiveSingle

LEMMA ArmGate ==
  ASSUME GateInv, NEW n, NEW rest, NEW others, Arm(n, rest, others)
  PROVE  GateInv'
<1>1. UNCHANGED <<capture, heard>> \/ ClearCapture
  BY DEF Arm, Refuse
<1>2. QED
  BY <1>1, ClearedGate, SameGate DEF capture

LEMMA GateStep == TypeInv /\ GateInv /\ [Next]_vars => GateInv'
<1> SUFFICES ASSUME TypeInv, GateInv, [Next]_vars PROVE GateInv'
  OBVIOUS
<1>1. CaptureOK /\ heard \in Counts
  BY TypeParts DEF RestOK, Counts
<1>2. ASSUME NEW n \in Names, Learn(n) PROVE GateInv'
  BY <1>2, ArmGate, ClearedGate DEF Learn, Fail
<1>3. CASE Cancel
  BY <1>3, ClearedGate DEF Cancel, Fail
<1>4. CASE StoreCall
  BY <1>4, SameGate DEF StoreCall, capture
<1>5. CASE Return
  BY <1>5, ArmGate, SameGate DEF Return, capture
<1>6. ASSUME NEW win \in Windows, Receive(win) PROVE GateInv'
  <2>1. CASE ReceiveNoise(win)
    BY <2>1, SameGate DEF ReceiveNoise
  <2>2. QED
    BY <1>1, <1>6, <2>1, ReceiveMultiGate, ReceiveSingleGate DEF Receive
<1>7. CASE Loop
  <2>1. UNCHANGED <<capture, heard>> \/ ClearCapture
    BY <1>7 DEF Loop, Fail
  <2>2. QED
    BY <2>1, ClearedGate, SameGate DEF capture
<1>8. CASE Tick
  BY <1>8, SameGate DEF Tick
<1>9. CASE UNCHANGED vars
  BY <1>9, SameGate DEF vars, capture
<1>10. QED
  BY <1>2, <1>3, <1>4, <1>5, <1>6, <1>7, <1>8, <1>9 DEF Next

\* The gate against noise holds for every set of waveforms, every relation of agreement that each
\* waveform bears to itself, and every way windows split: no sequence of whole windows, windows of
\* several frames, changes of remote and attempts makes on_receive and consume_multi_frame_ count
\* more agreements than frames were received in this attempt that resemble the candidate.
THEOREM NoisePassesNoGate == Spec => []NoiseGate
<1>1. Init => GateInv
  BY DEF Init, GateInv
<1>2. TypeInv /\ GateInv => NoiseGate
  <2>1. MIN_REPEATS \in Nat /\ MIN_REPEATS >= 2
    BY LearnerAssumption
  <2>2. QED
    BY <2>1, HeardLikeIsTotal DEF GateInv, NoiseGate
<1>3. QED
  BY <1>1, <1>2, TypeInit, TypeStep, GateStep, PTL DEF Spec
=============================================================================
