--------------------------- MODULE ReceptionProofs ---------------------------
(***************************************************************************)
(* Theorems about Reception for every remote, tolerance and limit. What    *)
(* split_frames computes is a fold over the timings of a window: SplitNext *)
(* says what one more timing does to it, and HeardInv follows it while the *)
(* remote sends. Arrivals keeps the times of which micros() shows only the *)
(* remainder.                                                              *)
(***************************************************************************)
EXTENDS Reception, FoldTheorems, TLAPS

-----------------------------------------------------------------------------
(* Agreement of frames *)

LEMMA DivisionBy100 ==
  ASSUME NEW n \in Int
  PROVE  /\ n \div 100 \in Int
         /\ 100 * (n \div 100) <= n
         /\ n < 100 * (n \div 100) + 100
OBVIOUS

\* What a pulse of nominal length m may last when the tolerance covers it.
Lasts(m) == m..m + (m * tolerance_percent) \div 100

LEMMA ShareOfProduct ==
  ASSUME NEW m \in Nat, NEW t \in 0..100
  PROVE  /\ t * m \in Nat /\ m * t = t * m
         /\ (100 - t) * m = 100 * m - t * m
         /\ (100 + t) * m = 100 * m + t * m
OBVIOUS

\* A product grows with its factors.
LEMMA ProductGrows ==
  ASSUME NEW t \in Nat, NEW m \in Nat, NEW n \in Nat, m <= n
  PROVE  t * m <= t * n
<1>1. PICK d \in Nat : n = m + d
  <2>1. n - m \in Nat
    OBVIOUS
  <2>2. QED
    BY <2>1
<1>2. t * (m + d) = t * m + t * d
  OBVIOUS
<1>3. t * d \in Nat
  OBVIOUS
<1>4. QED
  BY <1>1, <1>2, <1>3

\* Two readings of one pulse, each stretched by no more than the tolerance, lie within the
\* tolerance of each other, whichever is the reference: the rounding of the bounds never excludes
\* what the percentage includes.
LEMMA StretchedWithin ==
  ASSUME NEW m \in Nat, NEW a \in Lasts(m), NEW b \in Lasts(m)
  PROVE  Within(a, b)
<1> DEFINE t == tolerance_percent
           slack == (m * t) \div 100
           d == a - m
<1>1. t \in 0..100 /\ t \in Nat
  BY LimitsAssumption
<1> HIDE DEF t
<1>2. m * t \in Nat /\ m * t = t * m
  BY <1>1, ShareOfProduct
<1>3. slack \in Nat /\ 100 * slack <= m * t /\ m * t < 100 * slack + 100
  BY <1>2, DivisionBy100
<1>4. a \in Nat /\ b \in Nat /\ m <= a /\ a <= m + slack /\ m <= b /\ b <= m + slack
  BY <1>3 DEF Lasts, t
<1> HIDE DEF slack
<1>5. (100 - t) * a = 100 * a - t * a /\ (100 + t) * a = 100 * a + t * a /\ t * a \in Nat
  BY <1>1, <1>4, ShareOfProduct
<1>6. t * m <= t * a
  BY <1>1, <1>4, ProductGrows
<1> DEFINE low == ((100 - t) * a) \div 100
           high == ((100 + t) * a) \div 100
<1>7. (100 - t) * a \in Int /\ (100 + t) * a \in Int
  BY <1>1, <1>4
<1>8. low \in Int /\ 100 * low <= (100 - t) * a /\ high \in Int /\ (100 + t) * a < 100 * high + 100
  BY <1>7, DivisionBy100
<1> HIDE DEF low, high
\* 100 low <= 100 a - t a <= 100 m + 100 slack - t m <= 100 m
<1>9. low <= b
  <2>1. 100 * low <= 100 * a - t * a
    BY <1>8, <1>5
  <2>2. 100 * low <= 100 * m + (100 * slack - t * m)
    BY <2>1, <1>2, <1>3, <1>4, <1>5, <1>6, <1>8
  <2>3. 100 * low <= 100 * m
    BY <2>2, <1>2, <1>3, <1>8
  <2>4. QED
    BY <2>3, <1>4, <1>8
\* 100 high + 100 > 100 a + t a >= 100 m + t m >= 100 m + 100 slack
<1>10. b <= high
  <2>1. 100 * m + 100 * slack < 100 * high + 100
    BY <1>2, <1>3, <1>4, <1>5, <1>6, <1>8
  <2>2. m + slack <= high
    BY <2>1, <1>3, <1>8
  <2>3. QED
    BY <2>2, <1>3, <1>4, <1>8
<1>11. QED
  BY <1>4, <1>8, <1>9, <1>10 DEF Within, low, high, t

\* The readings the receiver may make of one timing.
Readings(timing) == {r \in Int : (r < 0) = (timing < 0) /\ Magnitude(r) \in Lasts(Magnitude(timing))}

\* What the remote of Reception sends is a reading of its frame, on time or stretched.
LEMMA SentIsReading ==
  ASSUME NEW timing \in Int
  PROVE  timing \in Readings(timing) /\ Stretched(timing) \in Readings(timing)
<1> DEFINE m == Magnitude(timing)
           slack == (m * tolerance_percent) \div 100
<1>1. m \in Nat /\ (timing < 0 => m = -timing) /\ (timing >= 0 => m = timing)
  BY DEF Magnitude
<1> HIDE DEF m
<1>2. m * tolerance_percent \in Nat
  BY <1>1, LimitsAssumption
<1>3. slack \in Nat
  BY <1>2, DivisionBy100
<1>4. Stretched(timing) = IF timing < 0 THEN timing - slack ELSE timing + slack
  BY DEF Stretched, m
<1>5. Lasts(m) = m..m + slack
  BY DEF Lasts
<1> HIDE DEF slack
<1>6. Magnitude(Stretched(timing)) = m + slack /\ (Stretched(timing) < 0) = (timing < 0)
      /\ Stretched(timing) \in Int
  BY <1>1, <1>3, <1>4 DEF Magnitude
<1>7. m \in Lasts(m) /\ m + slack \in Lasts(m)
  BY <1>1, <1>3, <1>5
<1>8. QED
  BY <1>6, <1>7 DEF Readings, m

\* Two complete repeats of one frame agree, in either order, whatever the frame, as long as every
\* pulse is stretched by no more than the tolerance. It is why a held button can be learned.
THEOREM RepeatsAgree ==
  ASSUME NEW f \in Seq(Int), f # <<>>,
         NEW a \in Seq(Int), NEW b \in Seq(Int), Len(a) = Len(f), Len(b) = Len(f),
         \A i \in DOMAIN f : a[i] \in Readings(f[i]) /\ b[i] \in Readings(f[i])
  PROVE  FramesAgree(a, b) /\ FramesAgree(b, a)
<1>1. a # <<>> /\ b # <<>> /\ DOMAIN a = DOMAIN f /\ DOMAIN b = DOMAIN f
  OBVIOUS
<1>2. ASSUME NEW i \in DOMAIN f
      PROVE  /\ (a[i] < 0) = (b[i] < 0)
             /\ Within(Magnitude(a[i]), Magnitude(b[i])) /\ Within(Magnitude(b[i]), Magnitude(a[i]))
  <2>1. Magnitude(f[i]) \in Nat
    BY DEF Magnitude
  <2>2. QED
    BY <1>2, <2>1, StretchedWithin DEF Readings
<1>3. QED
  BY <1>1, <1>2 DEF FramesAgree

-----------------------------------------------------------------------------
(* What split_frames does, one timing at a time *)

Parts == [frames : Seq(Seq(Int)), gaps : Seq(Int), current : Seq(Int)]
NoParts == [frames |-> <<>>, gaps |-> <<>>, current |-> <<>>]
SplitSoFar(timings) == FoldLeft(SplitTiming, NoParts, timings)

LEMMA SplitTimingType ==
  ASSUME NEW got \in Parts, NEW timing \in Int
  PROVE  SplitTiming(got, timing) \in Parts
<1>1. got.frames \in Seq(Seq(Int)) /\ got.gaps \in Seq(Int) /\ got.current \in Seq(Int)
  BY DEF Parts
<1>2. Append(got.current, timing) \in Seq(Int)
  BY <1>1
<1>3. Append(got.frames, got.current) \in Seq(Seq(Int)) /\ Append(got.gaps, -timing) \in Seq(Int)
  BY <1>1
<1>4. CASE ~IsGap(timing)
  <2>1. SplitTiming(got, timing) = [got EXCEPT !.current = Append(got.current, timing)]
    BY <1>4 DEF SplitTiming
  <2>2. QED
    BY <1>2, <2>1 DEF Parts
<1>5. CASE IsGap(timing) /\ got.current = <<>>
  BY <1>5 DEF SplitTiming
<1>6. CASE IsGap(timing) /\ got.current # <<>>
  <2>1. SplitTiming(got, timing) = [frames |-> Append(got.frames, got.current),
                                    gaps |-> Append(got.gaps, -timing), current |-> <<>>]
    BY <1>6 DEF SplitTiming
  <2>2. <<>> \in Seq(Int)
    OBVIOUS
  <2>3. QED
    BY <1>3, <2>1, <2>2 DEF Parts
<1>7. QED
  BY <1>4, <1>5, <1>6

LEMMA NoPartsType == NoParts \in Parts
BY DEF NoParts, Parts

LEMMA SplitFold ==
  ASSUME NEW timings \in Seq(Int), NEW n \in Nat, n = Len(timings)
  PROVE  \E g \in [SUBSET (1..n) -> Parts] :
           g = [u \in SUBSET (1..n) |-> IF u = {} THEN NoParts
                                        ELSE SplitTiming(g[u \ {Max(u)}], timings[Max(u)])]
<1> DEFINE step == [x \in (1..n) \X Parts |-> SplitTiming(x[2], timings[x[1]])]
<1>1. \A k \in 1..n : timings[k] \in Int
  OBVIOUS
<1>2. step \in [(1..n) \X Parts -> Parts]
  BY <1>1, SplitTimingType
<1>3. PICK g \in [SUBSET (1..n) -> Parts] : IsFold(g, n, NoParts, step)
  <2> HIDE DEF step
  <2>1. QED
    BY <1>2, FoldExists, NoPartsType
<1>4. ASSUME NEW u \in SUBSET (1..n), u # {}
      PROVE  step[<<Max(u), g[u \ {Max(u)}]>>] = SplitTiming(g[u \ {Max(u)}], timings[Max(u)])
  <2>1. Max(u) \in 1..n
    BY <1>4, SegmentMax
  <2>2. g[u \ {Max(u)}] \in Parts
    BY <1>3
  <2>3. QED
    BY <2>1, <2>2
<1> HIDE DEF step
<1>5. QED
  BY <1>3, <1>4 DEF IsFold

LEMMA SplitRuns ==
  ASSUME NEW timings \in Seq(Int), NEW n \in Nat, n = Len(timings)
  PROVE  \E run \in [0..n -> Parts] :
           /\ run[0] = NoParts
           /\ \A k \in 0..n - 1 : run[k + 1] = SplitTiming(run[k], timings[k + 1])
           /\ SplitSoFar(timings) = run[n]
<1> DEFINE D == DOMAIN timings
           IsRun(g) == g = [u \in SUBSET D |->
                             IF u = {} THEN NoParts
                             ELSE LET x == Max(u) IN SplitTiming(g[u \ {x}], timings[x])]
           c == CHOOSE g : IsRun(g)
<1>1. D = 1..n
  OBVIOUS
<1>2. SplitSoFar(timings) = c[D]
  BY Zenon DEF SplitSoFar, FoldLeft, MapThenFoldSet
<1>3. IsRun(c)
  <2>1. PICK g \in [SUBSET (1..n) -> Parts] :
          g = [u \in SUBSET (1..n) |-> IF u = {} THEN NoParts
                                       ELSE SplitTiming(g[u \ {Max(u)}], timings[Max(u)])]
    BY SplitFold
  <2>2. IsRun(g)
    BY <1>1, <2>1
  <2>3. \E h : IsRun(h)
    BY <2>2
  <2> HIDE DEF IsRun
  <2>4. QED
    BY <2>3
<1>4. c[1..0] = NoParts
  <2>1. 1..0 = {} /\ 1..0 \in SUBSET D
    BY <1>1
  <2> HIDE DEF c, D
  <2>2. QED
    BY <1>3, <2>1
<1>5. ASSUME NEW k \in 0..n - 1 PROVE c[1..k + 1] = SplitTiming(c[1..k], timings[k + 1])
  <2> DEFINE u == 1..k + 1
  <2>1. k \in Nat /\ u \in SUBSET D
    BY <1>1
  <2>2. u # {} /\ Max(u) = k + 1 /\ u \ {Max(u)} = 1..k
    BY <2>1, LastOfSegment
  <2>3. c[u] = SplitTiming(c[u \ {Max(u)}], timings[Max(u)])
    <3> HIDE DEF c, D, u
    <3>1. QED
      BY <1>3, <2>1, <2>2
  <2> HIDE DEF c, D
  <2>4. QED
    BY <2>2, <2>3
<1> DEFINE T == {k \in 0..n : c[1..k] \in Parts}
<1>6. \A k \in 0..n : k \in T
  <2> HIDE DEF c
  <2>1. 0 \in T
    BY <1>4, NoPartsType
  <2>2. ASSUME NEW k \in 0..n - 1, k \in T PROVE k + 1 \in T
    <3>1. k + 1 \in DOMAIN timings /\ timings[k + 1] \in Int /\ k + 1 \in 0..n
      OBVIOUS
    <3>2. QED
      BY <1>5, <2>2, <3>1, SplitTimingType
  <2> HIDE DEF T
  <2>3. QED
    BY <2>1, <2>2, SegmentInduction
<1> DEFINE run == [k \in 0..n |-> c[1..k]]
<1>7. run \in [0..n -> Parts]
  BY <1>6
<1>8. run[0] = NoParts
  BY <1>4
<1>9. ASSUME NEW k \in 0..n - 1 PROVE run[k + 1] = SplitTiming(run[k], timings[k + 1])
  <2>1. k + 1 \in 0..n /\ k \in 0..n
    OBVIOUS
  <2> HIDE DEF c
  <2>2. QED
    BY <1>5, <2>1
<1>10. SplitSoFar(timings) = run[n]
  <2>1. n \in 0..n
    OBVIOUS
  <2> HIDE DEF c, D
  <2>2. QED
    BY <1>1, <1>2, <2>1
<1> HIDE DEF run
<1>11. QED
  BY <1>7, <1>8, <1>9, <1>10

\* One more timing goes on the current frame or closes it; what was cut before stays.
LEMMA SplitNext ==
  ASSUME NEW timings \in Seq(Int), NEW timing \in Int
  PROVE  /\ SplitSoFar(<<>>) = NoParts
         /\ SplitSoFar(timings) \in Parts
         /\ SplitSoFar(Append(timings, timing)) = SplitTiming(SplitSoFar(timings), timing)
<1> DEFINE n == Len(timings)
           more == Append(timings, timing)
<1>1. n \in Nat /\ more \in Seq(Int) /\ Len(more) = n + 1 /\ more[n + 1] = timing
      /\ \A k \in 1..n : more[k] = timings[k]
  OBVIOUS
<1>2. SplitSoFar(<<>>) = NoParts
  <2> DEFINE none == <<>>
             z == 0
  <2>1. none \in Seq(Int) /\ z \in Nat /\ z = Len(none)
    OBVIOUS
  <2> HIDE DEF none, z
  <2>2. PICK run \in [0..z -> Parts] : run[0] = NoParts /\ SplitSoFar(none) = run[z]
    BY <2>1, SplitRuns
  <2>3. QED
    BY <2>2 DEF none, z
<1> HIDE DEF more
<1>3. PICK r \in [0..n -> Parts] :
        /\ r[0] = NoParts
        /\ \A k \in 0..n - 1 : r[k + 1] = SplitTiming(r[k], timings[k + 1])
        /\ SplitSoFar(timings) = r[n]
  BY <1>1, SplitRuns
<1>4. PICK s \in [0..n + 1 -> Parts] :
        /\ s[0] = NoParts
        /\ \A k \in 0..(n + 1) - 1 : s[k + 1] = SplitTiming(s[k], more[k + 1])
        /\ SplitSoFar(more) = s[n + 1]
  <2>1. n + 1 \in Nat
    BY <1>1
  <2>2. QED
    BY <1>1, <2>1, SplitRuns
<1> DEFINE T == {k \in 0..n : r[k] = s[k]}
<1>5. n \in T
  <2> HIDE DEF n
  <2>1. 0 \in T
    BY <1>1, <1>3, <1>4
  <2>2. ASSUME NEW k \in 0..n - 1, k \in T PROVE k + 1 \in T
    <3>1. k + 1 \in 1..n /\ k + 1 \in 0..n /\ k \in 0..(n + 1) - 1
      BY <1>1
    <3>2. r[k + 1] = SplitTiming(r[k], timings[k + 1])
      BY <1>3
    <3>3. s[k + 1] = SplitTiming(s[k], more[k + 1])
      BY <1>4, <3>1
    <3>4. QED
      BY <1>1, <2>2, <3>1, <3>2, <3>3
  <2> HIDE DEF T
  <2>3. \A k \in 0..n : k \in T
    BY <1>1, <2>1, <2>2, SegmentInduction
  <2>4. n \in 0..n
    BY <1>1
  <2>5. QED
    BY <2>3, <2>4
<1>6. s[n + 1] = SplitTiming(s[n], timing)
  <2>1. n \in 0..(n + 1) - 1
    BY <1>1
  <2> HIDE DEF n
  <2>2. QED
    BY <1>1, <1>4, <2>1
<1>7. SplitSoFar(timings) \in Parts
  BY <1>1, <1>3
<1>8. QED
  BY <1>2, <1>3, <1>4, <1>5, <1>6, <1>7 DEF more

-----------------------------------------------------------------------------
(* What is cut is what was sent *)

Repeats == [timings : Seq(Int), whole : BOOLEAN]

\* The remote is within, or just after, a repeat of which the window holds something.
InRepeat == sent # <<>> /\ at # 1
Closed == IF InRepeat THEN Len(sent) - 1 ELSE Len(sent)

StateType ==
  /\ frame \in Remotes /\ gap \in GAPS
  /\ window \in Seq(Int) /\ at \in 1..Len(frame) + 1
  /\ sent \in Seq(Repeats) /\ between \in Seq(Int)
  /\ \A i \in DOMAIN sent : sent[i].timings # <<>>

\* split_frames holds, after every timing, the repeats before the one in the air, the gaps after
\* them, and the one in the air as its current frame.
InStep ==
  LET got == SplitSoFar(window)
  IN  /\ Len(between) = Closed /\ got.gaps = between
      /\ got.frames = [i \in 1..Closed |-> sent[i].timings]
      /\ got.current = IF InRepeat THEN sent[Len(sent)].timings ELSE <<>>

\* A repeat heard from its start is as long as the remote has come, one that was not is shorter;
\* and pulse by pulse the first is a reading of the frame.
Faithful ==
  /\ \A i \in DOMAIN sent :
       /\ Len(sent[i].timings) <= Len(frame)
       /\ ~sent[i].whole => Len(sent[i].timings) < Len(frame)
       /\ sent[i].whole =>
            \A j \in DOMAIN sent[i].timings : sent[i].timings[j] \in {frame[j], Stretched(frame[j])}
  /\ InRepeat =>
       IF sent[Len(sent)].whole THEN Len(sent[Len(sent)].timings) = at - 1
       ELSE Len(sent[Len(sent)].timings) < at - 1

HeardInv == StateType /\ InStep /\ Faithful

\* A frame has pulses, none of them passes for a gap, even when it is stretched, and each gap does.
LEMMA RemoteFacts ==
  ASSUME NEW f \in Remotes
  PROVE  /\ f \in Seq(Int) /\ Len(f) >= 1
         /\ \A i \in DOMAIN f : Stretched(f[i]) \in Int /\ ~IsGap(f[i]) /\ ~IsGap(Stretched(f[i]))
<1>1. f \in Seq(Int) /\ ValidateFrame(f) = "ok"
  BY ReceptionAssumption
<1>2. Len(f) \in Nat /\ Len(f) >= min_pulses
  BY <1>1, LimitsAssumption DEF ValidateFrame
<1>3. ASSUME NEW i \in DOMAIN f
      PROVE  Stretched(f[i]) \in Int /\ ~IsGap(f[i]) /\ ~IsGap(Stretched(f[i]))
  <2>1. f[i] \in Int
    BY <1>1
  <2>2. Stretched(f[i]) \in Readings(f[i])
    BY <2>1, SentIsReading
  <2>3. Stretched(f[i]) \in Int /\ (Stretched(f[i]) < 0) = (f[i] < 0)
        /\ Magnitude(Stretched(f[i])) >= Magnitude(f[i])
    BY <2>1, <2>2 DEF Readings, Lasts, Magnitude
  <2>4. ~IsGap(Stretched(f[i]))
    BY ReceptionAssumption
  <2>5. QED
    BY <2>1, <2>3, <2>4, LimitsAssumption DEF IsGap, Magnitude
<1>4. QED
  BY <1>1, <1>2, <1>3, LimitsAssumption

LEMMA GapFacts ==
  ASSUME NEW g \in GAPS, NEW us \in {g, g + 1}
  PROVE  g \in Nat /\ us \in Int /\ -us \in Int /\ -(-us) = us /\ IsGap(-us)
<1>1. g \in Nat /\ IsGap(-g)
  BY ReceptionAssumption
<1>2. QED
  BY <1>1, LimitsAssumption DEF IsGap

LEMMA HeardInit == Init => HeardInv
<1>1. SUFFICES ASSUME Init PROVE HeardInv
  OBVIOUS
<1>2. StateType
  BY <1>1, RemoteFacts DEF Init, StateType
<1>3. ~InRepeat /\ Closed = 0 /\ window = <<>> /\ between = <<>> /\ sent = <<>>
  BY <1>1 DEF Init, InRepeat, Closed
<1>4. SplitSoFar(<<>>) = NoParts
  <2>1. <<>> \in Seq(Int) /\ 0 \in Int
    OBVIOUS
  <2>2. QED
    BY <2>1, SplitNext
<1>5. InStep
  BY <1>3, <1>4 DEF InStep, NoParts
<1>6. Faithful
  BY <1>3 DEF Faithful
<1>7. QED
  BY <1>2, <1>5, <1>6 DEF HeardInv

LEMMA HeardPulse == HeardInv /\ Pulse => HeardInv'
<1>1. SUFFICES ASSUME HeardInv, Pulse PROVE HeardInv'
  OBVIOUS
<1> USE <1>1
<1> DEFINE got == SplitSoFar(window)
           got1 == SplitSoFar(window')
<1>2. /\ frame \in Seq(Int) /\ Len(frame) >= 1 /\ Len(frame) \in Nat
      /\ at \in 1..Len(frame) /\ at \in DOMAIN frame /\ at' = at + 1
      /\ frame' = frame /\ gap' = gap /\ between' = between
  BY RemoteFacts DEF HeardInv, StateType, Pulse, AtGap
<1>3. PICK timing \in {frame[at], Stretched(frame[at])} :
        /\ window' = Append(window, timing)
        /\ sent' = IF sent = <<>> \/ at = 1
                   THEN Append(sent, [timings |-> <<timing>>, whole |-> at = 1])
                   ELSE [sent EXCEPT ![Len(sent)].timings = Append(@, timing)]
  BY DEF Pulse
<1>4. timing \in Int /\ ~IsGap(timing)
  BY <1>2, RemoteFacts DEF HeardInv, StateType
<1>5. /\ got \in Parts /\ got1 = [got EXCEPT !.current = Append(got.current, timing)]
      /\ got.current \in Seq(Int)
  <2>1. window \in Seq(Int)
    BY DEF HeardInv, StateType
  <2>2. got \in Parts /\ got1 = SplitTiming(got, timing)
    BY <1>3, <1>4, <2>1, SplitNext
  <2> HIDE DEF got, got1
  <2>3. QED
    BY <1>4, <2>2 DEF SplitTiming, Parts
<1>6. /\ got1.frames = got.frames /\ got1.gaps = got.gaps
      /\ got1.current = Append(got.current, timing)
  <2> HIDE DEF got, got1
  <2>1. QED
    BY <1>5 DEF Parts
<1>7. /\ Len(between) = Closed /\ got.gaps = between
      /\ got.frames = [i \in 1..Closed |-> sent[i].timings]
      /\ got.current = IF InRepeat THEN sent[Len(sent)].timings ELSE <<>>
  BY DEF HeardInv, InStep
<1> HIDE DEF got, got1
<1> DEFINE n == Len(sent)
<1>8. sent \in Seq(Repeats) /\ n \in Nat /\ \A i \in 1..n : sent[i] \in Repeats
  BY DEF HeardInv, StateType
<1>9. CASE ~InRepeat
  <2> DEFINE new == [timings |-> <<timing>>, whole |-> at = 1]
  <2>1. sent' = Append(sent, new) /\ new \in Repeats
    BY <1>3, <1>4, <1>9 DEF InRepeat, Repeats
  <2> HIDE DEF new
  <2>2. /\ sent' \in Seq(Repeats) /\ Len(sent') = n + 1 /\ sent'[n + 1] = new
        /\ \A i \in 1..n : sent'[i] = sent[i]
    BY <1>8, <2>1
  <2>3. InRepeat' /\ Closed' = n
    <3>1. sent' # <<>>
      BY <1>8, <2>2
    <3>2. QED
      BY <1>2, <1>8, <2>2, <3>1 DEF InRepeat, Closed
  <2>4. /\ new.timings = <<timing>> /\ new.timings # <<>> /\ Len(new.timings) = 1
        /\ DOMAIN new.timings = {1} /\ new.timings[1] = timing
    BY <1>4 DEF new
  <2>5. new.whole <=> at = 1
    <3>1. new.whole = (at = 1)
      BY DEF new
    <3>2. QED
      BY <3>1
  <2>6. StateType'
    <3>1. window' \in Seq(Int)
      BY <1>3, <1>4 DEF HeardInv, StateType
    <3>2. \A i \in DOMAIN sent' : sent'[i].timings # <<>>
      <4>1. DOMAIN sent' = 1..n + 1 /\ DOMAIN sent = 1..n
        BY <1>8, <2>2
      <4>2. \A i \in 1..n : sent'[i].timings # <<>>
        BY <2>2, <4>1 DEF HeardInv, StateType
      <4>3. ASSUME NEW i \in 1..n + 1 PROVE sent'[i].timings # <<>>
        <5>1. CASE i \in 1..n
          BY <4>2, <5>1
        <5>2. CASE i = n + 1
          BY <2>2, <2>4, <5>2
        <5>3. QED
          BY <1>8, <5>1, <5>2
      <4>4. QED
        BY <4>1, <4>3
    <3>3. QED
      BY <1>2, <2>2, <3>1, <3>2 DEF HeardInv, StateType
  <2>7. InStep'
    <3>1. Closed = n
      BY <1>9 DEF Closed
    <3>2. got1.frames = [i \in 1..n |-> sent'[i].timings]
      BY <1>6, <1>7, <2>2, <3>1
    <3>3. got1.current = <<timing>>
      BY <1>6, <1>7, <1>9
    <3>4. QED
      BY <1>2, <1>6, <1>7, <2>2, <2>3, <2>4, <3>1, <3>2, <3>3 DEF InStep, got1
  <2>8. Faithful'
    <3>1. \A i \in 1..n : i \in DOMAIN sent /\ sent'[i] = sent[i]
      BY <1>8, <2>2
    <3>2. Len(new.timings) = 1 /\ (~new.whole => 1 < Len(frame)) /\ (new.whole => 1 = at)
      BY <1>2, <2>4, <2>5
    <3>3. new.whole => \A j \in DOMAIN new.timings : new.timings[j] \in {frame[j], Stretched(frame[j])}
      BY <1>3, <2>4, <2>5
    <3>4. DOMAIN sent' = 1..n + 1
      BY <2>2
    <3>5. ASSUME NEW i \in 1..n + 1
          PROVE  /\ Len(sent'[i].timings) <= Len(frame)
                 /\ ~sent'[i].whole => Len(sent'[i].timings) < Len(frame)
                 /\ sent'[i].whole => \A j \in DOMAIN sent'[i].timings :
                                        sent'[i].timings[j] \in {frame[j], Stretched(frame[j])}
      <4>1. CASE i \in 1..n
        BY <3>1, <4>1 DEF HeardInv, Faithful
      <4>2. CASE i = n + 1
        BY <1>2, <2>2, <3>2, <3>3, <4>2
      <4>3. QED
        BY <1>8, <4>1, <4>2
    <3>6. IF sent'[Len(sent')].whole THEN Len(sent'[Len(sent')].timings) = at' - 1
          ELSE Len(sent'[Len(sent')].timings) < at' - 1
      BY <1>2, <1>8, <2>2, <2>4, <2>5, <3>2
    <3>7. \A m : Stretched(m)' = Stretched(m)
      BY DEF Stretched, Magnitude
    <3>8. QED
      BY <1>2, <3>4, <3>5, <3>6, <3>7 DEF Faithful
  <2>9. QED
    BY <2>6, <2>7, <2>8 DEF HeardInv
<1>10. CASE InRepeat
  <2> DEFINE last == sent[n]
             longer == [last EXCEPT !.timings = Append(last.timings, timing)]
  <2>1. n \in 1..n /\ last \in Repeats /\ n >= 1
    BY <1>8, <1>10 DEF InRepeat
  <2>2. sent' = [sent EXCEPT ![n] = longer]
    BY <1>3, <1>10, <2>1 DEF InRepeat, Repeats
  <2>3. /\ longer \in Repeats /\ longer.whole = last.whole
        /\ longer.timings = Append(last.timings, timing)
    <3> HIDE DEF last
    <3>1. QED
      BY <1>4, <2>1 DEF Repeats
  <2>4. last.timings \in Seq(Int) /\ last.whole \in BOOLEAN
    BY <2>1 DEF Repeats
  <2> HIDE DEF longer
  <2>5. /\ sent' \in Seq(Repeats) /\ Len(sent') = n /\ sent'[n] = longer
        /\ \A i \in 1..n - 1 : sent'[i] = sent[i]
    BY <1>8, <2>1, <2>2, <2>3
  <2>6. InRepeat' /\ Closed' = n - 1 /\ Closed = n - 1
    <3>1. sent' # <<>>
      BY <1>8, <2>1, <2>5
    <3>2. QED
      BY <1>2, <1>8, <1>10, <2>5, <3>1 DEF InRepeat, Closed
  <2>7. StateType'
    <3>1. window' \in Seq(Int)
      BY <1>3, <1>4 DEF HeardInv, StateType
    <3>2. longer.timings # <<>>
      BY <2>3, <2>4
    <3>3. \A i \in DOMAIN sent' : sent'[i].timings # <<>>
      <4>1. DOMAIN sent' = 1..n /\ DOMAIN sent = 1..n
        BY <1>8, <2>5
      <4>2. ASSUME NEW i \in 1..n PROVE sent'[i].timings # <<>>
        <5>1. CASE i = n
          BY <2>5, <3>2, <5>1
        <5>2. CASE i # n
          <6>1. i \in 1..n - 1
            BY <1>8, <5>2
          <6>2. QED
            BY <2>5, <4>1, <6>1 DEF HeardInv, StateType
        <5>3. QED
          BY <5>1, <5>2
      <4>3. QED
        BY <4>1, <4>2
    <3>4. QED
      BY <1>2, <2>5, <3>1, <3>3 DEF HeardInv, StateType
  <2>8. InStep'
    <3>1. got1.frames = [i \in 1..n - 1 |-> sent'[i].timings]
      BY <1>6, <1>7, <2>5, <2>6
    <3>2. got1.current = longer.timings
      BY <1>6, <1>7, <1>10, <2>3
    <3>3. QED
      BY <1>2, <1>6, <1>7, <2>5, <2>6, <3>1, <3>2 DEF InStep, got1
  <2>9. Faithful'
    <3>1. /\ Len(last.timings) <= Len(frame) /\ Len(last.timings) \in Nat
          /\ IF last.whole THEN Len(last.timings) = at - 1 ELSE Len(last.timings) < at - 1
          /\ last.whole =>
               \A j \in DOMAIN last.timings : last.timings[j] \in {frame[j], Stretched(frame[j])}
      <4>1. n \in DOMAIN sent
        BY <1>8, <2>1
      <4>2. QED
        BY <1>10, <2>4, <4>1 DEF HeardInv, Faithful
    <3> HIDE DEF last
    <3>2. Len(longer.timings) = Len(last.timings) + 1
      BY <1>4, <2>3, <2>4
    <3>3. /\ Len(longer.timings) <= Len(frame)
          /\ ~longer.whole => Len(longer.timings) < Len(frame)
          /\ IF longer.whole THEN Len(longer.timings) = at' - 1
             ELSE Len(longer.timings) < at' - 1
      BY <1>2, <2>3, <3>1, <3>2
    <3>4. ASSUME longer.whole, NEW j \in DOMAIN longer.timings
          PROVE  longer.timings[j] \in {frame[j], Stretched(frame[j])}
      <4>1. j \in 1..at
        BY <1>2, <1>4, <2>3, <2>4, <3>1, <3>2, <3>4
      <4>2. CASE j = at
        BY <1>3, <1>4, <2>3, <2>4, <3>1, <3>4, <4>2
      <4>3. CASE j # at
        <5>1. j \in DOMAIN last.timings
          BY <1>2, <2>3, <2>4, <3>1, <3>4, <4>1, <4>3
        <5>2. longer.timings[j] = last.timings[j]
          BY <1>4, <2>3, <2>4, <5>1
        <5>3. QED
          BY <2>3, <3>1, <3>4, <5>1, <5>2
      <4>4. QED
        BY <4>2, <4>3
    <3>5. DOMAIN sent' = 1..n
      BY <2>5
    <3>6. ASSUME NEW i \in 1..n
          PROVE  /\ Len(sent'[i].timings) <= Len(frame)
                 /\ ~sent'[i].whole => Len(sent'[i].timings) < Len(frame)
                 /\ sent'[i].whole => \A j \in DOMAIN sent'[i].timings :
                                        sent'[i].timings[j] \in {frame[j], Stretched(frame[j])}
      <4>1. CASE i = n
        BY <2>5, <3>3, <3>4, <4>1
      <4>2. CASE i # n
        <5>1. i \in 1..n - 1 /\ i \in DOMAIN sent
          BY <1>8, <4>2
        <5>2. QED
          BY <2>5, <5>1 DEF HeardInv, Faithful
      <4>3. QED
        BY <4>1, <4>2
    <3>7. \A m : Stretched(m)' = Stretched(m)
      BY DEF Stretched, Magnitude
    <3>8. QED
      BY <1>2, <2>5, <3>3, <3>5, <3>6, <3>7 DEF Faithful
  <2>10. QED
    BY <2>7, <2>8, <2>9 DEF HeardInv
<1>11. QED
  BY <1>9, <1>10

LEMMA AppendIs ==
  ASSUME NEW S, NEW s \in Seq(S), NEW x \in S, NEW n \in Int, Len(s) = n - 1
  PROVE  /\ n \in Nat /\ Append(s, x) \in Seq(S) /\ Len(Append(s, x)) = n
         /\ \A i \in 1..n : Append(s, x)[i] = IF i = n THEN x ELSE s[i]
OBVIOUS

LEMMA HeardGap == HeardInv /\ Gap => HeardInv'
<1>1. SUFFICES ASSUME HeardInv, Gap PROVE HeardInv'
  OBVIOUS
<1> USE <1>1
<1> DEFINE got == SplitSoFar(window)
           got1 == SplitSoFar(window')
           n == Len(sent)
<1>2. /\ frame \in Seq(Int) /\ Len(frame) >= 1 /\ Len(frame) \in Nat
      /\ at = Len(frame) + 1 /\ at' = 1
      /\ frame' = frame /\ gap' = gap /\ sent' = sent
  BY RemoteFacts DEF HeardInv, StateType, Gap, AtGap
<1>3. PICK us \in {gap, gap + 1} :
        /\ window' = Append(window, -us)
        /\ between' = IF sent = <<>> THEN between ELSE Append(between, us)
  BY DEF Gap
<1>4. us \in Int /\ -us \in Int /\ -(-us) = us /\ IsGap(-us)
  BY GapFacts DEF HeardInv, StateType
<1>5. got \in Parts /\ got1 = SplitTiming(got, -us)
  <2>1. window \in Seq(Int)
    BY DEF HeardInv, StateType
  <2>2. QED
    BY <1>3, <1>4, <2>1, SplitNext
<1>6. /\ Len(between) = Closed /\ got.gaps = between
      /\ got.frames = [i \in 1..Closed |-> sent[i].timings]
      /\ got.current = IF InRepeat THEN sent[Len(sent)].timings ELSE <<>>
  BY DEF HeardInv, InStep
<1> HIDE DEF got, got1
<1>7. sent \in Seq(Repeats) /\ n \in Nat /\ (n = 0 <=> sent = <<>>) /\ (n > 0 => n \in DOMAIN sent)
  BY DEF HeardInv, StateType
<1>8. ~InRepeat' /\ Closed' = n
  BY <1>2 DEF InRepeat, Closed
<1>9. window' \in Seq(Int) /\ between' \in Seq(Int)
  BY <1>3, <1>4 DEF HeardInv, StateType
<1>10. StateType'
  <2>1. \A i \in DOMAIN sent' : sent'[i].timings # <<>>
    BY <1>2 DEF HeardInv, StateType
  <2>2. 1 \in 1..Len(frame) + 1
    BY <1>2
  <2>3. QED
    BY <1>2, <1>9, <2>1, <2>2 DEF HeardInv, StateType
<1>11. Faithful'
  <2>1. \A m : Stretched(m)' = Stretched(m)
    BY DEF Stretched, Magnitude
  <2>2. QED
    BY <1>2, <1>8, <2>1 DEF HeardInv, Faithful
<1>12. InStep'
  <2>1. CASE sent = <<>>
    <3>1. got.current = <<>> /\ Closed = 0
      BY <1>6, <1>7, <2>1 DEF InRepeat, Closed
    <3>2. got1 = got
      BY <1>4, <1>5, <3>1 DEF SplitTiming
    <3>3. QED
      BY <1>2, <1>3, <1>6, <1>7, <1>8, <2>1, <3>1, <3>2 DEF InStep, got1
  <2>2. CASE sent # <<>>
    <3>1. n \in DOMAIN sent /\ InRepeat /\ Closed = n - 1
      BY <1>2, <1>7, <2>2 DEF InRepeat, Closed
    <3>2. got.current = sent[n].timings /\ got.current # <<>>
      BY <1>6, <3>1 DEF HeardInv, StateType
    <3>3. got1 = [frames |-> Append(got.frames, got.current), gaps |-> Append(got.gaps, -(-us)),
                  current |-> <<>>]
      BY <1>4, <1>5, <3>2 DEF SplitTiming
    <3>4. got1.frames = Append(got.frames, got.current) /\ got1.gaps = Append(got.gaps, us)
          /\ got1.current = <<>>
      BY <1>4, <3>3
    <3>5. got1.gaps = between' /\ Len(between') = n
      <4>1. between \in Seq(Int) /\ Len(between) = n - 1
        BY <1>6, <3>1 DEF HeardInv, StateType
      <4>2. QED
        BY <1>3, <1>4, <1>6, <1>7, <2>2, <3>4, <4>1
    <3>6. got1.frames = [i \in 1..n |-> sent[i].timings]
      <4>1. got.frames = [i \in 1..n - 1 |-> sent[i].timings] /\ got.frames \in Seq(Seq(Int))
            /\ got.current \in Seq(Int)
        BY <1>5, <1>6, <3>1 DEF Parts
      <4>2. Len(got.frames) = n - 1
        BY <1>7, <3>1, <4>1
      <4>3. /\ Append(got.frames, got.current) \in Seq(Seq(Int))
            /\ Len(Append(got.frames, got.current)) = n
            /\ \A i \in 1..n : Append(got.frames, got.current)[i] =
                 IF i = n THEN got.current ELSE got.frames[i]
        <5> DEFINE fs == got.frames
                   cu == got.current
        <5>1. fs \in Seq(Seq(Int)) /\ cu \in Seq(Int) /\ n \in Int /\ Len(fs) = n - 1
          <6>1. fs \in Seq(Seq(Int)) /\ cu \in Seq(Int)
            BY <4>1, Zenon
          <6>2. n \in Int
            BY <1>7
          <6>3. QED
            BY <4>2, <6>1, <6>2, Zenon
        <5> HIDE DEF fs, cu, n
        <5>2. /\ Append(fs, cu) \in Seq(Seq(Int)) /\ Len(Append(fs, cu)) = n
              /\ \A i \in 1..n : Append(fs, cu)[i] = IF i = n THEN cu ELSE fs[i]
          BY <5>1, AppendIs
        <5>3. QED
          BY <5>2 DEF fs, cu
      <4>4. \A i \in 1..n : Append(got.frames, got.current)[i] = sent[i].timings
        BY <1>7, <3>2, <4>1, <4>3
      <4>5. QED
        BY <3>4, <4>3, <4>4
    <3>7. QED
      BY <1>2, <1>8, <3>4, <3>5, <3>6 DEF InStep, got1
  <2>3. QED
    BY <2>1, <2>2
<1>13. QED
  BY <1>10, <1>11, <1>12 DEF HeardInv

LEMMA HeardNext == HeardInv /\ [Next]_vars => HeardInv'
<1>1. SUFFICES ASSUME HeardInv, [Next]_vars PROVE HeardInv'
  OBVIOUS
<1>2. CASE Pulse
  BY <1>1, <1>2, HeardPulse
<1>3. CASE Gap
  BY <1>1, <1>3, HeardGap
<1>4. ASSUME UNCHANGED <<frame, gap, window, at, sent, between>> PROVE HeardInv'
  <2>1. StateType'
    BY <1>1, <1>4 DEF HeardInv, StateType
  <2>2. InStep'
    BY <1>1, <1>4 DEF HeardInv, InStep, InRepeat, Closed
  <2>3. Faithful'
    <3>1. \A m : Stretched(m)' = Stretched(m)
      BY DEF Stretched, Magnitude
    <3>2. QED
      BY <1>1, <1>4, <3>1 DEF HeardInv, Faithful, InRepeat
  <2>4. QED
    BY <2>1, <2>2, <2>3 DEF HeardInv
<1>5. CASE \E delay \in 0..LOOP_US - 1, pause \in {0, PAUSE_US} : Arrive(delay, pause)
  <2>1. UNCHANGED <<frame, gap, window, at, sent, between>>
    BY <1>5 DEF Arrive
  <2>2. QED
    BY <1>4, <2>1
<1>6. CASE Open
  <2>1. /\ frame' \in Remotes /\ gap' \in GAPS /\ at' \in 1..Len(frame') + 1
        /\ window' = <<>> /\ sent' = <<>> /\ between' = <<>>
    BY <1>1, <1>6 DEF HeardInv, StateType, Open
  <2>2. StateType'
    BY <2>1 DEF StateType
  <2>3. ~InRepeat' /\ Closed' = 0
    BY <2>1 DEF InRepeat, Closed
  <2>4. SplitSoFar(<<>>) = NoParts
    <3>1. <<>> \in Seq(Int) /\ 0 \in Int
      OBVIOUS
    <3>2. QED
      BY <3>1, SplitNext
  <2>5. SplitSoFar(window') = NoParts
    BY <2>1, <2>4
  <2>6. InStep'
    BY <2>1, <2>3, <2>5 DEF InStep, NoParts
  <2>7. Faithful'
    BY <2>1, <2>3 DEF Faithful
  <2>8. QED
    BY <2>2, <2>6, <2>7 DEF HeardInv
<1>7. CASE UNCHANGED vars
  BY <1>4, <1>7 DEF vars
<1>8. QED
  BY <1>1, <1>2, <1>3, <1>5, <1>6, <1>7 DEF Next

\* The receiver's terminator is all that strip_terminator takes off.
LEMMA CapturedIsWindow == StateType => Captured = window
<1>1. SUFFICES ASSUME window \in Seq(Int) PROVE Captured = window
  BY DEF StateType
<1>2. -IDLE_US \in Int
  BY ReceptionAssumption
<1> DEFINE idle == -IDLE_US
           all == Append(window, idle)
<1>3. all \in Seq(Int) /\ Len(all) = Len(window) + 1 /\ all # <<>>
      /\ \A i \in 1..Len(window) : all[i] = window[i]
  BY <1>1, <1>2
<1>4. Captured = SubSeq(all, 1, Len(all) - 1)
  BY <1>3 DEF Captured, StripTerminator, Front
<1> HIDE DEF all
<1>5. QED
  BY <1>1, <1>3, <1>4

\* What split_frames returns in a state of the invariant.
LEMMA SplitWhenHeard ==
  HeardInv => /\ Split.frames = [i \in DOMAIN sent |-> sent[i].timings]
              /\ Split.gaps = [i \in Neighbours |-> between[i]]
<1>1. SUFFICES ASSUME HeardInv
      PROVE  /\ Split.frames = [i \in DOMAIN sent |-> sent[i].timings]
             /\ Split.gaps = [i \in Neighbours |-> between[i]]
  OBVIOUS
<1> DEFINE got == SplitSoFar(window)
           n == Len(sent)
           frames == IF got.current = <<>> THEN got.frames ELSE Append(got.frames, got.current)
<1>2. Split = [frames |-> frames,
               gaps |-> SubSeq(got.gaps, 1, Smaller(Len(got.gaps), Len(frames) - 1))]
  <2>1. Captured = window
    BY <1>1, CapturedIsWindow DEF HeardInv
  <2>2. QED
    BY Zenon, <2>1 DEF Split, SplitFrames, SplitSoFar, NoParts
<1>3. /\ Len(between) = Closed /\ got.gaps = between /\ between \in Seq(Int)
      /\ got.frames = [i \in 1..Closed |-> sent[i].timings]
      /\ got.current = IF InRepeat THEN sent[Len(sent)].timings ELSE <<>>
  BY <1>1 DEF HeardInv, InStep, StateType
<1>4. /\ sent \in Seq(Repeats) /\ n \in Nat /\ DOMAIN sent = 1..n /\ (n = 0 <=> sent = <<>>)
      /\ \A i \in 1..n : sent[i].timings \in Seq(Int) /\ sent[i].timings # <<>>
  <2>1. sent \in Seq(Repeats) /\ \A i \in DOMAIN sent : sent[i].timings # <<>>
    BY <1>1 DEF HeardInv, StateType
  <2>2. n \in Nat /\ DOMAIN sent = 1..n /\ (n = 0 <=> sent = <<>>)
    BY <2>1
  <2>3. \A i \in 1..n : sent[i] \in Repeats
    BY <2>1, <2>2
  <2>4. QED
    BY <2>1, <2>2, <2>3 DEF Repeats
<1> HIDE DEF got
<1>5. frames = [i \in 1..n |-> sent[i].timings] /\ Len(frames) = n
  <2>1. CASE ~InRepeat
    BY <1>3, <1>4, <2>1 DEF Closed
  <2>2. CASE InRepeat
    <3>1. n \in 1..n /\ Closed = n - 1
      BY <1>4, <2>2 DEF InRepeat, Closed
    <3>2. got.current = sent[n].timings /\ frames = Append(got.frames, got.current)
      BY <1>3, <1>4, <2>2, <3>1
    <3>3. got.frames \in Seq(Seq(Int)) /\ Len(got.frames) = n - 1
      BY <1>3, <1>4, <3>1
    <3>4. /\ frames \in Seq(Seq(Int)) /\ Len(frames) = n
          /\ \A i \in 1..n : frames[i] = IF i = n THEN got.current ELSE got.frames[i]
      <4>1. got.current \in Seq(Int) /\ n \in Int
        BY <1>4, <3>1, <3>2
      <4>2. QED
        BY <3>2, <3>3, <4>1, AppendIs
    <3>5. \A i \in 1..n : frames[i] = sent[i].timings
      BY <1>3, <1>4, <3>1, <3>2, <3>4
    <3> HIDE DEF frames
    <3>6. QED
      BY <3>4, <3>5
  <2>3. QED
    BY <2>1, <2>2
<1> HIDE DEF frames
<1>6. Smaller(Len(got.gaps), Len(frames) - 1) = n - 1
  <2>1. Closed = n - 1 \/ Closed = n
    BY DEF Closed
  <2>2. Len(got.gaps) = Closed
    BY <1>3
  <2> HIDE DEF n
  <2>3. QED
    BY <1>4, <1>5, <2>1, <2>2 DEF Smaller
<1>7. SubSeq(between, 1, n - 1) = [i \in 1..n - 1 |-> between[i]]
  <2>1. n - 1 <= Len(between) /\ n - 1 \in Int
    <3>1. Closed = n - 1 \/ Closed = n
      BY DEF Closed
    <3>2. Len(between) = Closed /\ n \in Nat
      BY <1>3, <1>4
    <3> HIDE DEF n
    <3>3. QED
      BY <3>1, <3>2
  <2> HIDE DEF n
  <2>2. QED
    BY <1>3, <1>4, <2>1
<1>8. QED
  BY <1>2, <1>3, <1>4, <1>5, <1>6, <1>7 DEF Neighbours

LEMMA Heard == Spec => []HeardInv
<1>1. QED
  BY HeardInit, HeardNext, PTL DEF Spec

\* split_frames recovers what was transmitted, whatever the window opens and closes on: every
\* repeat, whole or cut off, and the gap between any two.
THEOREM SplitRecovers == Spec => []SplitIsTransmission
<1>1. HeardInv => SplitIsTransmission
  BY SplitWhenHeard DEF SplitIsTransmission
<1>2. QED
  BY <1>1, Heard, PTL

\* Repeats i and i + 1 as split_frames returns them.
LEMMA NeighbourFacts ==
  ASSUME HeardInv, NEW i \in Neighbours, NEW k \in {i, i + 1}
  PROVE  /\ k \in DOMAIN sent /\ Split.frames[k] = sent[k].timings
         /\ sent[k].timings \in Seq(Int) /\ Len(sent[k].timings) \in Nat
         /\ ~sent[k].whole => Len(sent[k].timings) < Len(frame)
         /\ sent[k].whole =>
              \A j \in DOMAIN sent[k].timings : sent[k].timings[j] \in {frame[j], Stretched(frame[j])}
<1>1. sent \in Seq(Repeats)
  BY DEF HeardInv, StateType
<1>2. k \in DOMAIN sent
  BY <1>1 DEF Neighbours
<1>3. sent[k] \in Repeats
  BY <1>1, <1>2
<1>4. sent[k].timings \in Seq(Int)
  BY <1>3 DEF Repeats
<1>5. Split.frames[k] = sent[k].timings
  BY <1>2, SplitWhenHeard
<1>6. QED
  BY <1>2, <1>4, <1>5 DEF HeardInv, Faithful

\* Only the first repeat in a window was not heard from its start, and only the last was not heard
\* to its end.
OnlyEdgesCut ==
  \A i \in DOMAIN sent : /\ i > 1 => sent[i].whole
                         /\ (i \in 1..Closed /\ sent[i].whole) => Len(sent[i].timings) = Len(frame)

LEMMA EdgesNext == HeardInv /\ OnlyEdgesCut /\ [Next]_vars => OnlyEdgesCut'
<1>1. SUFFICES ASSUME HeardInv, OnlyEdgesCut, [Next]_vars PROVE OnlyEdgesCut'
  OBVIOUS
<1> DEFINE n == Len(sent)
<1>2. /\ frame \in Seq(Int) /\ Len(frame) >= 1 /\ Len(frame) \in Nat /\ at \in 1..Len(frame) + 1
      /\ sent \in Seq(Repeats) /\ n \in Nat /\ DOMAIN sent = 1..n /\ (n = 0 <=> sent = <<>>)
  BY <1>1, RemoteFacts DEF HeardInv, StateType
<1>3. CASE Pulse
  <2>1. frame' = frame /\ at' = at + 1 /\ at \in 1..Len(frame)
    BY <1>1, <1>2, <1>3 DEF Pulse, AtGap
  <2>2. PICK timing \in {frame[at], Stretched(frame[at])} :
          sent' = IF sent = <<>> \/ at = 1
                  THEN Append(sent, [timings |-> <<timing>>, whole |-> at = 1])
                  ELSE [sent EXCEPT ![Len(sent)].timings = Append(@, timing)]
    BY <1>3 DEF Pulse
  <2>0. timing \in Int
    BY <1>1, <1>2, <2>1, RemoteFacts DEF HeardInv, StateType
  <2>3. CASE sent = <<>> \/ at = 1
    <3> DEFINE new == [timings |-> <<timing>>, whole |-> at = 1]
    <3>0. sent' = Append(sent, new) /\ new \in Repeats /\ (new.whole <=> at = 1)
      <4>1. sent' = Append(sent, new)
        BY <2>2, <2>3
      <4>2. new.whole = (at = 1) /\ new.timings = <<timing>> /\ <<timing>> \in Seq(Int)
        BY <2>0
      <4>3. new \in Repeats
        BY <2>0 DEF Repeats
      <4>4. QED
        BY <4>1, <4>2, <4>3
    <3> HIDE DEF new
    <3>1. /\ DOMAIN sent' = 1..n + 1 /\ Len(sent') = n + 1 /\ sent'[n + 1] = new
          /\ (\A i \in 1..n : sent'[i] = sent[i]) /\ sent' # <<>>
      BY <1>2, <3>0
    <3>2. Closed' = n /\ Closed = n
      <4>1. ~InRepeat /\ InRepeat'
        BY <1>2, <2>1, <2>3, <3>1 DEF InRepeat
      <4>2. QED
        BY <1>2, <3>1, <4>1 DEF Closed
    <3>3. \A i \in 1..n : sent'[i] = sent[i] /\ i \in DOMAIN sent
      BY <1>2, <3>1
    <3>4. n + 1 > 1 => sent'[n + 1].whole
      <4>1. sent = <<>> => n + 1 = 1
        BY <1>2
      <4>2. QED
        BY <2>3, <3>0, <3>1, <4>1
    <3> HIDE DEF n
    <3>6. ASSUME NEW i \in 1..n + 1
          PROVE  /\ i > 1 => sent'[i].whole
                 /\ (i \in 1..n /\ sent'[i].whole) => Len(sent'[i].timings) = Len(frame)
      <4>1. CASE i = n + 1
        BY <1>2, <3>4, <4>1
      <4>2. CASE i # n + 1
        <5>1. i \in 1..n
          BY <1>2, <4>2
        <5>2. sent'[i] = sent[i] /\ i \in DOMAIN sent /\ i \in 1..Closed
          BY <3>2, <3>3, <5>1
        <5>3. /\ i > 1 => sent[i].whole
              /\ sent[i].whole => Len(sent[i].timings) = Len(frame)
          BY <1>1, <5>2 DEF OnlyEdgesCut
        <5>4. QED
          BY <5>2, <5>3
      <4>3. QED
        BY <4>1, <4>2
    <3>5. QED
      BY <2>1, <3>1, <3>2, <3>6 DEF OnlyEdgesCut
  <2>4. CASE sent # <<>> /\ at # 1
    <3> DEFINE last == sent[n]
               longer == [last EXCEPT !.timings = Append(last.timings, timing)]
    <3>0. n \in 1..n /\ last \in Repeats /\ n >= 1
      BY <1>2, <2>4
    <3>5. sent' = [sent EXCEPT ![n] = longer]
      BY <2>2, <2>4, <3>0 DEF Repeats
    <3>6. longer \in Repeats /\ longer.whole = last.whole
      <4> HIDE DEF last
      <4>1. QED
        BY <2>0, <3>0 DEF Repeats
    <3> HIDE DEF longer
    <3>8. sent \in Seq(Repeats) /\ n \in Nat /\ \A i \in 1..n : sent[i] \in Repeats
      BY <1>1 DEF HeardInv, StateType
    <3>7. /\ sent' \in Seq(Repeats) /\ Len(sent') = n /\ sent'[n] = longer
          /\ \A i \in 1..n - 1 : sent'[i] = sent[i]
      BY <3>0, <3>5, <3>6, <3>8
    <3>1. /\ DOMAIN sent' = 1..n /\ Len(sent') = n /\ sent'[n].whole = sent[n].whole
          /\ (\A i \in 1..n - 1 : sent'[i] = sent[i]) /\ sent' # <<>>
      BY <3>0, <3>6, <3>7
    <3>2. Closed' = n - 1 /\ Closed = n - 1
      <4>1. InRepeat /\ InRepeat'
        BY <1>2, <2>1, <2>4, <3>1 DEF InRepeat
      <4>2. QED
        BY <1>2, <3>1, <4>1 DEF Closed
    <3> HIDE DEF n
    <3>3. ASSUME NEW i \in 1..n
          PROVE  /\ i > 1 => sent'[i].whole
                 /\ (i \in 1..n - 1 /\ sent'[i].whole) => Len(sent'[i].timings) = Len(frame)
      <4>1. CASE i = n
        BY <1>1, <1>2, <3>1, <4>1 DEF OnlyEdgesCut
      <4>2. CASE i # n
        <5>1. i \in 1..n - 1
          BY <1>2, <4>2
        <5>2. QED
          BY <1>1, <1>2, <3>1, <3>2, <5>1 DEF OnlyEdgesCut
      <4>3. QED
        BY <4>1, <4>2
    <3>4. QED
      BY <2>1, <3>1, <3>2, <3>3 DEF OnlyEdgesCut
  <2>5. QED
    BY <2>3, <2>4
<1>4. CASE Gap
  <2>1. frame' = frame /\ sent' = sent /\ at = Len(frame) + 1 /\ at' = 1
    BY <1>4 DEF Gap, AtGap
  <2>2. Closed' = n /\ (n > 0 => InRepeat /\ Closed = n - 1)
    <3>1. ~InRepeat' /\ (n > 0 => InRepeat)
      BY <1>2, <2>1 DEF InRepeat
    <3>2. QED
      BY <2>1, <3>1 DEF Closed
  <2>3. (n > 0 /\ sent[n].whole) => Len(sent[n].timings) = Len(frame)
    BY <1>1, <1>2, <2>1, <2>2 DEF HeardInv, Faithful
  <2> HIDE DEF n
  <2>4. ASSUME NEW i \in 1..n
        PROVE  sent[i].whole => Len(sent[i].timings) = Len(frame)
    <3>1. CASE i = n
      BY <1>2, <2>3, <3>1
    <3>2. CASE i # n
      <4>1. i \in 1..n - 1 /\ n > 0
        BY <1>2, <3>2
      <4>2. QED
        BY <1>1, <1>2, <2>2, <4>1 DEF OnlyEdgesCut
    <3>3. QED
      BY <3>1, <3>2
  <2>5. QED
    BY <1>1, <1>2, <2>1, <2>2, <2>4 DEF OnlyEdgesCut
<1>5. CASE Open
  BY <1>5 DEF Open, OnlyEdgesCut
<1>6. CASE \/ \E delay \in 0..LOOP_US - 1, pause \in {0, PAUSE_US} : Arrive(delay, pause)
           \/ UNCHANGED vars
  <2>1. frame' = frame /\ sent' = sent /\ at' = at
    BY <1>6 DEF Arrive, vars
  <2>2. QED
    BY <1>1, <2>1 DEF OnlyEdgesCut, Closed, InRepeat
<1>7. QED
  BY <1>1, <1>3, <1>4, <1>5, <1>6 DEF Next

\* What passes for repeats in a window are complete repeats: consume_multi_frame_ takes a truncated
\* waveform for a repeat only of another truncated one, in a window that holds nothing else.
THEOREM PairsAreComplete == Spec => []RepeatsAreComplete
<1>1. ASSUME HeardInv, OnlyEdgesCut, NEW i \in Neighbours, Paired(i)
      PROVE  (Complete(i) /\ Complete(i + 1)) \/ OnlyCutOff
  <2> DEFINE n == Len(sent)
  <2>1. /\ n \in Nat /\ i \in 1..n - 1 /\ DOMAIN sent = 1..n /\ Len(frame) \in Nat
        /\ (Closed = n - 1 \/ Closed = n)
    BY <1>1, RemoteFacts DEF HeardInv, StateType, Neighbours, Closed
  <2>2. Len(sent[i].timings) = Len(sent[i + 1].timings)
    BY <1>1, NeighbourFacts DEF Paired, FramesAgree
  <2>3. /\ ~sent[i].whole => Len(sent[i].timings) # Len(frame)
        /\ ~sent[i + 1].whole => Len(sent[i + 1].timings) # Len(frame)
    BY <1>1, <2>1, NeighbourFacts
  <2>4. Complete(i) <=> Complete(i + 1)
    BY <2>2, <2>3 DEF Complete
  <2> HIDE DEF n
  <2>5. \A k \in 2..n - 1 : Complete(k)
    <3>1. ASSUME NEW k \in 2..n - 1 PROVE Complete(k)
      <4>1. k \in 1..n /\ k > 1 /\ k \in 1..Closed
        BY <2>1
      <4>2. QED
        BY <1>1, <2>1, <4>1 DEF OnlyEdgesCut, Complete
    <3>2. QED
      BY <3>1
  <2>6. CASE n = 2
    <3>1. i = 1 /\ i + 1 = 2
      BY <2>1, <2>6
    <3>2. QED
      BY <2>4, <2>6, <3>1 DEF OnlyCutOff, n
  <2>7. CASE n # 2
    <3>1. i \in 2..n - 1 \/ i + 1 \in 2..n - 1
      BY <2>1, <2>7
    <3>2. QED
      BY <2>4, <2>5, <3>1
  <2>8. QED
    BY <2>6, <2>7
<1>2. HeardInv /\ OnlyEdgesCut => RepeatsAreComplete
  BY <1>1 DEF RepeatsAreComplete
<1>3. Init => OnlyEdgesCut
  BY DEF Init, OnlyEdgesCut
<1>4. QED
  BY <1>2, <1>3, EdgesNext, Heard, PTL DEF Spec

\* A complete repeat, its pulses on time or stretched, is one validate_frame accepts.
LEMMA CompleteIsValid ==
  ASSUME NEW f \in Remotes, NEW a \in Seq(Int), Len(a) = Len(f),
         \A j \in DOMAIN a : a[j] \in {f[j], Stretched(f[j])}
  PROVE  /\ ValidateFrame(a) = "ok" /\ f # <<>>
         /\ \A j \in DOMAIN f : a[j] \in Readings(f[j])
<1> DEFINE late == [j \in DOMAIN f |-> Stretched(f[j])]
<1>1. f \in Seq(Int) /\ Len(f) >= 1 /\ DOMAIN f = 1..Len(f) /\ DOMAIN a = 1..Len(f)
  BY RemoteFacts
<1>2. ValidateFrame(f) = "ok" /\ ValidateFrame(late) = "ok"
  BY ReceptionAssumption
<1>3. ~(Len(f) < min_pulses) /\ ~(Len(f) > max_pulses)
  BY <1>2 DEF ValidateFrame
<1>4. \A j \in DOMAIN f : f[j] # 0 /\ Magnitude(f[j]) \in min_pulse_us..max_pulse_us
  BY <1>2 DEF ValidateFrame
<1>5. DOMAIN late = DOMAIN f /\ \A j \in DOMAIN f : late[j] = Stretched(f[j])
  OBVIOUS
<1>6. \A j \in DOMAIN late : late[j] # 0 /\ Magnitude(late[j]) \in min_pulse_us..max_pulse_us
  <2> HIDE DEF late
  <2>1. QED
    BY <1>2 DEF ValidateFrame
<1>7. \A j \in DOMAIN a : a[j] # 0 /\ Magnitude(a[j]) \in min_pulse_us..max_pulse_us
  <2> HIDE DEF late
  <2>1. QED
    BY <1>1, <1>4, <1>5, <1>6
<1>8. ValidateFrame(a) = "ok"
  BY <1>3, <1>7 DEF ValidateFrame
<1>9. \A j \in DOMAIN f : a[j] \in Readings(f[j])
  BY <1>1, SentIsReading
<1>10. QED
  BY <1>1, <1>8, <1>9

\* Two complete neighbours always pass for repeats of each other, in either order, as long as no
\* pulse was stretched beyond the tolerance: a held button can be learned.
THEOREM HeldButtonIsLearned == Spec => []CompleteRepeatsAgree
<1>1. ASSUME HeardInv, NEW i \in Neighbours, Complete(i), Complete(i + 1)
      PROVE  Paired(i) /\ FramesAgree(Split.frames[i + 1], Split.frames[i])
  <2> DEFINE a == sent[i].timings
             b == sent[i + 1].timings
  <2>1. Split.frames[i] = a /\ Split.frames[i + 1] = b
    BY <1>1, NeighbourFacts
  <2>2. frame \in Remotes /\ a \in Seq(Int) /\ b \in Seq(Int)
        /\ Len(a) = Len(frame) /\ Len(b) = Len(frame)
    BY <1>1, NeighbourFacts DEF HeardInv, StateType, Complete
  <2>3. /\ \A j \in DOMAIN a : a[j] \in {frame[j], Stretched(frame[j])}
        /\ \A j \in DOMAIN b : b[j] \in {frame[j], Stretched(frame[j])}
    BY <1>1, NeighbourFacts DEF Complete
  <2> HIDE DEF a, b
  <2>4. /\ ValidateFrame(a) = "ok" /\ ValidateFrame(b) = "ok" /\ frame # <<>>
        /\ \A j \in DOMAIN frame : a[j] \in Readings(frame[j]) /\ b[j] \in Readings(frame[j])
    BY <2>2, <2>3, CompleteIsValid
  <2>5. frame \in Seq(Int)
    BY <2>2, RemoteFacts
  <2>6. FramesAgree(a, b) /\ FramesAgree(b, a)
    BY <2>2, <2>4, <2>5, RepeatsAgree
  <2>7. QED
    BY <2>1, <2>4, <2>6 DEF Paired
<1>2. HeardInv => CompleteRepeatsAgree
  BY <1>1 DEF CompleteRepeatsAgree
<1>3. QED
  BY <1>2, Heard, PTL

-----------------------------------------------------------------------------
(* The clock *)

LEMMA DivMod ==
  ASSUME NEW a \in Int, NEW m \in Nat \ {0}
  PROVE  /\ a % m \in Int /\ 0 <= a % m /\ a % m < m /\ a \div m \in Int
         /\ a = m * (a \div m) + (a % m)
OBVIOUS

LEMMA MultipleGrows ==
  ASSUME NEW k \in Int, NEW m \in Nat \ {0}, k >= 1
  PROVE  m * k >= m
<1>1. PICK d \in Nat : k = d + 1
  <2>1. k - 1 \in Nat
    OBVIOUS
  <2>2. QED
    BY <2>1
<1>2. m * (d + 1) = m * d + m
  OBVIOUS
<1>3. m * d \in Nat
  OBVIOUS
<1>4. QED
  BY <1>1, <1>2, <1>3

LEMMA Remainder ==
  ASSUME NEW m \in Nat \ {0}, NEW k \in Int, NEW r \in 0..m - 1
  PROVE  (m * k + r) % m = r
<1> DEFINE a == m * k + r
           q == a \div m
           s == a % m
<1>1. m * k \in Int /\ a \in Int
  OBVIOUS
<1>2. q \in Int /\ s \in Int /\ 0 <= s /\ s < m /\ a = m * q + s
  <2> HIDE DEF a
  <2>1. QED
    BY <1>1, DivMod
<1>3. m * k + r = m * q + s
  BY <1>2
<1> HIDE DEF a, q, s
<1>4. m * (k - q) = m * k - m * q /\ m * (q - k) = m * q - m * k /\ m * q \in Int
  BY <1>2
<1>5. m * (k - q) = s - r /\ m * (q - k) = r - s
  BY <1>1, <1>2, <1>3, <1>4
<1>6. CASE k - q >= 1
  <2>1. m * (k - q) >= m
    BY <1>2, <1>6, MultipleGrows
  <2>2. QED
    BY <1>2, <1>5, <2>1
<1>7. CASE q - k >= 1
  <2>1. m * (q - k) >= m
    BY <1>2, <1>7, MultipleGrows
  <2>2. QED
    BY <1>2, <1>5, <2>1
<1>8. CASE k = q
  <2>1. s = r
    BY <1>1, <1>2, <1>3, <1>8
  <2>2. QED
    BY <2>1 DEF s, a
<1>9. QED
  BY <1>2, <1>6, <1>7, <1>8

LEMMA WrappedIs ==
  ASSUME NEW us \in Int
  PROVE  /\ Wrapped(us) \in 0..UINT32_MAX /\ Wrapped(us) \in Int
         /\ \E k \in Int : us = (UINT32_MAX + 1) * k + Wrapped(us)
<1> DEFINE m == UINT32_MAX + 1
<1>1. m \in Nat \ {0} /\ UINT32_MAX = m - 1 /\ Wrapped(us) = us % m
  BY LimitsAssumption DEF Wrapped
<1> HIDE DEF m
<1>2. /\ us % m \in Int /\ 0 <= us % m /\ us % m < m /\ us \div m \in Int
      /\ us = m * (us \div m) + (us % m)
  BY <1>1, DivMod
<1>3. \E k \in Int : us = m * k + (us % m)
  BY <1>2
<1>4. us % m \in 0..m - 1
  BY <1>1, <1>2
<1>5. QED
  BY <1>1, <1>2, <1>3, <1>4, Zenon DEF m

LEMMA WrappedIsOnly ==
  ASSUME NEW k \in Int, NEW r \in 0..UINT32_MAX, NEW us, us = (UINT32_MAX + 1) * k + r
  PROVE  Wrapped(us) = r
<1>1. UINT32_MAX + 1 \in Nat \ {0} /\ r \in 0..(UINT32_MAX + 1) - 1
  BY LimitsAssumption
<1>2. QED
  BY <1>1, Remainder DEF Wrapped

LEMMA NotWrapped ==
  ASSUME NEW us \in 0..UINT32_MAX
  PROVE  Wrapped(us) = us
<1>1. us = (UINT32_MAX + 1) * 0 + us
  BY LimitsAssumption
<1>2. QED
  BY <1>1, WrappedIsOnly

\* Sums and differences of readings of the clock are those of the times, as far as it can tell.
LEMMA WrappedSum ==
  ASSUME NEW x \in Int, NEW y \in Int
  PROVE  Wrapped(Wrapped(x) + y) = Wrapped(x + y)
<1> DEFINE m == UINT32_MAX + 1
           r == Wrapped(x)
           s == Wrapped(r + y)
<1>1. m \in Nat
  BY LimitsAssumption
<1>2. PICK k \in Int : x = m * k + r
  BY WrappedIs
<1>3. r \in Int
  BY WrappedIs
<1>4. r + y \in Int
  BY <1>3
<1>5. (\E j \in Int : r + y = m * j + s) /\ s \in 0..UINT32_MAX /\ s \in Int
  <2> HIDE DEF r
  <2>1. QED
    BY <1>4, WrappedIs
<1>6. PICK j \in Int : r + y = m * j + s
  BY <1>5
<1> HIDE DEF r, s, m
<1>7. m * (k + j) = m * k + m * j /\ m * k \in Int /\ m * j \in Int
  BY <1>1
<1>8. x + y = m * (k + j) + s
  BY <1>2, <1>3, <1>5, <1>6, <1>7
<1>9. Wrapped(x + y) = s
  <2>1. k + j \in Int
    OBVIOUS
  <2>2. QED
    BY <1>5, <1>8, <2>1, WrappedIsOnly DEF m
<1>10. QED
  BY <1>9 DEF s, r

LEMMA WrappedDifference ==
  ASSUME NEW x \in Int, NEW y \in Int
  PROVE  Wrapped(Wrapped(x) - Wrapped(y)) = Wrapped(x - y)
<1> DEFINE m == UINT32_MAX + 1
           r == Wrapped(x)
           s == Wrapped(y)
           u == Wrapped(r - s)
<1>1. m \in Nat
  BY LimitsAssumption
<1>2. PICK k \in Int : x = m * k + r
  BY WrappedIs
<1>3. PICK j \in Int : y = m * j + s
  BY WrappedIs
<1>4. r \in Int /\ s \in Int
  BY WrappedIs
<1>5. r - s \in Int
  BY <1>4
<1>6. (\E i \in Int : r - s = m * i + u) /\ u \in 0..UINT32_MAX /\ u \in Int
  <2> HIDE DEF r, s
  <2>1. QED
    BY <1>5, WrappedIs
<1>7. PICK i \in Int : r - s = m * i + u
  BY <1>6
<1> HIDE DEF r, s, u, m
<1>8. /\ m * ((k - j) + i) = (m * k - m * j) + m * i
      /\ m * k \in Int /\ m * j \in Int /\ m * i \in Int
  BY <1>1
<1>9. x - y = m * ((k - j) + i) + u
  BY <1>2, <1>3, <1>4, <1>6, <1>7, <1>8
<1>10. Wrapped(x - y) = u
  <2>1. (k - j) + i \in Int
    OBVIOUS
  <2>2. QED
    BY <1>6, <1>9, <2>1, WrappedIsOnly DEF m
<1>11. QED
  BY <1>10 DEF u, r, s

-----------------------------------------------------------------------------
(* The estimate of the gap *)

LEMMA DurationFold ==
  ASSUME NEW timings \in Seq(Int), NEW n \in Nat, n = Len(timings)
  PROVE  \E g \in [SUBSET (1..n) -> Nat] :
           g = [u \in SUBSET (1..n) |-> IF u = {} THEN 0
                                        ELSE g[u \ {Max(u)}] + Magnitude(timings[Max(u)])]
<1> DEFINE step == [x \in (1..n) \X Nat |-> x[2] + Magnitude(timings[x[1]])]
<1>1. \A k \in 1..n : Magnitude(timings[k]) \in Nat
  BY DEF Magnitude
<1>2. step \in [(1..n) \X Nat -> Nat]
  BY <1>1
<1>3. PICK g \in [SUBSET (1..n) -> Nat] : IsFold(g, n, 0, step)
  <2> HIDE DEF step
  <2>1. 0 \in Nat
    OBVIOUS
  <2>2. QED
    BY <1>2, <2>1, FoldExists
<1>4. ASSUME NEW u \in SUBSET (1..n), u # {}
      PROVE  step[<<Max(u), g[u \ {Max(u)}]>>] = g[u \ {Max(u)}] + Magnitude(timings[Max(u)])
  <2>1. Max(u) \in 1..n
    BY <1>4, SegmentMax
  <2>2. g[u \ {Max(u)}] \in Nat
    BY <1>3
  <2>3. QED
    BY <2>1, <2>2
<1> HIDE DEF step
<1>5. QED
  BY <1>3, <1>4 DEF IsFold

LEMMA FrameDurationType ==
  ASSUME NEW timings \in Seq(Int)
  PROVE  FrameDuration(timings) \in Nat
<1> DEFINE n == Len(timings)
           D == DOMAIN timings
           IsRun(g) == g = [u \in SUBSET D |->
                             IF u = {} THEN 0
                             ELSE LET x == Max(u) IN g[u \ {x}] + Magnitude(timings[x])]
           c == CHOOSE g : IsRun(g)
           total == FoldLeft(LAMBDA sum, t : sum + Magnitude(t), 0, timings)
<1>1. n \in Nat /\ D = 1..n
  OBVIOUS
<1>2. total = c[D]
  BY Zenon DEF FoldLeft, MapThenFoldSet
<1>3. PICK g \in [SUBSET (1..n) -> Nat] :
        g = [u \in SUBSET (1..n) |-> IF u = {} THEN 0
                                     ELSE g[u \ {Max(u)}] + Magnitude(timings[Max(u)])]
  BY <1>1, DurationFold
<1>4. IsRun(g)
  BY <1>1, <1>3
<1>5. IsRun(c)
  <2>1. \E h : IsRun(h)
    BY <1>4
  <2> HIDE DEF IsRun
  <2>2. QED
    BY <2>1
<1> DEFINE T == {k \in 0..n : c[1..k] \in Nat}
<1>6. \A k \in 0..n : k \in T
  <2> HIDE DEF c
  <2>1. 0 \in T
    <3>1. 1..0 = {} /\ 1..0 \in SUBSET D /\ 0 \in 0..n
      BY <1>1
    <3> HIDE DEF D
    <3>2. QED
      BY <1>5, <3>1
  <2>2. ASSUME NEW k \in 0..n - 1, k \in T PROVE k + 1 \in T
    <3> DEFINE u == 1..k + 1
    <3>1. k \in Nat /\ u \in SUBSET D /\ k + 1 \in 0..n
      BY <1>1
    <3>2. u # {} /\ Max(u) = k + 1 /\ u \ {Max(u)} = 1..k
      BY <3>1, LastOfSegment
    <3>3. c[u] = c[u \ {Max(u)}] + Magnitude(timings[Max(u)])
      <4> HIDE DEF D, u
      <4>1. QED
        BY <1>5, <3>1, <3>2
    <3>4. Magnitude(timings[k + 1]) \in Nat
      <4>1. timings[k + 1] \in Int
        BY <1>1
      <4>2. QED
        BY <4>1 DEF Magnitude
    <3>5. c[1..k + 1] = c[1..k] + Magnitude(timings[k + 1])
      BY <3>2, <3>3
    <3>6. c[1..k] \in Nat
      BY <2>2
    <3> HIDE DEF D
    <3>7. c[1..k + 1] \in Nat
      BY <3>4, <3>5, <3>6
    <3>8. QED
      BY <3>1, <3>7
  <2> HIDE DEF T, n
  <2>3. QED
    BY <1>1, <2>1, <2>2, SegmentInduction
<1>7. total \in Nat
  <2>1. n \in 0..n
    BY <1>1
  <2>2. c[D] \in Nat
    BY <1>1, <1>6, <2>1
  <2>3. QED
    BY <1>2, <2>2
<1> HIDE DEF total
<1>8. QED
  BY <1>7, LimitsAssumption DEF FrameDuration, total

\* How long after the end of a repeat loop() comes to its window; and from one repeat to the next.
Late == 0..LOOP_US - 1
Period == FrameDuration(frame) + gap

\* There is a time t, of which micros() shows the remainder, when the last repeat ended; the
\* first that counts ended as many periods before, and both were seen late.
Arrivals ==
  /\ sent_us \in 0..UINT32_MAX /\ interval_count \in Nat /\ arrived \in BOOLEAN
  /\ arrived =>
       /\ window = frame /\ interval_count <= GAP_INTERVAL_TARGET
       /\ \E t \in Int, a \in Late, b \in Late :
            /\ sent_us = Wrapped(t) /\ last_frame_us = Wrapped(t + b)
            /\ first_frame_us = Wrapped((t - interval_count * Period) + a)

LEMMA PeriodFacts ==
  ASSUME NEW f \in Remotes, NEW g \in GAPS
  PROVE  /\ FrameDuration(f) \in Nat /\ g \in Nat /\ g <= MAX_GAP /\ MAX_GAP \in Nat
         /\ LOOP_US \in Nat \ {0} /\ LOOP_US <= FrameDuration(f) + g
         /\ PAUSE_US \in Nat /\ PAUSE_US >= MAX_GAP + LOOP_US
         /\ FrameDuration(f) + g + PAUSE_US + LOOP_US <= UINT32_MAX /\ UINT32_MAX \in Nat
         /\ GAP_INTERVAL_TARGET \in Nat
         /\ GAP_INTERVAL_TARGET * (FrameDuration(f) + g) + LOOP_US <= UINT32_MAX
         /\ GAP_MIN_INTERVALS \in Nat \ {0}
<1>1. f \in Seq(Int) /\ g \in MIN_GAP..MAX_GAP /\ MIN_GAP \in Nat /\ MAX_GAP \in Nat
  BY ReceptionAssumption
<1>2. FrameDuration(f) \in Nat
  BY <1>1, FrameDurationType
<1>3. LOOP_US \in Nat \ {0} /\ PAUSE_US \in Nat /\ PAUSE_US >= MAX_GAP + LOOP_US
      /\ GAP_INTERVAL_TARGET \in Nat /\ GAP_MIN_INTERVALS \in Nat \ {0} /\ UINT32_MAX \in Nat
  BY ReceptionAssumption, LimitsAssumption
<1>4. /\ LOOP_US <= FrameDuration(f) + g
      /\ GAP_INTERVAL_TARGET * (FrameDuration(f) + g) + LOOP_US <= UINT32_MAX
      /\ FrameDuration(f) + g + PAUSE_US + LOOP_US <= UINT32_MAX
  BY ClockAssumption
<1>5. QED
  BY <1>1, <1>2, <1>3, <1>4

\* Another window of the same press is one period on; one after a pause is seen to be.
LEMMA ArrivesAgain ==
  ASSUME StateType, Arrivals, NEW delay \in Late, NEW pause \in {0, PAUSE_US},
         Arrive(delay, pause)
  PROVE  Arrivals'
<1> DEFINE d == FrameDuration(frame)
           p == d + gap
           n == interval_count
<1>1. /\ d \in Nat /\ gap \in Nat /\ gap <= MAX_GAP /\ MAX_GAP \in Nat /\ LOOP_US \in Nat \ {0}
      /\ LOOP_US <= p /\ PAUSE_US \in Nat /\ PAUSE_US >= MAX_GAP + LOOP_US
      /\ p + PAUSE_US + LOOP_US <= UINT32_MAX /\ UINT32_MAX \in Nat /\ GAP_INTERVAL_TARGET \in Nat
  BY PeriodFacts DEF StateType
<1>2. /\ window = frame /\ n < GAP_INTERVAL_TARGET
      /\ sent_us' = Wrapped(sent_us + d + gap + pause)
      /\ last_frame_us' = Wrapped(sent_us' + delay)
      /\ arrived' = TRUE /\ frame' = frame /\ gap' = gap /\ window' = window
      /\ IF ~arrived \/ Wrapped(last_frame_us' - last_frame_us) > d + MAX_GAP
         THEN first_frame_us' = last_frame_us' /\ interval_count' = 0
         ELSE interval_count' = n + 1 /\ UNCHANGED first_frame_us
  BY DEF Arrive
<1>3. /\ sent_us \in 0..UINT32_MAX /\ sent_us \in Int /\ n \in Nat /\ arrived \in BOOLEAN
      /\ Wrapped(sent_us) = sent_us
  BY <1>1, NotWrapped DEF Arrivals
<1>4. Period' = p /\ FrameDuration(frame)' = d
  BY <1>2 DEF Period
<1> DEFINE step == p + pause
<1>5. step \in Nat /\ delay \in Int /\ delay \in Late /\ 0 <= delay /\ delay < LOOP_US
  BY <1>1 DEF Late
<1> HIDE DEF d
\* The times of this window, whatever t the last one is counted from.
<1>6. ASSUME NEW t \in Int, sent_us = Wrapped(t)
      PROVE  /\ t + step \in Int /\ sent_us' = Wrapped(t + step)
             /\ last_frame_us' = Wrapped((t + step) + delay)
  <2>1. sent_us' = Wrapped(sent_us + step)
    <3>1. sent_us + d + gap + pause = sent_us + step
      BY <1>1, <1>3
    <3>2. QED
      BY <1>2, <3>1
  <2>2. sent_us' = Wrapped(t + step)
    BY <1>5, <1>6, <2>1, WrappedSum
  <2>3. t + step \in Int
    BY <1>5
  <2> HIDE DEF step
  <2>4. Wrapped(Wrapped(t + step) + delay) = Wrapped((t + step) + delay)
    BY <1>5, <2>3, WrappedSum
  <2>5. QED
    BY <1>2, <2>2, <2>3, <2>4
<1>7. sent_us' \in 0..UINT32_MAX
  <2>1. QED
    BY <1>3, <1>6, WrappedIs
<1>8. CASE first_frame_us' = last_frame_us' /\ interval_count' = 0
  <2>1. \E t \in Int : sent_us = Wrapped(t)
    BY <1>3
  <2>2. PICK t \in Int : sent_us = Wrapped(t)
    BY <2>1
  <2> DEFINE now == t + step
  <2>3. now \in Int /\ sent_us' = Wrapped(now) /\ last_frame_us' = Wrapped(now + delay)
    BY <1>6, <2>2
  <2> HIDE DEF now
  <2>4. (now - interval_count' * Period') + delay = now + delay
    BY <1>1, <1>4, <1>5, <1>8, <2>3
  <2>5. first_frame_us' = Wrapped((now - interval_count' * Period') + delay)
    BY <1>8, <2>3, <2>4
  <2>6. interval_count' \in Nat /\ interval_count' <= GAP_INTERVAL_TARGET
    BY <1>1, <1>8
  <2>7. \E t1 \in Int, a \in Late, b \in Late :
          /\ sent_us' = Wrapped(t1) /\ last_frame_us' = Wrapped(t1 + b)
          /\ first_frame_us' = Wrapped((t1 - interval_count' * Period') + a)
    BY <1>5, <2>3, <2>5
  <2>8. Late' = Late
    BY DEF Late
  <2>9. \A x : Wrapped(x)' = Wrapped(x)
    BY DEF Wrapped
  <2>10. QED
    BY <1>2, <1>7, <2>6, <2>7, <2>8, <2>9 DEF Arrivals
<1>9. CASE /\ arrived /\ ~(Wrapped(last_frame_us' - last_frame_us) > d + MAX_GAP)
           /\ interval_count' = n + 1 /\ first_frame_us' = first_frame_us
  <2>1. PICK t \in Int, a \in Late, b \in Late :
          /\ sent_us = Wrapped(t) /\ last_frame_us = Wrapped(t + b)
          /\ first_frame_us = Wrapped((t - n * Period) + a)
    BY <1>9 DEF Arrivals
  <2>2. a \in Int /\ b \in Int /\ 0 <= b /\ b < LOOP_US
    BY <1>1 DEF Late
  <2> DEFINE now == t + step
  <2>3. now \in Int /\ sent_us' = Wrapped(now) /\ last_frame_us' = Wrapped(now + delay)
    BY <1>6, <2>1
  <2>4. pause = 0
    <3>1. SUFFICES ASSUME pause = PAUSE_US PROVE FALSE
      OBVIOUS
    <3> DEFINE later == now + delay
               before == t + b
               elapsed == later - before
    <3>2. later \in Int /\ before \in Int
      BY <1>5, <2>2, <2>3
    <3>3. elapsed = step + (delay - b)
      BY <1>5, <2>2
    <3>4. elapsed \in 0..UINT32_MAX /\ elapsed > d + MAX_GAP /\ elapsed \in Int
      BY <1>1, <1>5, <2>2, <3>1, <3>3
    <3> HIDE DEF later, before
    <3>5. Wrapped(Wrapped(later) - Wrapped(before)) = elapsed
      <4>1. Wrapped(Wrapped(later) - Wrapped(before)) = Wrapped(later - before)
        BY <3>2, WrappedDifference
      <4> HIDE DEF elapsed
      <4>2. Wrapped(elapsed) = elapsed
        BY <3>4, NotWrapped
      <4>3. QED
        BY <4>1, <4>2 DEF elapsed
    <3>6. last_frame_us' = Wrapped(later) /\ last_frame_us = Wrapped(before)
      BY <2>1, <2>3 DEF later, before
    <3>7. QED
      BY <1>9, <3>4, <3>5, <3>6
  <2>5. (now - (n + 1) * p) + a = (t - n * p) + a
    <3>1. step = p /\ p \in Nat
      BY <1>1, <2>4
    <3> HIDE DEF p, step
    <3>2. (n + 1) * p = n * p + p /\ n * p \in Int
      BY <1>3, <3>1
    <3>3. QED
      BY <2>2, <3>1, <3>2
  <2>6. first_frame_us' = Wrapped((now - interval_count' * Period') + a)
    <3>1. Period = p
      BY DEF Period, d
    <3>2. QED
      BY <1>4, <1>9, <2>1, <2>5, <3>1
  <2>7. interval_count' \in Nat /\ interval_count' <= GAP_INTERVAL_TARGET
    BY <1>1, <1>2, <1>3, <1>9
  <2> HIDE DEF now
  <2>8. \E t1 \in Int, a1 \in Late, b1 \in Late :
          /\ sent_us' = Wrapped(t1) /\ last_frame_us' = Wrapped(t1 + b1)
          /\ first_frame_us' = Wrapped((t1 - interval_count' * Period') + a1)
    BY <1>5, <2>3, <2>6
  <2>9. Late' = Late
    BY DEF Late
  <2>10. \A x : Wrapped(x)' = Wrapped(x)
    BY DEF Wrapped
  <2>11. QED
    BY <1>2, <1>7, <2>7, <2>8, <2>9, <2>10 DEF Arrivals
<1>10. QED
  BY <1>2, <1>3, <1>8, <1>9

LEMMA ArrivalsInit == Init => Arrivals
<1>1. SUFFICES ASSUME sent_us \in BOOT_US, interval_count = 0, arrived = FALSE PROVE Arrivals
  BY DEF Init
<1>2. sent_us \in 0..UINT32_MAX
  BY <1>1, ReceptionAssumption
<1>3. QED
  BY <1>1, <1>2 DEF Arrivals

LEMMA ArrivalsNext == StateType /\ Arrivals /\ [Next]_vars => Arrivals'
<1>1. SUFFICES ASSUME StateType, Arrivals, [Next]_vars PROVE Arrivals'
  OBVIOUS
<1>2. ASSUME ~arrived, UNCHANGED clock PROVE Arrivals'
  BY <1>1, <1>2 DEF Arrivals, clock
<1>3. CASE Pulse
  BY <1>2, <1>3 DEF Pulse
<1>4. CASE Gap
  BY <1>2, <1>4 DEF Gap
<1>5. CASE \E delay \in 0..LOOP_US - 1, pause \in {0, PAUSE_US} : Arrive(delay, pause)
  BY <1>1, <1>5, ArrivesAgain DEF Late
<1>6. CASE Open
  <2>1. sent_us' \in 0..UINT32_MAX /\ interval_count' = 0 /\ arrived' = FALSE
    BY <1>6, ReceptionAssumption DEF Open
  <2>2. QED
    BY <2>1 DEF Arrivals
<1>7. CASE UNCHANGED vars
  <2>1. Period' = Period
    BY <1>7 DEF vars, Period
  <2>2. \A x : Wrapped(x)' = Wrapped(x)
    BY DEF Wrapped
  <2>3. Late' = Late
    BY DEF Late
  <2>4. QED
    BY <1>1, <1>7, <2>1, <2>2, <2>3 DEF vars, clock, Arrivals
<1>8. QED
  BY <1>1, <1>3, <1>4, <1>5, <1>6, <1>7 DEF Next

\* Averaging over n intervals divides the lateness of two arrivals, and rounds once.
LEMMA AverageIsClose ==
  ASSUME NEW n \in Nat \ {0}, NEW p \in Nat, NEW late \in Int, NEW loop \in Nat,
         -loop < late, late < loop, NEW span \in Nat, span = n * p + late
  PROVE  Magnitude((span \div n) - p) * n < loop + n
<1> DEFINE q == span \div n
           r == span % n
<1>1. q \in Int /\ r \in Int /\ 0 <= r /\ r < n /\ span = n * q + r
  BY DivMod
<1> HIDE DEF q, r
<1>2. n * (q - p) = n * q - n * p /\ n * q \in Int /\ n * p \in Int /\ q - p \in Int
  BY <1>1
<1>3. n * (q - p) = late - r
  BY <1>1, <1>2
<1>4. (q - p) * n = n * (q - p) /\ (-(q - p)) * n = -(n * (q - p))
  BY <1>1
<1>5. Magnitude(q - p) * n = IF q - p < 0 THEN -(late - r) ELSE late - r
  BY <1>2, <1>3, <1>4 DEF Magnitude
<1>6. -(late - r) < loop + n /\ late - r < loop + n
  BY <1>1
<1>7. QED
  BY <1>5, <1>6 DEF q

\* The estimate is off by less than one pass of the main loop shared among the intervals, and the
\* rounding, over pauses and the wrap of micros(): what capture_validator.h claims of it.
THEOREM EstimateWithinLoop == Spec => []EstimateIsClose
<1>1. ASSUME StateType, Arrivals PROVE EstimateIsClose
  <2> DEFINE d == FrameDuration(frame)
             p == d + gap
             n == interval_count
             span == Wrapped(last_frame_us - first_frame_us)
             estimate == EstimateGap(span, n, d, MIN_GAP, MAX_GAP, GAP_MIN_INTERVALS)
  <2>1. SUFFICES ASSUME arrived, estimate # 0
                 PROVE  Magnitude(estimate - gap) * n < LOOP_US + n
    BY <1>1 DEF EstimateIsClose, Arrivals
  <2>2. /\ d \in Nat /\ gap \in Nat /\ LOOP_US \in Nat \ {0} /\ LOOP_US <= p
        /\ UINT32_MAX \in Nat /\ GAP_INTERVAL_TARGET \in Nat /\ GAP_MIN_INTERVALS \in Nat \ {0}
        /\ GAP_INTERVAL_TARGET * p + LOOP_US <= UINT32_MAX
    BY <1>1, PeriodFacts DEF StateType
  <2>3. PICK t \in Int, a \in Late, b \in Late :
          /\ last_frame_us = Wrapped(t + b) /\ first_frame_us = Wrapped((t - n * Period) + a)
    BY <1>1, <2>1 DEF Arrivals
  <2>4. n \in Nat /\ n <= GAP_INTERVAL_TARGET
    BY <1>1, <2>1 DEF Arrivals
  <2>5. a \in Int /\ b \in Int /\ 0 <= a /\ a < LOOP_US /\ 0 <= b /\ b < LOOP_US
    BY <2>2 DEF Late
  <2>6. Period = p
    BY DEF Period
  <2>7. /\ n >= GAP_MIN_INTERVALS /\ n \in Nat \ {0} /\ estimate = (span \div n) - d
    <3> HIDE DEF span, d
    <3>1. n >= GAP_MIN_INTERVALS /\ estimate = (span \div n) - d
      BY <2>1 DEF EstimateGap
    <3>2. QED
      BY <2>2, <2>4, <3>1
  <2> HIDE DEF estimate
  <2>8. p \in Nat
    BY <2>2
  <2> DEFINE late == b - a
             real == n * p + late
  <2>9. n * p \in Nat /\ n * p >= p /\ n * p <= GAP_INTERVAL_TARGET * p
    <3> HIDE DEF p, d
    <3>1. n * p = p * n /\ GAP_INTERVAL_TARGET * p = p * GAP_INTERVAL_TARGET /\ p * 1 = p
          /\ n * p \in Nat
      BY <2>2, <2>4, <2>8
    <3>2. p * n <= p * GAP_INTERVAL_TARGET
      BY <2>2, <2>4, <2>8, ProductGrows
    <3>3. p * 1 <= p * n
      <4>1. 1 \in Nat /\ 1 <= n
        BY <2>7
      <4>2. QED
        BY <2>4, <2>8, <4>1, ProductGrows
    <3>4. QED
      BY <3>1, <3>2, <3>3
  <2>10. real \in 0..UINT32_MAX /\ real \in Nat
    <3> HIDE DEF p
    <3>1. QED
      BY <2>2, <2>5, <2>8, <2>9
  <2>11. span = real
    <3> DEFINE last == t + b
               first == (t - n * p) + a
    <3>1. last \in Int /\ first \in Int /\ last - first = real
      <4> HIDE DEF p
      <4>1. QED
        BY <2>5, <2>9
    <3>2. last_frame_us = Wrapped(last) /\ first_frame_us = Wrapped(first)
      BY <2>3, <2>6
    <3> HIDE DEF last, first, real
    <3>3. span = Wrapped(last - first)
      BY <3>1, <3>2, WrappedDifference
    <3>4. QED
      BY <2>10, <3>1, <3>3, NotWrapped
  <2>12. Magnitude((span \div n) - p) * n < LOOP_US + n
    <3>1. late \in Int /\ -LOOP_US < late /\ late < LOOP_US /\ LOOP_US \in Nat
      BY <2>2, <2>5
    <3>2. span \in Nat /\ span = n * p + late
      BY <2>10, <2>11
    <3> HIDE DEF span, p, late, n
    <3>3. QED
      BY <2>7, <2>8, <3>1, <3>2, AverageIsClose
  <2>13. (span \div n) - p = estimate - gap
    <3>1. span \div n \in Int
      BY <2>7, <2>10, <2>11, DivMod
    <3> HIDE DEF span
    <3>2. QED
      BY <2>2, <2>7, <3>1
  <2>14. QED
    BY <2>12, <2>13
<1>2. Spec => []StateType
  <2>1. HeardInv => StateType
    BY DEF HeardInv
  <2>2. QED
    BY <2>1, Heard, PTL
<1>3. QED
  BY <1>1, <1>2, ArrivalsInit, ArrivalsNext, PTL DEF Spec
=============================================================================
