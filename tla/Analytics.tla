----------------------------- MODULE Analytics -----------------------------
(***************************************************************************)
(* src/analytics.rs and the C fallback of its analysis.  A sample is the   *)
(* length of a line and whether its severity is Error or worse.  The       *)
(* z-score is kept squared and as a fraction: with n samples of sum S and  *)
(* sum of squares Q, (last - mean)^2 / variance is                         *)
(* (n * last - S)^2 / (n * Q - S^2).                                       *)
(***************************************************************************)
EXTENDS Integers, Sequences, SequencesExt

(* AnalyticsWindow::new clamps the capacity.                               *)
WindowCapacity(requested) == IF requested < 2 THEN 2 ELSE requested

(* AnalyticsWindow::push, the window part.                                 *)
PushSample(window, sample, capacity) ==
    Append(IF Len(window) = capacity THEN Tail(window) ELSE window, sample)

(* The accumulator of each loop of the analysis after every turn.          *)
RunningSums(numbers) ==
    LET sum[i \in 0 .. Len(numbers)] ==
            IF i = 0 THEN 0 ELSE sum[i - 1] + numbers[i]
    IN  sum

SumOf(numbers) == RunningSums(numbers)[Len(numbers)]

Lengths(window) == [i \in DOMAIN window |-> window[i].len]

Deviation(window) ==
    Len(window) * Last(window).len - SumOf(Lengths(window))

Spread(window) ==
    LET lengths == Lengths(window)
        squares == [i \in DOMAIN window |-> lengths[i] * lengths[i]]
    IN  Len(window) * SumOf(squares) - SumOf(lengths) * SumOf(lengths)

(* zscore >= limit.num / limit.den, of samples that differ.                *)
FarFromMean(window, limit) ==
    /\ Spread(window) > 0
    /\ Deviation(window) * Deviation(window) * limit.den * limit.den
           >= limit.num * limit.num * Spread(window)

(* A bug for the runs to find: without the test of the variance the        *)
(* z-score of equal samples is 0/0, which is not >= anything.              *)
LengthAnomalyNaN(window, limit) ==
    /\ window # << >>
    /\ Spread(window) > 0
    /\ limit.num <= 0 \/ FarFromMean(window, limit)

(* zscore >= limit.num / limit.den; nothing is analysed of no samples, and *)
(* no variance gives a z-score of 0, which only a limit above 0 exceeds.   *)
LengthAnomaly(window, limit) ==
    /\ window # << >>
    /\ limit.num <= 0 \/ FarFromMean(window, limit)

(* error_rate >= 0.5                                                       *)
ErrorAnomaly(window) ==
    /\ window # << >>
    /\ 2 * Len(SelectSeq(window, LAMBDA sample : sample.error)) >= Len(window)

Anomaly(window, limit) ==
    LengthAnomaly(window, limit) \/ ErrorAnomaly(window)

=============================================================================
