----------------------------- MODULE Throughput -----------------------------
(***************************************************************************)
(* The benchmark's sweep over search widths (runWithLoadPolicy in          *)
(* src/cmd/fastvec-bench/main.go) and measureThroughput                    *)
(* (src/cmd/fastvec-bench/timing.go), which repeats the queries of a sweep *)
(* until the clock can tell how long they took.                            *)
(*                                                                         *)
(* Nothing is assumed of the clock: it may stand still or go backwards.    *)
(***************************************************************************)
EXTENDS Integers, Sequences

CONSTANTS
    Efs,          \* the widths, ascending
    MaxRepeats,   \* sweeps per attempt at most, 1<<24
    MaxInt,       \* the largest int64
    Least,        \* the interval that is long enough, 100 ms
    Elapses       \* differences between two readings of the clock

ASSUME ThroughputAssumption ==
    /\ Efs \in Seq(Nat \ {0}) /\ Efs # <<>>
    /\ MaxRepeats \in Nat \ {0} /\ MaxInt \in Nat \ {0} /\ Least \in Nat \ {0}
    /\ Elapses \subseteq Int

VARIABLES
    phase,      \* "waiting", "point", "timing", "latency", "written", "failed"
    at,         \* the place in Efs of the width that is measured
    repeats,    \* sweeps in this attempt
    ran,        \* queries since the clock was read
    points      \* the report's points; ran is what really happened

timeVars == <<phase, at, repeats, ran, points>>

TimeInit ==
    /\ phase = "waiting" /\ at = 0 /\ repeats = 1 /\ ran = 0
    /\ points = <<>>

Fail ==
    /\ phase' = "failed"
    /\ UNCHANGED <<at, repeats, ran, points>>

\* The sweep begins.
Start ==
    /\ phase = "waiting"
    /\ phase' = "point"
    /\ UNCHANGED <<at, repeats, ran, points>>

\* The next width, if it is not less than k; the report after the last one.
NextWidth(k) ==
    /\ phase = "point"
    /\ IF at = Len(Efs)
       THEN phase' = "written" /\ UNCHANGED <<at, repeats, ran, points>>
       ELSE /\ at' = at + 1
            /\ phase' = IF Efs[at + 1] < k THEN "point" ELSE "timing"
            /\ repeats' = 1 /\ ran' = 0
            /\ UNCHANGED points

\* Whether the number of queries to be timed can be counted; unchecked first.
Uncounted(queries, n) == TRUE
Countable(queries, n) == queries <= MaxInt \div n

\* An attempt that cannot be made, or not any more.
GiveUp(queries) ==
    /\ phase = "timing" /\ ran = 0
    /\ queries < 1 \/ repeats > MaxRepeats \/ ~Countable(queries, repeats)
    /\ Fail

\* One sweep of the attempt.
Sweep(queries) ==
    /\ phase = "timing" /\ repeats <= MaxRepeats /\ Countable(queries, repeats)
    /\ ran < repeats * queries
    /\ ran' = ran + queries
    /\ UNCHANGED <<phase, at, repeats, points>>

\* The number of sweeps of the next attempt; forgotten to change first.
Unchanged(n) == n
Doubled(n) == 2 * n

\* An int64.
Counted(x) == ((x + MaxInt + 1) % (2 * (MaxInt + 1))) - (MaxInt + 1)

\* The clock is read again.
Stop(queries) ==
    /\ phase = "timing" /\ ran > 0 /\ ran = repeats * queries
    /\ \E e \in Elapses :
        \/ e < 0 /\ Fail
        \/ /\ e >= 0 /\ e < Least
           /\ repeats' = Doubled(repeats) /\ ran' = 0
           /\ UNCHANGED <<phase, at, points>>
        \/ /\ e >= Least
           /\ points' = Append(points, [ef |-> Efs[at], timed |-> Counted(repeats * queries),
                                        ran |-> ran, elapsed |-> e])
           /\ phase' = "latency"
           /\ UNCHANGED <<at, repeats, ran>>

\* Latencies and recall are measured by a pass of their own.
Latency ==
    /\ phase = "latency"
    /\ phase' = "point"
    /\ UNCHANGED <<at, repeats, ran, points>>

Measure(queries, k) ==
    \/ NextWidth(k)
    \/ GiveUp(queries)
    \/ Sweep(queries)
    \/ Stop(queries)
    \/ Latency

\* The sweep over all widths by itself, for a given number of queries.
Measuring(queries, k) == TimeInit /\ [][Start \/ Measure(queries, k)]_timeVars

-----------------------------------------------------------------------------

\* A report that is written has points, and in each the throughput is of the
\* queries that were run in the interval it names, an interval the clock could
\* measure, so that no point divides by zero or counts a calibration.
Measured ==
    /\ phase = "written" => points # <<>>
    /\ \A i \in DOMAIN points :
        /\ points[i].timed = points[i].ran /\ points[i].timed > 0
        /\ points[i].elapsed >= Least

\* The inductive invariant of Measuring.  A calibration under way can be
\* counted, and there is a point once the last width is behind.
PointType == [ef : Nat, timed : Int, ran : Nat, elapsed : Int]

Counting(queries) ==
    /\ phase \in {"waiting", "point", "timing", "latency", "written", "failed"}
    /\ at \in 0 .. Len(Efs) /\ repeats \in Nat \ {0} /\ ran \in Nat
    /\ points \in Seq(PointType)
    /\ phase = "waiting" => at = 0
    /\ phase \in {"timing", "latency"} => at > 0
    /\ phase = "timing" /\ ran > 0 => Countable(queries, repeats)
    /\ phase = "latency" \/ (phase = "point" /\ at = Len(Efs)) => points # <<>>
    /\ Measured

=============================================================================
