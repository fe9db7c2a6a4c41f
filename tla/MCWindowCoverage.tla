-------------------------- MODULE MCWindowCoverage --------------------------
(***************************************************************************)
(* Every set of windows, one added after another, within a few minutes.    *)
(***************************************************************************)
EXTENDS WindowCoverage

CONSTANTS LastMinute, MaxWindows

ASSUME LastMinuteAssumption == LastMinute \in Nat

VARIABLE successful     \* the windows that were harvested

Windows == {w \in [start : 0..LastMinute, end : 0..LastMinute] : w.start < w.end}

AddWindow ==
    /\ Cardinality(successful) < MaxWindows
    /\ \E w \in Windows \ successful : successful' = successful \union {w}

CoverageSpec == successful = {} /\ [][AddWindow]_successful

\* The gaps that the reporter finds are the minutes of the range that no
\* successful window has, each in one gap, whatever windows overlap, touch,
\* nest or reach over the ends of the range (window_reporter.py
\* _calculate_coverage_gaps).
GapsAreTheUncoveredMinutes ==
    \A start \in 0..LastMinute : \A end \in (start + 1)..LastMinute :
        LET gaps == CoverageGaps(successful, start, end)
        IN  /\ Minutes(gaps) = (start..(end - 1)) \ Minutes(successful)
            /\ \A g, h \in gaps : g # h => g.end < h.start \/ h.end < g.start

\* Whatever minute a later range begins at, from its first boundary on it has
\* windows of the earlier range, with the same keys, so that a rerun finds the
\* rows of an earlier one; and the windows of a range have no hole and no
\* overlap (window_generator.py).
RerunsFindTheirWindows ==
    \A w \in successful : \A now \in w.end..LastMinute :
        LET windows == GenerateWindows(w.start, now)
        IN  /\ w.start + WindowMinutes <= now =>
                   /\ Minutes(windows) =
                          w.start..((now \div WindowMinutes) * WindowMinutes - 1)
                   /\ \A a, b \in windows : a # b => a.end <= b.start \/ b.end <= a.start
            /\ \A start \in w.start..(now - 1) :
                   {v \in GenerateWindows(start, now) : v.start > start} \subseteq windows
=============================================================================
