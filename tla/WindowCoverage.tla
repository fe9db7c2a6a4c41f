--------------------------- MODULE WindowCoverage ---------------------------
(***************************************************************************)
(* Windows of time, as pure operators: which windows a range is cut into   *)
(* (adapters/utils/window_generator.py), what the stored rows leave        *)
(* uncovered (window_reporter.py), and from where a gap is harvested again *)
(* (steps/oai_pmh/trigger.py).  Times are minutes since ALIGNMENT_EPOCH; a *)
(* window does not contain its end.                                        *)
(***************************************************************************)
EXTENDS Integers, FiniteSets, SequencesExt

CONSTANT WindowMinutes

ASSUME WindowMinutesAssumption == WindowMinutes \in Nat \ {0}

Smaller(a, b) == IF a <= b THEN a ELSE b
Larger(a, b) == IF a >= b THEN a ELSE b

\* With allow_partial_final_window = FALSE, as the loader has it, the last
\* window ends at a boundary.
Boundary(time) == (time \div WindowMinutes) * WindowMinutes
EffectiveEnd(start, end) ==
    IF Boundary(end) < start THEN Boundary(end) + WindowMinutes ELSE Boundary(end)

\* Mutant: windows are counted from the start of the range.
WindowsFromStart(start, end) ==
    {[start |-> start + i * WindowMinutes,
      end   |-> Smaller(start + (i + 1) * WindowMinutes, EffectiveEnd(start, end))] :
        i \in {j \in 0..(end - start) :
                  start + j * WindowMinutes < EffectiveEnd(start, end)}}

\* generate_windows: one window for each cell of the grid, cut at both ends.
GenerateWindows(start, end) ==
    {[start |-> Larger(start, i * WindowMinutes),
      end   |-> Smaller((i + 1) * WindowMinutes, EffectiveEnd(start, end))] :
        i \in (start \div WindowMinutes)
              ..((EffectiveEnd(start, end) - 1) \div WindowMinutes)}

Before(a, b) == a.start < b.start \/ (a.start = b.start /\ a.end < b.end)

SortedByStart(windows) ==
    [i \in 1..Cardinality(windows) |->
        CHOOSE w \in windows : Cardinality({v \in windows : Before(v, w)}) = i - 1]

\* Mutant: windows that touch are not merged, and what is left between them is
\* looked for from the last one that began.
MergeNothing(intervals) == intervals

\* _merge_intervals: the next interval extends the last one when it overlaps or
\* touches it, and is one of its own otherwise.
MergeNext(merged, i) ==
    IF merged # <<>> /\ i.start <= Last(merged).end
    THEN [merged EXCEPT ![Len(merged)].end = Larger(@, i.end)]
    ELSE Append(merged, i)

MergeIntervals(intervals) ==
    LET merged[k \in 0..Len(intervals)] ==
            IF k = 0 THEN <<>> ELSE MergeNext(merged[k - 1], intervals[k])
    IN  merged[Len(intervals)]

\* _rows_in_range: the windows that have a part in the range.
WindowsInRange(windows, start, end) ==
    {w \in windows : w.end > start /\ w.start < end}

\* _calculate_coverage_gaps: before the first, between, and after the last of
\* the merged successful windows.
GapsAround(merged, start, end) ==
    LET before == [start |-> start, end |-> merged[1].start]
        after  == [start |-> Last(merged).end, end |-> end]
        between == {[start |-> merged[i].end, end |-> merged[i + 1].start] :
                       i \in 1..(Len(merged) - 1)}
    IN  IF merged = <<>> THEN {[start |-> start, end |-> end]}
                         ELSE {before, after} \union between

CoverageGaps(successful, start, end) ==
    LET sorted == {SortedByStart(WindowsInRange(successful, start, end))}
        merged == {MergeIntervals(s) : s \in sorted}
    IN  {g \in UNION {GapsAround(m, start, end) : m \in merged} : g.start < g.end}

Backlog(gaps) == MapThenSumSet(LAMBDA g : g.end - g.start, gaps)

\* _determine_retry_start: the starts of the gaps worth retrying, of which the
\* oldest is taken.  Gaps older than the lookback are left to an operator, and
\* so is a backlog larger than the lag that is tolerated.
RetryStarts(gaps, now, lookback, maxLag) ==
    LET retryable == {g \in gaps : g.start >= now - lookback}
    IN  IF Backlog(retryable) > maxLag THEN {} ELSE {g.start : g \in retryable}

----------------------------------------------------------------------------
Minutes(windows) == UNION {w.start..(w.end - 1) : w \in windows}
=============================================================================
