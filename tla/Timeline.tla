------------------------------ MODULE Timeline -----------------------------
(* A recorded session read back for Data Analysis: lib/recordingAnalysis.ts    *)
(* (the rows of the file, its gaps, its events, what is drawn and exported) and *)
(* the view, cursor and playback of tools/analysis/RecordingAnalysisTool.tsx.   *)
(* Rows count from 0 as in the code; a file is the sequence of its lines under  *)
(* the header.  Times are in units of a few milliseconds.                       *)
EXTENDS Integers, SequencesExt

CONSTANTS Files,      \* what a file may hold
          Sidecars,   \* sequences of events: [seq, frame, at]
          MinGap,     \* the shortest step called a gap (100 ms)
          MaxIssues,  \* how many issues are listed (500)
          Focus,      \* half of the time a click on an issue zooms to (2 s)
          MaxBins,    \* the bars of the histogram of steps (60)
          Columns,    \* the pixel columns of the chart
          MaxMoves    \* bound on the user's changes of the view

VARIABLES file,       \* the lines of the loaded file
          rec,        \* what was read of it: its rows, and the line of each
          notes,      \* its events
          view,       \* the rows on screen: start up to, not including, end
          cursor,
          rolling,    \* Paused, or the playback's start: [from, gone] in time
          moves

timelineVars == <<file, rec, notes, view, cursor, rolling, moves>>

Paused == [from |-> 0, gone |-> -1]

Most(a, b) == IF a >= b THEN a ELSE b

Least(a, b) == IF a <= b THEN a ELSE b

Distance(a, b) == IF a >= b THEN a - b ELSE b - a

----------------------------------------------------------------------------
(* The file: a line too short, or without a time, is skipped.                  *)
Parsed(lines) ==
  LET kept == SetToSortSeq({i \in DOMAIN lines : lines[i].kind = "row"}, <)
  IN  [rows |-> [r \in DOMAIN kept |-> lines[kept[r]]], lines |-> kept]

Count == Len(rec.rows)

\* The time of a row; of no row it is NaN, which no comparison finds below anything.
NoTime == -1000

Time(row) == IF row < Count THEN rec.rows[row + 1].at ELSE NoTime

Frame(row) == rec.rows[row + 1].frame

Pressed(row) == rec.rows[row + 1].value

RowSet == 0..(Count - 1)

\* The steps between rows, and the middle one.
Steps == [r \in 1..(Count - 1) |-> Time(r) - Time(r - 1)]

Median == IF Steps = <<>> THEN 0 ELSE SortSeq(Steps, <)[(Len(Steps) \div 2) + 1]

GapThreshold == Most(MinGap, 5 * Median)

\* What is wrong at one row, in the order it is listed.
IssuesAt(row) ==
  LET step == Time(row) - Time(row - 1)
      jump == Frame(row) - Frame(row - 1)
  IN  (IF step < 0 THEN <<[row |-> row, kind |-> "time_backwards", amount |-> step]>>
       ELSE IF step > GapThreshold THEN <<[row |-> row, kind |-> "time_gap", amount |-> step]>>
       ELSE <<>>)
      \o (IF jump < 0 THEN <<[row |-> row, kind |-> "restart", amount |-> 0]>>
          ELSE IF jump > 1 THEN <<[row |-> row, kind |-> "lost_frames", amount |-> jump - 1]>>
          ELSE <<>>)

AllIssues == FlattenSeq([r \in 1..(Count - 1) |-> IssuesAt(r)])

Issues == SubSeq(AllIssues, 1, Least(MaxIssues, Len(AllIssues)))

Lost == FoldLeft(LAMBDA n, i : IF i.kind = "lost_frames" THEN n + i.amount ELSE n, 0, AllIssues)

\* What the cards say of the whole recording.
Continuous == AllIssues = <<>>

Notices ==
  (IF \E i \in DOMAIN file : file[i].kind = "bad" THEN {"skipped"} ELSE {})
  \cup {i.kind : i \in {j \in ToSet(AllIssues) : j.kind = "time_backwards"}}

\* The steps counted in bins up to twice the longest common one; longer ones are
\* counted in a last bar of their own.
Bars ==
  LET sorted == SortSeq(Steps, <)
      p99    == IF sorted = <<>> THEN 0 ELSE sorted[Len(sorted)]
      limit  == Most(4, 2 * p99)
      width  == Most(1, -((-limit) \div MaxBins))
      bins   == -((-limit) \div width)
      Bin(d) == Least(bins, Most(0, d) \div width)
  IN  [b \in 0..bins |-> Len(SelectSeq(Steps, LAMBDA d : Bin(d) = b))]

----------------------------------------------------------------------------
(* Finding a row by its time.                                                  *)
IndexAtTime(ms) ==
  LET f[r \in (0..Count) \X (0..Count)] ==
        IF r[1] >= r[2] THEN r[1]
        ELSE LET mid == (r[1] + r[2]) \div 2
             IN  IF Time(mid) < ms THEN f[<<mid + 1, r[2]>>] ELSE f[<<r[1], mid>>]
  IN  f[<<0, Count>>]

NearestIndex(ms) ==
  LET after  == Least(Count - 1, IndexAtTime(ms))
      before == Most(0, after - 1)
  IN  IF Distance(Time(before), ms) <= Distance(Time(after), ms) THEN before ELSE after

\* The row an event belongs to: the last row of its frame, else by its time; -1
\* for a time no row can be matched against.
RowOf(event) ==
  LET rows == {r \in RowSet : Frame(r) = event.frame}
  IN  IF rows # {} THEN CHOOSE r \in rows : \A q \in rows : q <= r
      ELSE IF event.at = 0 \/ Count = 0 THEN -1
      ELSE NearestIndex(event.at)

Placed == SelectSeq([i \in DOMAIN notes |-> [seq |-> notes[i].seq, row |-> RowOf(notes[i])]],
                    LAMBDA e : e.row >= 0)

----------------------------------------------------------------------------
(* What is drawn: per column, the lowest and highest value of its rows.        *)
T0 == Time(view.start)

T1 == Most(T0 + 1, Time(Most(view.start, view.end - 1)))

ColumnOf(row) == Least(Columns - 1, Most(0, ((Time(row) - T0) * Columns) \div (T1 - T0)))

ViewRows == view.start..(view.end - 1)

\* A column that shows the row drawn last only.  (A plausible bug.)
LastValueOnly(column) ==
  LET rows == {r \in ViewRows : ColumnOf(r) = column}
  IN  {Pressed(CHOOSE r \in rows : \A q \in rows : q <= r)}

Drawn(column) ==
  LET values == {Pressed(r) : r \in {q \in ViewRows : ColumnOf(q) = column}}
  IN  {CHOOSE v \in values : \A w \in values : v <= w,
       CHOOSE v \in values : \A w \in values : v >= w}

----------------------------------------------------------------------------
(* What is exported: the original lines of the rows in view, and the events     *)
(* whose sequence numbers were placed on them.                                  *)
\* An export that counts lines as if none had been skipped.  (A plausible bug.)
LinesByRow(start, last) ==
  [i \in 1..(Least(last, Count - 1) - start + 1) |-> file[start + i]]

Sliced(start, last) ==
  [i \in 1..(Least(last, Count - 1) - start + 1) |-> file[rec.lines[start + i]]]

SlicedNotes(start, last) ==
  LET keep == {e.seq : e \in {p \in ToSet(Placed) : start <= p.row /\ p.row <= last}}
  IN  SelectSeq(notes, LAMBDA n : n.seq \in keep)

----------------------------------------------------------------------------
(* The page: a loaded recording, seen whole at first.                          *)
TimelineInit ==
  /\ file \in Files
  /\ rec = Parsed(file)
  /\ notes \in Sidecars
  /\ Count > 0
  /\ view = [start |-> 0, end |-> Count]
  /\ cursor = 0
  /\ rolling = Paused
  /\ moves = 0

\* Playback starts at the cursor, or at the view's first row when the cursor is
\* outside the view or on its last row.
StartRow(v, c) == IF c >= v.end - 1 \/ c < v.start THEN v.start ELSE c

\* A change of view while playing starts the playback's clock again.
Moved(v, playing) ==
  /\ moves < MaxMoves
  /\ moves' = moves + 1
  /\ view' = v
  /\ rolling' = IF playing THEN [from |-> Time(StartRow(v, cursor')), gone |-> 0] ELSE Paused
  /\ UNCHANGED <<file, rec, notes>>

Playing == rolling # Paused

Around(center, half) ==
  [start |-> IndexAtTime(center - half),
   end   |-> Least(Count, IndexAtTime(center + half) + 1)]

\* Twice the time in view, about its middle; times are doubled to halve them exactly.
ZoomOut ==
  LET t0   == Time(view.start)
      t1   == Time(Most(view.start, view.end - 1))
      half == Most(1, t1 - t0)
      low  == (t0 + t1 - 2 * half)
      high == (t0 + t1 + 2 * half)
  IN  /\ view.start > 0 \/ view.end < Count
      /\ cursor' = cursor
      /\ Moved([start |-> IndexAtTime(-((-low) \div 2)),
                end   |-> Least(Count, IndexAtTime(-((-high) \div 2)) + 1)], Playing)

\* A drag over the chart shows the rows it covers, in the order of the screen.
Select(a, b) ==
  /\ a \in ViewRows /\ b \in ViewRows /\ a < b
  /\ cursor' = cursor
  /\ Moved([start |-> a, end |-> b + 1], Playing)

ResetView ==
  /\ cursor' = cursor
  /\ Moved([start |-> 0, end |-> Count], Playing)

\* A click on an issue zooms; one on an event only when its row is out of view.
FocusRow(row, zoom) ==
  /\ cursor' = row
  /\ Moved(IF ~zoom /\ row \in ViewRows THEN view ELSE Around(Time(row), Focus), FALSE)

Pick(row) ==
  /\ row \in ViewRows
  /\ cursor' = row
  /\ Moved(view, FALSE)

TogglePlay ==
  /\ cursor' = cursor
  /\ Moved(view, ~Playing)

\* A step that only stops beyond the last row.  (A plausible bug.)
StopsBeyond(row) == row > view.end - 1

Stops(row) == row >= view.end - 1

\* An animation frame; the clock is held once it has passed every row.
Step ==
  LET gone == Least(rolling.gone + 1, 1 + Most(0, Time(Count - 1) - Most(0, rolling.from)))
      row  == Least(view.end - 1, NearestIndex(rolling.from + gone))
  IN  /\ Playing
      /\ cursor' = row
      /\ rolling' = IF Stops(row) THEN Paused ELSE [rolling EXCEPT !.gone = gone]
      /\ UNCHANGED <<file, rec, notes, view, moves>>

TimelineNext ==
  \/ ZoomOut \/ ResetView \/ TogglePlay \/ Step
  \/ \E a, b \in RowSet : Select(a, b)
  \/ \E i \in ToSet(Issues) : FocusRow(i.row, TRUE)
  \/ \E e \in ToSet(Placed) : FocusRow(e.row, FALSE)
  \/ \E r \in RowSet : Pick(r)

\* Animation frames keep coming.
TimelineSpec == TimelineInit /\ [][TimelineNext]_timelineVars /\ WF_timelineVars(Step)

----------------------------------------------------------------------------
Ordered == \A r \in 1..(Count - 1) : Time(r - 1) <= Time(r)

Strict == \A r \in 1..(Count - 1) : Time(r - 1) < Time(r)

(* The view is a range of rows, never empty while times never go back, and the *)
(* cursor is a row.                                                            *)
TimelineTypeOK ==
  /\ view.start \in 0..Count /\ view.end \in 0..Count
  /\ Ordered => view.start < view.end
  /\ cursor \in RowSet
  /\ \A i \in ToSet(Issues) : i.row \in 1..(Count - 1)
  /\ Continuous => Lost = 0 /\ Ordered /\ Notices \subseteq {"skipped"}

(* Nothing recorded is left undrawn: the lowest and the highest value in view   *)
(* are drawn in the columns of their rows, however many rows share a column,    *)
(* and every step is counted in one bar of the histogram.                      *)
SpikesSurvive ==
  /\ view.start < view.end =>
       \A r \in ViewRows :
         \E low, high \in Drawn(ColumnOf(r)) : low <= Pressed(r) /\ Pressed(r) <= high
  /\ FoldFunction(LAMBDA n, m : n + m, 0, Bars) = Count - 1

(* An exported range opens again as the rows that were in view, whatever lines  *)
(* of the file were skipped, with every event placed on them.                  *)
ExportReadsBack ==
  view.start < view.end =>
    /\ Parsed(Sliced(view.start, view.end - 1)).rows = SubSeq(rec.rows, view.start + 1, view.end)
    /\ \A i \in DOMAIN notes :
         RowOf(notes[i]) \in ViewRows =>
           notes[i] \in ToSet(SlicedNotes(view.start, view.end - 1))

(* Zooming out never hides a row that was on screen, while times never go back. *)
ZoomOutWidens ==
  [][Ordered /\ ZoomOut => view'.start <= view.start /\ view.end <= view'.end]_timelineVars

(* Playback reaches the end of the view and stops, for a recording whose rows   *)
(* have different times; two last rows of one time would hold it short of it.  *)
PlaybackEnds == (Strict /\ Playing) ~> ~Playing

(* The search finds the first row at or after a time, in every recording.      *)
FirstAtOrAfter ==
  \A ms \in {Time(r) : r \in RowSet} :
    LET found == IndexAtTime(ms)
    IN  Time(found) >= ms /\ \A r \in 0..(found - 1) : Time(r) < ms
============================================================================
