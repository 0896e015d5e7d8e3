---------------------------- MODULE PressureMatrix ----------------------------
(***************************************************************************)
(* How a frame of pressures is laid out, numbered and drawn                 *)
(* (VisualizationPage.tsx, profileLayout.ts, sensorLabel.ts,                *)
(* pressureColor.ts).  The stream lists the matrix row by row; the firmware *)
(* numbers the sensors of a calibration column by column; a profile places  *)
(* them anywhere.  Pure functions, evaluated over small frames; a step      *)
(* chooses the next one.                                                   *)
(*                                                                         *)
(* Ratios are integers out of One.                                          *)
(***************************************************************************)
EXTENDS Integers, Sequences, FiniteSets, FiniteSetsExt

CONSTANTS
    MaxSide,   \* bound: rows and columns
    Levels,    \* the pressures of a frame
    Offset,    \* COP_OFFSET
    MaxPoints, \* VISUAL_SURFACE_MAX_INTERPOLATED_POINTS
    MaxSteps   \* SURFACE_INTERPOLATION_STEPS

(* What the constants may be. *)
MatrixAssumption == MaxSide \in Nat \ {0} /\ Levels \subseteq Nat /\ {MaxPoints, MaxSteps} \subseteq Nat \ {0}

VARIABLES
    shape,    \* the device's matrix: <<rows, cols>>, or <<0, 0>>
    laid,     \* the profile: its matrix and its sensors
    frame,    \* index -> pressure
    mirrors   \* <<rowMirror, colMirror>>

matrixVars == <<shape, laid, frame, mirrors>>

One == 60
Clamped(v, low, high) == Max({low, Min({high, v})})

-----------------------------------------------------------------------------
(* Plausible bugs in the helpers below. *)

MirroredOnce(cell, rows, cols, m) ==
    <<IF m[1] THEN rows - 1 - cell[1] ELSE cell[1], IF m[2] THEN rows - 1 - cell[2] ELSE cell[2]>>
RowsAsColumns(s, rows, cols) == (s \div rows) * rows + (s % rows)
OneRowOnly(cell, width) ==
    LET i == cell[1] * width + cell[2]
    IN  {{i, i + width, i + 1}, {i + 1, i + width, i + 2}}

-----------------------------------------------------------------------------
(* The numbering. *)

\* calibrationToStreamIndex: column-major to row-major.
StreamIndex(s, rows, cols) == (s % rows) * cols + (s \div rows)

\* Where the cell drawn at a place is read: mirroring moves it.
Source(cell, rows, cols, m) ==
    <<IF m[1] THEN rows - 1 - cell[1] ELSE cell[1], IF m[2] THEN cols - 1 - cell[2] ELSE cell[2]>>

Cells(rows, cols) == (0..rows - 1) \X (0..cols - 1)
IndexAt(cell, rows, cols, m) ==
    LET c == Source(cell, rows, cols, m) IN c[1] * cols + c[2]

\* streamSensorLabel, as its number.
Label(index) == index + 1

-----------------------------------------------------------------------------
(* The shape of a frame: the device's, else the profile's, else a square. *)

Side(n)     == CHOOSE s \in 1..(n + 1) : s * s >= n /\ \A r \in 1..(s - 1) : r * r < n
Inferred(n) == <<(n + Side(n) - 1) \div Side(n), Side(n)>>
ShapeOf(device, profile, n) ==
    CASE device[1] > 0 /\ device[2] > 0 -> device
      [] ~(device[1] > 0 /\ device[2] > 0) /\ profile[1] > 0 /\ profile[2] > 0 -> profile
      [] OTHER -> Inferred(n)

\* A value the frame does not have is drawn as 0.
ValueAt(f, i) == IF i \in DOMAIN f THEN f[i] ELSE 0

\* The sensors of a profile that are switched on and that the frame has.
Placed(sensors, f) == {s \in sensors : s.on /\ s.index \in DOMAIN f}

\* buildMatrixView: the profile's sensors if there are any, else the grid.
\* A point is [index, value, x, y].
Ratio(i, n) == IF n <= 1 THEN One \div 2 ELSE (i * One) \div (n - 1)
Turned(r, mirrored) == IF mirrored THEN One - r ELSE r

PointsOf(dev, profile, f, m) ==
    LET s == ShapeOf(dev, profile.shape, Cardinality(DOMAIN f))
    IN  IF Placed(profile.sensors, f) # {}
        THEN {[index |-> p.index, value |-> f[p.index],
               x |-> Turned(Clamped(p.x, 0, One), m[2]), y |-> Turned(Clamped(p.y, 0, One), m[1])] :
                p \in Placed(profile.sensors, f)}
        ELSE {[index |-> IndexAt(c, s[1], s[2], m), value |-> ValueAt(f, IndexAt(c, s[1], s[2], m)),
               x |-> Ratio(c[2], s[2]), y |-> Ratio(c[1], s[1])] : c \in Cells(s[1], s[2])}

-----------------------------------------------------------------------------
(* The picture. *)

\* computeCop: the centre of what is above the offset; none if nothing is.
\* As its two weighted sums and the weight to divide them by.
Weight(p) == Max({0, p.value - Offset})
Cop(ps) == [x |-> MapThenSumSet(LAMBDA p : p.x * Weight(p), ps),
            y |-> MapThenSumSet(LAMBDA p : p.y * Weight(p), ps),
            of |-> MapThenSumSet(Weight, ps)]

\* surfaceInterpolationSteps: as fine as the number of points allows.
Finer(n, steps) == (n - 1) * steps + 1
Steps(rows, cols) ==
    Max({1} \cup {s \in 2..MaxSteps : Finer(rows, s) * Finer(cols, s) <= MaxPoints})

\* buildSurfaceGeometry: two triangles between each four neighbours.
TrianglesAt(cell, width) ==
    LET i == cell[1] * width + cell[2]
    IN  {{i, i + width, i + 1}, {i + 1, i + width, i + width + 1}}
Triangles(rows, cols) ==
    UNION {TrianglesAt(cell, cols) : cell \in Cells(rows - 1, cols - 1)}

\* The four cells a surface point lies between, and its value out of steps^2.
Interpolated(f, rows, cols, m, steps, at) ==
    LET r0 == Clamped(at[1] \div steps, 0, rows - 1)  r1 == Min({r0 + 1, rows - 1})
        c0 == Clamped(at[2] \div steps, 0, cols - 1)  c1 == Min({c0 + 1, cols - 1})
        dr == at[1] - r0 * steps                      dc == at[2] - c0 * steps
        V(r, c) == ValueAt(f, IndexAt(<<r, c>>, rows, cols, m))
        Along(r) == V(r, c0) * (steps - dc) + V(r, c1) * dc
    IN  Along(r0) * (steps - dr) + Along(r1) * dr

\* The heat map writes only what can be read in a cell this wide and high: the
\* sensor's number, the value, and the raw reading under it.
Written(width, height, raw) ==
    {"label" : x \in IF width >= 24 /\ height >= 16 THEN {1} ELSE {}} \cup
    {"value" : x \in IF width >= 34 /\ height >= 22 THEN {1} ELSE {}} \cup
    {"raw" : x \in IF raw /\ width >= 34 /\ height >= 30 THEN {1} ELSE {}}

-----------------------------------------------------------------------------
Shapes == {<<0, 0>>} \cup ((1..MaxSide) \X (1..MaxSide))
SensorSets == {{}, {[index |-> 1, x |-> 20, y |-> 70, on |-> TRUE], [index |-> 0, x |-> 0, y |-> 0, on |-> FALSE]}}

Chooses ==
    /\ shape' \in Shapes
    /\ laid' \in [shape : {<<0, 0>>, <<2, 1>>}, sensors : SensorSets]
    /\ mirrors' \in BOOLEAN \X BOOLEAN
    /\ \E n \in {1, 2, 4} : frame' \in [0..n - 1 -> Levels]

MatrixInit ==
    /\ shape = <<1, 1>> /\ laid = [shape |-> <<0, 0>>, sensors |-> {}]
    /\ mirrors = <<FALSE, FALSE>> /\ frame = [i \in {0} |-> 0]

MatrixNext == frame = [i \in {0} |-> 0] /\ shape = <<1, 1>> /\ Chooses

MatrixSpec == MatrixInit /\ [][MatrixNext]_matrixVars
-----------------------------------------------------------------------------
MatrixTypeOK ==
    /\ shape \in Shapes /\ mirrors \in BOOLEAN \X BOOLEAN
    /\ \A i \in DOMAIN frame : frame[i] \in Levels

Points(m) == PointsOf(shape, laid, frame, m)

\* A sensor has one number wherever it is shown: the cells of the heat map show
\* each number once, mirrored or not, and the number of the cell that is wired
\* to a calibration's sensor is the one the calibration shows for it.
LabelsAgree ==
    LET rows == shape[1]  cols == shape[2] IN
    shape # <<0, 0>> =>
        /\ {Label(IndexAt(c, rows, cols, mirrors)) : c \in Cells(rows, cols)} = 1..(rows * cols)
        /\ \A c \in Cells(rows, cols) :
              Label(StreamIndex(c[2] * rows + c[1], rows, cols)) = Label(IndexAt(c, rows, cols, <<FALSE, FALSE>>))

\* Mirroring turns the picture and changes nothing else: each point keeps its
\* number and value, and the centre of pressure is turned with the points.
MirroringOnlyTurns ==
    LET plain == Points(<<FALSE, FALSE>>) IN
    /\ Points(mirrors) = {[p EXCEPT !.x = Turned(@, mirrors[2]), !.y = Turned(@, mirrors[1])] : p \in plain}
    /\ LET cop == Cop(plain)  seen == Cop(Points(mirrors))
       IN  /\ seen.of = cop.of /\ seen.x \in 0..One * cop.of
           /\ seen.x = IF mirrors[2] THEN One * cop.of - cop.x ELSE cop.x

\* The surface goes through the measured values, and its triangles join
\* neighbours only, each two of four once.
SurfaceIsMeasured ==
    LET rows == shape[1]  cols == shape[2]  steps == Steps(rows, cols) IN
    rows >= 2 /\ cols >= 2 =>
        /\ \A c \in Cells(rows, cols) :
              Interpolated(frame, rows, cols, mirrors, steps, <<c[1] * steps, c[2] * steps>>)
                  = steps * steps * ValueAt(frame, IndexAt(c, rows, cols, mirrors))
        /\ LET r == Finer(rows, steps)  w == Finer(cols, steps)
           IN  /\ steps > 1 => r * w <= MaxPoints
               /\ UNION Triangles(r, w) = 0..(r * w - 1)
               /\ Cardinality(Triangles(r, w)) = 2 * (r - 1) * (w - 1)
               /\ \A t \in Triangles(r, w) : \A i, j \in t : (i % w) - (j % w) \in -1..1
=============================================================================
