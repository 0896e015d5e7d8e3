---------------------------- MODULE FlowMachine ----------------------------
(***************************************************************************)
(* The machine that runs a flow graph (sdk/lib/simulate.mjs), on the graph  *)
(* a source compiles to.                                                    *)
(*                                                                         *)
(* The matrix has one cell: a sweep sees its load, a region has it or not.  *)
(* Numbers are whole, the clock counts modulo Wrap (the device's wraps at   *)
(* 2^32 ms).  An evaluation is one step, as it is in the code.  The ghost   *)
(* machine `reference` runs the graph as it is spelled out, without sharing *)
(* nodes, on the same inputs.                                               *)
(***************************************************************************)
EXTENDS FlowCompiler

CONSTANTS
    Loads,         \* what the cell may hold
    Wrap,          \* the clock's modulus
    FirstTick,     \* the time of the first frame
    Strides,       \* times between two inputs
    FALLBACK,      \* TICK_FALLBACK_MS
    MAX_PRESSES,   \* MAX_PENDING_PRESSES
    MaxInputs,     \* bound: inputs of a run
    MaxReboots     \* bound

ASSUME MachineAssumption ==
    /\ {Wrap, FALLBACK, MAX_PRESSES, MaxInputs} \subseteq Nat \ {0}
    /\ FirstTick \in Nat /\ Loads \subseteq Nat /\ Strides \subseteq Nat /\ MaxReboots \in Nat

VARIABLES
    machine,   \* the simulator
    reference, \* ghost: the simulator of the graph spelled out
    now, lastFrame, \* the clock; when the last frame came, -1 if none did
    inputs, reboots,
    accepted   \* ghost: the presses taken since the last start

machineVars == <<machine, reference, now, lastFrame, inputs, reboots, accepted>>
vars == <<compilerVars, machineVars>>

-----------------------------------------------------------------------------
(* Plausible bugs. *)

PressesBackToBack(m)  == m.pending > 0
PressesUnasked(m)     == ~m.shown
RowsKept(m)           == m.rows
RebootForgets(g, m)   == [i \in DOMAIN g.nodes |-> 0]

-----------------------------------------------------------------------------
(* NodeState. *)

Fresh == [result |-> 0, bool |-> FALSE, last |-> FALSE, last2 |-> FALSE, since |-> 0,
          prev |-> 0, ring |-> <<>>, seen |-> FALSE, skipped |-> FALSE]

Bit(c) == IF c THEN 1 ELSE 0
Says(s, c) == [s EXCEPT !.bool = c, !.result = Bit(c)]
Elapsed(t, s) == (t - s.since) % Wrap
Rises(s, c) == c /\ ~s.last

-----------------------------------------------------------------------------
(* What a node computes: n the node, s its state, x its inputs, f the input. *)

\* Sweeps of a matrix of one cell; they hold on a tick.
Sweep(n, s, f) ==
    LET v == IF n.op \in REGION_OPS /\ ~n.p THEN 0 ELSE f.load
    IN  CASE n.op \in {"total", "peak", "region_sum", "region_peak", "features"} -> [s EXCEPT !.result = v]
          [] n.op = "active_cells"  -> [s EXCEPT !.result = Bit(v >= n.p)]
          [] n.op = "region_active" -> [s EXCEPT !.result = Bit(v > 0)]
          [] OTHER -> [s EXCEPT !.result = 0]

Sensor(n, s, f) ==
    CASE n.op = "const"   -> [s EXCEPT !.result = n.p]
      [] n.op = "battery" -> [s EXCEPT !.result = f.battery]
      [] n.op = "linked"  -> Says(s, f.linked)
      [] n.op = "button"  -> Says(s, f.pressed)
      [] n.op = "uptime"  -> [s EXCEPT !.result = f.time]
      [] n.op \in {"imu", "mag"} -> IF f.sample < 0 THEN s ELSE [s EXCEPT !.result = f.sample]
      [] OTHER -> s

\* A zero divisor gives zero.
Arithmetic(op, a, b) ==
    CASE op = "add" -> a + b
      [] op = "sub" -> a - b
      [] op = "mul" -> a * b
      [] op = "div" -> IF b = 0 THEN 0 ELSE a \div b
      [] op = "mod" -> IF b = 0 THEN 0 ELSE a % b
      [] op = "min" -> Min({a, b})
      [] op = "max" -> Max({a, b})
      [] op = "abs" -> IF a < 0 THEN -a ELSE a

\* pushWindow: only the samples seen so far count.
Windowed(n, s, a) ==
    LET r == Append(IF Len(s.ring) = n.p THEN Tail(s.ring) ELSE s.ring, a)
        sum == FoldLeft(+, 0, r)
    IN  [s EXCEPT !.ring = r,
                  !.result = CASE n.op = "max_hold"  -> Max(ToSet(r))
                               [] n.op = "integrate" -> sum
                               [] OTHER -> sum \div Len(r)]

\* A reset is looked at before the count.
Counted(s, c, reset) ==
    LET base == IF reset /\ ~s.last2 THEN 0 ELSE s.result
    IN  [s EXCEPT !.result = base + Bit(Rises(s, c)), !.last = c, !.last2 = reset]

Edge(n, s, x, f) ==
    LET c == x[1].bool
    IN CASE n.op = "counter"       -> Counted(s, c, FALSE)
         [] n.op = "counter_reset" -> Counted(s, c, x[2].bool)
         [] n.op = "duration" ->
                LET t == IF Rises(s, c) THEN [s EXCEPT !.since = f.time] ELSE s
                IN  [t EXCEPT !.last = c, !.result = IF c THEN Elapsed(f.time, t) ELSE 0]
         [] n.op = "interval" ->
                IF ~Rises(s, c) THEN [s EXCEPT !.last = c]
                ELSE [s EXCEPT !.result = IF s.seen THEN Elapsed(f.time, s) ELSE @,
                               !.since = f.time, !.seen = TRUE, !.last = c]
         [] n.op = "peak_since" ->
                [s EXCEPT !.result = IF (x[2].bool /\ ~s.last) \/ ~s.seen THEN x[1].result
                                     ELSE Max({x[1].result, @}),
                          !.seen = TRUE, !.last = x[2].bool]

\* Once latched, a threshold holds above value - hysteresis.
Latched(n, s, a) == Says(s, IF s.bool THEN a > n.p[1] - n.p[2] ELSE a >= n.p[1])

\* A change has to hold for ms.
Debounced(n, s, raw, f) ==
    IF raw # s.last THEN [Says(s, s.bool) EXCEPT !.last = raw, !.since = f.time]
    ELSE Says(s, IF raw # s.bool /\ Elapsed(f.time, s) >= n.p THEN raw ELSE s.bool)

Logic(n, s, x, f) ==
    CASE n.op = "not"       -> Says(s, ~x[1].bool)
      [] n.op = "threshold" -> Latched(n, s, x[1].result)
      [] n.op = "debounce"  -> Debounced(n, s, x[1].bool, f)
      [] n.op \in {"gate", "ext_pixel"} -> Says(s, x[1].bool)
      [] n.op = "select"    -> [s EXCEPT !.result = IF x[1].bool THEN x[2].result ELSE x[3].result]
      [] n.op = "feature_get" ->
            LET v == CASE n.p = "in_contact" -> Bit(x[1].result > 0)
                       [] n.p = "total_force" -> x[1].result
                       [] OTHER -> 0
            IN  [s EXCEPT !.result = v, !.bool = v # 0]

\* emit, emit_value and led keep the last boolean; a fall reports when it is a fall.
Reporter(n, s, x) == [s EXCEPT !.last = x[1].bool, !.bool = IF n.op = "emit" THEN x[1].bool ELSE @]

NodeResult(n, s, x, f) ==
    CASE n.op \in SWEEP_OPS  -> IF f.frame THEN Sweep(n, s, f) ELSE s
      [] n.op \in SENSOR_OPS -> Sensor(n, s, f)
      [] n.op \in WINDOW_OPS -> Windowed(n, s, x[1].result)
      [] n.op = "delta"      -> [s EXCEPT !.result = x[1].result - s.prev, !.prev = x[1].result]
      [] n.op \in {"counter", "counter_reset", "duration", "interval", "peak_since"} -> Edge(n, s, x, f)
      [] n.op \in {"not", "threshold", "debounce", "gate", "ext_pixel", "select", "feature_get"} -> Logic(n, s, x, f)
      [] n.op \in {"emit", "emit_value", "led"} -> Reporter(n, s, x)
      [] n.op \in {"oled_text", "oled_bar", "ext_meter"} -> [s EXCEPT !.result = x[1].result]
      [] n.op = "abs" -> [s EXCEPT !.result = Arithmetic("abs", x[1].result, 0)]
      [] OTHER -> [s EXCEPT !.result = Arithmetic(n.op, x[1].result, x[2].result)]

-----------------------------------------------------------------------------
(* What a node that runs does to the outside. *)

Record(m, g, name, what) ==
    IF "emit_event" \in Capabilities(g) THEN [m EXCEPT !.log = Append(@, <<name, what>>)] ELSE m

Emits(m, g, n, s, x) ==
    CASE n.op = "emit" ->
            IF x[1].bool # s.last THEN Record(m, g, n.p, IF x[1].bool THEN "rise" ELSE "fall") ELSE m
      [] n.op = "emit_value" ->
            IF (IF n.fall THEN ~x[1].bool /\ s.last ELSE Rises(s, x[1].bool))
            THEN Record(m, g, n.p, x[2].result) ELSE m
      [] n.op = "led" ->
            IF x[1].bool # s.last THEN [m EXCEPT !.led = IF x[1].bool THEN n.p ELSE "off"] ELSE m

\* The later of two nodes on a row, or on a pixel, wins.
Draws(m, n, i, x) ==
    CASE n.op \in {"oled_text", "oled_bar"} -> [m EXCEPT !.rows = (n.p :> i) @@ @]
      [] n.op = "ext_pixel" -> IF x[1].bool THEN [m EXCEPT !.pixels = (n.p :> i) @@ @] ELSE m
      [] n.op = "ext_meter" -> [m EXCEPT !.meter = i]

\* A closed gate has the nodes of its span skipped.
SkipsTo(n, i, count) == Min({i + n.span, count})

RunNode(g, f, m, i) ==
    LET n == g.nodes[i]
        s == m.states[i]
        x == [j \in DOMAIN n.in |-> m.states[n.in[j]]]
        e == CASE n.op \in {"emit", "emit_value", "led"} -> Emits(m, g, n, s, x)
               [] n.op \in {"oled_text", "oled_bar", "ext_pixel", "ext_meter"} -> Draws(m, n, i, x)
               [] n.op = "gate" /\ ~x[1].bool -> [m EXCEPT !.skipTo = SkipsTo(n, i, Len(g.nodes))]
               [] OTHER -> m
    IN  [e EXCEPT !.states[i] = [NodeResult(n, s, x, f) EXCEPT !.skipped = FALSE]]

Node(g, f, m, i) ==
    IF i <= m.skipTo THEN [m EXCEPT !.states[i].skipped = TRUE, !.skipping = TRUE]
    ELSE RunNode(g, f, m, i)

-----------------------------------------------------------------------------
(* The machine. *)

Loaded(g) == [states |-> [i \in DOMAIN g.nodes |-> Fresh], pending |-> 0, shown |-> FALSE,
              degraded |-> FALSE, log |-> <<>>, rows |-> <<>>, pixels |-> <<>>, meter |-> 0,
              led |-> "off", skipTo |-> 0, skipping |-> FALSE]

\* A press is taken by an evaluation, and the next one shows none.
TakesPress(m) == ~m.shown /\ m.pending > 0

\* The screen and the strip are drawn anew.
Blank(m) == <<>>

Evaluate(g, m, f) ==
    LET p == TakesPress(m)
        a == [m EXCEPT !.shown = p, !.pending = @ - Bit(p), !.rows = Blank(m),
                       !.pixels = <<>>, !.meter = 0, !.skipTo = 0, !.skipping = FALSE]
        z == FoldLeft(LAMBDA acc, i : Node(g, [f EXCEPT !.pressed = p], acc, i), a,
                      [i \in 1..Len(g.nodes) |-> i])
    IN  IF z.skipping = m.degraded THEN z
        ELSE Record([z EXCEPT !.degraded = z.skipping], g, "degraded",
                    IF z.skipping THEN "rise" ELSE "fall")

\* A package that may not read a sensor does not see it.
Input(g, frame, load, t, linked, sample) ==
    [frame |-> frame, load |-> load, time |-> t, pressed |-> FALSE,
     linked |-> linked /\ "link" \in Capabilities(g),
     battery |-> IF "power" \in Capabilities(g) THEN 1 ELSE -1,
     sample |-> IF {"read_imu", "read_mag"} \cap Capabilities(g) # {} THEN sample ELSE -1]

\* The first of the nodes that compute the same: of the graph spelled out only.
First(g) ==
    LET Equal(m, n) == m.op = n.op /\ m.p = n.p /\ m.rel = n.rel /\ m.fall = n.fall
        first[i \in DOMAIN g.nodes] ==
            LET same == {j \in 1..(i - 1) :
                    /\ ~g.share /\ Equal(g.nodes[j], g.nodes[i]) /\ g.nodes[i].op # "gate"
                    /\ \A k \in DOMAIN g.nodes[i].in : first[g.nodes[j].in[k]] = first[g.nodes[i].in[k]]}
            IN  IF same = {} THEN i ELSE Min(same)
    IN  first

\* persisted(), and what reset() restores.  The mark is the node's, "so every use of
\* this counter" survives (compile.mjs): of equal counters, the marked one stands for all.
Persistent(g, i) ==
    \E j \in DOMAIN g.nodes : /\ g.nodes[j].persist /\ g.nodes[j].op \in COUNTER_OPS
                              /\ First(g)[j] = First(g)[i]
Kept(g, m) == [i \in DOMAIN g.nodes |-> IF Persistent(g, i) THEN m.states[i].result ELSE 0]
Restored(g, m) ==
    [Loaded(g) EXCEPT !.states = [i \in DOMAIN g.nodes |->
        [Fresh EXCEPT !.result = Kept(g, m)[i]]]]

-----------------------------------------------------------------------------
MachineInit ==
    /\ machine = Loaded(Empty) /\ reference = Loaded(Empty) /\ now = FirstTick /\ lastFrame = -1
    /\ inputs = 0 /\ reboots = 0 /\ accepted = 0

Load ==
    /\ compiled = "done" /\ compiled' = "loaded"
    /\ machine' = Loaded(shared) /\ reference' = Loaded(spelled)
    /\ UNCHANGED <<source, line, shared, spelled, now, lastFrame, inputs, reboots, accepted>>

\* The log is kept for the evaluation at hand.
Runs(frame, load, t, linked, sample) ==
    /\ compiled = "loaded" /\ inputs < MaxInputs
    /\ machine' = Evaluate(shared, [machine EXCEPT !.log = <<>>],
                           Input(shared, frame, load, t, linked, sample))
    /\ reference' = Evaluate(spelled, [reference EXCEPT !.log = <<>>],
                             Input(spelled, frame, load, t, linked, sample))
    /\ now' = t /\ inputs' = inputs + 1
    /\ UNCHANGED <<compilerVars, reboots, accepted>>

\* step
Frame ==
    \E load \in Loads, d \in Strides, linked \in BOOLEAN, sample \in {-1, 1} :
        /\ linked = (sample = 1)
        /\ linked => {"link", "read_imu", "read_mag"} \cap Capabilities(shared) # {}
        /\ Runs(TRUE, load, (now + d) % Wrap, linked, sample)
        /\ lastFrame' = (now + d) % Wrap

\* tick, which a package with `background` is evaluated on while no frames come
Tick ==
    \E d \in Strides :
        LET t == (now + d) % Wrap IN
        /\ "tick" \in Capabilities(shared)
        /\ lastFrame = -1 \/ (t - lastFrame) % Wrap >= FALLBACK
        /\ Runs(FALSE, 0, t, FALSE, -1)
        /\ UNCHANGED lastFrame

\* pressButton
Press ==
    /\ compiled = "loaded" /\ "button" \in Capabilities(shared)
    /\ machine.pending < MAX_PRESSES
    /\ accepted < MaxInputs
    /\ machine' = [machine EXCEPT !.pending = @ + 1]
    /\ reference' = [reference EXCEPT !.pending = @ + 1]
    /\ accepted' = accepted + 1
    /\ UNCHANGED <<compilerVars, now, lastFrame, inputs, reboots>>

\* A simulator anew, with the counters persisted.
Reboot ==
    /\ compiled = "loaded" /\ reboots < MaxReboots
    /\ machine' = Restored(shared, machine)
    /\ reference' = Restored(spelled, reference)
    /\ lastFrame' = -1 /\ accepted' = 0 /\ reboots' = reboots + 1
    /\ UNCHANGED <<compilerVars, now, inputs>>

Init == CompilerInit /\ MachineInit
Next == \/ (Compile /\ UNCHANGED machineVars) \/ (Finish /\ UNCHANGED machineVars)
        \/ Load \/ Frame \/ Tick \/ Press \/ Reboot
Spec == Init /\ [][Next]_vars

-----------------------------------------------------------------------------
Gated == \E i \in DOMAIN shared.nodes : shared.nodes[i].op = "gate"

Shown(g, m) ==
    [r \in DOMAIN m.rows |-> m.states[m.rows[r]].result]

SameValues ==
    /\ ToSet(machine.log) = ToSet(reference.log)
    /\ machine.led = reference.led
    /\ Shown(shared, machine) = Shown(spelled, reference)
    /\ DOMAIN machine.pixels = DOMAIN reference.pixels
    /\ \A s \in DOMAIN shared.signals :
        machine.states[shared.signals[s]].result = reference.states[spelled.signals[s]].result

(***************************************************************************)
(* Sharing equal nodes cannot be told: a graph without gates records,       *)
(* shows and computes what the source spells out (compile.mjs, internKey).  *)
(***************************************************************************)
SharingIsInvisible == compiled = "loaded" /\ ~Gated => SameValues

(***************************************************************************)
(* ... nor with gates: a value read, or a row drawn, where no closed gate   *)
(* is around it, is that of the frame at hand.                              *)
(***************************************************************************)
GatesHoldTheirBlockOnly == compiled = "loaded" => SameValues

(***************************************************************************)
(* counter(button()) has counted every press taken, however the frames      *)
(* come, when none waits (authoring.md: "counts every press even when two   *)
(* land in consecutive frames").                                            *)
(***************************************************************************)
PressesAreCounted ==
    compiled = "loaded" /\ ~Gated =>
        \A i \in DOMAIN shared.nodes :
            LET n == shared.nodes[i] IN
            n.op = "counter" /\ ~n.persist /\ shared.nodes[n.in[1]].op = "button" =>
                machine.states[i].result + machine.pending = accepted

(***************************************************************************)
(* A row of the screen shows what a node computed in this very evaluation:  *)
(* what is drawn in a closed gate is blank.                                 *)
(***************************************************************************)
ClosedRowsAreBlank ==
    compiled = "loaded" =>
        \A r \in DOMAIN machine.rows : ~machine.states[machine.rows[r]].skipped

(***************************************************************************)
(* What a persisted counter counted is not lost, by reboots either.         *)
(***************************************************************************)
CountsKept ==
    compiled = "loaded" =>
        \A i \in DOMAIN shared.nodes :
            shared.nodes[i].persist /\ shared.nodes[i].op = "counter" =>
                machine'.states[i].result >= machine.states[i].result
CountsSurvive == [][CountsKept]_vars
=============================================================================
