----------------------------- MODULE FlowGraph -----------------------------
(***************************************************************************)
(* The op table of an app's flow graph (sdk/lib/opset.mjs) and what a graph *)
(* must be for a device to accept it (sdk/lib/validate.mjs).                *)
(*                                                                         *)
(* A node is an op, the earlier nodes it reads, its parameters p (opaque    *)
(* here but for a window's length), a gate's span and the persist and fall  *)
(* flags.  Versions v1.n.0 are their minor number n.                        *)
(***************************************************************************)
EXTENDS Integers, Sequences, FiniteSets, FiniteSetsExt

CONSTANTS
    MAX_NODES,        \* nodes in a graph
    LEGACY_MAX_NODES, \* nodes before v1.3.0
    MAX_WINDOW, WINDOW_POOL,
    SweepCost, ScalarCost, Budget

ASSUME GraphAssumption ==
    {MAX_NODES, LEGACY_MAX_NODES, MAX_WINDOW, WINDOW_POOL, SweepCost, ScalarCost, Budget}
        \subseteq Nat \ {0}

-----------------------------------------------------------------------------
(* OPS. *)

SWEEP_OPS == {"total", "peak", "region_sum", "active_cells", "features", "arg_max",
              "row_centroid", "col_centroid", "region_peak", "region_active",
              "region_row_centroid", "region_col_centroid"}
REGION_OPS == {o \in SWEEP_OPS : o \in {"region_sum", "region_peak", "region_active",
                                        "region_row_centroid", "region_col_centroid"}}
SENSOR_OPS == {"imu", "mag", "battery", "linked", "uptime", "button", "budget_load",
               "grace_left", "const"}
WINDOW_OPS == {"mean", "max_hold", "integrate"}
COUNTER_OPS == {"counter", "counter_reset"}
UNARY_OPS == {"threshold", "debounce", "emit", "abs", "clamp", "delta", "counter",
              "feature_get", "led", "oled_text", "oled_bar", "ext_pixel", "ext_meter", "not",
              "duration", "interval", "sqrt"} \cup WINDOW_OPS
BINARY_OPS == {"add", "sub", "mul", "div", "min", "max", "emit_value", "gate", "mod",
               "peak_since", "counter_reset", "atan2"}

OpNames == SWEEP_OPS \cup SENSOR_OPS \cup UNARY_OPS \cup BINARY_OPS \cup {"select"}

Inputs(op) == IF op \in UNARY_OPS THEN 1 ELSE IF op \in BINARY_OPS THEN 2
              ELSE IF op = "select" THEN 3 ELSE 0

BooleanOps == {"threshold", "debounce", "button", "not", "linked"}

Since(op) ==
    CASE op \in {"total", "peak", "region_sum", "active_cells", "threshold", "debounce", "emit"} -> 0
      [] op \in {"mod", "button", "oled_text", "oled_bar"} -> 4
      [] op \in {"ext_pixel", "ext_meter"} -> 5
      [] op \in {"not", "duration", "interval", "peak_since", "counter_reset", "sqrt", "atan2",
                 "imu", "mag", "battery", "linked", "uptime"} \cup (REGION_OPS \ {"region_sum"}) -> 6
      [] OTHER -> 1

\* The capability an op needs, if any.
Capability(op) ==
    CASE op \in SWEEP_OPS -> {"read_matrix"}
      [] op \in {"emit", "emit_value"} -> {"emit_event"}
      [] op = "led" -> {"drive_led"}
      [] op \in {"ext_pixel", "ext_meter"} -> {"drive_ext_led"}
      [] op \in {"oled_text", "oled_bar"} -> {"display"}
      [] op = "button" -> {"button"}
      [] op = "imu" -> {"read_imu"}
      [] op = "mag" -> {"read_mag"}
      [] op = "battery" -> {"power"}
      [] op = "linked" -> {"link"}
      [] OTHER -> {}

\* CAPABILITY_SINCE: what an older firmware would ignore in silence.
CapabilitySince(c) == IF c \in {"tick", "power", "link", "read_mag", "persist"} THEN 6 ELSE 0

-----------------------------------------------------------------------------
(* What a graph takes. *)

Window(n) == IF n.op \in WINDOW_OPS THEN n.p ELSE 0
WindowFloats(nodes) == MapThenSumSet(LAMBDA i : Window(nodes[i]), DOMAIN nodes)

\* A gate is charged as if it never skipped.
Cost(n) == IF n.op \in SWEEP_OPS THEN SweepCost ELSE ScalarCost
GraphCost(nodes) == MapThenSumSet(LAMBDA i : Cost(nodes[i]), DOMAIN nodes)

\* The oldest version that can load a graph.
MinOs(nodes, caps) ==
    Max({IF Len(nodes) > LEGACY_MAX_NODES THEN 3 ELSE 0}
        \cup {Since(nodes[i].op) : i \in DOMAIN nodes}
        \cup {IF nodes[i].persist \/ nodes[i].fall \/ nodes[i].rel THEN 6 ELSE 0 : i \in DOMAIN nodes}
        \cup {CapabilitySince(c) : c \in caps})

-----------------------------------------------------------------------------
(* validateGraph, of a graph with the capabilities and the version of its manifest. *)

InputsBackward(nodes) ==
    \A i \in DOMAIN nodes :
        /\ Len(nodes[i].in) = Inputs(nodes[i].op)
        /\ \A j \in DOMAIN nodes[i].in : nodes[i].in[j] \in 1..(i - 1)

FieldsInPlace(nodes) ==
    \A i \in DOMAIN nodes :
        /\ nodes[i].op \in OpNames
        /\ nodes[i].persist => nodes[i].op \in COUNTER_OPS
        /\ nodes[i].fall => nodes[i].op = "emit_value"
        /\ nodes[i].rel => nodes[i].op \in REGION_OPS
        /\ nodes[i].op = "feature_get" => nodes[nodes[i].in[1]].op = "features"

CapabilitiesDeclared(nodes, caps) ==
    /\ "read_matrix" \in caps
    /\ \A i \in DOMAIN nodes :
        /\ Capability(nodes[i].op) \subseteq caps
        /\ nodes[i].persist => "persist" \in caps

Affordable(nodes) ==
    /\ Len(nodes) <= MAX_NODES
    /\ \A i \in DOMAIN nodes : nodes[i].op \in WINDOW_OPS => Window(nodes[i]) \in 1..MAX_WINDOW
    /\ WindowFloats(nodes) <= WINDOW_POOL
    /\ GraphCost(nodes) <= Budget

Accepted(nodes, caps, minOs) ==
    /\ nodes # <<>>
    /\ InputsBackward(nodes)
    /\ FieldsInPlace(nodes)
    /\ CapabilitiesDeclared(nodes, caps)
    /\ minOs >= MinOs(nodes, caps)
    /\ Affordable(nodes)
=============================================================================
