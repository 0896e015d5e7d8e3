---------------------------- MODULE FlowCompiler ----------------------------
(***************************************************************************)
(* The compiler of .nhs sources (sdk/lib/compile.mjs): a source is a header *)
(* and statements, a step of this module compiles one of them.  Tokens and  *)
(* places in the text are left out; an expression is the sequence in which  *)
(* the recursive descent comes to its parts, operands before operators.     *)
(*                                                                         *)
(*   token      [t : "num", v], [t : "name", v] or [t : "call", v, p, rel]  *)
(*   condition  [expr, cmp : {"none", ">=", "<"}, limit, hyst, hold]        *)
(*   statement  [k, ...], a block "gate" being closed by "end"              *)
(*                                                                         *)
(* Beside the graph, in which equal nodes are shared, a ghost `spelled` is  *)
(* the graph the source spells out, with a node of its own for every use.   *)
(***************************************************************************)
EXTENDS FlowGraph, SequencesExt

CONSTANTS Programs \* the sources: [background, body]

VARIABLES
    source,   \* the program
    line,     \* the statement compiled next
    shared,   \* the builder and the tables of names
    spelled,  \* ghost: the same, without sharing
    compiled  \* "no", "done", "failed", or "loaded" into the machine

compilerVars == <<source, line, shared, spelled, compiled>>

-----------------------------------------------------------------------------
(* Plausible bugs. *)

KeyWithoutParameters(n) == [op |-> n.op, in |-> n.in]
PersistWithoutCapability(b, i) ==
    IF b.nodes[i].op \notin COUNTER_OPS THEN [b EXCEPT !.ok = FALSE]
    ELSE [b EXCEPT !.nodes[i].persist = TRUE]

-----------------------------------------------------------------------------
(* Builder. *)

Make(op, in, p) == [op |-> op, in |-> in, p |-> p, span |-> 0,
                    persist |-> FALSE, fall |-> FALSE, rel |-> FALSE]

Empty == [nodes |-> <<>>, signals |-> <<>>, events |-> <<>>, caps |-> {}, gate |-> 0, stack |-> <<>>,
          ok |-> TRUE, share |-> TRUE]

EmitUnique(b, n) == [b EXCEPT !.nodes = Append(@, n), !.stack = Append(@, Len(b.nodes) + 1)]

\* The key of a node was made before persist was set on it; a gate has none.
InternKey(n) == [n EXCEPT !.persist = FALSE]

Same(b, n) == {i \in DOMAIN b.nodes : /\ b.share /\ b.nodes[i].op = n.op /\ n.op # "gate"
                                      /\ InternKey(b.nodes[i]) = InternKey(n)}

\* The index of the node ends up on the stack of the expression.
Emit(b, n) ==
    IF Same(b, n) # {} THEN [b EXCEPT !.stack = Append(@, CHOOSE i \in Same(b, n) : TRUE)]
    ELSE EmitUnique(b, n)

Failed(b) == [b EXCEPT !.ok = FALSE]

Pop(b, k) == [b EXCEPT !.stack = SubSeq(@, 1, Len(@) - k)]
Args(b, k) == SubSeq(b.stack, Len(b.stack) - k + 1, Len(b.stack))

-----------------------------------------------------------------------------
(* Expressions. *)

IsBoolean(b, i) ==
    \/ b.nodes[i].op \in BooleanOps
    \/ b.nodes[i].op = "feature_get" /\ b.nodes[i].p = "in_contact"

\* The arguments that have to be booleans.
BooleanArgs(f) ==
    CASE f \in {"not", "duration", "interval", "counter"} -> {1}
      [] f = "counter_reset" -> {1, 2}
      [] f = "peak_since" -> {2}
      [] f = "select" -> {1}
      [] OTHER -> {}

\* parseCall, and the operators of parseExpr and parseTerm.
Call(b, t) ==
    LET k == IF t.v = "feature" THEN 0 ELSE Inputs(t.v)
        in == Args(b, k)
    IN  IF t.v = "feature"
        THEN LET f == Emit(b, Make("features", <<>>, 0))
             IN  Emit(Pop(f, 1), Make("feature_get", Args(f, 1), t.p))
        ELSE IF \E j \in BooleanArgs(t.v) : ~IsBoolean(b, in[j]) THEN Failed(b)
        ELSE Emit(Pop(b, k), [Make(t.v, in, t.p) EXCEPT !.rel = t.rel])

\* A signal comes before an event of its name.
Names(b) == b.signals @@ b.events

\* Numbers are constants, names are signals, or events: their booleans.
Token(b, t) ==
    CASE ~b.ok -> b
      [] t.t = "num"  -> Emit(b, Make("const", <<>>, t.v))
      [] t.t = "name" -> IF t.v \in DOMAIN Names(b)
                         THEN [b EXCEPT !.stack = Append(@, Names(b)[t.v])]
                         ELSE Failed(b)
      [] OTHER -> Call(b, t)

Expr(b, e) == FoldLeft(Token, b, e)

\* The node an expression came to.
Value(b) == Last(b.stack)

\* `<` is threshold on the difference; a condition without comparison is a boolean.
Compare(b, c) ==
    CASE ~b.ok -> b
      [] c.cmp = "none" -> IF IsBoolean(b, Value(b)) THEN b ELSE Failed(b)
      [] c.cmp = ">="   -> Emit(Pop(b, 1), Make("threshold", Args(b, 1), <<c.limit, c.hyst>>))
      [] OTHER ->
            LET l == Emit(b, Make("const", <<>>, c.limit))
                d == Emit(Pop(l, 2), Make("sub", <<Value(l), Value(b)>>, 0))
            IN  Emit(Pop(d, 1), Make("threshold", Args(d, 1), <<0, c.hyst>>))

Condition(b, c) ==
    LET t == Compare(Expr(b, c.expr), c)
    IN  IF t.ok /\ c.hold > 0 THEN Emit(Pop(t, 1), Make("debounce", Args(t, 1), c.hold)) ELSE t

\* What rise(), fall() and `when` take: an event, or a signal that is a boolean.
IsTrigger(b, name) ==
    \/ name \in DOMAIN b.events
    \/ name \in DOMAIN b.signals /\ IsBoolean(b, b.signals[name])

TriggerNode(b, name) == (b.events @@ b.signals)[name]

-----------------------------------------------------------------------------
(* Statements. *)

\* A node on top of the graph that nothing reads.
Output(b, n) == Pop(Emit(b, n), 1)

Persisted(b, i) ==
    IF b.nodes[i].op \notin COUNTER_OPS THEN Failed(b)
    ELSE [b EXCEPT !.nodes[i].persist = TRUE, !.caps = @ \cup {"persist"}]

Signal(b, s) ==
    LET v == Expr(b, s.expr)
        k == IF v.ok /\ s.persist THEN Persisted(v, Value(v)) ELSE v
    IN  IF k.ok THEN [Pop(k, 1) EXCEPT !.signals = (s.name :> Value(k)) @@ @] ELSE k

Event(b, s) ==
    LET c == Condition(b, s.cond)
    IN  IF c.ok THEN Output([Pop(c, 1) EXCEPT !.events = (s.name :> Value(c)) @@ @],
                            Make("emit", Args(c, 1), s.name))
        ELSE c

EmitValue(b, s) ==
    LET v == Expr(b, s.expr)
    IN  IF ~v.ok \/ ~IsTrigger(v, s.trigger) THEN Failed(v)
        ELSE Output(Pop(v, 1), [Make("emit_value", <<TriggerNode(v, s.trigger), Value(v)>>, s.name)
                                    EXCEPT !.fall = s.fall])

\* led and pixel; show, bar and meter.
Light(b, s) ==
    IF ~IsTrigger(b, s.trigger) THEN Failed(b)
    ELSE Output(b, Make(IF s.k = "led" THEN "led" ELSE "ext_pixel",
                        <<TriggerNode(b, s.trigger)>>, s.index))

Show(b, s) ==
    LET v == Expr(b, s.expr)
    IN  IF v.ok THEN Output(Pop(v, 1), Make(s.op, Args(v, 1), s.index)) ELSE v

\* The gate's node comes before the block; its span is known at the block's end.
OpenGate(b, s) ==
    LET c == Condition(b, s.cond)
    IN  IF c.ok /\ b.gate = 0
        THEN [Pop(EmitUnique(Pop(c, 1), Make("gate", <<Value(c), Value(c)>>, 0)), 1)
                EXCEPT !.gate = Len(c.nodes) + 1]
        ELSE Failed(c)

CloseGate(b) ==
    IF b.gate = 0 \/ Len(b.nodes) = b.gate THEN Failed(b)
    ELSE [b EXCEPT !.nodes[b.gate].span = Len(b.nodes) - b.gate, !.gate = 0]

Statement(b, s) ==
    CASE s.k = "signal" -> Signal(b, s)
      [] s.k = "event"  -> Event(b, s)
      [] s.k = "emit"   -> EmitValue(b, s)
      [] s.k \in {"led", "pixel"} -> Light(b, s)
      [] s.k = "show"   -> Show(b, s)
      [] s.k = "gate"   -> OpenGate(b, s)
      [] s.k = "end"    -> CloseGate(b)

-----------------------------------------------------------------------------
CompilerInit ==
    /\ source \in Programs /\ line = 1 /\ compiled = "no"
    /\ shared = [Empty EXCEPT !.caps = IF source.background THEN {"tick"} ELSE {}]
    /\ spelled = [Empty EXCEPT !.share = FALSE]

\* A statement; in error nothing is left of the graph.
Compile ==
    /\ compiled = "no" /\ line <= Len(source.body)
    /\ shared' = Statement(shared, source.body[line])
    /\ spelled' = Statement(spelled, source.body[line])
    /\ line' = line + 1
    /\ compiled' = IF shared'.ok THEN "no" ELSE "failed"
    /\ UNCHANGED source

\* What the manifest declares follows from the graph.
Capabilities(b) ==
    b.caps \cup {"read_matrix"} \cup UNION {Capability(b.nodes[i].op) : i \in DOMAIN b.nodes}

Finish ==
    /\ compiled = "no" /\ line > Len(source.body)
    /\ compiled' = IF /\ shared.gate = 0 /\ shared.nodes # <<>>
                      /\ Len(shared.nodes) <= MAX_NODES
                   THEN "done" ELSE "failed"
    /\ UNCHANGED <<source, line, shared, spelled>>

-----------------------------------------------------------------------------
(***************************************************************************)
(* What compiles is a package the device accepts, unless it asks for more   *)
(* than a device has: references point backwards, every capability an op    *)
(* needs is declared, and no older firmware is promised something it would  *)
(* ignore.                                                                  *)
(***************************************************************************)
CompiledIsAccepted ==
    compiled \in {"done", "loaded"} /\ Affordable(shared.nodes) =>
        Accepted(shared.nodes, Capabilities(shared), MinOs(shared.nodes, Capabilities(shared)))
=============================================================================
