------------------------------ MODULE MCStudio ------------------------------
(* Sources for FlowMachine: pieces as authors write them, by themselves and in pairs. *)
EXTENDS FlowMachine

Num(v) == [t |-> "num", v |-> v]
Name(v) == [t |-> "name", v |-> v]
Fun(f, p) == [t |-> "call", v |-> f, p |-> p, rel |-> FALSE]
Load1 == Fun("total", 0)

Let(name, expr) == [k |-> "signal", name |-> name, expr |-> expr, persist |-> FALSE]
Keep(name, expr) == [k |-> "signal", name |-> name, expr |-> expr, persist |-> TRUE]
Cond(expr, cmp, limit, hyst, hold) ==
    [expr |-> expr, cmp |-> cmp, limit |-> limit, hyst |-> hyst, hold |-> hold]
When(name, cond) == [k |-> "event", name |-> name, cond |-> cond]
Row(r, expr) == [k |-> "show", op |-> "oled_text", index |-> r, expr |-> expr]
Gate(cond) == [k |-> "gate", cond |-> cond]
End == [k |-> "end"]

Pieces == <<
    <<Let("a", <<Load1, Num(1), Fun("sub", 0)>>)>>,
    <<When("e", Cond(<<Load1>>, ">=", 1, 1, 0))>>,
    <<When("e", Cond(<<Load1>>, "<", 1, 0, 3))>>,
    <<Let("b", <<Load1, Fun("mean", 2)>>), Let("c", <<Load1, Fun("mean", 3)>>)>>,
    <<Let("n", <<Fun("button", 0), Fun("counter", 0)>>)>>,
    <<When("e", Cond(<<Load1>>, ">=", 1, 0, 0)), Let("u", <<Name("e"), Fun("counter", 0)>>),
      Keep("k", <<Name("e"), Fun("counter", 0)>>)>>,
    <<Row(0, <<Load1>>), [k |-> "show", op |-> "ext_meter", index |-> 0, expr |-> <<Load1>>]>>,
    <<Gate(Cond(<<Load1>>, ">=", 1, 0, 0)), Row(0, <<Load1, Fun("max_hold", 2)>>), End>>,
    <<Let("page", <<Fun("button", 0), Fun("counter", 0), Num(2), Fun("mod", 0)>>),
      Gate(Cond(<<Name("page")>>, "<", 1, 0, 0)), Row(1, <<Load1, Fun("delta", 0)>>), End>>,
    <<When("e", Cond(<<Load1>>, ">=", 1, 0, 0)),
      [k |-> "emit", name |-> "v", expr |-> <<Load1, Fun("integrate", 2)>>, trigger |-> "e", fall |-> TRUE],
      [k |-> "led", index |-> "red", trigger |-> "e"], [k |-> "pixel", index |-> 0, trigger |-> "e"]>>,
    <<When("r", Cond(<<Fun("linked", 0)>>, "none", 0, 0, 1)),
      Let("i", <<Fun("imu", 0), Name("r"), Fun("peak_since", 0)>>)>>,
    <<When("h", Cond(<<Fun("active_cells", 1)>>, ">=", 1, 0, 0)), Let("d", <<Name("h"), Fun("duration", 0)>>),
      Let("g", <<Name("h"), Fun("interval", 0)>>),
      Let("s", <<Name("h"), Fun("not", 0), Fun("feature", "total_force"), Fun("uptime", 0), Fun("select", 0)>>)>>,
    <<Let("x", <<Load1, Fun("counter", 0)>>)>>,
    <<Keep("x", <<Load1>>)>>
>>

\* A pair runs in the background; a piece by itself also without.
MCPrograms ==
    UNION {{[background |-> TRUE, body |-> Pieces[i] \o Pieces[j]] : j \in i..Len(Pieces)} :
               i \in DOMAIN Pieces}
    \cup {[background |-> FALSE, body |-> Pieces[i] \o Pieces[i]] : i \in DOMAIN Pieces}
=============================================================================
