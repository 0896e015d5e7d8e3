---------------------------- MODULE CommandLine ----------------------------
(* The Terminal's text <-> form conversions (lib/terminalCommands.ts): the     *)
(* line the builder shows, the words the parser takes from a line as shlex     *)
(* would, and the form a pasted line or JSON object fills.  A text is a        *)
(* sequence of characters; a command's name and a parameter's key are one      *)
(* character, and a character stands for its class: " " a blank, "q" and "s"   *)
(* the two quotes, "b" a backslash, "-", "=", "1" a digit, others letters.     *)
EXTENDS Integers, SequencesExt

CONSTANT Blocks    \* the builder's commands: [name, params, kind]

\* What the quoted form of a value leaves bare.
Bare == {"a", "n", "o", "t", "f", "w", "-", "1", "T", "F"}

\* JavaScript's trim.
Trim(text) ==
  LET solid == {i \in DOMAIN text : text[i] # " "}
  IN  IF solid = {} THEN <<>>
      ELSE SubSeq(text, CHOOSE i \in solid : \A j \in solid : i <= j,
                        CHOOSE i \in solid : \A j \in solid : i >= j)

Escaped(text) ==
  FlattenSeq([i \in DOMAIN text |-> IF text[i] \in {"b", "q"} THEN <<"b", text[i]>>
                                    ELSE <<text[i]>>])

\* A quoted value that forgets that a backslash escapes.  (A plausible bug.)
QuoteQuotesOnly(text) ==
  LET t == Trim(text)
  IN  IF t = <<>> THEN <<>>
      ELSE IF \A i \in DOMAIN t : t[i] \in Bare THEN t
      ELSE <<"q">> \o FlattenSeq([i \in DOMAIN t |->
                        IF t[i] = "q" THEN <<"b", "q">> ELSE <<t[i]>>]) \o <<"q">>

Quote(text) ==
  LET t == Trim(text)
  IN  IF t = <<>> THEN <<>>
      ELSE IF \A i \in DOMAIN t : t[i] \in Bare THEN t
      ELSE <<"q">> \o Escaped(t) \o <<"q">>

\* What a quoted value that may be empty looks like among raw arguments.
RawQuote(text) == IF Quote(text) = <<>> THEN <<"q", "q">> ELSE Quote(text)

Value(values, key) == IF key \in DOMAIN values THEN Trim(values[key]) ELSE <<>>

\* The line the builder shows and runs.
Line(block, values) ==
  IF block.kind = "device"
  THEN <<block.name>> \o (IF Value(values, "args") = <<>> THEN <<>>
                          ELSE <<" ">> \o Value(values, "args"))
  ELSE <<block.name>> \o FlattenSeq([i \in DOMAIN block.params |->
         LET key == block.params[i].key
         IN  IF Value(values, key) = <<>> THEN <<>>
             ELSE <<" ", "-", "-", key, " ">> \o Quote(values[key])])

Missing(block, values) ==
  {p \in ToSet(block.params) : p.required /\ Value(values, p.key) = <<>>}

----------------------------------------------------------------------------
(* tokenizeCommandLine, one character at a time.  "esc" remembers a backslash  *)
(* whose next character decides what it was.                                   *)
Put(s, c) == [s EXCEPT !.word = Append(@, c), !.some = TRUE, !.esc = FALSE]

WordEnds(s) ==
  [s EXCEPT !.words = IF s.some THEN Append(@, s.word) ELSE @, !.word = <<>>, !.some = FALSE]

Read(s, c) ==
  CASE s.quote = "s" -> IF c = "s" THEN [s EXCEPT !.quote = ""] ELSE Put(s, c)
    [] s.quote = "q" /\ s.esc ->
         IF c \in {"q", "b"} THEN Put(s, c) ELSE Put(Put(s, "b"), c)
    [] s.quote = "q" /\ c = "q" -> [s EXCEPT !.quote = ""]
    [] c = "b" /\ ~s.esc -> [s EXCEPT !.esc = TRUE]
    [] s.quote = "q" \/ s.esc -> Put(s, c)
    [] c \in {"q", "s"} -> [s EXCEPT !.quote = c, !.some = TRUE]
    [] c = " " -> WordEnds(s)
    [] OTHER -> Put(s, c)

\* The words of a line, and whether its last quotation ends.
Tokens(text) ==
  LET end  == FoldLeft(Read, [words |-> <<>>, word |-> <<>>, some |-> FALSE,
                              quote |-> "", esc |-> FALSE], text)
      last == IF end.esc THEN Put(end, "b") ELSE end
  IN  [ok |-> end.quote = "", words |-> WordEnds(last).words]

----------------------------------------------------------------------------
(* Filling the form.                                                           *)
\* What Number reads: digits, after a sign or not.
Digits(text) ==
  LET t == Trim(text)
      d == IF t # <<>> /\ t[1] = "-" THEN Tail(t) ELSE t
  IN  d # <<>> /\ \A i \in DOMAIN d : d[i] = "1"

IsFlag(param) == param.type = "select"

\* The option a word names: a true/false select also takes the words of yes and no.
OptionOf(text) ==
  CASE text \in {<<"t">>, <<"T">>, <<"1">>} -> <<"t">>
    [] text \in {<<"f">>, <<"F">>} -> <<"f">>
    [] OTHER -> <<>>

Filled(form, key, text) ==
  [form EXCEPT !.values = [k \in DOMAIN @ \cup {key} |-> IF k = key THEN text ELSE @[k]]]

Warned(form, code) == [form EXCEPT !.warnings = @ \cup {code}]

\* A value the form cannot hold also clears what an earlier argument put there.
Cleared(form, key, code) ==
  Warned([form EXCEPT !.values = [k \in DOMAIN @ \ {key} |-> @[k]]], code)

\* assignParam.
Assign(block, form, key, text) ==
  LET named == {p \in ToSet(block.params) : <<p.key>> = key}
  IN  IF named = {} THEN Warned(form, "unknown_param")
      ELSE LET p == CHOOSE q \in named : TRUE
           IN  CASE p.type = "select" /\ OptionOf(text) = <<>> ->
                      Cleared(form, p.key, "invalid_option")
                 [] p.type = "select" -> Filled(form, p.key, OptionOf(text))
                 [] p.type = "number" /\ Trim(text) # <<>> /\ ~Digits(text) ->
                      Cleared(form, p.key, "invalid_number")
                 [] OTHER -> Filled(form, p.key, text)

Dashed(text) == Len(text) >= 2 /\ text[1] = "-" /\ text[2] = "-"

\* An option nothing followed.
BareFlag(block, form) ==
  LET key   == form.key
      named == {p \in ToSet(block.params) : <<p.key>> = key}
      plain == [form EXCEPT !.waits = FALSE]
  IN  CASE named = {} -> Warned(plain, "unknown_param")
        [] \E p \in named : IsFlag(p) -> Filled(plain, CHOOSE k \in {p.key : p \in named} : TRUE, <<"t">>)
        [] OTHER -> Warned(plain, "missing_value")

TakeWord(block, form, word) ==
  LET idle == IF form.waits /\ Dashed(word) THEN BareFlag(block, form) ELSE form
      body == SubSeq(word, 3, Len(word))
      eqs  == {i \in DOMAIN body : body[i] = "="}
  IN  CASE idle.waits -> Assign(block, [idle EXCEPT !.waits = FALSE], idle.key, word)
        [] ~Dashed(word) \/ word = <<"-", "-">> -> Warned(idle, "ignored_argument")
        [] eqs # {} ->
             LET e == CHOOSE i \in eqs : \A j \in eqs : i <= j
             IN  Assign(block, idle, SubSeq(body, 1, e - 1), SubSeq(body, e + 1, Len(body)))
        [] OTHER -> [idle EXCEPT !.waits = TRUE, !.key = body]

EmptyForm == [values |-> [k \in {} |-> <<>>], warnings |-> {}, waits |-> FALSE, key |-> <<>>]

Fill(block, words) ==
  LET form == FoldLeft(LAMBDA f, w : TakeWord(block, f, w), EmptyForm, words)
  IN  IF form.waits THEN BareFlag(block, form) ELSE form

Refused(why) == [ok |-> FALSE, command |-> why, values |-> [k \in {} |-> <<>>], warnings |-> {}]

Understood(block, form) ==
  [ok |-> TRUE, command |-> block.name, values |-> form.values, warnings |-> form.warnings]

RawForm(raw) ==
  [EmptyForm EXCEPT !.values = IF raw = <<>> THEN @ ELSE [k \in {"args"} |-> raw]]

\* A block by the name a line starts with.
Named(word, blocks) == {b \in blocks : <<b.name>> = word}

\* parseCliCommand.
ParseLine(text, blocks) ==
  LET words == Tokens(text).words
      found == Named(words[1], blocks)
      block == CHOOSE b \in found : TRUE
      rest  == Tail(words)
      quoted == [i \in DOMAIN rest |-> RawQuote(rest[i])]
  IN  CASE ~Tokens(text).ok -> Refused("unterminated_quote")
        [] words = <<>> -> Refused("empty")
        [] found = {} -> Refused("unknown_command")
        [] block.kind = "device" -> Understood(block, RawForm(Trim(FlattenSeq(
             [i \in DOMAIN quoted |-> <<" ">> \o quoted[i]]))))
        [] OTHER -> Understood(block, Fill(block, rest))

\* parseJsonCommand: the object's entries in order; a nested value is not text.
ParseJson(name, entries, blocks) ==
  LET found == Named(<<name>>, blocks)
      block == CHOOSE b \in found : TRUE
      plain == SelectSeq(entries, LAMBDA e : e.value # <<"nested">>)
      Take(form, e) ==
        IF e.value # <<"nested">> THEN Assign(block, form, <<e.key>>, e.value)
        ELSE Warned(form, IF \E p \in ToSet(block.params) : p.key = e.key
                          THEN "unsupported_value" ELSE "unknown_param")
  IN  CASE found = {} -> Refused("unknown_command")
        [] block.kind = "device" -> Understood(block, RawForm(Trim(FlattenSeq(
             [i \in DOMAIN plain |->
                <<" ", "-", "-", plain[i].key, " ">> \o RawQuote(plain[i].value)]))))
        [] OTHER -> Understood(block, FoldLeft(Take, EmptyForm, entries))
============================================================================
