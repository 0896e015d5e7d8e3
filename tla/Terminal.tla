----------------------------- MODULE Terminal ------------------------------
(* The Terminal page (pages/TerminalPage.tsx): the chosen device and its       *)
(* command table, which is asked for again until it comes, the builder's form  *)
(* and what a paste puts into it, the run that waits for a result by polling   *)
(* the devices, and the pin picker of io-config.                               *)
EXTENDS CommandLine

CONSTANTS Devices,     \* the devices the list offers
          NoDevice,
          Lit,         \* those of them with an indicator LED and a screen
          OwnBlock(_), \* a device's catalog as blocks, those Desktop has no form for
          Texts,       \* what a user types into a field
          Pastes,      \* what is pasted: lines, and JSON objects
          Pins,        \* the pins of the board's picker, each of both roles' sides
          DefaultPins, \* the board's own pins
          MaxTries,    \* how often a table is asked for (12 in the code)
          MaxPolls,    \* polls before the deadline (32, or 180 for an update)
          MaxTurns     \* bound on the user's choices, pastes and edits

VARIABLES target,      \* selectedDevice
          table,       \* deviceCatalog: whose table is shown, or NoDevice
          asks,        \* the table requests in flight and the retry timer
          command, values, missed,
          running,     \* the run, or Still
          shown,       \* the last result card, or NoCard
          pins,        \* the picker's analog and select pins, in the order picked
          turns

terminalVars == <<target, table, asks, command, values, missed, running, shown, pins, turns>>

Still == [phase |-> "still"]

NoCard == [own |-> FALSE, rows |-> {}]

OtherBlocks == IF table = NoDevice THEN {} ELSE OwnBlock(table)

AllBlocks == Blocks \cup OtherBlocks

\* commandBlock: a command no block has any more falls back to the first one.
FirstBlock == CHOOSE b \in Blocks : b.kind = "first"

BlockOf(name) ==
  IF \E b \in AllBlocks : b.name = name THEN CHOOSE b \in AllBlocks : b.name = name
  ELSE FirstBlock

Chosen == BlockOf(command)

Defaults(block) == [k \in {p.key : p \in ToSet(block.params)} |->
                      (CHOOSE p \in ToSet(block.params) : p.key = k).default]

TerminalInit ==
  /\ target = NoDevice
  /\ table = NoDevice
  /\ asks = {}
  /\ command = FirstBlock.name
  /\ values = Defaults(FirstBlock)
  /\ missed = {}
  /\ running = Still
  /\ shown = NoCard
  /\ pins = [analog |-> DefaultPins, select |-> DefaultPins]
  /\ turns = 0

----------------------------------------------------------------------------
(* The device and its table; a device of another board sets the form afresh.    *)
Choose(d) ==
  /\ turns < MaxTurns
  /\ d # target
  /\ target' = d
  /\ table' = NoDevice
  /\ asks' = {[a EXCEPT !.live = FALSE] : a \in {b \in asks : b.out}}
             \cup (IF d = NoDevice THEN {}
                   ELSE {[of |-> d, n |-> turns, tries |-> 1, live |-> TRUE, out |-> TRUE]})
  /\ turns' = turns + 1
  /\ values' \in {values, Defaults(Chosen)}
  /\ UNCHANGED <<command, missed, running, shown, pins>>

\* A table answer taken whatever device is chosen by now.  (A plausible bug.)
AnyAnswerLands(a) == table' = a.of

Lands(a) == table' = IF a.live THEN a.of ELSE table

Answers(a) ==
  /\ a \in asks
  /\ a.out
  /\ \/ /\ Lands(a)
        /\ asks' = asks \ {a}
     \/ /\ table' = table
        /\ asks' = (asks \ {a}) \cup
                   (IF a.live /\ a.tries < MaxTries THEN {[a EXCEPT !.out = FALSE]} ELSE {})
     \/ /\ table' = table       \* the request failed: it is not repeated
        /\ asks' = asks \ {a}
  /\ UNCHANGED <<target, command, values, missed, running, shown, pins, turns>>

AskAgain(a) ==
  /\ a \in asks
  /\ ~a.out
  /\ asks' = (asks \ {a}) \cup {[a EXCEPT !.out = TRUE, !.tries = @ + 1]}
  /\ UNCHANGED <<target, table, command, values, missed, running, shown, pins, turns>>

----------------------------------------------------------------------------
(* The builder.                                                                *)
\* Neither offered nor run for a board without the parts; a paste still fills it in.
Unavailable(b) == b.kind = "indicators" /\ target \notin Lit

\* The groups of commands beside the builder, with what each lets the user pick.
Groups == {"core", "maintenance", "config", "files", "device", "danger"}

Offered(group) == {b \in AllBlocks : b.group = group /\ ~Unavailable(b)}

Select(b) ==
  /\ \E g \in Groups : b \in Offered(g)
  /\ command' = b.name
  /\ values' = Defaults(b)
  /\ UNCHANGED <<target, table, asks, missed, running, shown, pins, turns>>

\* The cards of the builder's form, in order, and the values a select offers.
Cards == Chosen.params

Options(param) == IF param.type = "select" THEN {<<>>, <<"t">>, <<"f">>} ELSE Texts

Type(key, text) ==
  /\ turns < MaxTurns
  /\ turns' = turns + 1
  /\ \E p \in ToSet(Cards) :
       /\ p.key = key
       /\ text \in Options(p)
       /\ p.type = "number" => Digits(text) \/ text = <<>>
  /\ values' = [k \in DOMAIN values \cup {key} |-> IF k = key THEN text ELSE values[k]]
  /\ UNCHANGED <<target, table, asks, command, missed, running, shown, pins>>

Parsed(paste) ==
  IF paste.json THEN ParseJson(paste.name, paste.entries, AllBlocks)
  ELSE ParseLine(paste.text, AllBlocks)

Paste(paste) ==
  LET parsed == Parsed(paste)
  IN  /\ turns < MaxTurns
      /\ turns' = turns + 1
      /\ IF parsed.ok
         THEN command' = parsed.command /\ values' = parsed.values
         ELSE UNCHANGED <<command, values>>
      /\ missed' = parsed.warnings
      /\ UNCHANGED <<target, table, asks, running, shown, pins>>

----------------------------------------------------------------------------
(* A run: the request, then a poll every half second until the deadline.       *)
Run ==
  /\ running = Still
  /\ Missing(Chosen, values) = {}
  /\ IF Unavailable(Chosen) \/ Chosen.kind = "local" \/ target = NoDevice
     THEN running' = Still       \* the picker opens, or an error line is written
     ELSE running' = [phase |-> "asked", kind |-> Chosen.kind, of |-> target, left |-> MaxPolls]
  /\ shown' = NoCard
  /\ UNCHANGED <<target, table, asks, command, values, missed, pins, turns>>

Queued ==
  /\ running.phase = "asked"
  /\ running' \in {[running EXCEPT !.phase = "polls"], Still}
  /\ UNCHANGED <<target, table, asks, command, values, missed, shown, pins, turns>>

\* What a poll may find of the device: the run's own result, the state of an
\* update, a status and its stream buffer, whatever run they come from.
Sightings == [result : BOOLEAN, update : {"none", "running", "done"}, status : {"none", "plain", "buffer"}]

\* resultFromDeviceState: what answers a run besides its own result.
Answered(kind, seen) ==
  \/ kind \in {"check", "apply"} /\ seen.update = "done"
  \/ kind = "first" /\ seen.status # "none"
  \/ kind = "buffer" /\ seen.status = "buffer"

\* The rows of a result card beyond the result's own: the state of an update.
UpdateRows(kind, seen) ==
  IF kind \in {"check", "apply"} \/ seen.update # "none"
  THEN {"phase", "operation"} \cup (IF seen.update = "running" THEN {"progress", "current_file"} ELSE {})
  ELSE {}

\* A deadline every sign of progress pushes out.  (A plausible bug.)
ProgressRestarts(seen) ==
  IF seen.update = "running" THEN [running EXCEPT !.left = MaxPolls]
  ELSE IF running.left > 1 THEN [running EXCEPT !.left = @ - 1] ELSE Still

Waits(seen) ==
  IF running.left > 1 THEN [running EXCEPT !.left = @ - 1] ELSE Still

Poll ==
  /\ running.phase = "polls"
  /\ \/ \E seen \in Sightings :
          IF seen.result \/ Answered(running.kind, seen)
          THEN running' = Still /\ shown' = [own |-> seen.result, rows |-> UpdateRows(running.kind, seen)]
          ELSE running' = Waits(seen) /\ shown' = shown
     \/ running' = Still /\ shown' = shown    \* the devices could not be read
  /\ UNCHANGED <<target, table, asks, command, values, missed, pins, turns>>

----------------------------------------------------------------------------
(* The pin picker.                                                             *)

\* Picking without a look at what is picked already (a plausible bug).
PickedTwice(picked, pin) == Append(picked, pin)
Toggled(picked, pin) ==
  IF pin \in ToSet(picked) THEN SelectSeq(picked, LAMBDA p : p # pin) ELSE Append(picked, pin)

TogglePin(role, pin) ==
  /\ turns < MaxTurns
  /\ turns' = turns + 1
  /\ pins' = [pins EXCEPT ![role] = Toggled(@, pin)]
  /\ UNCHANGED <<target, table, asks, command, values, missed, running, shown>>

ResetPins ==
  /\ turns < MaxTurns
  /\ turns' = turns + 1
  /\ pins' \in {[analog |-> DefaultPins, select |-> DefaultPins], [analog |-> <<>>, select |-> <<>>]}
  /\ UNCHANGED <<target, table, asks, command, values, missed, running, shown>>

\* The place the picker shows on a pin: its turn among the picked ones.
Place(role, pin) == IF pin \in ToSet(pins[role]) THEN CHOOSE i \in DOMAIN pins[role] : pins[role][i] = pin
                    ELSE 0

\* Whether the picker's command may be copied.
CanCopy == pins.analog # <<>> /\ pins.select # <<>>

TerminalNext ==
  \/ \E d \in Devices \cup {NoDevice} : Choose(d)
  \/ \E a \in asks : Answers(a) \/ AskAgain(a)
  \/ \E b \in AllBlocks : Select(b)
  \/ \E p \in ToSet(Cards), t \in Texts \cup {<<"t">>, <<"f">>} : Type(p.key, t)
  \/ \E p \in Pastes : Paste(p)
  \/ Run \/ Queued \/ Poll
  \/ \E r \in {"analog", "select"}, p \in Pins : TogglePin(r, p)
  \/ ResetPins

\* The backend answers or the request fails, and the poll's timer fires.
TerminalSpec ==
  TerminalInit /\ [][TerminalNext]_terminalVars
  /\ WF_terminalVars(Queued) /\ WF_terminalVars(Poll)

----------------------------------------------------------------------------
(* Every part of the page has the shape its code gives it; the picker numbers  *)
(* the pins of a role without a gap, and offers no command with an empty role. *)
TerminalTypeOK ==
  /\ target \in Devices \cup {NoDevice}
  /\ table \in Devices \cup {NoDevice}
  /\ \A a \in asks : a.tries \in 1..MaxTries /\ (a.live => a.of = target)
  /\ running = Still \/ running.left \in 1..MaxPolls
  /\ \A r \in DOMAIN pins :
       {Place(r, p) : p \in ToSet(pins[r])} = 1..Len(pins[r])
  /\ CanCopy => \A r \in DOMAIN pins : \E p \in Pins : Place(r, p) = 1

(* The blocks offered are those of the chosen device: the table of a device    *)
(* that is no longer chosen is never taken, however late it comes.             *)
TableIsTheDevices == table \in {target, NoDevice}

(* What the builder shows reads back: the line of any form pasted again fills  *)
(* in the same command and the same values, whatever blanks, quotes and        *)
(* backslashes they hold.  A value that itself begins with two dashes is left  *)
(* out: the line shows it bare and the parser takes it for an option.          *)
LineReadsBack ==
  LET block == Chosen
      kept  == {k \in DOMAIN values : Value(values, k) # <<>>}
      back  == ParseLine(Line(block, values), AllBlocks)
  IN  (block.kind # "device" /\ kept \subseteq {p.key : p \in ToSet(block.params)}
         /\ \A k \in kept : ~Dashed(Value(values, k)))
        => /\ back.ok
           /\ back.command = block.name
           /\ back.values = [k \in kept |-> Value(values, k)]

(* The Run button always comes free again: by a result, by what the device     *)
(* shows, by an error or at the deadline.                                      *)
RunsEnd == (running # Still) ~> (running = Still)
============================================================================
