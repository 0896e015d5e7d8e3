---------------------------- MODULE MCDevicePages ----------------------------
(***************************************************************************)
(* The pages about one device, for TLC.  App.tsx mounts one page at a time, *)
(* so `opened` says which of them this behaviour is about; the others keep  *)
(* the state they begin in.  One run thus goes through all the behaviours   *)
(* of each component, and through no products of them.                      *)
(***************************************************************************)
EXTENDS DeviceCommand, DeviceApps, FileTransfer, TLC

VARIABLES
    opened,
    \* Terminal
    target, table, asks, command, values, blanks, running, card, pins, turns,
    \* DeviceSettings
    group, real, result, seen, seenResult, draft, dirty, pend, typed, meanwhile, saved, lock, done,
    busy, waiting, section, refreshed, asked, control, monitor, tries, visits,
    \* DeviceViews and StreamRates
    cards, kept, streams, loaded, loads, link, picking, gl, changes,
    sends, linked, held, age, rate, reads, drawing, drawn, renders,
    \* RelayManage
    model, relay, block, part, confirming, sent, applying, answer, scanned

CONSTANTS
    Blocks, OwnBlock(_), Texts, Pastes, Devices, Lit, NoDevice, Pins, DefaultPins,
    MaxTries, MaxPolls, MaxTurns,
    Board, MaxValue, MaxEdits, MaxVisits,
    Profiles, ModeOf(_), MaxActs, MaxLoads, Stale, Late,
    Errors, MaxVersion, Wait

-----------------------------------------------------------------------------
(* The terminal's commands: one of each kind of block Desktop treats apart. *)
Param(k, t, r, d) == [key |-> k, type |-> t, required |-> r, default |-> d]
MCBlocks == {
    [name |-> "N", params |-> <<Param("o", "select", FALSE, <<>>)>>, kind |-> "indicators", group |-> "config"],
    [name |-> "S", params |-> <<>>, kind |-> "first", group |-> "core"],
    [name |-> "L", kind |-> "plain", group |-> "config",
     params |-> <<Param("a", "text", TRUE, <<"1">>), Param("n", "number", FALSE, <<>>),
                  Param("o", "select", FALSE, <<>>)>>],
    [name |-> "U", params |-> <<Param("a", "text", FALSE, <<>>)>>, kind |-> "apply", group |-> "danger"],
    [name |-> "B", params |-> <<Param("n", "number", TRUE, <<>>)>>, kind |-> "buffer", group |-> "config"],
    [name |-> "I", params |-> <<>>, kind |-> "local", group |-> "config"]}
MCOwnBlock(d) ==
    IF d = "d1"
    THEN {[name |-> "X", params |-> <<Param("args", "text", FALSE, <<>>)>>, kind |-> "device", group |-> "device"]}
    ELSE {}

(* "w" is any letter, "q" a quote, "b" a backslash. *)
MCTexts ==
    {<<>>} \cup UNION {[1..n -> {"w", " ", "q", "b"}] : n \in 1..2}
    \cup {<<"s", "w">>, <<"w", "b", "q">>, <<"w", "=", "s">>, <<"-", "-", "w">>}
PastedLines == {
    <<" ">>, <<"Z">>, <<"L", " ", "q">>, <<"X", " ", "-", "-", "a", " ", "q", " ", "w", "q">>,
    <<"L", " ", "-", "-", "o", " ", "-", "-", "n", " ", "w", " ", "w">>,
    <<"L", " ", "-", "-", "o", "=", "T", " ", "-", "-", "a">>,
    <<"L", " ", "-", "-", "o", " ", "w", " ", "-", "-", "w">>}
PastedObject == <<[key |-> "a", value |-> <<"w", " ", "b">>], [key |-> "o", value |-> <<"nested">>],
                  [key |-> "z", value |-> <<"nested">>], [key |-> "n", value |-> <<"1">>]>>
MCPastes == {[json |-> FALSE, text |-> t] : t \in PastedLines}
          \cup {[json |-> TRUE, name |-> n, entries |-> PastedObject] : n \in {"L", "X", "Q"}}

(* A profile that names its renderer, and one that names none; the board's pins. *)
MCModeOf(p) == IF p = "p" THEN "3d" ELSE "none"
MCDefaultPins == <<1>>

Lines == INSTANCE Terminal WITH missed <- blanks, shown <- card

Settings == INSTANCE DeviceSettings WITH ran <- done

Views == INSTANCE DeviceViews WITH MaxChanges <- MaxActs

Rates == INSTANCE StreamRates WITH Streams <- Devices

Manage == INSTANCE RelayManage WITH shown <- block, section <- part, command <- sent

ASSUME PagesAssumption == Rates!RatesAssumption

-----------------------------------------------------------------------------
Pages == {"command", "files", "apps", "terminal", "settings", "views", "rates", "manage"}

linesVars == <<target, table, asks, command, values, blanks, running, card, pins, turns>>
settingsVars == <<group, real, result, seen, seenResult, draft, dirty, pend, typed, meanwhile, saved,
                  lock, done, busy, waiting, section, refreshed, asked, control, monitor, tries, visits>>
viewsVars == <<cards, kept, streams, loaded, loads, link, picking, gl, changes>>
ratesVars == <<sends, linked, held, age, rate, reads, drawing, drawn, renders>>
manageVars == <<model, relay, block, part, confirming, sent, applying, answer, scanned>>

(* The state of every page but p stays. *)
Others(p) ==
    /\ UNCHANGED opened
    /\ IF p = "command" THEN TRUE ELSE UNCHANGED vars
    /\ IF p = "files" THEN TRUE ELSE UNCHANGED transferVars
    /\ IF p = "apps" THEN TRUE ELSE UNCHANGED appsVars
    /\ IF p = "terminal" THEN TRUE ELSE UNCHANGED linesVars
    /\ IF p = "settings" THEN TRUE ELSE UNCHANGED settingsVars
    /\ IF p = "views" THEN TRUE ELSE UNCHANGED viewsVars
    /\ IF p = "rates" THEN TRUE ELSE UNCHANGED ratesVars
    /\ IF p = "manage" THEN TRUE ELSE UNCHANGED manageVars

(* A board in use, or one with apps in no slot and no readouts: a bound, since the  *)
(* others are a few clicks away.                                                *)
InUse == board.slot \in {[p \in Packages |-> IF p \in Flows THEN n ELSE n - 1] : n \in {0, 1}}

(* The page opened begins in any of its initial states, the others in one. *)
PagesInit ==
    /\ opened \in Pages
    /\ Init          /\ (opened = "command" \/ (~stated /\ ~flaky))
    /\ TransferInit
    /\ AppsInit      /\ (IF opened = "apps" THEN InUse ELSE board.os = 0 /\ \A p \in Packages : board.slot[p] = -1)
    /\ Lines!TerminalInit
    /\ Settings!SetInit /\ (opened = "settings" \/ (group = "pins" /\ real = 0))
    /\ Views!ViewsInit  /\ (opened = "views" \/ (kept = <<>> /\ gl))
    /\ Rates!RatesInit  /\ (opened = "rates" \/ linked = {})
    /\ Manage!ManageInit /\ (opened = "manage" \/ model = "hub")

PagesNext ==
    \/ opened = "command" /\ Next /\ Others("command")
    \/ opened = "files" /\ TransferNext /\ Others("files")
    \/ opened = "apps" /\ AppsNext /\ Others("apps")
    \/ opened = "terminal" /\ Lines!TerminalNext /\ Others("terminal")
    \/ opened = "settings" /\ Settings!SetNext /\ Others("settings")
    \/ opened = "views" /\ Views!ViewsNext /\ Others("views")
    \/ opened = "rates" /\ Rates!RatesNext /\ Others("rates")
    \/ opened = "manage" /\ Manage!ManageNext /\ Others("manage")

everything == <<opened, vars, transferVars, appsVars, linesVars, settingsVars,
                viewsVars, ratesVars, manageVars>>

(* The fairness of each component's own specification. *)
PagesSpec ==
    /\ PagesInit /\ [][PagesNext]_everything
    /\ WF_transferVars(opened = "files" /\ Progress)
    /\ WF_appsVars(opened = "apps" /\ Pipe) /\ WF_appsVars(opened = "apps" /\ Tick)
    /\ WF_linesVars(opened = "terminal" /\ Lines!Queued)
    /\ WF_linesVars(opened = "terminal" /\ Lines!Poll)
    /\ WF_settingsVars(opened = "settings" /\ Settings!Ends)
    /\ WF_viewsVars(opened = "views" /\ \E i \in 1..2 : Views!GivesUp(i))
    /\ WF_ratesVars(opened = "rates" /\ Rates!Tick)
    /\ WF_manageVars(opened = "manage" /\ Manage!Tick)
    /\ WF_manageVars(opened = "manage" /\ Manage!GivesUp)

-----------------------------------------------------------------------------
(* The page opened keeps to its types, and so does the command of lib/deviceCommand.ts. *)
PagesTypeOK ==
    CASE opened = "command"  -> TypeOK
      [] opened = "files"    -> TransferTypeOK
      [] opened = "apps"     -> AppsTypeOK
      [] opened = "terminal" -> Lines!TerminalTypeOK
      [] opened = "settings" -> Settings!SetTypeOK
      [] opened = "views"    -> Views!ViewsTypeOK
      [] opened = "rates"    -> Rates!RatesTypeOK
      [] opened = "manage"   -> Manage!ManageTypeOK

(* The pages show the device they are about and what the operator did: the      *)
(* command table is the selected device's, in whatever order the tables come;    *)
(* what was typed while no Apply was on its way survives the statuses that come   *)
(* (TerminalPage.tsx, DeviceSettingsPage.tsx).                                    *)
PagesAreTrue == Lines!TableIsTheDevices /\ Settings!EditsSurviveStatus

(* Nothing is shown twice or says another thing than it stands for: a device has *)
(* one card at most, and a line of the terminal says to the device what the form  *)
(* says (VisualizationPage.tsx, terminalCommands.ts).                             *)
CardsAndLinesAreTrue ==
    /\ opened = "views" => Views!OneCardPerDevice
    /\ opened = "terminal" => Lines!LineReadsBack

(* What a page waits for or still has to show: a transfer, a terminal run, the  *)
(* settings' command lock, an update of a relay, the readout's new outputs, a   *)
(* flat view where 3D cannot be drawn, that a stream has stopped.               *)
Waiting ==
    CASE opened = "files"    -> op # "none"
      [] opened = "terminal" -> running # Lines!Still
      [] opened = "settings" -> lock # "none"
      [] opened = "manage"   -> applying.on
      [] opened = "apps"     -> Watching /\ preview.view # Outputs
      [] opened = "views"    -> Views!BlankIn3D("d1")
      [] opened = "rates"    -> Rates!ShownAlive("d1")
      [] OTHER -> FALSE

(* No page waits without end, whatever the device leaves unanswered: every     *)
(* command has its timeout, and each wait ends by it or by its answer (of the   *)
(* components: TransfersEnd, RunsEnd, LockComesFree, WaitEnds, PreviewFollows,  *)
(* FlatWithoutWebGL, SilenceIsShown).                                          *)
WaitsEnd == Waiting ~> ~Waiting
=============================================================================
