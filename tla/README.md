# New Horizons Desktop: a formal model

New Horizons Desktop is a Flask backend and a React WebUI for pressure-mat
devices. Devices reach the backend directly (UDP 13250, TCP 22345) or through a
*relay*: a Gateway (software) or a Hub (ESP-NOW), which keeps a WebSocket open
to `/gateway/ws`. Browsers hold one WebSocket to the backend, fetch lists and
files over HTTP, and send every command for a device through a queue of their own.

What goes wrong in such a program goes wrong between steps. In the backend, one
object, `NewHorizonsService`, holds the state under one re-entrant lock, and many
threads call into it: a check in one lock section and its use in the next, a session
that ends while another thread holds its sender, a message of a relay that overtakes
the device's own. In the browser there is one thread, but every `await`, effect, timer
and message may find a page other than the one it was started for: an answer to an
earlier choice, a status in the middle of an edit, a reply that comes after its timeout.

The modules here model these steps. TLC checks them on small instances; for the backend's
components, the browser's link and commands and most of the pages, TLAPS proves the main properties
for every instance.

Paths: `*.py` are in `src/backend/newhorizons_backend/`, `*.ts`, `*.tsx` and `*.mjs` in
`src/frontend/src/`, unless a path begins with `src/`.

## 1. The system

| Part | State | Operations | Talks to |
|---|---|---|---|
| Relay registry (`gateway_registry.py`) | `_gateways`, `_gateway_session_senders`, `_gateway_senders`, `_gateway_device_ids`, `_gateway_claims` | register and unregister sessions, heartbeats, replies, claims, removal, commands to relays | session threads call in; calls senders, presence, channel watch |
| Gateway session (`gateway_ws.py`) | `gateway_id`, socket | receive, dispatch, answer | registry, recording, reassembler |
| Device presence (`service.py`, `datagram_ingest.py`, `arduino_response.py`, `command_gating.py`) | `_devices`, `_latest_status`, direct sessions | record status, result and frame; watchdog | relays, UDP and TCP threads |
| Recording (`recording_session.py`, `recording_meta.py`, `service.py`) | `_recording_enabled`, `_recording_sessions`, a file and a meta per session | Start, Stop, drain, write a frame, finish | stream threads, HTTP, Timers |
| App events (`app_event_capture.py`, `app_event_log.py`) | per device the newest event, those written, those missing, the one held; the recording's frames | write what packets and replies bring, ask for the rest, mark what is lost | ingest threads, a poller, relays, the recording's files |
| Result reassembly (`result_chunks.py`) | `_buffers` per relay session | add, purge | session thread |
| Browser link (`ws.py`, `lib/wsClient.ts`, `lib/auth.tsx`) | a bounded queue per connection, subscriptions; socket, pending commands, the shown devices | log in, connect, resume, broadcast, snapshot, command, time out | service, every page |
| Device commands (`lib/deviceCommand.ts`, `publish_command` of `service.py`) | one call's request id, timers and polls; the recorded results | send, fall back to HTTP, poll, give up; direct TCP, then the relay | browser link, HTTP, every page about a device |
| Device pages (`DeviceFilesPage`, `AppInstallDialog`, `DeviceAppsPage`, `TerminalPage`, `DeviceSettingsPage`, `VisualizationPage`, the relay dialogs) | drafts, transfers, lists, cards, waits | what the user clicks; statuses, replies and timers that arrive | device commands, device statuses |
| Workbench (`SdkPage`, `sdk/lib/*.mjs`, `EmulatorPanel`, `CalibrationWorkbench`, `PressureCalibrationPanel`, `ProfilesPage`) | projects, graphs and simulators, calibration sessions, profiles | edit, compile, simulate, calibrate, save | device commands, storage, the server's calibration service |
| Server pages (`FilesPage`, `RecordingAnalysisTool`, its worker and chart) | selections, previews, loads, a view and a cursor | navigate, select, delete, load, play, export | HTTP |
| The rest | | | command catalog, discovery, identity and labels, update state, library and terminal services, texts: section 7 |

What is hard, and what makes each part correct:

- **Registry.** Two tables say who serves a device, a third value (the entry's
  `gateway_id`) shows it, and a fourth (`serving_devices`) lists it; sessions,
  heartbeats, replies, removals and failed commands write them from different
  threads. They should agree; no route may outlive its socket; a claim must get an
  outcome; a relay that is gone must be shown gone.
- **Presence.** Relays, the device itself and the watchdog write one entry.
  A device that is silent must go offline in time, one that is not must not be taken
  offline by a relay's outdated view, and its own word on its mode must
  win over a relay's while it is fresh.
- **Recording.** Frames are queued when Stop is pressed, so a recording goes on
  until the frame scanned at Stop. Start, Stop, timers, failures and frames in
  several threads meet here; recordings must not mix, none may be left open,
  every drain must end, and it must not cut off what it waits for.
- **App events.** The same event may come with a packet and with a reply, and both advance one number.
  Packets are lost, the device's ring overflows, the device restarts and the file fails. Each event must be written once, and
  one that is not must be marked as lost.
- **Reassembly.** Slices are lost, repeated and reordered. What is recorded must
  be a reply that was sent, whole.
- **Browser link.** A full queue drops its oldest event, a snapshot is read before it is
  queued, connections are lost and replaced, users log out in between. The newest entry
  must be shown in the end, unless as many events as the queue holds came after it, and the
  server must stream what is viewed.
- **Device commands.** One click may send a command over two ways, each of which the
  server may try over two paths, and hears of its outcome over four. A failure reported may be of a
  command that ran. It may run again only after a send that failed or a list that did not load,
  and success must be earned.
- **Device pages.** Chunks whose replies are lost, a source that changes during a
  download, forms under statuses, tables of a device that is no longer chosen,
  polls against clicks. What is shown must be the chosen device's, what is reported
  must have happened, and every wait must end.
- **Workbench.** Equal expressions become one node; presses and frames come in
  bursts; a calibration borrows the device's mode, a session and a pressure chamber.
  An app must compute what its source says; what was borrowed must be given back,
  however the flow ends; and what was saved must stay.
- **Server pages.** Every click starts requests whose answers come in any order. Lists,
  previews and charts must be of what is chosen now.

`PROJECT.json` lists the hazards found, at their lines, with the properties that
cover them, and says why a few have none.

## 2. The modules

| Module | What it is | Its code |
|---|---|---|
| `RelayRegistry` | the routing tables and the threads that write them | `gateway_registry.py`, `gateway_ws.py` |
| `DevicePresence` | one device's entry: online flags, clock and mode | `service.py` and others |
| `Recording` | recording sessions of one device | `recording_session.py`, `service.py` |
| `AppEvents` | the events of a device's apps on their way to the file beside a recording | `app_event_capture.py`, `app_event_log.py` |
| `ResultDelivery`, `ResultChunks` | the promise that a reply is recorded at most as often as each of its slices arrived; the reassembler, which implements it | `result_chunks.py` |
| `BrowserLink` | the WebSocket between the browser and the server, both sides, and the login | `wsClient.ts`, `auth.tsx`, `ws.py` |
| `CommandCall`, `DeviceCommand` | what a caller may be told (`Replies`) and the promise of one call; the call itself, which implements it | `deviceCommand.ts`, `service.py` |
| `FileTransfer` | uploads, downloads and installs, by commands that come to one of `Outcomes` | `deviceFileTransfer.ts`, `DeviceFilesPage.tsx`, `AppInstallDialog.tsx` |
| `DeviceApps` | the apps of a device, its lists and the live preview | `DeviceAppsPage.tsx`, `DeviceAppsPanel.tsx`, `DeviceAppLivePreview.tsx` |
| `CommandLine`, `Terminal` | the line and the form of a terminal command; the page | `terminalCommands.ts`, `TerminalPage.tsx` |
| `DeviceSettings` | forms against statuses, the lock of commands, sections | `DeviceSettingsPage.tsx` |
| `DeviceViews`, `StreamRates`, `PressureMatrix` | the cards of the visualization, what is said of each stream, the pictures of a matrix | `VisualizationPage.tsx`, `profileLayout.ts`, `pressureColor.ts` |
| `RelayManage` | the dialogs of a relay | `HubManageModal.tsx`, `GatewayManageModal.tsx`, `relayCommand.ts` |
| `FlowGraph`, `FlowCompiler`, `FlowMachine` | what a graph must be; the compiler of `.nhs` sources; the machine that runs a graph, beside one without sharing | `opset.mjs`, `validate.mjs`, `compile.mjs`, `simulate.mjs` |
| `StudioProjects` | drafts, their storage and digests | `SdkPage.tsx`, `sdkProject.ts`, `BuildPanel.tsx` |
| `RecordingPlayer`, `LivePlayer`, `GeneratedFeed` | the three ways to try an app | `EmulatorPanel.tsx`, `sdkEmulator.ts` |
| `Calibration`, `PressureCalibration` | the workbench's flows; the run with a pressure chamber | `CalibrationWorkbench.tsx`, `calibrationFlow.ts`, `DeviceSettingsPage.tsx` |
| `Profiles` | the profile editor | `ProfilesPage.tsx` |
| `ServerFiles` | the recordings kept on the server | `FilesPage.tsx` |
| `AnalysisLoads`, `Timeline` | where Data Analysis takes a recording from; the chart of it | `RecordingAnalysisTool.tsx`, `recordingWorker.ts`, `recordingAnalysis.ts` |

`MCRelayRegistry`, `MCRelayedDevice`, `MCIntake`, `MCDevicePages`, `MCStudio`, `MCWorkbench` and
`MCServerPages` are the instances for TLC. The proofs are in `RelayRegistryProofs`,
`DevicePresenceProofs`, `ResultChunksProofs`, `RecordingProofs`, `AppEventsProofs`,
`DevicePagesProofs` (`DeviceCommand`, `DeviceApps`, `FileTransfer`, `Terminal` and `DeviceSettings`), `ServerPagesProofs`
(`AnalysisLoads`, `ServerFiles`, `BrowserLink` and `RecordingPlayer`) and `WorkbenchProofs` (`GeneratedFeed`, `LivePlayer`,
`StudioProjects`, `PressureCalibration`, `Calibration` and the numbering of `PressureMatrix`). Where a property of a composition is proved, the composing module leaves
its constants open (the `.cfg` gives them their values, `MC...` definitions those that it cannot write down), so that the proof is
about every instance of it.

Conventions. In the backend an action is one lock section, or what lies between two
unlocked accesses; a handler with several of them has a program counter. In the
browser an action is one handler with the render and the effects it causes, up to the
next `await`, timer or message. A record or a table that only describes something
(versions, addresses, texts) is left out; a message is the few fields that the
guards look at. Each module starts with its constants and their assumption, then
variables, helpers, actions, the specification and the properties. A helper marked
"a plausible bug" is used by nobody: it is a mutant (section 3). Every definition that
stands for code has a line range in `PROJECT.json`.

`Faults`, `Allowed`, `Troubles` and `Timing` are sets of events a run may leave out. They are
not simplifications of the code: an event that is left out is one its environment
would have to cause (a second session, a full disk), or an interleaving of two
threads, and a property checked without it is a property of installations, or
schedules, without it. This is how the model separates what holds always from what
holds as long as nothing goes wrong. `Recording` and `AppEvents` choose in their `Init` whether such events happen in a behaviour
(`faults`, `trouble`), so that one run, and one theorem, speaks of both cases.

### The backend

`RelayRegistry`. `wire`, `peer` and `named` are the sockets; `pc`, `held`, `subject` and
`asked` the local state of a session's thread; the other variables are the service's
tables under their names. The handlers (`GatewaySocketSession._handle_json`): `Hello`;
`DeviceReport` (device hello, status, update progress); `Heartbeat`, `ReportChannel`,
`ReadSessionSender`, `ReregisterGateway`: a `gateway_status` in the four stretches of
`record_gateway_summary`; `ReplyCheck`, `ReplyRegister`: `register_gateway_reply`'s two lock
sections; `ClaimRequest`, `ClaimStore`, `ClaimSend`, `ClaimUpdate`: a claim; `Accept`, `Break`,
`Close`: the socket, where `Close` is `unregister_gateway_sender`, whole; `CommandFails`,
`GatewayCommandFails`, `DeleteGateway`, `DeviceSeen`: HTTP requests and the device's own
packets. Commands that are accepted change no table. A `Sockets` value is used again
once nothing refers to its old connection, so a small set stands for any number of
connections one after another.

`DevicePresence`. One device. A clock is an age in ticks of the watchdog's 5 s that stops
at a cap past every limit, so the state space is finite without a bound on time. `kept`
is `_latest_status`, the status later ones are merged with; `_record_status` reads it in
one lock section and writes in another (`ReadKept`, `WriteStatus`), so a thread has a
`job`. `heard`, `told` and `toldAge` are history: when the device was last heard of, and the
mode it last named itself.

`Recording`. One device and its sessions. `now` is the device's clock and the server's;
frames are the times they were scanned at; each arrives at a thread and waits in its
`backlog`. A thread's frame goes through `TakeFrame`, `LookUp` (unlocked), `Check`, `Create`,
`WriteRow`, `Count`, `EndDrain`: the lock sections and unlocked stretches of `_record_parsed`
and `_write_csv_sample`.

`AppEvents`. The device numbers frames and events from 1 (`frameOf`); `air` is the stream, `asks` and `replies` what is on its
way over a relay. The server's tables have their names without `_app_event_`; `first` and `last` are the `FrameClock`'s.
`Sample` and `Capture` are the two halves of a packet, between which a reply may be handled; `Take` is the handling of a reply,
with one disjunct for each write that may fail.

`ResultChunks`. `buffers` by request id. A slice's text is the reply it is cut from, so that
joining slices of two replies is visible as a mixture. `arrived` and `recorded` are history
variables, and exactly `ResultDelivery`'s variables: the refinement mapping is the identity.

`BrowserLink`. `up` and `down` are what is on the wire and in the bounded queue of each
connection, the ghost `behind` how many events were queued for it after its newest entry of the device, `served` and `task` the server's side of it; `shown` is the version of the followed
device's entry in the browser. `ReadDevices` and `PutAnswer` are the two steps of a snapshot,
between which a broadcast may be queued. `PostCommand` stands for a command to a Gateway by
HTTP whose answer and whose WebSocket result may come in either order.

### The browser

`DeviceCommand`. `phase` is where `queue` awaits, `copy` where the server's `publish_command` is for each way
(`"ws"`, `"rest"`). A copy that goes towards the device is a pair of a way and a path: `out` are the copies sent, `ran` those that
the device ran, `failed` those whose sending the server gave up. After a failure over `"tcp"`, which the device may have run, the same call goes
on over `"relay"`; and a way that is refused afterwards makes `queue` ask again over HTTP. `told` is the last result recorded for a way's request; a relay's
failure or timeout is recorded as an error of a command that the device may have run, before or after the device's own result.
`stated` says whether a state of the device, or a status taken for a pending command's result, can stand for the reply; `flaky`
whether the list of devices may fail to load.

`CommandCall` is what remains for a caller: up to four runs, a success that is earned, a failure that promises nothing. `FileTransfer` is modelled
on top of that promise. Each of its `Outcomes` says whether the command ran, what the caller was told, and whether a second copy
was `left`, which comes later (`ComesLate`); `error` does not mean that the command did not run. The ghost `missed` says of which of the two, the
mode or the file, a reply was lost, false or of an incomplete effect; `silent` that the device replaced the file while nothing
was asked of it.

`DeviceApps` has, beside the threads of the page (`PageThreads`), the thread `"install"` of the dialog that the page opens: it has a queue of its own and
takes none of the page's locks, so a preview's poll and a chunk of an installation may be on the device's pipe together (section 4). `NeverOverlap`
speaks of the page's own threads.

The pages. A module follows one page: what it shows and keeps (`panel`, `card`, `draft`, ...),
what is on its way to it (`asks`, `reads`, `at`, ...), the device or server as far as the page can tell, and
the clicks left. `DeviceSettings` follows one of its groups of fields in full, chosen in
`Init`, since the groups share nothing but the command lock. Its ghost `typed` is set by edits made while no Apply is on its way, `meanwhile` by those made
during one, which the code overwrites (section 4). `Calibration` has `dev`, the
device's session and mode, `wire`, the command in flight, which is the status read of a page just opened (`JustOpened`) at first, and `doing`, the flow;
turning the calibration on and off, previews and exports are left out. `PressureCalibration` has a `stage` for each `await` of its loop;
`maint` is the device's mode, which the run changes and does not change back; `unheard` says that the reply to a begin or an abort was lost; `ramp` is how many
readings the chamber takes to the test's target, after which it is near it. `FlowCompiler` compiles one statement per
step into `shared` and, without sharing, into the ghost `spelled`; `FlowMachine` runs both on
the same inputs. `RecordingPlayer`'s state of a simulation is the history it has seen,
which is what a scrub has to replay. `PressureMatrix`, `Timeline` and `CommandLine` are for the most
part pure functions, evaluated over small inputs that a step chooses.

### Composition

`App.tsx` mounts one page at a time, and pages share the link and the command queue, whose
promises they are modelled on. So `MCDevicePages`, `MCWorkbench` and `MCServerPages` have a variable
`opened` that says which page a behaviour is about; the others keep the state they begin
in, and one run goes through all behaviours of each component and no products of
them. `MCIntake` does the same (`part`) for recordings, with and without faults, and app
events, `MCRelayRegistry` for the routing tables and reassembly, and `MCRelayedDevice` for the entry of a device with concurrent messages, the tables
under faults, and the mode of a device whose messages come one at a time (`Sole`, a second instance of `DevicePresence`).
Their properties are conjunctions of the components' own, guarded by `opened`.

## 3. The runs

"Pass" runs check properties that hold. Each of their properties has a *mutant*: a
plausible bug in one helper, defined before it, with which TLC finds
the property violated. "Violation" runs show a disagreement between the code and
what the repository says of it, and are kept so that a fix can be checked.

| Run | Instance | Shows |
|---|---|---|
| `relay_calm` | Gateway, Hub, 2 sockets, 1 device, 1 claim; no faults; fair. Reassembly: 3 replies of 2, 3 and 1 slices to 2 requests, each slice up to twice | `OnlineIsOwnSession`, `RoutesReachTheirRelay`, `TablesAgree`, `RoutesOutliveNothing`: tables, sockets and entries agree. `ClaimSettles`, `LossIsNoticed`: what is pending or lost is settled. `RepliesAreWhole`: replies are recorded whole (with the refinement of `ResultDelivery`) |
| `relay_rough` | three parts that share no state. The entry: 2 Gateways and the UDP thread, concurrently. The tables: Gateway, Hub, 2 sockets, 1 device; removal of connected relays, messages before the hello, failing commands. The mode: a Hub and the UDP thread, one message at a time; 2 modes; failing TCP commands and relayed failures | `SilentGoesOffline`, `OfflineHasAReason`; `RoutesOutliveNothing`: `RouteHasSender`, `NoSessionBehindOffline` and `RoutesAreLive`; `ModeIsTheDevices`: `FreshModeIsTheDevices` of the third part |
| `intake` | recordings: 1 thread, 2 sessions, 4 ticks, no faults; 3 ticks, Stop while files are opened, full disk. Events: a ring of 2; 5 frames, 5 events, no troubles; 3 frames, 3 events, restart and full disk; 3 frames, 2 events, late replies too | `RecordingsInOrder`, `FilesHoldTheirRecording`, `EventsAreAccountedFor`, `WaitsEnd` |
| `device_pages` | one page about a device at a time, see `MCDevicePages` | `RerunsHaveAReason`, `RepliesAreEarned` (the refinement of `CommandCall`), `NeverOverlap`, `TransfersAreWhole`, `PagesAreTrue` (terminal and settings), `CardsAndLinesAreTrue` (visualization and command line), `WaitsEnd` |
| `workbench` | 119 programs from 14 pieces of the language, 3 inputs; 2 drafts; 8 frames; 2 levels and 2 sensors; matrices up to 3 by 3 | `CompiledIsAccepted`, `AppsRunAsWritten`, `InputsAreCounted`, `BorrowedIsGivenBack`, `AnswersAreForTheirSubject`, `PicturesAreTrue`, `StoredStays` |
| `server_pages` | 2 connections, a queue of 2; 2 hosts with 3 recordings, 4 clicks; 2 devices and days, 2 loads; sample files of up to 4 lines; 2 recordings of 3 and 2 frames | `BrowserIsUpToDate`, `PanesFollowTheSelection`, `ListsAreOfTheChoice`, `OneRecordingShown`, `RecordingsAreShownTrue` (the replay), `ChartsAreTrue` (the chart and what it exports), `WaitsEnd` |
| `relay_reply_steals` | as `relay_calm` without claims | `ReplyLeavesTheServingRelay` is violated |
| `presence_failure_reply` | 1 Gateway, relayed failures | `SilentGoesOffline` is violated |
| `rec_late_stop` | 1 thread, 2 sessions, Stop while files are opened | `StartBeginsAFile` is violated |
| `events_late_reply` | 4 frames, 2 events, a device behind a relay | `WrittenOnce` is violated |
| `shared_node` | the programs of `workbench` | `GatesHoldTheirBlockOnly` is violated |
| `install_overlaps_poll` | `DeviceApps` alone, with the constants of `device_pages` | `InstallsNeverOverlap` is violated |

`relay_calm`, `relay_rough`, `device_pages` and `workbench` also check a type invariant by its name; in `intake` and `server_pages`
it is a part of `RecordingsInOrder`, `EventsAreAccountedFor` and `ChartsAreTrue`.

### Bounds

- *Relays, sockets.* The properties of the registry relate one device or one relay
  to one or two sessions. Two relays, one of each kind, and two sockets allow two relays
  to compete for a device, and (with `overlap`) two sessions of one relay; the proofs
  then cover every number.
- *One device, one claim.* No handler relates two devices or two claims, except that a
  heartbeat and a lost socket handle several in one step, each on its own.
- *Presence.* The real limits, in ticks of 5 s: 5 s of grace (1), 12 s until stale
  (2), a check every 5 s (1), 15 s of freshness (3). `relay_rough` explores two messages being
  handled at once (`TwoAtOnce`, a guard of `MCRelayedDevice`): the lost updates of `_record_status` need two; the proofs have no such
  bound. The one relay of the part `"mode"` names any mode in each report, as several would one after
  another; that part's limits are shorter: 10 s of freshness, and no grace nor timeout, on which the mode does not depend.
- *Recording.* `MaxTime` bounds the frames scanned: with 4 ticks there is a first frame, a
  delayed one, one scanned at Stop and one after it. Two sessions: one that ends and its
  successor, again and again, since a session that is through is used again.
- *App events.* A gap takes an event before it, a lost packet and an event after it: three of five
  frames. The ring is smaller than the gaps, so that some events are gone when they are asked for. An event is
  not raised while it would push one whose packet is still on its way out of the ring: the real ring holds 32, and a packet is
  on its way for less than it takes to raise as many. One restart, when nothing is on its way.
- *Reassembly.* `MaxArrivals = 2` allows every slice to be repeated; a reply lost is one whose
  slices do not come. Two replies to one request of different length are what a device
  that answers twice sends.
- *Link.* Two connections: the one in use and the one that replaces it. One break and one login
  are enough for every state of a connection to meet the loss of it. `QueueSize` 2 is less than what
  a snapshot, the answer that a command is queued, its result and a change put there, so the queue overflows and may also drop
  the newest entry; the proof is for every size.
- *Pages.* Clicks, losses and changes on the device's side are bounded (`MaxClicks`, `MaxLost`,
  `MaxFaults`, ...): two or three of each, since what goes wrong takes one request, one choice made
  while it is on its way, and one loss or late answer. Two devices, days, drafts or levels are the
  one chosen and the one chosen before. Files have two chunks: the first, which opens the transfer, and a last.
  A transfer has one change of the file it reads (`MaxChanges`) and one command with a copy still on its way (`MaxLate`), since one late
  copy suffices to undo what an operation did; the proofs are for every number of them. The apps have two clicks (`MaxJobs`), enough for
  a command of the page, an installation and the preview to be under way at once, and one answer lost (`MaxLost`).
- *Chamber.* Two near readings in a row are stable (`Samples`; the code's five), three readings are a wait (`MaxTicks`), and the
  chamber reaches the test's target after 0 to `TooLong` readings, where the longest leaves the test too few. A run, a second one, and one loss.
- *Programs.* Each of the 14 pieces stands for a construct of the language with its own rule in the
  compiler or the machine (sweeps, hysteresis, holds, windows, counters and presses, persistence,
  the screen, gates, events, the IMU, features); pairs let two of them share nodes or fall on the two sides of a gate.
  Equal counters with and without `persist`, which do share a node, are among the pairs. The clock
  counts to 16 and begins at 13, so that it wraps.
- *Pure functions.* Matrices up to 3 by 3, files of up to four lines, and texts of the
  character classes that the quoting rules tell apart, as pairs.
- `SYMMETRY` is used for sockets, devices, Gateways, sessions and threads that differ
  in nothing else, and never with liveness.

### Fairness

`RelayRegistry.FairSpec`: a handler that is under way continues (weak fairness: the
lock is released in every handler, and sends time out). A lost socket is closed in the
end: its thread handles the messages it had already received, which are
finitely many, and then `receive()` raises; as the backlog is not modelled, this is
strong fairness of `Close`. Relays are not assumed to send, nor browsers to ask.

`MCIntake`: threads handle the frames they have, timers fire, and a session
taken out is closed. Neither frames nor users are assumed to come. For events: packets that have come are
handled, and the poller asks again and again while a recording goes on (`_app_event_loop`, every 0.5 or 5 s),
also after the event that is held has waited for `APP_EVENT_HOLD_SEC`; a relay passes on what it is given. Packets
are not assumed to arrive.

The pages: a command ends by its answer or its timeout (`queue` always returns), a request over HTTP
is answered or fails, and the page's timers fire. For `BrowserLink`: the reconnection timer fires, a
socket's events come, and the server's threads go on. No user is assumed to
do anything. Without a user `WaitsEnd` therefore says that a wait ends of itself.

`relay_rough` checks safety only: `SilentGoesOffline` is stated by ages, and the
watchdog's regularity is part of `Tick` (time does not pass over a check that is due).

Deadlock is checked for the backend. The pages may stop: their clicks are bounded, and a user may
leave a page as it is.

## 4. What the code does not do

Findings, each with a run (`PROJECT.json` quotes the lines):

1. `relay_reply_steals`. `register_gateway_reply` decides in one lock section and registers
   in another; a relay that began to serve the device in between loses it to the replier.
2. `presence_failure_reply`. A failure that a relay reports for a device is not
   counted as a sign of life by `_payload_is_live`, but has been by then:
   `register_gateway_reply` records a presence, which stamps `last_live_seen_at`.
3. `rec_late_stop`. A Stop between `_write_csv_sample`'s check and its store leaves a session
   behind that no Stop ends, and the next recording's frames go to its file.
4. `events_late_reply`. A reply to `app_events` that newer events of the stream have overtaken on its way
   over a relay is taken for a restart of the device: the numbers written and missing are forgotten, an event is written
   again, and a gap is left without a mark.
5. `shared_node`. An expression written inside a gate and again outside it is one node of the
   graph, the gate's; outside too it holds its last value while the gate is closed.

6. `install_overlaps_poll`. A comment of `DeviceAppsPage.tsx` (25-28) says that every chunk of an install waits out a poll; the dialog's queue
   (`AppInstallDialog.tsx:66`) is not the page's wrapper and waits for nothing.

Observations in the backend, to be reproduced by changing `Faults`, `Allowed`, `Troubles` or `Threads` in a run's
configuration:

- `{"sendfail"}` violates `ChannelNeedsConnection`: `publish_gateway_command` drops the session
  (`gateway_registry.py:191`), so closing the socket no longer finds the relay and neither
  clears its channel nor shows it offline (625-639).
- `{"overlap"}` violates `RoutesAreLive`: a heartbeat's unlocked read (350-352) brings a closed
  session back.
- Deleting a connected relay leaves, after its next heartbeat, a placeholder sender that
  swallows commands reported as queued (350-352, 150-153).
- `{"concurrent"}` with two modes violates `FreshModeIsTheDevices`: `_record_status` loses an
  update between its two lock sections.
- `{"tcpfail"}` violates `SilentGoesOffline`: the `live_seen: False` of a failed TCP command is kept
  and merged into later statuses, which then no longer count as live, while the entry is
  shown connected; the watchdog spares entries whose clock is unset or recent
  (`service.py:298-308`).
- Two threads violate `OnlyCrashesLeaveFilesOpen`: both find no session and make one each; the
  first one's is overwritten and never ended.
- `{"diskfull"}` violates `FinishingIsWriting`: the error path ends a drain without clearing
  `recording_finishing` (`datagram_ingest.py:195-203`), and the UI keeps Record disabled.
- `MetaCountsTheRows` of `Recording` fails: a row dropped by a closed writer is counted all the same
  (`recording_session.py:56`), and one written just before the close may not be.
- `AppEvents`, `{"restart"}` (5 frames, 4 events, ring and `MaxInAir` 2): `WrittenOnce` and `NoSilentGap` fail after a restart. A number of
  the new boot that was written in the old one is taken for known (`app_event_capture.py:168`), and the event is dropped; and
  when a reply brings an event of the new boot before an older one comes with the stream, the older one resets the numbers and
  the newer one is written again. The tests restart from 40 to 1, where neither shows. `MarkComesBack` holds: the next
  reply shows that the device counts again.
- `AppEvents`, `{"diskfull"}` (the same bounds) violates `NoSilentGap`: a marker that can not be written is not tried again
  (250-253), although its events are written and move the number on.
- Not stated as properties: the first event of a recording is lost silently if its packet is, and the device had none before
  (`high` is 0, 174); Stop drops what is missing without a mark; and the poller may end itself between Start's look at
  it and its own at the recordings (59, 70-74), after which nobody asks until the next Start.
- `begin_drain` estimates the backlog by the lag of the last frame *written*
  (`recording_session.py:164-169`): frames that queue up after a frame without lag are not
  waited for.

Observations about commands and what is built on them. The properties that hold name these cases as their exceptions:

- A command asked for once may run up to four times: direct TCP fails after the device ran it and the same call goes on over the relay
  (`service.py:594-656`), and the error frame of a refused WebSocket command makes the browser ask again over HTTP (`deviceCommand.ts:91`), which goes the
  same two paths. `RerunsHaveAReason` counts the reasons.
- A relay's timeout is an ordinary result with status `error` (`service.py:98-110`). An installation whose `enter_maintenance` ran but is answered that way
  ends without `exit_maintenance`, and the device stays in maintenance, though `AppInstallDialog.tsx:140` says "Leave the device the way we found it, even after a
  failure." So does one whose exit is lost (`ModeIsRestored` excepts `"mode" \in missed`). In the same way a flow of the workbench does not give maintenance
  back when a reply of it is lost.
- The chamber run enters maintenance (`DeviceSettingsPage.tsx:585`), and nothing of 569-709 leaves it again, however it ends. No property says that it does.
- A download continues after a failed chunk when the file has the size it had (`DeviceFilesPage.tsx:278-285`), so versions of equal size
  may be spliced, which the comment there calls worse than failing. `NeverSpliced` therefore compares sizes.
- What is edited while an Apply of the settings is on its way is overwritten by the status that confirms it, or counted as applied
  (`DeviceSettingsPage.tsx:1266-1298, 1697-1707`): the inputs stay enabled. `EditsSurviveStatus` speaks of what was typed while no Apply was
  on its way; the ghost `meanwhile` marks the others.
- Two equal counters of an app, one of which has `persist`, are one node of the graph, and the one without survives a restart with it
  (`compile.mjs:455-477`; the comment there says so). `FlowMachine.Persistent` gives the graph without sharing the same
  persistence, so that `AppsRunAsWritten` compares the rest.

Observations in the browser. Each is a property that its module states and no run checks, since it
fails; adding it to the cfg (or to a cfg of the module alone) gives the trace:

- `AnalysisLoads.LateFileDoesNotReplace`: loads are not numbered, so a slow file that finishes
  late replaces the one asked for after it (`RecordingAnalysisTool.tsx:112-113`).
- `ServerFiles.DeletesWhatIsListed`: a deletion confirmed while another device's list is on its way
  goes to the device selected, with the paths of the one listed (`FilesPage.tsx:177-195, 420-431`).
- `BrowserLink`, `Timing = {"overlap"}`: a change broadcast between the reading of a snapshot and its
  queueing is overtaken by the older snapshot (`ws.py:243`); `NewestIsShownInTheEnd` fails.
  `{"lateclose"}`: the close event of a replaced socket marks the new connection as lost
  (`wsClient.ts:190`); `LinkComesBack` fails.
- `BrowserLink`: an entry that `QueueSize` (128) other events were queued behind is dropped while the browser does not
  read, and is not sent again until the device changes (`ws.py:66-76`). `NewestIsShownInTheEnd` excepts this case
  (`behind`); without the exception it fails.
- `BrowserLink.ResultsReachTheCaller`: a Gateway's result that overtakes the HTTP answer
  with the request's id finds nobody waiting for it.
- `RelayManage.ReportedFailureEnds`: an update that fails with the words of the failure before it is
  waited for until the timer ends.
- `LivePlayer.FreshAfterReset`: after a reset the screen keeps the old simulator's picture until
  the timer paints again.
- `Calibration.ReplyGivesWay`: replies are compared with snapshots by key, and an older
  snapshot that comes back brings the reply back with it.
- `PressureCalibration.OnlyDepletedStops`: a missed reading or an emergency stop ends control with
  pressure behind the valve, of which the code's comment speaks without exception.
- `StudioProjects.ExportsMatch`: source and package offered for the App Library are of different
  versions while the analysis is debounced.
- `DeviceApps`: a click while a poll is out waits for it, and until then the buttons
  stay enabled, so a second command can be asked for; an app list that times out empties the panel.
- `ServerFiles`: raw rows that fail to load leave the earlier ones on screen.

## 5. What is proved

Checked by TLAPS (Z3, Zenon, LS4), for all values of the constants that satisfy the named
assumptions of the modules: that the sentinel values (`NoRelay`, `NoSender`, `NoSession`, `NoReply`, ...) are no relays,
sockets, sessions, ..., that Hubs are relays, that bounds and numbers of slices are numbers, that the watchdog's grace
does not exceed the stale timeout, that a file has chunks, that a stable chamber can be seen within a wait, that a queue has room for one event. `DeviceCommand`, `DeviceApps`, `AnalysisLoads` and `ServerFiles` need no assumption. What else
a theorem assumes is said with it.

### The backend

**`RelayRegistryProofs`**, for all `Faults`:
`TypeCorrect`, `AssignedDevicesHaveSenders` (`RouteHasSender`) and `OfflineRelaysHaveNoSession`
(`NoSessionBehindOffline`, both parts of `RoutesOutliveNothing`). Types need one more fact to be inductive: a connected socket
has a relay as its peer, and a thread that is in a handler has a connected socket
(`Peered`). The other two are inductive given the types.

`RoutesEndWithTheirSocket` (`RoutesAreLive`), assuming only that sessions of one relay do not overlap: also when relays are removed while
connected, send before their hello, or get commands in vain. Routes are written from what a heartbeat read some steps
earlier, so the invariant `LiveInv` says that a relay has one socket at a time, that a registered session is the live
socket of its relay, and that what a heartbeat holds is its own socket, the placeholder, or nothing. `NothingIsOutlived`
(`RoutesOutliveNothing`) puts the three together.

Assuming `Faults = {}`: `CalmSessions` (`OnlineIsOwnSession`), `CalmRoutes` (`RoutesReachTheirRelay`), `CalmRelays`
(`TablesAgree`). None of these is inductive:
that a route's sender is its relay's session has to survive the heartbeat's four steps,
between which the socket may break and others may connect. The invariant `CalmInv` says
that a relay has one live socket at a time, that the socket which said hello is the
registered session and the other way round, that online means registered, that each route goes
over the session of the relay it names, which the entry shows, and (`HandlersNamed`) that
what a heartbeat read is still its own socket when it registers it: no other thread can
replace a session whose socket is alive. Claims are on top of it: a handler that stores one is of a relay that is online.

**`DevicePresenceProofs`**:
`PresenceTypes` for everything allowed. `SilentDevicesGoOffline` (`SilentGoesOffline`) and
`OfflineNeedsAReason` (the action property `OfflineHasAReason`), assuming that no command
fails (`Allowed \subseteq {"concurrent"}`). Their invariant `HealthyInv`: the entry's clock
is the device's; one online flag does not outlast the other; while it is shown online
its clock and the time to the next check together stay below the bound (the watchdog
renews the second exactly when the first is within the timeout; the grace only applies
below the timeout, hence the assumption `Grace <= StaleTimeout`); no status kept or under way
says "gone"; and the relay that serves the device is the one its entry
names, so that a session that ends may take it offline. `FreshModeIsShown`
(`FreshModeIsTheDevices`), assuming messages are handled one at a time but failures of
all kinds: the status kept is in the mode the device last named, the entry's own clock of it
does not run ahead (`ModeShown`), and a status being merged was read from the kept
one (`OneAtATime`), which is what fails with `"concurrent"`. `relay_rough` checks it as `ModeIsTheDevices`.

`RoughRelaysLeaveNothing` (`RoutesOutliveNothing` of `MCRelayedDevice`) is about the composition that `relay_rough` checks: the entry of a
device and the tables, under every fault but overlapping sessions. Nothing is proved about the tables a second time: `RelayRegistryProofs` is instantiated
with the composition's constants, its behaviours are shown to be behaviours of the registry with stutters (`TablesAreComposed`), and
the theorem above is cited for them.

**`ResultChunksProofs`**: `ReassemblyKeepsThePromise` (`RepliesAreWhole`): the reassembler implements `ResultDelivery`,
for any requests, replies and slices, however they are lost, repeated and reordered, assuming `RepliesTellApart`: a request is
answered once, or by replies of different length. (Two replies of the same length are indeed mixed: their slices have nothing
to tell them apart.) The invariant: a buffer holds slices of one reply (`OfOneReply`), no buffer is complete
(`NoWholeBufferWaits`), and each slice has arrived as often as its reply was recorded, and once more if it is in the buffer
(`EachHasArrived`): a slice that came twice does not stand for a lost one.

**`RecordingProofs`**: `RecordingTypes` for any number of threads. `RecordingsStayInOrder` (`RecordingsInOrder`) and
`FilesAreComplete` (the action property `FilesHoldTheirRecording`), assuming `OneThread`: all frames of the device come over one
thread, as those of one UDP socket or one relay do. Two threads violate the first (section 4). It holds for all `Faults`:
a thread that creates a session found none (`OneAtATime`), so that no open one is ever overwritten. That a drain which ends of itself leaves
out no frame scanned until Stop rests on the order of the stream (`FramesInOrder`): what a thread has in its backlog is newer than
the frame it is at, and every frame scanned is in the backlog or handled; so at the frame that ends a drain nothing as old as
Stop is left to come. `RecordingInv` is the conjunction; without faults a session also means that the device is recorded or drains.

**`AppEventsProofs`**: `EventsTypes` for everything, and `NoEventIsForgotten` (`EventsAreAccountedFor`), for any numbers of
frames and events and a ring of any size. For a device reached directly, before it restarts, packets may be lost and the file
may fail (`"diskfull"`); if only packets are lost, nothing is left out without a mark either. The invariant `EventsInv`:
- `StreamInOrder`: packets come in the order of their frames, each with the events of the frame before, and an event whose
  packet is on its way is still in the ring;
- `MarksInOrder`: what is known was raised, and an event still to come which is not newer than the newest known has been written by a
  reply, so that the packet writes nothing twice;
- `MissingInOrder`: a missing event is older than all to come, and the least of them is asked for, with all newer ones, so that a reply
  either brings it or shows that the ring lost it;
- `FileInOrder`: the file has one row of what is written, and none of what is said to be lost, which has left the ring for good;
- `NoneForgotten` (no troubles): from an event that is known on, each up to the newest is written, missing or lost.

Each step of a reply that may fail keeps the first four whichever of its writes fails. The least and the greatest of a set of
numbers come from well-founded induction over a relation on the naturals (`MinOf`, `MaxOf`).

### The browser

**`DevicePagesProofs`**: `DeviceCommandTypes`, `CommandRerunsHaveAReason` (`RerunsHaveAReason`) and `QueueKeepsThePromise`
(`RepliesAreEarned`: `DeviceCommand` implements `CommandCall`). That a command runs again only for a reason is not
inductive: what was sent and not yet run must be counted, too. The invariant `CopiesInv` says that of the copies of one way only that of the
path which has not failed is counted on, that without a failing list HTTP is taken only if the WebSocket's copies were never sent or have all
failed, and that a word of success was earned. So all copies but one (but two, if a list failed to load) have failed, and
`Runs` counts the rest: `FewCopies` and `AllButFew` do this for a set of four pairs. For the refinement, a copy that ran is a run (`SomeRan`), and
a step of the detailed call is a step of the promise or stutters (`StepsKeepThePromise`), case by case.

`PollsAndCommandsTakeTurns` (`NeverOverlap` of `DeviceApps`), for any slots, packages and clicks, and whatever is installed meanwhile. A poll goes out
only when no thread of the page waits for anything, and a command that is asked for while one is out waits; all other
steps of such a thread need a command on the wire, and so no poll. What the dialog does leaves the page's threads as they are (`TheDialogIsApart`), and
nothing is claimed of its own commands: `install_overlaps_poll` shows that they do overlap.

`TransferTypes`, `InstallsKeepTheirWord` (`SuccessIsReal` and `ModeIsRestored`) and `DownloadsAreOfOneSize`
(`TransfersAreWhole`), for files of any number of chunks and any number of copies that come late. The invariant `TransferInv`:
- `StepsOfOperations` and `Positions`: each step belongs to its operation, and the chunk to be sent or fetched is in the file;
- `Ghosts`: what is still on its way from an earlier command has been missed;
- `WrittenSoFar`: as long as the replies about the file are true and complete, the device has the chunks sent before the one at hand, so that the last one
  completes the file;
- `ModeIsKnown`: as long as those about the mode are, the device is in maintenance exactly while the installation that put it there has not restored it;
- `ReadIsOfOne`: the chunks a download holds are of versions of the size told when it began, unless the device
  replaced the file without a restart while nothing was asked of it (`silent`, which `NeverSpliced` excepts).

The size is all that `downloadFileBytes` compares when it begins again, and all that is claimed.

`PagesShowTheirDevice` (`PagesAreTrue`) is about the composition of the pages, for any devices, fields, values and bounds. Of the terminal
it needs `AsksInv`: a request for a table of commands that may still land was made for the device chosen now, because a choice
kills the requests of the one before. Of the settings it needs `TypedInv`: what was typed while no Apply was on its way, and has not arrived, is in
the draft, the form knows that it was changed, and an Apply of a scan that is pending is an Apply of it; a rendering (`RenderedStays`) keeps
the draft of such a form, or takes it for arrived.

**`ServerPagesProofs`**: `OfferedIsOfTheChoice` (`ListsAreOfTheChoice` of `AnalysisLoads`), whatever the devices hold. The
invariant `WantedAreOfTheChoice`: the lists still wanted are of the device chosen, those with names of the
day chosen, and while the days are on their way nothing else is asked. `ShownTogether`
(`OneRecordingShown`): only the last step of a load changes the screen, all parts at once.

`PanesShowTheSelection` (`PanesFollowTheSelection` of `ServerFiles`), for any files, folders, clicks and failures. Each pane numbers its requests.
The invariant `PanesInv`: an answer on its way that bears the pane's newest number was asked for the pane's recording, and what is shown, once
nothing newer is awaited, was too. A selection that turns a pane to another recording takes a new number, which makes every answer
under way an old one; an old answer is dropped.

`LinkTypes`, `StreamsFollowThePage` (`StreamsWhatIsViewed`) for any sizes and `Timing`, and `BrowserStaysUpToDate`
(`BrowserIsUpToDate`), assuming `"overlap" \notin Timing`, which fails otherwise (section 4). `ConnectionsInv` says that one connection is alive
at a time, the module's `socket` (`OneLink`), that those served are open, and that the server keeps nothing of the others
(`ServedAreOpen`). `StreamInv`: the device is wanted exactly while a page shows it, and what the last message under way asks for, or else
what the server does, agrees. `EntryInv`: a snapshot about to be queued is of the device as it is; in a queue that holds an entry, exactly
`behind` events follow the newest one, which is the device's. A full queue gives up its first event, so the newest entry is lost only when
`behind` has reached `QueueSize`. The lemmas `LastAfterAppend`, `LastAfterTail` and `LastExists` say where the last message of a kind is;
that there is one comes from well-founded induction.

`ScrubbingReplays` (`RecordingsAreShownTrue`), for any recordings, budgets and numbers of edits. The app's state in `RecordingPlayer` is the
history of inputs it was given, so the property is that this history is the recording's frames up to the one shown, with the presses
made at each. The invariant `PlayerInv` adds the types and that what is being loaded is a recording. A scrub
back begins anew and feeds the frames from the start, one forward those in between (`SeekShows`): what was fed is the replay up to
the cursor either way (`ReplayIs`), and a new package, or presses changed, begin anew too.

**`WorkbenchProofs`**. Each page is proved about alone, with an invariant of its own, and a behaviour of the composition is page by page one of
the page alone, with stutters (`FeedIsComposed`, `LiveIsComposed`, `ProjectsAreComposed`, `BenchIsComposed`, `FittingIsComposed`). The
composed theorems are `InputsComeOnce` (`InputsAreCounted`), `CalibrationsGiveBack` (`BorrowedIsGivenBack`), `LateAnswersFit`
(`AnswersAreForTheirSubject`) and `SavedProjectsStay` (the action property `StoredStays`). They rest on:

- `FeedStaysInTime`: a press rises and fades as the product of two numbers of bounded range (`ProductIsBounded`), and a run of the timer
  leaves the next frame due after the clock, because what a sleeping tab missed is dropped (`FeedInv`).
- `LostFramesAreCounted`: the device's counter is ahead of the last one received by the frames lost and one, up to one turn
  (`NumberedByLosses`). The tracker's remainder is then the number lost, as long as fewer than half a turn are, and a restart
  is a jump of more than that (`JumpIs`).
- `DigestComesLast`: the package analysed last is hashed or about to be, and of the hashes under way only those of it may land
  (`NewestLands`). A stored project is a draft, or was deleted (`StoredIsHad`); deleting one keeps every other (`RemovalKeepsTheRest`).
- `ChamberIsGivenBack`: a session is one the run has started, or a panel that was left is still to abort it, or the reply to its begin or to
  an abort was lost (`unheard`), and no dialog is open over a run (`SessionIsTheRuns`); a press of the confirm button is for the level at hand or already
  forgotten (`PressIsForTheLevel`); and in the residual test every reading of a chamber under pressure is near from the end of its ramp on
  (`TestReadsPressure`), so that a chamber which gets there with `Samples` readings left is found. Once such a reply is lost a session may
  stay, and `NoSessionLeftOpen` does not claim otherwise; nor does any theorem claim that the run gives the mode back.
- `MaintenanceComesBack`: for each command of each flow, what the device's mode and session are before it is sent (`Due`) and after
  it ran (`Ran`), in terms of what the flow found (`wasMaint`), what the operator wants (`wanted`) and whether the page put the device
  there (`entered`). Between flows that is `Rest`; a flow that took maintenance for itself has `Borrowed`, and only the commands that end it
  give it back. Refusals by the device are among the outcomes; as in the property, nothing was lost so far (no reply, restart or remount of the page).

Of `PicturesAreTrue`, one conjunct and half of another are proved, for matrices of any size. `SensorsHaveOneNumber`: a cell's row and column are the
quotient and the remainder of its number (`NumbersAreCells`), whether counted along rows, as the stream does, or along columns,
as the calibration does, and mirroring is its own inverse (`MirroringMovesCells`). `NumbersAgree` draws `LabelsAgree` from it. `SurfaceMeetsTheValues`
is what `SurfaceIsMeasured` says of the values drawn: at a corner the weights of the three other values are 0 and the measured one's is `steps * steps`, at the
rim too, where the neighbours are clamped to the matrix (`ClampedIs`).

## 6. What is only model-checked

- Liveness (`ClaimSettles`, `LossIsNoticed`, `WaitsEnd`), which TLAPS does not do under fairness.
- What the compiler and the machine compute (`CompiledIsAccepted`, `AppsRunAsWritten`): they are folds over programs and graphs, and
  induction over data is out of the prover's reach.
- `CardsAndLinesAreTrue`: that a line reads back is about parsing a text character by character (a fold), and that a device has one card
  about sequences filtered by `SelectSeq`, of which the provers know nothing.
- The rest of `PicturesAreTrue`: what mirroring does to a picture (a sum over a set), the triangles of a surface,
  profiles that are written and read back, and the cells of a calibration
  (`CellsAreTheDevices`), which is stated for at most one lost reply. With two it fails: the page takes cells for the
  device's when there are as many as the device counts (`CalibrationWorkbench.tsx:243-247`), and when the replies to a delete and to the next capture are both
  lost, the old cells stay beside an equal number.
- `ChartsAreTrue`: buckets of a chart and ranges of a file, as numbers computed from small files.
- The type invariants of the compositions (`PagesTypeOK`). The components proved about have theirs within their invariants.

## 7. What is not modelled

- Parsing and formatting of packets, statuses and texts; drawing; statistics: pure functions of data, for unit tests.
- Authentication, HTTP validation, discovery sockets, the services for calibration, terminal and app
  library: I/O around the calls modelled here.
- The server's pending commands and the command catalog (`command_gating.py`, `device_commands.py`):
  `DeviceCommand` takes what they answer as possible results (`Recorded`), with `stated` for a status that is taken for a result.
- Of app events: their contents and times, the poller's thread, the limits of 64 requests and 1024 numbers,
  which the bounds do not reach, and what Start and Stop do to the numbers (a recording goes on throughout).
- The Hubs' channel environments, labels, update states, the timeline files of finished recordings.
- `NewHorizonsService.stop()`, which only tests call. Frames without the device's clock: their recordings
  never drain; otherwise the same.
- What relays and devices do inside: modelled by the messages they may send and by what the code in
  `src/` expects of them. Of `mock_device.py`, only its answers to calibration and app commands.
- Of the modelled pages: fields of forms that no property tells apart, and requests that a page repeats
  on its own to refresh what it shows (the hardware section of the device settings), which are one refresh in the model.
  `server_pages` has no commands to Gateways by HTTP (`PostCommand`); see the observation above.
- Products of pages: a page reached while a command of the page left is still under way.

- Turning the calibration on and off, previews and exports of the calibration workbench, which change neither its session, its cells nor the mode.

What would come next: the server's pending commands (which status is taken for the result of which), a calibration run that shares the device with the pages'
other commands, the poller's thread together with Start and Stop, and the relays' own
dialogs (`RelayManage`) in the proofs.
