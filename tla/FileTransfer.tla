---------------------------- MODULE FileTransfer ----------------------------
(***************************************************************************)
(* Files to and from a device, a chunk per command (deviceFileTransfer.ts,  *)
(* DeviceFilesPage.tsx), and the installation of an app, which is an upload *)
(* between entering and leaving maintenance mode (AppInstallDialog.tsx).    *)
(*                                                                         *)
(* A command and its reply are one step; what may come of it is Outcomes,   *)
(* which the queue of useDeviceCommand provides: a relay reports failures   *)
(* of commands that were run, and a second copy of a command may still be   *)
(* on its way when the call has ended.  The device is external: a file is   *)
(* written from its beginning, a hash given at the end is compared and the  *)
(* file deleted on a mismatch.  A file that is read is a version with a     *)
(* number of chunks; the device may replace it meanwhile, by writing it     *)
(* anew or by restarting with other contents.                               *)
(***************************************************************************)
EXTENDS Integers, Sequences, FiniteSets

CONSTANTS
    Chunks,     \* chunks of a file that is sent
    MaxChanges, \* bound: how often the file that is read is replaced
    MaxLate     \* bound: commands of which a copy is on its way at once

(* What the constants may be. *)
ASSUME TransferAssumption == Chunks \in Nat \ {0} /\ MaxChanges \in Nat /\ MaxLate \in Nat

VARIABLES
    op,      \* what runs: see Operations
    step,    \* the command it sends next
    pos,     \* the chunk it is at
    size,    \* size told by file_read_begin
    retried, \* downloadFileBytes' flag
    got,     \* the versions of the chunks read, in order
    hashed,  \* is a hash sent with the file?
    cancel,  \* the abort flag
    entered, \* did the dialog enter maintenance mode?
    report,  \* what the user was told last
    missed,  \* ghost: the "mode" or the "file" of which a reply did not tell the truth
    mode,    \* the device's: "normal" or "maintenance"
    found,   \* its mode when the operation began
    parts,   \* the chunks of the file sent that the device has
    isApp,   \* is the app registered at the device?
    source,  \* the file that is read: its version and size
    silent,  \* did the device replace a file while nothing was asked of it?
    late     \* the commands of which a second copy is still on its way

deviceFileVars  == <<parts, isApp>>
runVars   == <<pos, size, retried, got>>
flagVars  == <<hashed, cancel, entered, found>>
transferVars == <<op, step, pos, size, retried, got, hashed, cancel, entered, report, missed,
                  mode, found, parts, isApp, source, silent, late>>

Operations == {"none", "upload", "install", "download", "fetch"}
Steps == {"none", "enter", "begin", "chunk", "finish", "register", "leave", "restore",
          "readbegin", "readchunk", "again"}
Whole == 1..Chunks
\* A command did something at the device, or did not; only success tells.  A copy of
\* it may be left behind.
Outcomes == {o \in [ran : BOOLEAN, reply : {"ok", "error", "lost", "thrown"}, left : BOOLEAN] :
                o.reply = "ok" => o.ran}
Sizes == 1..2
Modes == {"normal", "maintenance"}

\* What a command is about; a copy that comes late matters for these three.
About(s) == IF s \in {"enter", "leave", "restore"} THEN "mode" ELSE "file"
Lasting  == {"enter", "begin", "leave"}
Versions == [version : 0..MaxChanges, size : Sizes]

TransferTypeOK ==
    /\ op \in Operations /\ step \in Steps
    /\ pos \in 1..(Chunks + 2) /\ size \in 0..2
    /\ retried \in BOOLEAN /\ hashed \in BOOLEAN /\ cancel \in BOOLEAN /\ entered \in BOOLEAN
    /\ isApp \in BOOLEAN /\ silent \in BOOLEAN
    /\ missed \subseteq {"mode", "file"} /\ late \subseteq Lasting
    /\ got \in Seq(Versions) /\ Len(got) <= 2
    /\ report \in {"none", "complete", "failed"}
    /\ mode \in Modes /\ found \in Modes
    /\ parts \subseteq Whole
    /\ source \in Versions

-----------------------------------------------------------------------------
(* Plausible bugs in the helpers below. *)

AnyReplyAdvances(from, to, more) == TRUE
RestoreOnlyOnSuccess(e)    == "none"
ErrorsGoUnnoticed(o)       == o.reply # "thrown"
SizeNotCompared(s)         == TRUE

-----------------------------------------------------------------------------
(* How replies are judged. *)

\* ensureWriteOk lets a missing reply pass; readFailure, and the dialog, do not.
WriteOk(o)     == o.reply \in {"ok", "lost"}
ReadFailed(o)  == o.reply # "ok"
Entered(o)     == o.reply = "ok"

\* ensureReadAdvanced.
Advanced(from, to, more) == more => to > from

\* downloadFileBytes compares the size after a failed chunk.
SameFile(s) == s = size

-----------------------------------------------------------------------------
(* How an operation ends. *)

\* The catch of install: out of maintenance mode, if the dialog entered it.
AfterFailure(e) == IF e THEN "restore" ELSE "none"

Fails ==
    /\ report' = "failed"
    /\ step' = AfterFailure(entered)
    /\ op' = IF AfterFailure(entered) = "none" THEN "none" ELSE op

Completes == report' = "complete" /\ step' = "none" /\ op' = "none"

GoesTo(s) == step' = s /\ UNCHANGED <<op, report>>

\* Does its outcome show in full, and is it what the command asked for?
Astray(s, o) ==
    \/ o.left \/ o.reply \in {"lost", "thrown"}
    \/ o.reply = "error" /\ (o.ran \/ s \in {"leave", "restore"})

\* The outcome of the command sent at step s.
Replied(s, o) ==
    /\ step = s /\ o \in Outcomes /\ (o.left => Cardinality(late) < MaxLate)
    /\ missed' = missed \cup (IF Astray(s, o) THEN {About(s)} ELSE {})
    /\ late' = late \cup (IF o.left THEN {IF s = "restore" THEN "leave" ELSE s} \cap Lasting ELSE {})

-----------------------------------------------------------------------------
(* The user starts. *)

Starts(o, s) ==
    /\ op = "none" /\ op' = o /\ step' = s
    /\ pos' = 1 /\ got' = <<>> /\ retried' = FALSE /\ size' = 0
    /\ cancel' = FALSE /\ entered' = FALSE /\ found' = mode
    /\ report' = "none" /\ silent' = FALSE /\ UNCHANGED late
\* What is still on its way from before may go against the operation.
Unsettled == {About(s) : s \in late}

\* uploadSelectedFile, enabled in maintenance mode.
StartUpload ==
    /\ mode = "maintenance" /\ hashed' = FALSE /\ missed' = Unsettled
    /\ Starts("upload", "begin")
    /\ UNCHANGED <<mode, deviceFileVars, source>>

\* install: maintenance mode is entered unless the list of devices shows it, which may
\* be out of date.
StartInstall ==
    /\ hashed' = TRUE
    /\ \E shown \in Modes :
          /\ Starts("install", IF shown = "maintenance" THEN "begin" ELSE "enter")
          /\ missed' = Unsettled \cup (IF shown = mode THEN {} ELSE {"mode"})
    /\ UNCHANGED <<mode, deviceFileVars, source>>

\* downloadFile; readDeviceFile, for a package.
StartRead ==
    /\ \E o \in {"download", "fetch"} : Starts(o, "readbegin")
    /\ missed' = Unsettled
    /\ UNCHANGED <<hashed, mode, deviceFileVars, source>>

\* The cancel buttons.
Cancel ==
    /\ op \in {"upload", "install"} /\ ~cancel
    /\ cancel' = TRUE
    /\ UNCHANGED <<op, step, runVars, hashed, entered, report, missed, mode, found, deviceFileVars,
                   source, silent, late>>

-----------------------------------------------------------------------------
(* Writing. *)

EnterMaintenance ==
    \E o \in Outcomes :
        /\ Replied("enter", o)
        /\ mode' = IF o.ran THEN "maintenance" ELSE mode
        /\ entered' = Entered(o)
        /\ IF Entered(o) THEN GoesTo("begin") ELSE Fails
        /\ UNCHANGED <<runVars, hashed, cancel, found, deviceFileVars, source, silent>>

WriteBegin ==
    \E o \in Outcomes :
        /\ Replied("begin", o)
        /\ parts' = IF o.ran THEN {} ELSE parts
        /\ IF WriteOk(o) THEN GoesTo("chunk") ELSE Fails
        /\ UNCHANGED <<runVars, flagVars, mode, isApp, source, silent>>

\* The loop of writeDeviceFile; the abort flag is looked at before each chunk.
WriteChunk ==
    \/ /\ step = "chunk" /\ pos \in Whole /\ cancel
       /\ Fails
       /\ UNCHANGED <<runVars, flagVars, missed, mode, deviceFileVars, source, silent, late>>
    \/ /\ pos \in Whole /\ ~cancel
       /\ \E o \in Outcomes :
            /\ Replied("chunk", o)
            /\ parts' = IF o.ran THEN parts \cup {pos} ELSE parts
            /\ pos' = pos + 1
            /\ IF WriteOk(o) THEN GoesTo(IF pos = Chunks THEN "finish" ELSE "chunk") ELSE Fails
       /\ UNCHANGED <<size, retried, got, flagVars, mode, isApp, source, silent>>

\* With a hash the device answers an error, and deletes the file, unless it is whole.
WriteFinish ==
    \E o \in Outcomes :
        /\ Replied("finish", o)
        /\ hashed /\ parts # Whole => o.reply # "ok"
        /\ parts' = IF hashed /\ parts # Whole /\ (o.ran \/ o.reply = "error") THEN {} ELSE parts
        /\ IF ~WriteOk(o) THEN Fails
           ELSE IF op = "install" THEN GoesTo("register") ELSE Completes
        /\ UNCHANGED <<runVars, flagVars, mode, isApp, source, silent>>

\* app_install, with the hash; the dialog binds the app to no slot.
Register ==
    \E o \in Outcomes :
        /\ Replied("register", o)
        /\ parts # Whole => o.reply # "ok"
        /\ isApp' = IF o.ran /\ parts = Whole THEN TRUE ELSE isApp
        /\ IF ~WriteOk(o) THEN Fails ELSE IF entered THEN GoesTo("leave") ELSE Completes
        /\ UNCHANGED <<runVars, flagVars, mode, parts, source, silent>>

\* exit_maintenance after a success: only a rejection is noticed, and restored from.
LeaveMaintenance ==
    \E o \in Outcomes :
        /\ Replied("leave", o)
        /\ mode' = IF o.ran THEN "normal" ELSE mode
        /\ IF o.reply = "thrown" THEN Fails ELSE Completes
        /\ entered' = (o.reply = "thrown")
        /\ UNCHANGED <<runVars, hashed, cancel, found, deviceFileVars, source, silent>>

\* exit_maintenance after a failure: nothing of its reply is looked at.
Restore ==
    \E o \in Outcomes :
        /\ Replied("restore", o)
        /\ mode' = IF o.ran THEN "normal" ELSE mode
        /\ step' = "none" /\ op' = "none" /\ UNCHANGED report
        /\ UNCHANGED <<runVars, flagVars, deviceFileVars, source, silent>>

-----------------------------------------------------------------------------
(* Reading. *)

ReadBegin ==
    \E o \in Outcomes :
        /\ Replied("readbegin", o)
        /\ size' = IF ReadFailed(o) THEN size ELSE source.size
        /\ IF ReadFailed(o) THEN Fails ELSE GoesTo("readchunk")
        /\ UNCHANGED <<pos, retried, got, flagVars, mode, deviceFileVars, source, silent>>

\* What the device answers at pos: data or none, the next offset, and whether there is more.
\* Past the end there is nothing; a device may also answer without moving forward.
ChunkReplies ==
    {r \in [data : BOOLEAN, next : {pos, pos + 1}, more : BOOLEAN] :
        /\ r.next = pos + 1 => r.data /\ pos <= source.size
        /\ ~r.more => r.next > source.size \/ ~r.data}

\* The loop of downloadFileBytes.
DownloadChunk ==
    /\ op = "download"
    /\ \E o \in Outcomes :
        /\ Replied("readchunk", o)
        /\ IF ReadFailed(o)
           THEN /\ IF retried \/ o.reply = "thrown" THEN Fails ELSE GoesTo("again")
                /\ retried' = TRUE
                /\ UNCHANGED <<pos, got>>
           ELSE \E r \in ChunkReplies :
                /\ retried' = FALSE
                /\ IF Advanced(pos, r.next, r.more)
                   THEN /\ pos' = r.next
                        /\ got' = IF r.next > pos THEN Append(got, source) ELSE got
                        /\ IF ~r.more \/ r.next > size THEN Completes ELSE GoesTo("readchunk")
                   ELSE UNCHANGED <<pos, got>> /\ Fails
    /\ UNCHANGED <<size, flagVars, mode, deviceFileVars, source, silent>>

\* After a failed chunk: file_read_begin again, for the size.
ReadAgain ==
    \E o \in Outcomes :
        /\ Replied("again", o)
        /\ IF ReadFailed(o) \/ ~SameFile(source.size) THEN Fails ELSE GoesTo("readchunk")
        /\ UNCHANGED <<runVars, flagVars, mode, deviceFileVars, source, silent>>

\* The loop of readDeviceFile.
FetchChunk ==
    /\ op = "fetch"
    /\ \E o \in Outcomes :
        /\ Replied("readchunk", o)
        /\ IF ReadFailed(o) THEN Fails /\ UNCHANGED <<pos, got>>
           ELSE \E r \in ChunkReplies :
                IF ~r.data THEN Completes /\ UNCHANGED <<pos, got>>
                ELSE IF ~Advanced(pos, r.next, r.more) THEN Fails /\ UNCHANGED <<pos, got>>
                ELSE /\ pos' = r.next
                     /\ got' = IF r.next > pos THEN Append(got, source) ELSE got
                     /\ IF ~r.more \/ r.next > size THEN Completes ELSE GoesTo("readchunk")
    /\ UNCHANGED <<size, retried, flagVars, mode, deviceFileVars, source, silent>>

-----------------------------------------------------------------------------
(* The device, meanwhile. *)

Replaced(s) == source' = [version |-> source.version + 1, size |-> s]

\* It restarts while a chunk is asked for, which fails, and has another file then.
Restarts ==
    /\ step = "readchunk" /\ op = "download" /\ ~retried /\ source.version < MaxChanges
    /\ \E s \in Sizes : Replaced(s)
    /\ missed' = missed \cup {"file"} /\ retried' = TRUE
    /\ GoesTo("again")
    /\ UNCHANGED <<pos, size, got, flagVars, mode, deviceFileVars, silent, late>>

\* It replaces the file between two commands; while one is read this goes unnoticed.
Rewrites ==
    /\ source.version < MaxChanges
    /\ \E s \in Sizes : Replaced(s)
    /\ silent' = (silent \/ op # "none")
    /\ UNCHANGED <<op, step, runVars, flagVars, report, missed, mode, deviceFileVars, late>>

\* Its mode is changed by someone else, between operations.
ModeChanges ==
    /\ op = "none"
    /\ mode' \in Modes
    /\ found' = mode'
    /\ UNCHANGED <<op, step, runVars, hashed, cancel, entered, report, missed, deviceFileVars,
                   source, silent, late>>

\* A second copy of a command comes after all.
ComesLate ==
    \E s \in late :
        /\ late' = late \ {s}
        /\ mode' = CASE s = "enter" -> "maintenance" [] s = "leave" -> "normal" [] OTHER -> mode
        /\ parts' = IF s = "begin" THEN {} ELSE parts
        /\ UNCHANGED <<op, step, runVars, flagVars, report, missed, isApp, source, silent>>

-----------------------------------------------------------------------------
TransferInit ==
    /\ op = "none" /\ step = "none" /\ pos = 1 /\ size = 0 /\ retried = FALSE /\ got = <<>>
    /\ hashed = FALSE /\ cancel = FALSE /\ entered = FALSE /\ report = "none"
    /\ missed = {} /\ late = {} /\ mode = "normal" /\ found = "normal"
    /\ parts = {} /\ isApp = FALSE /\ source = [version |-> 0, size |-> 2] /\ silent = FALSE

Progress ==
    \/ EnterMaintenance \/ WriteBegin \/ WriteChunk \/ WriteFinish \/ Register
    \/ LeaveMaintenance \/ Restore \/ ReadBegin \/ DownloadChunk \/ ReadAgain \/ FetchChunk

TransferNext ==
    \/ StartUpload \/ StartInstall \/ StartRead \/ Cancel
    \/ EnterMaintenance \/ WriteBegin \/ WriteChunk \/ WriteFinish \/ Register
    \/ LeaveMaintenance \/ Restore \/ ReadBegin \/ DownloadChunk \/ ReadAgain \/ FetchChunk
    \/ Restarts \/ Rewrites \/ ModeChanges \/ ComesLate

TransferSpec == TransferInit /\ [][TransferNext]_transferVars

\* Commands end: every reply has a timeout.
TransferFairSpec == TransferSpec /\ WF_transferVars(Progress)

-----------------------------------------------------------------------------
(***************************************************************************)
(* A transfer ends, whatever the device answers: in particular a read of a  *)
(* device that answers without moving forward, or not at all, stops         *)
(* (deviceFileTransfer.ts, readFailure: such a loop once ran until the tab  *)
(* was closed).                                                             *)
(***************************************************************************)
TransfersEnd == op # "none" ~> op = "none"

(***************************************************************************)
(* If every reply about the file was true and complete, then the user is    *)
(* told of a success only when the device has the whole file, and the app   *)
(* if it was one.                                                           *)
(***************************************************************************)
SuccessIsReal ==
    report = "complete" /\ "file" \notin missed /\ size = 0 =>
        /\ parts = Whole
        /\ hashed => isApp

(***************************************************************************)
(* An installation leaves the mode as it found it, succeed, fail or be      *)
(* cancelled, whatever becomes of its other commands, if the replies to the *)
(* commands about the mode were true and complete.  If not, it may not: a   *)
(* device whose entering is answered by a relay's timeout stays in          *)
(* maintenance mode (AppInstallDialog.tsx, install).                        *)
(***************************************************************************)
ModeIsRestored == op = "none" /\ "mode" \notin missed => mode = found

(***************************************************************************)
(* All the chunks of a downloaded file are of versions of one size,         *)
(* although the device restarts in the middle or chunks fail; two versions  *)
(* of one size are not told apart (DeviceFilesPage.tsx, downloadFileBytes). *)
(***************************************************************************)
NeverSpliced ==
    op = "none" /\ report = "complete" /\ ~silent =>
        \A i, j \in 1..Len(got) : got[i].size = got[j].size

(***************************************************************************)
(* The user is told that a transfer succeeded only when the device has the  *)
(* whole file, or the browser chunks of a file of one size, however often   *)
(* the device restarted with another one; and however an installation ends, *)
(* the device is back in the mode it found: as long as the replies about    *)
(* the file, or about the mode, were true and complete                      *)
(* (deviceFileTransfer.ts, AppInstallDialog.tsx).                           *)
(***************************************************************************)
TransfersAreWhole == SuccessIsReal /\ NeverSpliced /\ ModeIsRestored
=============================================================================
