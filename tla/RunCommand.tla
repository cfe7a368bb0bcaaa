------------------------------ MODULE RunCommand ------------------------------
(***************************************************************************)
(* speedns run, from the last usage check to the exit status (runBenchmark *)
(* in src/cmd/speedns/main.go): the interrupt handler beside it, and the   *)
(* delivery of the report to --output one file-system call at a time, so   *)
(* that a kill or a power failure can fall between any two of them.        *)
(*                                                                         *)
(* A destination's contents are "none", the report it "held" before,       *)
(* "partial" or the complete "new" report; a stream holds what the run has *)
(* delivered.  disk is what a power failure could leave of the             *)
(* destination: data that is not synced may be lost or cut, a rename whose *)
(* directory is not synced may be undone.  What the report says, and the   *)
(* modes chmod applies, are left out; the engine is Scheduler's subject.   *)
(***************************************************************************)
EXTENDS Naturals, FiniteSets

CONSTANT MaxSignals  \* bound on the shutdown signals sent

ASSUME RunAssumption == MaxSignals \in Nat

\* What classifyOutputPath makes of the path: standard output, a descriptor
\* alias, a pipe or device, a file to create, a file to replace, a file with
\* more hard links, or an error.
Kinds == {"stdout", "descriptor", "stream", "absent", "file", "linked", "refused"}
Streams == {"stdout", "descriptor", "stream"}

VARIABLES
    pc,        \* where runBenchmark, or the finalizer it called, is
    kind,      \* the destination's kind now
    held,      \* its contents before the run wrote to it
    changed,   \* the path has changed kind during the benchmark
    mode,      \* how the report is delivered: "none" until outputWriter,
               \* then "stream", "inPlace", "replace", or "copy" after a refused rename
    dest,      \* the destination's contents
    disk,      \* what a power failure may leave of them
    temp,      \* the temporary report: "none", "partial" or "complete"
    synced,    \* the temporary report is on the disk
    probe,     \* the umask probe file exists
    undeleted, \* a removal failed
    runErr,    \* "none", "canceled" or "noComparable"
    reportErr, \* the report writer failed
    handler,   \* interruptContext: "unset", "armed", "received", "stopped" or "over"
    buffered,  \* signals in the channel
    signals,   \* shutdown signals sent
    ctxDone,   \* the run's context is cancelled
    exit       \* "running", "killed", or the exit status by name

fileVars   == <<dest, disk, temp, synced, probe, undeleted>>
signalVars == <<handler, buffered, signals, ctxDone>>
errVars    == <<runErr, reportErr>>
vars == <<pc, kind, held, changed, mode, fileVars, errVars, signalVars, exit>>

\* exitCodeForError: 0, 2, 3, 4, 130.
Statuses == {"success", "invalid", "incomparable", "assertion", "interrupted"}

Holds(k) == IF k \in {"file", "linked"} THEN "held" ELSE "none"

Init ==
    /\ pc = "preflight"
    /\ kind \in Kinds
    /\ held = Holds(kind)
    /\ changed = FALSE
    /\ mode = "none"
    /\ dest = held
    /\ disk = {held}
    /\ temp = "none"
    /\ synced = FALSE
    /\ probe = FALSE
    /\ undeleted = FALSE
    /\ runErr = "none"
    /\ reportErr = FALSE
    /\ handler = "unset"
    /\ buffered = 0
    /\ signals = 0
    /\ ctxDone = FALSE
    /\ exit = "running"

GoTo(from, to) == exit = "running" /\ pc = from /\ pc' = to

\* runBenchmark returns; its deferred stop releases the handler.
Exit(status) ==
    /\ exit' = status
    /\ pc' = "end"
    /\ handler' = "over"
    /\ UNCHANGED <<buffered, signals, ctxDone>>

Fails(from) ==
    /\ exit = "running"
    /\ pc = from
    /\ Exit("invalid")

\* os.Remove of the temporary file; its error is ignored everywhere but in
\* the discard of a failed report, which fails either way.
RemoveTemp ==
    \/ temp' = "none" /\ UNCHANGED undeleted
    \/ UNCHANGED temp /\ undeleted' = TRUE

\* Writing over the destination's own data.
Overwrite(contents) ==
    /\ dest' = contents
    /\ disk' = disk \cup {contents}

-----------------------------------------------------------------------------
(***************************************************************************)
(* Before the report.                                                      *)
(***************************************************************************)

\* preflightOutput: an error, nothing to probe, or a throwaway temporary file.
Preflight ==
    /\ \/ kind # "refused" /\ kind # "absent" /\ GoTo("preflight", "register") /\ UNCHANGED <<exit, signalVars, temp>>
       \/ kind = "absent" /\ GoTo("preflight", "unprobe") /\ temp' = "partial" /\ UNCHANGED <<exit, signalVars>>
       \/ kind \in {"refused", "absent", "descriptor"} /\ Fails("preflight") /\ UNCHANGED temp
    /\ UNCHANGED <<kind, held, changed, mode, dest, disk, synced, probe, undeleted, errVars>>

PreflightRemove ==
    /\ GoTo("unprobe", "register")
    /\ RemoveTemp
    /\ UNCHANGED <<kind, held, changed, mode, dest, disk, synced, probe, errVars, signalVars, exit>>

\* interruptContext.
Register ==
    /\ GoTo("register", "engine")
    /\ handler' = "armed"
    /\ UNCHANGED <<kind, held, changed, mode, fileVars, errVars, buffered, signals, ctxDone, exit>>

\* The engine returns a report and an error to go with it, or no report.
Engine ==
    /\ \/ /\ GoTo("engine", "open")
          /\ runErr' \in IF ctxDone THEN {"canceled"} ELSE {"none", "noComparable"}
          /\ UNCHANGED <<exit, signalVars>>
       \/ Fails("engine") /\ UNCHANGED runErr
    /\ UNCHANGED <<kind, held, changed, mode, fileVars, reportErr>>

\* Someone changes what the path names while the benchmark runs.
PathChanges ==
    /\ pc = "engine"
    /\ ~changed
    /\ changed' = TRUE
    /\ kind \notin {"stdout", "descriptor"}
    /\ kind' \in Kinds \ {"stdout", "descriptor"}
    /\ held' = Holds(kind')
    /\ dest' = held'
    /\ disk' = {held'}
    /\ UNCHANGED <<pc, mode, temp, synced, probe, undeleted, errVars, signalVars, exit>>

-----------------------------------------------------------------------------
(***************************************************************************)
(* outputWriter and the report.                                            *)
(***************************************************************************)

\* directOutputWriter: O_TRUNC empties a regular file.
OpenDirect(how) ==
    /\ mode' = how
    /\ IF how = "stream" THEN UNCHANGED <<dest, disk>> ELSE Overwrite("partial")
    /\ UNCHANGED temp

\* A replacement's temporary file; a directory that rejects it is no obstacle
\* to writing into a file that is there.
OpenTemp ==
    \/ mode' = "replace" /\ temp' = "partial" /\ UNCHANGED <<dest, disk>>
    \/ OpenDirect("inPlace")

OpenOutput ==
    /\ \/ /\ GoTo("open", "write")
          /\ CASE kind \in Streams -> OpenDirect("stream")
               [] kind = "linked" -> OpenDirect("inPlace")
               [] kind \in {"file", "absent"} -> OpenTemp
               [] OTHER -> FALSE
          /\ UNCHANGED <<exit, signalVars>>
       \/ /\ kind # "stdout"
          /\ Fails("open")
          /\ UNCHANGED <<mode, dest, disk, temp>>
    /\ UNCHANGED <<kind, held, changed, synced, probe, undeleted, errVars>>

\* The report's bytes: to the temporary file, or to the destination itself.
Write(contents, complete) ==
    IF mode = "replace"
    THEN temp' = complete /\ UNCHANGED <<dest, disk>>
    ELSE Overwrite(contents) /\ UNCHANGED temp

WriteReport ==
    /\ \/ GoTo("write", "commit") /\ Write("new", "complete") /\ UNCHANGED reportErr
       \/ GoTo("write", "discard") /\ Write("partial", "partial") /\ reportErr' = TRUE
    /\ UNCHANGED <<kind, held, changed, mode, synced, probe, undeleted, runErr, signalVars, exit>>

\* finalizeOutput(false): the handle is closed, a temporary file removed.
Discard ==
    /\ Fails("discard")
    /\ IF mode = "replace" THEN RemoveTemp ELSE UNCHANGED <<temp, undeleted>>
    /\ UNCHANGED <<kind, held, changed, mode, dest, disk, synced, probe, errVars>>

\* Mutant: the report is renamed without a sync.
CommitUnsynced ==
    /\ GoTo("commit", IF mode = "replace" THEN "mode" ELSE "return")
    /\ UNCHANGED <<kind, held, changed, mode, fileVars, errVars, signalVars, exit>>

\* finalizeOutput(true), up to the closed handle: sync (of a regular file) and
\* close.
Commit ==
    /\ \/ /\ GoTo("commit", IF mode = "replace" THEN "mode" ELSE "return")
          /\ synced' = (mode = "replace")
          /\ disk' \in CASE mode = "inPlace" -> {{dest}}
                        [] kind = "descriptor" -> {disk, {dest}}
                        [] OTHER -> {disk}
          /\ UNCHANGED <<temp, undeleted, signalVars, exit>>
       \/ /\ kind # "stdout"
          /\ Fails("commit")
          /\ IF mode = "replace" THEN RemoveTemp ELSE UNCHANGED <<temp, undeleted>>
          /\ UNCHANGED <<disk, synced>>
    /\ UNCHANGED <<kind, held, changed, mode, dest, probe, errVars>>

\* The report's permissions: those of the file it replaces, or those the
\* umask probe shows, for which any failure will do.
SetMode ==
    /\ \/ kind = "file" /\ GoTo("mode", "rename") /\ UNCHANGED <<temp, probe, undeleted, signalVars, exit>>
       \/ kind = "file" /\ Fails("mode") /\ RemoveTemp /\ UNCHANGED probe
       \/ kind = "absent" /\ GoTo("mode", "unmode") /\ probe' \in BOOLEAN
          /\ UNCHANGED <<temp, undeleted, signalVars, exit>>
    /\ UNCHANGED <<kind, held, changed, mode, dest, disk, synced, errVars>>

\* Mutant: the umask probe is left where it was made.
ProbeModeLeaves ==
    /\ GoTo("unmode", "rename")
    /\ UNCHANGED <<kind, held, changed, mode, fileVars, errVars, signalVars, exit>>

\* probeOrdinaryFileMode removes its probe again.
ProbeMode ==
    /\ GoTo("unmode", "rename")
    /\ \/ probe' = FALSE /\ UNCHANGED undeleted
       \/ probe /\ undeleted' = TRUE /\ UNCHANGED probe
    /\ UNCHANGED <<kind, held, changed, mode, dest, disk, temp, synced, errVars, signalVars, exit>>

\* Rename replaces the destination, is refused by a mount point, or fails.
Rename ==
    /\ \/ /\ GoTo("rename", "syncDirectory")
          /\ dest' = "new"
          /\ temp' = "none"
          /\ disk' = disk \cup IF synced THEN {"new"} ELSE {"new", "partial"}
          /\ UNCHANGED <<mode, undeleted, signalVars, exit>>
       \/ /\ GoTo("rename", "copyOpen")
          /\ mode' = "copy"
          /\ UNCHANGED <<dest, disk, temp, undeleted, signalVars, exit>>
       \/ /\ Fails("rename")
          /\ RemoveTemp
          /\ UNCHANGED <<mode, dest, disk>>
    /\ UNCHANGED <<kind, held, changed, synced, probe, errVars>>

\* syncOutputDirectory, as far as the platform can.
SyncDirectory ==
    /\ GoTo("syncDirectory", "return")
    /\ disk' \in {disk, disk \ {held}}
    /\ UNCHANGED <<kind, held, changed, mode, dest, temp, synced, probe, undeleted, errVars,
                   signalVars, exit>>

-----------------------------------------------------------------------------
(***************************************************************************)
(* copyOutputInPlace, for a destination no rename can replace.             *)
(***************************************************************************)

CopyFrame == UNCHANGED <<kind, held, changed, mode, synced, probe, errVars>>

CopyOpen ==
    /\ \/ GoTo("copyOpen", "copy") /\ Overwrite("partial") /\ UNCHANGED <<signalVars, exit>>
       \/ Fails("copyOpen") /\ UNCHANGED <<dest, disk>>
    /\ UNCHANGED <<temp, undeleted>>
    /\ CopyFrame

\* Mutant: a failed copy removes the temporary report.
CopyRemoves ==
    /\ \/ GoTo("copy", "copySync") /\ Overwrite("new") /\ UNCHANGED <<signalVars, exit, temp, undeleted>>
       \/ Fails("copy") /\ RemoveTemp /\ UNCHANGED <<dest, disk>>
    /\ CopyFrame

\* Mutant: the error of the copy is not looked at.
CopyGoesOn ==
    /\ GoTo("copy", "copySync")
    /\ \E contents \in {"new", "partial"} : Overwrite(contents)
    /\ UNCHANGED <<temp, undeleted, signalVars, exit>>
    /\ CopyFrame

Copy ==
    /\ \/ GoTo("copy", "copySync") /\ Overwrite("new") /\ UNCHANGED <<signalVars, exit>>
       \/ Fails("copy") /\ UNCHANGED <<dest, disk>>
    /\ UNCHANGED <<temp, undeleted>>
    /\ CopyFrame

CopySync ==
    /\ \/ GoTo("copySync", "removeTemp") /\ disk' = {dest} /\ UNCHANGED <<signalVars, exit>>
       \/ Fails("copySync") /\ UNCHANGED disk
    /\ UNCHANGED <<dest, temp, undeleted>>
    /\ CopyFrame

CopyRemove ==
    /\ GoTo("removeTemp", "return")
    /\ RemoveTemp
    /\ UNCHANGED <<dest, disk, signalVars, exit>>
    /\ CopyFrame

\* The report is delivered: runErr, then the assertions, decide the status.
Return ==
    /\ exit = "running"
    /\ pc = "return"
    /\ \E status \in CASE runErr = "canceled" -> {"interrupted"}
                       [] runErr = "noComparable" -> {"incomparable"}
                       [] OTHER -> {"success", "assertion"} : Exit(status)
    /\ UNCHANGED <<kind, held, changed, mode, fileVars, errVars>>

-----------------------------------------------------------------------------
(***************************************************************************)
(* Signals.  Under the default disposition a shutdown signal kills; while  *)
(* the handler is registered it is put into a channel of one, or dropped.  *)
(***************************************************************************)

Signal ==
    /\ exit = "running"
    /\ signals < MaxSignals
    /\ signals' = signals + 1
    /\ IF handler \in {"armed", "received"}
       THEN buffered' = 1 /\ UNCHANGED exit
       ELSE exit' = "killed" /\ UNCHANGED buffered
    /\ UNCHANGED <<pc, kind, held, changed, mode, fileVars, errVars, handler, ctxDone>>

HandlerFrame == UNCHANGED <<pc, kind, held, changed, mode, fileVars, errVars, signals, exit>>

\* case <-signals
Receive ==
    /\ exit = "running"
    /\ handler = "armed"
    /\ buffered = 1
    /\ buffered' = 0
    /\ handler' = "received"
    /\ UNCHANGED ctxDone
    /\ HandlerFrame

\* stopSignals(signals)
StopSignals ==
    /\ exit = "running"
    /\ handler = "received"
    /\ handler' = "stopped"
    /\ UNCHANGED <<buffered, ctxDone>>
    /\ HandlerFrame

\* cancel()
Cancel ==
    /\ exit = "running"
    /\ handler = "stopped"
    /\ handler' = "over"
    /\ ctxDone' = TRUE
    /\ UNCHANGED buffered
    /\ HandlerFrame

Ended == exit # "running" /\ UNCHANGED vars

Command ==
    \/ Preflight \/ PreflightRemove \/ Register \/ Engine
    \/ OpenOutput \/ WriteReport \/ Discard \/ Commit \/ SetMode \/ ProbeMode
    \/ Rename \/ SyncDirectory
    \/ CopyOpen \/ Copy \/ CopySync \/ CopyRemove \/ Return

Handler == Receive \/ StopSignals \/ Cancel

Next == Command \/ Handler \/ Signal \/ PathChanges \/ Ended

Spec == Init /\ [][Next]_vars

-----------------------------------------------------------------------------
Contents == {"none", "held", "partial", "new"}

PlaceTypeOK ==
    /\ pc \in {"preflight", "unprobe", "register", "engine", "open", "write", "discard",
               "commit", "mode", "unmode", "rename", "syncDirectory", "copyOpen", "copy",
               "copySync", "removeTemp", "return", "end"}
    /\ kind \in Kinds
    /\ mode \in {"none", "stream", "inPlace", "replace", "copy"}
    /\ changed \in BOOLEAN

FileTypeOK ==
    /\ held \in {"none", "held"}
    /\ dest \in Contents /\ disk \in SUBSET Contents
    /\ temp \in {"none", "partial", "complete"}
    /\ synced \in BOOLEAN /\ probe \in BOOLEAN /\ undeleted \in BOOLEAN

RunTypeOK ==
    /\ runErr \in {"none", "canceled", "noComparable"}
    /\ reportErr \in BOOLEAN /\ ctxDone \in BOOLEAN
    /\ handler \in {"unset", "armed", "received", "stopped", "over"}
    /\ buffered \in 0..1
    /\ signals \in 0..MaxSignals
    /\ exit \in {"running", "killed"} \cup Statuses

TypeOK == PlaceTypeOK /\ FileTypeOK /\ RunTypeOK

Delivered == Statuses \ {"invalid"}

\* The run has not begun to write into the destination itself.
Replacing == kind \notin Streams /\ mode \in {"none", "replace"}

\* --output replaces a regular file atomically: at every moment, so wherever a
\* signal kills the run, the file holds the old report or the whole new one;
\* and so does the disk, whatever a power failure undoes.
OldOrNew == Replacing => {dest} \cup disk \subseteq {held, "new"}

\* The exit status tells what became of the report. A status other than 2
\* promises it: it is complete where it was asked for, and in a regular file it
\* can no longer be cut short. "A failed run leaves the previous file untouched"
\* (README): a run that reports an error of its own renames nothing into place.
StatusMeansDelivered ==
    /\ exit \in Delivered => dest = "new" /\ (mode # "stream" => "partial" \notin disk)
    /\ Replacing /\ exit = "invalid" => dest = held

\* A finished report is not thrown away because the destination is a mount
\* point: until the copy has succeeded the temporary file stays complete,
\* also when the copy fails or the run is killed in the middle of it.
FinishedReportKept == mode = "copy" /\ (dest # "new" \/ exit = "invalid") => temp = "complete"

\* A run that ends by itself leaves nothing beside the report, unless the
\* system refused a removal or the copy above failed.
NoLitter ==
    /\ TypeOK
    /\ exit \in Statuses /\ ~undeleted =>
          ~probe /\ (temp = "none" \/ (mode = "copy" /\ exit = "invalid"))

\* "A second Ctrl-C therefore terminates SpeeDNS immediately instead of being
\* swallowed while the first one is still winding the run down" (comment of
\* interruptContext; README: "A second interrupt exits immediately").
SecondInterruptKills == signals >= 2 => exit # "running"
=============================================================================
