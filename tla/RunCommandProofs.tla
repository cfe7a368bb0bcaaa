--------------------------- MODULE RunCommandProofs ---------------------------
(***************************************************************************)
(* Proofs about RunCommand, for any number of signals: what a destination, *)
(* the disk under it and the temporary report hold at each point of        *)
(* runBenchmark, at which a signal may kill the run.                       *)
(***************************************************************************)
EXTENDS RunCommand, TLAPS

\* The destination is as the run found it.
Untouched == dest = held /\ disk = {held}

\* How far the report is, by where the run is.
ReportInv ==
    /\ pc \in {"preflight", "unprobe", "register", "engine", "open"} =>
        mode = "none" /\ Untouched
    /\ pc \in {"write", "discard", "commit"} =>
        /\ mode \in {"stream", "inPlace", "replace"}
        /\ mode = "stream" <=> kind \in Streams
        /\ mode = "replace" => Untouched
    /\ pc = "commit" => IF mode = "replace" THEN temp = "complete" ELSE dest = "new"
    /\ pc \in {"mode", "unmode", "rename"} =>
        mode = "replace" /\ Untouched /\ temp = "complete" /\ synced
    /\ pc = "syncDirectory" => mode = "replace"
    /\ pc \in {"syncDirectory", "return"} =>
        /\ mode # "none"
        /\ dest = "new"
        /\ mode = "replace" => disk \subseteq {held, "new"}
        /\ mode \in {"inPlace", "copy"} => disk = {"new"}
    /\ pc \in {"copyOpen", "copy", "copySync", "removeTemp"} => mode = "copy" /\ temp = "complete"
    /\ pc \in {"copySync", "removeTemp"} => dest = "new"
    /\ pc = "removeTemp" => disk = {"new"}

\* What the exit status stands for.
EndInv ==
    /\ pc = "end" <=> exit \in Statuses
    /\ exit \in Delivered =>
        /\ mode # "none"
        /\ dest = "new"
        /\ mode # "stream" => "partial" \notin disk
        /\ mode = "replace" => disk \subseteq {held, "new"}
    /\ exit = "invalid" =>
        /\ mode \in {"none", "replace"} => Untouched
        /\ mode = "copy" => temp = "complete"

\* Where a temporary file may be, unless its removal was refused.
LitterInv == ~undeleted =>
    /\ probe => pc = "unmode"
    /\ temp # "none" =>
        \/ pc = "unprobe"
        \/ mode = "replace" /\ pc \in {"write", "discard", "commit", "mode", "unmode", "rename"}
        \/ mode = "copy" /\ pc \in {"copyOpen", "copy", "copySync", "removeTemp"}
        \/ mode = "copy" /\ exit = "invalid"

CInv == TypeOK /\ ReportInv /\ EndInv /\ LitterInv

\* Until the report is opened the run writes nothing but a probe beside the destination.
LEMMA EarlySteps ==
    ASSUME CInv, Preflight \/ PreflightRemove \/ Register \/ Engine \/ PathChanges
    PROVE  CInv'
<1> USE DEF fileVars, signalVars, errVars, GoTo, Fails, Exit, Statuses,
        RemoveTemp, Holds
<1>1. PlaceTypeOK'
  BY DEF CInv, TypeOK, PlaceTypeOK, Kinds, Preflight, PreflightRemove, Register, Engine,
     PathChanges
<1>2. FileTypeOK'
  <2>1. CASE Preflight
    BY <2>1 DEF CInv, TypeOK, PlaceTypeOK, FileTypeOK, Contents, Preflight
  <2>2. CASE PreflightRemove
    BY <2>2 DEF CInv, TypeOK, PlaceTypeOK, FileTypeOK, Contents, PreflightRemove
  <2>3. CASE Register
    BY <2>3 DEF CInv, TypeOK, PlaceTypeOK, FileTypeOK, Contents, Register
  <2>4. CASE Engine
    BY <2>4 DEF CInv, TypeOK, PlaceTypeOK, FileTypeOK, Contents, Engine
  <2>5. CASE PathChanges
    BY <2>5 DEF CInv, TypeOK, PlaceTypeOK, FileTypeOK, Contents, PathChanges
  <2>6. QED
    BY <2>1, <2>2, <2>3, <2>4, <2>5
<1>3. RunTypeOK'
  BY RunAssumption DEF RunAssumption, CInv, TypeOK, RunTypeOK, Preflight,
     PreflightRemove, Register, Engine, PathChanges
<1>4. ReportInv'
  BY DEF CInv, TypeOK, PlaceTypeOK, FileTypeOK, ReportInv, Untouched, Preflight,
     PreflightRemove, Register, Engine, PathChanges
<1>5. EndInv'
  BY DEF CInv, TypeOK, PlaceTypeOK, FileTypeOK, ReportInv, EndInv, Delivered, Untouched,
     Preflight, PreflightRemove, Register, Engine, PathChanges
<1>6. LitterInv'
  BY DEF CInv, TypeOK, FileTypeOK, ReportInv, EndInv, LitterInv, Preflight,
     PreflightRemove, Register, Engine, PathChanges
<1>7. QED
  BY <1>1, <1>2, <1>3, <1>4, <1>5, <1>6 DEF CInv, TypeOK

\* The report is written, to the temporary file or to the destination itself.
LEMMA WritingSteps ==
    ASSUME CInv, OpenOutput \/ WriteReport \/ Discard \/ Commit
    PROVE  CInv'
<1> USE DEF fileVars, signalVars, errVars, GoTo, Fails, Exit, Statuses,
        Streams, OpenDirect, OpenTemp, Overwrite, Write, RemoveTemp
<1>1. PlaceTypeOK'
  BY DEF CInv, TypeOK, PlaceTypeOK, Kinds, OpenOutput, WriteReport, Discard, Commit
<1>2. FileTypeOK'
  <2>1. CASE OpenOutput
    BY <2>1 DEF CInv, TypeOK, PlaceTypeOK, FileTypeOK, Contents, OpenOutput
  <2>2. CASE WriteReport
    BY <2>2 DEF CInv, TypeOK, PlaceTypeOK, FileTypeOK, Contents, WriteReport
  <2>3. CASE Discard
    BY <2>3 DEF CInv, TypeOK, PlaceTypeOK, FileTypeOK, Contents, Discard
  <2>4. CASE Commit
    BY <2>4 DEF CInv, TypeOK, PlaceTypeOK, FileTypeOK, Contents, Commit
  <2>5. QED
    BY <2>1, <2>2, <2>3, <2>4
<1>3. RunTypeOK'
  BY RunAssumption DEF RunAssumption, CInv, TypeOK, RunTypeOK, OpenOutput, WriteReport,
     Discard, Commit
<1>4. ReportInv'
  <2>1. CASE OpenOutput \/ WriteReport \/ Discard
    BY <2>1 DEF CInv, TypeOK, PlaceTypeOK, FileTypeOK, ReportInv, Untouched, OpenOutput,
       WriteReport, Discard
  <2>2. CASE Commit
    <3>1. CASE mode = "replace"
      BY <2>2, <3>1 DEF CInv, ReportInv, Untouched, Commit
    <3>2. CASE mode # "replace"
      <4>1. /\ mode' = mode /\ dest' = dest /\ mode \in {"stream", "inPlace"} /\ dest = "new"
            /\ pc' = "end" \/ pc' = "return"
            /\ pc' = "return" /\ mode = "inPlace" => disk' = {dest}
        BY <2>2, <3>2 DEF CInv, ReportInv, Commit
      <4>2. QED
        BY <4>1 DEF ReportInv
    <3>3. QED
      BY <3>1, <3>2
  <2>3. QED
    BY <2>1, <2>2
<1>5. EndInv'
  BY DEF CInv, TypeOK, PlaceTypeOK, FileTypeOK, ReportInv, EndInv, Delivered, Untouched,
     OpenOutput, WriteReport, Discard, Commit
<1>6. LitterInv'
  BY DEF CInv, TypeOK, FileTypeOK, ReportInv, EndInv, LitterInv, OpenOutput,
     WriteReport, Discard, Commit
<1>7. QED
  BY <1>1, <1>2, <1>3, <1>4, <1>5, <1>6 DEF CInv, TypeOK

\* The complete temporary report replaces the destination.
LEMMA ReplacingSteps ==
    ASSUME CInv, SetMode \/ ProbeMode \/ Rename \/ SyncDirectory
    PROVE  CInv'
<1> USE DEF fileVars, signalVars, errVars, GoTo, Fails, Exit, Statuses,
        RemoveTemp
<1>1. PlaceTypeOK'
  BY DEF CInv, TypeOK, PlaceTypeOK, Kinds, SetMode, ProbeMode, Rename, SyncDirectory
<1>2. FileTypeOK'
  <2>1. CASE SetMode
    BY <2>1 DEF CInv, TypeOK, PlaceTypeOK, FileTypeOK, Contents, SetMode
  <2>2. CASE ProbeMode
    BY <2>2 DEF CInv, TypeOK, PlaceTypeOK, FileTypeOK, Contents, ProbeMode
  <2>3. CASE Rename
    BY <2>3 DEF CInv, TypeOK, PlaceTypeOK, FileTypeOK, Contents, Rename
  <2>4. CASE SyncDirectory
    BY <2>4 DEF CInv, TypeOK, PlaceTypeOK, FileTypeOK, Contents, SyncDirectory
  <2>5. QED
    BY <2>1, <2>2, <2>3, <2>4
<1>3. RunTypeOK'
  BY RunAssumption DEF RunAssumption, CInv, TypeOK, RunTypeOK, SetMode, ProbeMode,
     Rename, SyncDirectory
<1>4. ReportInv'
  BY DEF CInv, TypeOK, PlaceTypeOK, FileTypeOK, ReportInv, Untouched, SetMode,
     ProbeMode, Rename, SyncDirectory
<1>5. EndInv'
  BY DEF CInv, TypeOK, PlaceTypeOK, FileTypeOK, ReportInv, EndInv, Delivered, Untouched,
     SetMode, ProbeMode, Rename, SyncDirectory
<1>6. LitterInv'
  BY DEF CInv, TypeOK, FileTypeOK, ReportInv, EndInv, LitterInv, SetMode, ProbeMode,
     Rename, SyncDirectory
<1>7. QED
  BY <1>1, <1>2, <1>3, <1>4, <1>5, <1>6 DEF CInv, TypeOK

\* The complete temporary report is copied over a destination no rename can replace.
LEMMA CopyingSteps ==
    ASSUME CInv, CopyOpen \/ Copy \/ CopySync \/ CopyRemove
    PROVE  CInv'
<1> USE DEF fileVars, signalVars, errVars, GoTo, Fails, Exit, Statuses,
        CopyFrame, Overwrite, RemoveTemp
<1>1. PlaceTypeOK'
  BY DEF CInv, TypeOK, PlaceTypeOK, Kinds, CopyOpen, Copy, CopySync, CopyRemove
<1>2. FileTypeOK'
  <2>1. CASE CopyOpen
    BY <2>1 DEF CInv, TypeOK, PlaceTypeOK, FileTypeOK, Contents, CopyOpen
  <2>2. CASE Copy
    BY <2>2 DEF CInv, TypeOK, PlaceTypeOK, FileTypeOK, Contents, Copy
  <2>3. CASE CopySync
    BY <2>3 DEF CInv, TypeOK, PlaceTypeOK, FileTypeOK, Contents, CopySync
  <2>4. CASE CopyRemove
    BY <2>4 DEF CInv, TypeOK, PlaceTypeOK, FileTypeOK, Contents, CopyRemove
  <2>5. QED
    BY <2>1, <2>2, <2>3, <2>4
<1>3. RunTypeOK'
  BY RunAssumption DEF RunAssumption, CInv, TypeOK, RunTypeOK, CopyOpen, Copy, CopySync,
     CopyRemove
<1>4. ReportInv'
  BY DEF CInv, TypeOK, PlaceTypeOK, FileTypeOK, ReportInv, Untouched, CopyOpen, Copy,
     CopySync, CopyRemove
<1>5. EndInv'
  BY DEF CInv, TypeOK, PlaceTypeOK, FileTypeOK, ReportInv, EndInv, Delivered, Untouched,
     CopyOpen, Copy, CopySync, CopyRemove
<1>6. LitterInv'
  BY DEF CInv, TypeOK, FileTypeOK, ReportInv, EndInv, LitterInv, CopyOpen, Copy,
     CopySync, CopyRemove
<1>7. QED
  BY <1>1, <1>2, <1>3, <1>4, <1>5, <1>6 DEF CInv, TypeOK

\* The run returns, or a signal kills it where it stands or cancels the engine.
LEMMA SignalSteps ==
    ASSUME CInv, Return \/ Signal \/ Receive \/ StopSignals \/ Cancel
    PROVE  CInv'
<1> USE DEF fileVars, signalVars, errVars, GoTo, Fails, Exit, Statuses,
        HandlerFrame
<1>1. PlaceTypeOK'
  BY DEF CInv, TypeOK, PlaceTypeOK, Kinds, Return, Signal, Receive, StopSignals, Cancel
<1>2. FileTypeOK'
  BY DEF CInv, TypeOK, PlaceTypeOK, FileTypeOK, Contents, Return, Signal, Receive,
     StopSignals, Cancel
<1>3. RunTypeOK'
  <2>1. CASE Return
    BY <2>1 DEF CInv, TypeOK, RunTypeOK, Return
  <2>2. CASE Signal
    BY <2>2, RunAssumption DEF RunAssumption, CInv, TypeOK, RunTypeOK, Signal
  <2>3. CASE Receive
    BY <2>3 DEF CInv, TypeOK, RunTypeOK, Receive
  <2>4. CASE StopSignals \/ Cancel
    BY <2>4 DEF CInv, TypeOK, RunTypeOK, StopSignals, Cancel
  <2>5. QED
    BY <2>1, <2>2, <2>3, <2>4
<1>4. ReportInv'
  BY DEF CInv, TypeOK, PlaceTypeOK, FileTypeOK, ReportInv, Untouched, Return, Signal,
     Receive, StopSignals, Cancel
<1>5. EndInv'
  BY DEF CInv, TypeOK, PlaceTypeOK, FileTypeOK, ReportInv, EndInv, Delivered, Untouched,
     Return, Signal, Receive, StopSignals, Cancel
<1>6. LitterInv'
  BY DEF CInv, TypeOK, FileTypeOK, ReportInv, EndInv, LitterInv, Return, Signal,
     Receive, StopSignals, Cancel
<1>7. QED
  BY <1>1, <1>2, <1>3, <1>4, <1>5, <1>6 DEF CInv, TypeOK

LEMMA InitCInv == Init => CInv
<1> SUFFICES ASSUME Init PROVE CInv
  OBVIOUS
<1>1. PlaceTypeOK
  BY DEF Init, PlaceTypeOK, Kinds
<1>2. FileTypeOK
  BY DEF Init, FileTypeOK, Contents, Holds
<1>3. RunTypeOK
  <2>1. buffered \in 0..1 /\ signals \in 0..MaxSignals
    BY RunAssumption DEF RunAssumption, Init
  <2>2. reportErr \in BOOLEAN /\ ctxDone \in BOOLEAN
    BY DEF Init
  <2>3. QED
    BY <2>1, <2>2 DEF Init, RunTypeOK
<1>4. ReportInv /\ EndInv /\ LitterInv
  BY DEF Init, ReportInv, Untouched, EndInv, Delivered, Statuses, LitterInv
<1>5. QED
  BY <1>1, <1>2, <1>3, <1>4 DEF CInv, TypeOK

\* CInv is inductive.
LEMMA StepCInv == CInv /\ [Next]_vars => CInv'
<1> SUFFICES ASSUME CInv, [Next]_vars PROVE CInv'
  OBVIOUS
<1>1. CASE Command \/ Handler \/ Signal \/ PathChanges
  BY <1>1, EarlySteps, WritingSteps, ReplacingSteps, CopyingSteps, SignalSteps
  DEF Command, Handler
<1>2. CASE UNCHANGED vars
  BY <1>2 DEF CInv, TypeOK, PlaceTypeOK, FileTypeOK, RunTypeOK, ReportInv, Untouched, EndInv,
     LitterInv, vars, fileVars, signalVars, errVars
<1>3. QED
  BY <1>1, <1>2 DEF Next, Ended

\* CInv holds in every reachable state, however many signals are sent and
\* wherever they find the run.
THEOREM ReportInvariant == Spec => []CInv
BY InitCInv, StepCInv, PTL DEF Spec

-----------------------------------------------------------------------------
\* Wherever a signal kills the run or the power fails, a regular file named by
\* --output holds the old report or the whole new one.
THEOREM AtomicReplacement == Spec => []OldOrNew
<1>1. CInv => OldOrNew
  BY DEF CInv, TypeOK, PlaceTypeOK, RunTypeOK, ReportInv, Untouched, EndInv, Statuses,
     Delivered, OldOrNew, Replacing
<1>2. QED
  BY <1>1, ReportInvariant, PTL

\* A status other than 2 is returned only over a report that is complete and,
\* in a regular file, on the disk; a status of 2 renamed nothing into place.
THEOREM StatusHonest == Spec => []StatusMeansDelivered
<1>1. CInv => StatusMeansDelivered
  BY DEF CInv, EndInv, Untouched, StatusMeansDelivered, Replacing
<1>2. QED
  BY <1>1, ReportInvariant, PTL

\* copyOutputInPlace never throws the finished report away before its copy is
\* on the disk.
THEOREM CopyKeepsReport == Spec => []FinishedReportKept
<1>1. CInv => FinishedReportKept
  BY DEF CInv, TypeOK, PlaceTypeOK, RunTypeOK, ReportInv, EndInv, Statuses, Delivered,
     FinishedReportKept
<1>2. QED
  BY <1>1, ReportInvariant, PTL

\* A run that returns leaves no temporary file and no umask probe, but for a
\* removal the system refused and the finished report of a failed copy.
THEOREM NothingLeftBehind == Spec => []NoLitter
<1>1. CInv => NoLitter
  BY DEF CInv, TypeOK, RunTypeOK, EndInv, LitterInv, Statuses, NoLitter
<1>2. QED
  BY <1>1, ReportInvariant, PTL
===============================================================================
