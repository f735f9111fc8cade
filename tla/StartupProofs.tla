---------------------------- MODULE StartupProofs ----------------------------
(***************************************************************************)
(* Starts of the container with every number of releases and crashes.      *)
(*                                                                         *)
(* The argument: while the script holds its local pair for verified, that  *)
(* pair is live until the first rename, and from the second backup on it   *)
(* is behind the two backups.  A roll-back is taken after a failure only,  *)
(* so where one command may fail it does not fail itself.                  *)
(***************************************************************************)
EXTENDS Startup, TLAPS

\* What is withstood: one failing command, or signals, in one life of the volume.
FewFaults == \A r \in Regimes : r.faults <= 1 /\ (r.signal => r.faults = 0)

Before == {"fetch", "keep", "stage", "backupDb", "backupManifest", "mark", "syncMark", "swapDb"}
Swapping == {"mark", "syncMark", "swapDb", "swapManifest", "verify"}
Updating == Swapping \cup {"backupDb", "backupManifest"}
Restoring == {"restoreDb", "restoreManifest"}
Ending == {"unmark", "syncUnmark", "remove"}

Kept == LiveVerified /\ dir["db"] = held
Saved == held \in Versions /\ dir["dbBackup"] = held /\ dir["manifestBackup"] = held

\* Which commands run for what, and with which files.
Jobbed ==
  /\ pc \in Updating => job = "install"
  /\ pc \in Restoring => job \in {"rollback", "recover"}
  /\ pc \in {"unmark", "syncUnmark"} => job \in {"rollback", "recover", "finish", "install"}
  /\ pc = "remove" => job # "idle"
  /\ pc = "remove" /\ job # "discard" => \A i \in 1 .. Len(rest) : rest[i] \notin Live
  /\ pc \in Updating \cup {"keep", "stage"} \/ (pc = "remove" /\ job = "stale") => remote \in Versions
Staged ==
  ~regime.signal =>
    /\ pc \in Updating \ {"swapManifest", "verify"} \/ (pc = "remove" /\ job = "stale") => staged = Live
    /\ pc = "swapManifest" => "manifest" \in staged

\* The release that is installed.
Installed ==
  /\ pc = "keep" => localValid /\ dir["db"] = remote
  /\ pc = "swapManifest" => dir["db"] = remote
  /\ pc = "verify" \/ (pc \in Ending /\ job = "install") => LiveVerified /\ dir["db"] = remote

\* The pair of this start.
LocalKept ==
  localValid =>
    /\ pc \in Before => Kept
    /\ pc = "backupManifest" => dir["dbBackup"] = held
    /\ pc \in Swapping => Saved
    /\ pc \in Restoring /\ job = "rollback" => Saved /\ faults = regime.faults
    /\ pc = "restoreManifest" /\ job = "rollback" => dir["db"] = held
    /\ pc \in Ending /\ job = "rollback" => Kept
    /\ pc = "remove" /\ job \in {"stale", "abort"} => Kept

IInv == TypeOK /\ Jobbed /\ Staged /\ Installed /\ LocalKept /\ ServedPairVerified

-----------------------------------------------------------------------------
(* The directory, and the answers of checks. *)

Values == Versions \cup {None, Junk}
FilesOK == dir \in [Entries -> Values] /\ durable \in [Entries -> SUBSET Values]

LEMMA WriteFiles ==
  ASSUME FilesOK, NEW n \in Entries, NEW v \in Values, Write(n, v)
  PROVE  FilesOK' /\ dir' = [dir EXCEPT ![n] = v]
BY DEF FilesOK, Write

LEMMA SyncFiles == ASSUME FilesOK, SyncDirectory PROVE FilesOK' /\ UNCHANGED dir
BY DEF FilesOK, SyncDirectory, Names

LEMMA PowerFiles == ASSUME FilesOK, LosePower PROVE FilesOK'
<1>1. PICK d \in Possible : dir' = d
  BY DEF LosePower
<1>2. Names = Entries
  BY DEF FilesOK, Names
<1>3. d \in [Entries -> UNION {durable[n] : n \in Entries}]
  BY <1>1, <1>2 DEF Possible
<1>4. \A n \in Entries : d[n] \in durable[n]
  BY <1>1, <1>2 DEF Possible
<1>5. d \in [Entries -> Values]
  <2>1. \A n \in Entries : d[n] \in Values
    BY <1>4 DEF FilesOK
  <2>2. QED  BY <1>3, <2>1
<1>6. durable' = [n \in Entries |-> {dir'[n]}]
  BY <1>2 DEF LosePower
<1>7. QED  BY <1>1, <1>5, <1>6 DEF FilesOK

LEMMA EntriesAre ==
  /\ Entries = {"db", "manifest", "dbBackup", "manifestBackup", "marker"}
  /\ {None, Junk} \cap Versions = {}
BY DEF Entries, Live, Backups, None, Junk, Versions

\* What a counted fault leaves, and what an answer tells.
LEMMA FaultCounts ==
  ASSUME TypeOK, CountFault PROVE faults' \in 0 .. regime.faults /\ faults < regime.faults
BY StartupAssumption DEF TypeOK, CountFault

LEMMA AnswerTells ==
  ASSUME TypeOK, NEW truth \in BOOLEAN, NEW answer \in BOOLEAN, Answers(truth, answer)
  PROVE  /\ faults' \in 0 .. regime.faults
         /\ answer => truth
         /\ ~answer => ~truth \/ (faults < regime.faults /\ faults' = faults + 1)
BY FaultCounts DEF Answers, CountFault, TypeOK

-----------------------------------------------------------------------------
LEMMA InitInv == Init => IInv
<1>1. SUFFICES ASSUME Init PROVE IInv
  OBVIOUS
<1>2. PICK db \in {None, Junk, 1}, manifest \in {None, 1} :
        dir = [e \in Entries |-> CASE e = "db" -> db [] e = "manifest" -> manifest [] OTHER -> None]
  BY <1>1 DEF Init
<1>3. 1 \in Versions
  BY StartupAssumption DEF Versions
<1>4. dir \in [Entries -> Values]
  BY <1>2, <1>3 DEF Values
<1>5. TypeOK
  <2>1. durable \in [Entries -> SUBSET Values]
    BY <1>1, <1>4 DEF Init
  <2>2. rest \in Seq(Entries) /\ Len(rest) <= 3
    BY <1>1 DEF Init
  <2>3. faults \in 0 .. regime.faults /\ crashes \in 0 .. MaxCrashes
    BY <1>1, StartupAssumption DEF Init
  <2>4. QED
    BY <1>1, <1>4, <2>1, <2>2, <2>3 DEF Init, TypeOK, Values, Labels, Jobs
<1>6. QED
  BY <1>1, <1>5 DEF Init, IInv, Jobbed, Staged, Installed, LocalKept, ServedPairVerified,
                    Before, Swapping, Updating, Restoring, Ending

-----------------------------------------------------------------------------
(* The steps. *)

LEMMA StartInv == ASSUME IInv, Start PROVE IInv'
<1>1. TypeOK'
  <2>1. rest' \in Seq(Entries) /\ Len(rest') <= 3
    BY DEF Start
  <2>2. QED
    BY <2>1 DEF Start, IInv, TypeOK, files, Labels, Jobs
<1>2. QED
  BY <1>1 DEF Start, IInv, Jobbed, Staged, Installed, LocalKept, ServedPairVerified,
              Before, Swapping, Updating, Restoring, Ending

LEMMA LocalInv == ASSUME IInv, Local PROVE IInv'
<1>1. PICK live \in BOOLEAN : Answers(LiveVerified, live) /\ localValid' = live /\ held' = IF live THEN dir["db"] ELSE None
  BY DEF Local
<1>2. faults' \in 0 .. regime.faults /\ (live => LiveVerified)
  BY <1>1, AnswerTells DEF IInv, LiveVerified, Verified
<1>3. TypeOK'
  BY <1>1, <1>2 DEF Local, Goto, files, IInv, TypeOK, Labels, LiveVerified, Verified
<1>4. QED
  BY <1>1, <1>2, <1>3
     DEF Local, Goto, files, IInv, Jobbed, Staged, Installed, LocalKept, ServedPairVerified, Kept,
         LiveVerified, Verified, Before, Swapping, Updating, Restoring, Ending

LEMMA FetchInv == ASSUME IInv, Fetch PROVE IInv'
<1>1. TypeOK'
  BY DEF Fetch, Goto, FallBack, files, IInv, TypeOK, Labels, Jobs, Live
<1>2. QED
  BY <1>1 DEF Fetch, Goto, FallBack, files, IInv, Jobbed, Staged, Installed, LocalKept, ServedPairVerified,
              Kept, Saved, LiveVerified, Verified, Before, Swapping, Updating, Restoring, Ending

LEMMA StopInv == ASSUME IInv, Stop PROVE IInv'
<1>1. TypeOK'
  BY DEF Stop, progress, Goto, files, IInv, TypeOK, Labels, Jobs, Live
<1>2. QED
  BY <1>1 DEF Stop, progress, Goto, files, IInv, Jobbed, Staged, Installed, LocalKept, ServedPairVerified,
              Kept, Saved, LiveVerified, Verified, Before, Swapping, Updating, Restoring, Ending

LEMMA KillInv == ASSUME IInv, Kill PROVE IInv'
<1>1. TypeOK'
  BY StartupAssumption DEF Kill, Crashes, progress, Goto, files, IInv, TypeOK, Labels, Jobs, Live
<1>2. QED
  BY <1>1 DEF Kill, Crashes, progress, Goto, files, IInv, Jobbed, Staged, Installed, LocalKept, ServedPairVerified,
              Kept, Saved, LiveVerified, Verified, Before, Swapping, Updating, Restoring, Ending

LEMMA SignalInv == ASSUME IInv, Signal PROVE IInv'
<1>1. TypeOK'
  BY StartupAssumption DEF Signal, Crashes, Goto, files, IInv, TypeOK, Labels, Jobs, Live
<1>2. QED
  BY <1>1 DEF Signal, Crashes, Goto, files, IInv, Jobbed, Staged, Installed, LocalKept, ServedPairVerified,
              Kept, Saved, LiveVerified, Verified, Before, Swapping, Updating, Restoring, Ending

LEMMA PowerLossInv == ASSUME IInv, PowerLoss PROVE IInv'
<1>1. TypeOK'
  <2>1. FilesOK'
    BY PowerFiles DEF PowerLoss, FilesOK, Values, IInv, TypeOK
  <2>2. QED
    BY <2>1, StartupAssumption DEF PowerLoss, Crashes, Goto, progress, FilesOK, Values, IInv, TypeOK, Labels
<1>2. QED
  BY <1>1 DEF PowerLoss, Goto, progress, IInv, Jobbed, Staged, Installed, LocalKept, ServedPairVerified,
              Before, Swapping, Updating, Restoring, Ending

\* An update that fails before a rename leaves the pair that is served.
LEMMA FallBackInv ==
  ASSUME IInv, FallBack, UNCHANGED <<files, progress, crashes>>, faults' \in 0 .. regime.faults,
         localValid => Kept
  PROVE  IInv'
<1>1. TypeOK'
  BY DEF FallBack, Goto, files, progress, IInv, TypeOK, Labels
<1>2. QED
  BY <1>1 DEF FallBack, Goto, files, progress, IInv, Jobbed, Staged, Installed, LocalKept, ServedPairVerified,
              Kept, Saved, LiveVerified, Verified, Before, Swapping, Updating, Restoring, Ending

\* One that fails later puts the backups back, and no further command fails.
LEMMA RollBackInv ==
  ASSUME IInv, RollBack, pc \in {"swapDb", "swapManifest", "verify"},
         UNCHANGED <<files, localValid, remote, held, regime, crashes>>,
         staged' \subseteq Live, faults' \in 0 .. regime.faults, localValid => faults' = regime.faults
  PROVE  IInv'
<1>1. localValid => BackupVerified
  BY DEF IInv, LocalKept, Swapping, Saved, BackupVerified, Verified
<1>2. TypeOK'
  BY DEF RollBack, Restore, FallBack, Goto, files, IInv, TypeOK, Labels, Jobs
<1>3. QED
  BY <1>1, <1>2 DEF RollBack, Restore, FallBack, Goto, files, IInv, Jobbed, Staged, Installed, LocalKept, ServedPairVerified,
              Kept, Saved, LiveVerified, Verified, Before, Swapping, Updating, Restoring, Ending

\* Which is so after a fault, and where a signal has deleted what was staged.
LEMMA LastFault ==
  ASSUME TypeOK, FewFaults, CountFault \/ (regime.signal /\ UNCHANGED faults)
  PROVE  faults' \in 0 .. regime.faults /\ faults' = regime.faults
<1>1. regime.faults \in Nat /\ regime.faults <= 1 /\ (regime.signal => regime.faults = 0) /\ faults \in 0 .. regime.faults
  BY StartupAssumption DEF TypeOK, FewFaults
<1>2. QED
  BY <1>1 DEF CountFault

LEMMA KeepManifestInv == ASSUME IInv, KeepManifest PROVE IInv'
<1>1. CASE Write("manifest", remote) /\ staged' = {} /\ Goto("serving") /\ UNCHANGED faults
  <2>1. remote \in Versions
    BY DEF KeepManifest, IInv, Jobbed
  <2>2. FilesOK' /\ dir' = [dir EXCEPT !["manifest"] = remote]
    BY <1>1, <2>1, WriteFiles, EntriesAre DEF IInv, TypeOK, FilesOK, Values
  <2>3. TypeOK'
    BY <1>1, <2>2 DEF KeepManifest, Goto, FilesOK, Values, IInv, TypeOK, Labels
  <2>4. LiveVerified' /\ dir'["db"] = held'
    BY <1>1, <2>1, <2>2, EntriesAre DEF KeepManifest, IInv, TypeOK, Installed, LocalKept, Before, Kept, LiveVerified, Verified
  <2>5. QED
    BY <1>1, <2>3, <2>4 DEF KeepManifest, Goto, IInv, Jobbed, Staged, Installed, LocalKept, ServedPairVerified,
              Before, Swapping, Updating, Restoring, Ending
<1>2. CASE Goto("down") /\ UNCHANGED files /\ staged' \subseteq Live /\ faults' \in 0 .. regime.faults
  <2>1. TypeOK'
    BY <1>2 DEF KeepManifest, Goto, files, IInv, TypeOK, Labels
  <2>2. QED
    BY <1>2, <2>1 DEF KeepManifest, Goto, files, IInv, Jobbed, Staged, Installed, LocalKept, ServedPairVerified,
              Kept, Saved, LiveVerified, Verified, Before, Swapping, Updating, Restoring, Ending
<1>3. QED
  BY <1>1, <1>2, FaultCounts DEF KeepManifest, Fault, IInv, TypeOK

LEMMA StageInv == ASSUME IInv, Stage PROVE IInv'
<1>1. CASE staged' = Live /\ Remove(<<"dbBackup", "manifestBackup", "marker">>, "stale") /\ localValid
  <2>1. rest' \in Seq(Entries) /\ Len(rest') = 3
    BY <1>1, EntriesAre DEF Remove
  <2>2. \A i \in 1 .. Len(rest') : rest'[i] \notin Live
    <3>1. SUFFICES ASSUME NEW i \in 1 .. 3 PROVE rest'[i] \notin Live
      BY <2>1
    <3>2. i = 1 \/ i = 2 \/ i = 3
      OBVIOUS
    <3>3. QED
      BY <1>1, <3>2 DEF Remove, Live
  <2>3. TypeOK'
    BY <1>1, <2>1 DEF Stage, Remove, files, IInv, TypeOK, Labels, Jobs, Live
  <2>4. QED
    BY <1>1, <2>2, <2>3 DEF Stage, Remove, files, IInv, Jobbed, Staged, Installed, LocalKept, ServedPairVerified,
              Kept, Saved, LiveVerified, Verified, Before, Swapping, Updating, Restoring, Ending
<1>2. CASE staged' = Live /\ pc' = "mark" /\ job' = "install" /\ UNCHANGED rest /\ ~localValid
  <2>1. TypeOK'
    BY <1>2 DEF Stage, files, IInv, TypeOK, Labels, Jobs
  <2>2. QED
    BY <1>2, <2>1 DEF Stage, files, IInv, Jobbed, Staged, Installed, LocalKept, ServedPairVerified,
              Kept, Saved, LiveVerified, Verified, Before, Swapping, Updating, Restoring, Ending
<1>3. CASE FallBack /\ UNCHANGED staged
  BY <1>3, FallBackInv DEF Stage, progress, IInv, TypeOK, LocalKept, Before
<1>4. CASE Goto("down") /\ UNCHANGED staged
  <2>1. TypeOK'
    BY <1>4 DEF Stage, Goto, files, IInv, TypeOK, Labels
  <2>2. QED
    BY <1>4, <2>1 DEF Stage, Goto, files, IInv, Jobbed, Staged, Installed, LocalKept, ServedPairVerified,
              Kept, Saved, LiveVerified, Verified, Before, Swapping, Updating, Restoring, Ending
<1>5. QED
  BY <1>1, <1>2, <1>3, <1>4 DEF Stage, IInv, TypeOK

LEMMA BackupDbInv == ASSUME IInv, FewFaults, BackupDb PROVE IInv'
<1>1. CASE Write("dbBackup", dir["db"]) /\ Goto("backupManifest") /\ UNCHANGED faults
  <2>1. FilesOK' /\ dir' = [dir EXCEPT !["dbBackup"] = dir["db"]]
    BY <1>1, WriteFiles, EntriesAre DEF BackupDb, IInv, TypeOK, FilesOK, Values
  <2>2. TypeOK'
    BY <1>1, <2>1 DEF BackupDb, Goto, progress, FilesOK, Values, IInv, TypeOK, Labels, Live
  <2>3. QED
    BY <1>1, <2>1, <2>2, EntriesAre DEF BackupDb, Goto, progress, TypeOK, IInv, Jobbed, Staged, Installed, LocalKept, ServedPairVerified,
              Kept, Saved, LiveVerified, Verified, Before, Swapping, Updating, Restoring, Ending
<1>2. CASE Fault /\ FallBack
  <2>1. faults' \in 0 .. regime.faults
    BY <1>2, FaultCounts DEF Fault, IInv
  <2>2. localValid => Kept
    BY DEF BackupDb, IInv, LocalKept, Before
  <2>3. QED
    BY <1>2, <2>1, <2>2, FallBackInv DEF BackupDb, Fault
<1>3. QED
  BY <1>1, <1>2 DEF BackupDb

LEMMA BackupManifestInv == ASSUME IInv, FewFaults, BackupManifest PROVE IInv'
<1>1. CASE Write("manifestBackup", dir["manifest"]) /\ Goto("mark") /\ UNCHANGED faults
  <2>1. FilesOK' /\ dir' = [dir EXCEPT !["manifestBackup"] = dir["manifest"]]
    BY <1>1, WriteFiles, EntriesAre DEF BackupManifest, IInv, TypeOK, FilesOK, Values
  <2>2. TypeOK'
    BY <1>1, <2>1 DEF BackupManifest, Goto, progress, FilesOK, Values, IInv, TypeOK, Labels, Live
  <2>3. QED
    BY <1>1, <2>1, <2>2, EntriesAre DEF BackupManifest, Goto, progress, TypeOK, IInv, Jobbed, Staged, Installed, LocalKept, ServedPairVerified,
              Kept, Saved, LiveVerified, Verified, Before, Swapping, Updating, Restoring, Ending
<1>2. CASE Fault /\ Remove(<<"dbBackup">>, "abort")
  <2>1. faults' \in 0 .. regime.faults
    BY <1>2, FaultCounts DEF Fault, IInv
  <2>2. rest' \in Seq(Entries) /\ Len(rest') <= 3 /\ \A i \in 1 .. Len(rest') : rest'[i] \notin Live
    BY <1>2, EntriesAre DEF Remove, Live
  <2>3. TypeOK'
    BY <1>2, <2>1, <2>2 DEF BackupManifest, Fault, Remove, files, progress, IInv, TypeOK, Labels, Jobs
  <2>4. QED
    BY <1>2, <2>2, <2>3 DEF BackupManifest, Fault, Remove, files, progress, IInv, Jobbed, Staged, Installed, LocalKept, ServedPairVerified,
              Kept, Saved, LiveVerified, Verified, Before, Swapping, Updating, Restoring, Ending
<1>3. QED
  BY <1>1, <1>2 DEF BackupManifest

LEMMA MarkInv == ASSUME IInv, FewFaults, Mark PROVE IInv'
<1>1. CASE Write("marker", remote) /\ Goto("syncMark") /\ UNCHANGED faults
  <2>1. FilesOK' /\ dir' = [dir EXCEPT !["marker"] = remote]
    BY <1>1, WriteFiles, EntriesAre DEF Mark, Jobbed, Updating, Swapping, IInv, TypeOK, FilesOK, Values
  <2>2. TypeOK'
    BY <1>1, <2>1 DEF Mark, Goto, progress, FilesOK, Values, IInv, TypeOK, Labels, Live
  <2>3. QED
    BY <1>1, <2>1, <2>2, EntriesAre DEF Mark, Goto, progress, TypeOK, IInv, Jobbed, Staged, Installed, LocalKept, ServedPairVerified,
              Kept, Saved, LiveVerified, Verified, Before, Swapping, Updating, Restoring, Ending
<1>2. CASE Fault /\ FallBack
  <2>1. faults' \in 0 .. regime.faults
    BY <1>2, FaultCounts DEF Fault, IInv
  <2>2. localValid => Kept
    BY DEF Mark, IInv, LocalKept, Before
  <2>3. QED
    BY <1>2, <2>1, <2>2, FallBackInv DEF Mark, Fault
<1>3. QED
  BY <1>1, <1>2 DEF Mark

LEMMA SyncMarkInv == ASSUME IInv, SyncMark PROVE IInv'
<1>1. CASE SyncDirectory /\ Goto("swapDb") /\ UNCHANGED faults
  <2>1. FilesOK' /\ UNCHANGED dir
    BY <1>1, SyncFiles DEF IInv, TypeOK, FilesOK, Values
  <2>2. TypeOK'
    BY <1>1, <2>1 DEF SyncMark, Goto, progress, FilesOK, Values, IInv, TypeOK, Labels
  <2>3. QED
    BY <1>1, <2>1, <2>2 DEF SyncMark, Goto, progress, IInv, Jobbed, Staged, Installed, LocalKept, ServedPairVerified,
              Kept, Saved, LiveVerified, Verified, Before, Swapping, Updating, Restoring, Ending
<1>2. CASE Fault /\ FallBack
  <2>1. faults' \in 0 .. regime.faults
    BY <1>2, FaultCounts DEF Fault, IInv
  <2>2. localValid => Kept
    BY DEF SyncMark, IInv, LocalKept, Before
  <2>3. QED
    BY <1>2, <2>1, <2>2, FallBackInv DEF SyncMark, Fault
<1>3. QED
  BY <1>1, <1>2 DEF SyncMark

LEMMA SwapDbInv == ASSUME IInv, FewFaults, SwapDb PROVE IInv'
<1>1. CASE Write("db", remote) /\ staged' = staged \ {"db"} /\ Goto("swapManifest") /\ UNCHANGED faults
  <2>1. remote \in Versions
    BY DEF SwapDb, IInv, Jobbed, Updating, Swapping
  <2>2. FilesOK' /\ dir' = [dir EXCEPT !["db"] = remote]
    BY <1>1, <2>1, WriteFiles, EntriesAre DEF IInv, TypeOK, FilesOK, Values
  <2>3. TypeOK'
    BY <1>1, <2>2 DEF SwapDb, Goto, FilesOK, Values, IInv, TypeOK, Labels
  <2>4. QED
    BY <1>1, <2>1, <2>2, <2>3, EntriesAre DEF SwapDb, Goto, TypeOK, Live, IInv, Jobbed, Staged, Installed, LocalKept, ServedPairVerified,
              Kept, Saved, LiveVerified, Verified, Before, Swapping, Updating, Restoring, Ending
<1>2. CASE RollBack /\ UNCHANGED files /\ staged' = staged /\ (CountFault \/ (regime.signal /\ UNCHANGED faults))
  <2>1. faults' \in 0 .. regime.faults /\ faults' = regime.faults
    BY <1>2, LastFault DEF IInv
  <2>2. QED
    BY <1>2, <2>1, RollBackInv DEF SwapDb, IInv, TypeOK
<1>3. "db" \notin staged => regime.signal
  BY DEF SwapDb, IInv, Staged, Updating, Swapping, Live
<1>4. QED
  BY <1>1, <1>2, <1>3 DEF SwapDb, Fault

LEMMA SwapManifestInv == ASSUME IInv, FewFaults, SwapManifest PROVE IInv'
<1>1. CASE Write("manifest", remote) /\ staged' = staged \ {"manifest"} /\ Goto("verify") /\ UNCHANGED faults
  <2>1. remote \in Versions
    BY DEF SwapManifest, IInv, Jobbed, Updating, Swapping
  <2>2. FilesOK' /\ dir' = [dir EXCEPT !["manifest"] = remote]
    BY <1>1, <2>1, WriteFiles, EntriesAre DEF IInv, TypeOK, FilesOK, Values
  <2>3. TypeOK'
    BY <1>1, <2>2 DEF SwapManifest, Goto, FilesOK, Values, IInv, TypeOK, Labels
  <2>4. QED
    BY <1>1, <2>1, <2>2, <2>3, EntriesAre DEF SwapManifest, Goto, TypeOK, Live, IInv, Jobbed, Staged, Installed, LocalKept, ServedPairVerified,
              Kept, Saved, LiveVerified, Verified, Before, Swapping, Updating, Restoring, Ending
<1>2. CASE RollBack /\ UNCHANGED files /\ staged' = staged /\ (CountFault \/ (regime.signal /\ UNCHANGED faults))
  <2>1. faults' \in 0 .. regime.faults /\ faults' = regime.faults
    BY <1>2, LastFault DEF IInv
  <2>2. QED
    BY <1>2, <2>1, RollBackInv DEF SwapManifest, IInv, TypeOK
<1>3. "manifest" \notin staged => regime.signal
  BY DEF SwapManifest, IInv, Staged, Updating, Swapping, Live
<1>4. QED
  BY <1>1, <1>2, <1>3 DEF SwapManifest, Fault

LEMMA VerifyInv == ASSUME IInv, FewFaults, Verify PROVE IInv'
<1>1. LiveVerified /\ dir["db"] = remote
  BY DEF Verify, IInv, Installed
<1>2. PICK live \in BOOLEAN : Answers(LiveVerified, live) /\ IF live THEN Goto("unmark") ELSE RollBack
  BY DEF Verify
<1>3. CASE live
  <2>1. faults' \in 0 .. regime.faults
    BY <1>2, AnswerTells DEF IInv, LiveVerified, Verified
  <2>2. TypeOK'
    BY <1>2, <1>3, <2>1 DEF Verify, Goto, files, progress, IInv, TypeOK, Labels
  <2>3. QED
    BY <1>1, <1>2, <1>3, <2>2 DEF Verify, Goto, files, progress, IInv, Jobbed, Staged, Installed, LocalKept, ServedPairVerified,
              Kept, Saved, LiveVerified, Verified, Before, Swapping, Updating, Restoring, Ending
<1>4. CASE ~live
  <2>1. CountFault
    BY <1>1, <1>2, <1>4 DEF Answers
  <2>2. faults' \in 0 .. regime.faults /\ faults' = regime.faults
    BY <2>1, LastFault DEF IInv
  <2>3. QED
    BY <1>2, <1>4, <2>2, RollBackInv DEF Verify, progress, IInv, TypeOK
<1>5. QED
  BY <1>3, <1>4

-----------------------------------------------------------------------------
(* Restoring, recovering and clearing up. *)

LEMMA DownInv == ASSUME TypeOK', pc' = "down" PROVE IInv'
BY DEF IInv, Jobbed, Staged, Installed, LocalKept, ServedPairVerified,
              Kept, Saved, LiveVerified, Verified, Before, Swapping, Updating, Restoring, Ending

\* A restore that fails was not that of a verified pair.
LEMMA RestoreFailedDown ==
  ASSUME IInv, pc \in Restoring, RestoreFailed, CountFault PROVE Goto("down")
<1>1. faults < regime.faults /\ faults # regime.faults
  <2>1. regime.faults \in Nat /\ faults \in 0 .. regime.faults
    BY StartupAssumption DEF IInv, TypeOK
  <2>2. QED
    BY <2>1 DEF CountFault
<1>2. job = "rollback" => ~localValid
  BY <1>1 DEF IInv, LocalKept
<1>3. QED
  BY <1>2 DEF RestoreFailed, FallBack, Goto

LEMMA RestoreDbInv == ASSUME IInv, RestoreDb PROVE IInv'
<1>1. CASE Write("db", dir["dbBackup"]) /\ Goto("restoreManifest") /\ UNCHANGED faults
  <2>1. FilesOK' /\ dir' = [dir EXCEPT !["db"] = dir["dbBackup"]]
    BY <1>1, WriteFiles, EntriesAre DEF IInv, TypeOK, FilesOK, Values
  <2>2. TypeOK'
    BY <1>1, <2>1 DEF RestoreDb, Goto, progress, FilesOK, Values, IInv, TypeOK, Labels
  <2>3. QED
    BY <1>1, <2>1, <2>2, EntriesAre DEF RestoreDb, Goto, progress, TypeOK, IInv, Jobbed, Staged, Installed, LocalKept, ServedPairVerified,
              Kept, Saved, LiveVerified, Verified, Before, Swapping, Updating, Restoring, Ending
<1>2. CASE Fault /\ RestoreFailed
  <2>1. Goto("down") /\ faults' \in 0 .. regime.faults
    BY <1>2, RestoreFailedDown, FaultCounts DEF RestoreDb, Fault, Restoring, IInv
  <2>2. TypeOK'
    BY <1>2, <2>1 DEF RestoreDb, Fault, Goto, files, progress, IInv, TypeOK, Labels
  <2>3. QED
    BY <2>1, <2>2, DownInv DEF Goto
<1>3. QED
  BY <1>1, <1>2 DEF RestoreDb

LEMMA RestoreManifestInv == ASSUME IInv, RestoreManifest PROVE IInv'
<1>1. ASSUME Write("manifest", dir["manifestBackup"])
      PROVE  FilesOK' /\ dir' = [dir EXCEPT !["manifest"] = dir["manifestBackup"]]
  BY <1>1, WriteFiles, EntriesAre DEF IInv, TypeOK, FilesOK, Values
<1>2. CASE Write("manifest", dir["manifestBackup"]) /\ Goto("unmark") /\ UNCHANGED faults
  <2>1. TypeOK'
    BY <1>1, <1>2 DEF RestoreManifest, Goto, progress, FilesOK, Values, IInv, TypeOK, Labels
  <2>2. QED
    BY <1>1, <1>2, <2>1, EntriesAre DEF RestoreManifest, Goto, progress, TypeOK, IInv, Jobbed, Staged, Installed, LocalKept, ServedPairVerified,
              Kept, Saved, LiveVerified, Verified, Before, Swapping, Updating, Restoring, Ending
<1>3. CASE (Write("manifest", dir["manifestBackup"]) \/ UNCHANGED files) /\ CountFault /\ RestoreFailed
  <2>1. Goto("down") /\ faults' \in 0 .. regime.faults
    BY <1>3, RestoreFailedDown, FaultCounts DEF RestoreManifest, Restoring, IInv
  <2>2. FilesOK'
    BY <1>1, <1>3 DEF files, IInv, TypeOK, FilesOK, Values
  <2>3. TypeOK'
    BY <2>1, <2>2 DEF RestoreManifest, Goto, progress, FilesOK, Values, IInv, TypeOK, Labels
  <2>4. QED
    BY <2>1, <2>3, DownInv DEF Goto
<1>4. QED
  BY <1>2, <1>3 DEF RestoreManifest, Fault

LEMMA UnmarkInv == ASSUME IInv, Unmark PROVE IInv'
<1>1. FilesOK' /\ \A e \in Entries \ {"marker"} : dir'[e] = dir[e]
  BY WriteFiles, EntriesAre DEF Unmark, Fault, files, IInv, TypeOK, FilesOK, Values
<1>2. faults' \in 0 .. regime.faults
  BY FaultCounts DEF Unmark, Fault, IInv, TypeOK
<1>3. TypeOK'
  BY <1>1, <1>2 DEF Unmark, Goto, progress, FilesOK, Values, IInv, TypeOK, Labels
<1>4. QED
  BY <1>1, <1>3, EntriesAre DEF Unmark, Goto, progress, IInv, Jobbed, Staged, Installed, LocalKept, ServedPairVerified,
              Kept, Saved, LiveVerified, Verified, Before, Swapping, Updating, Restoring, Ending

LEMMA RemoveBackups ==
  ASSUME NEW for, Remove(<<"dbBackup", "manifestBackup">>, for)
  PROVE  rest' \in Seq(Entries) /\ Len(rest') <= 3 /\ \A i \in 1 .. Len(rest') : rest'[i] \notin Live
<1>1. rest' = <<"dbBackup", "manifestBackup">>
  BY DEF Remove
<1>2. QED
  BY <1>1, EntriesAre DEF Live

LEMMA SyncUnmarkInv == ASSUME IInv, SyncUnmark PROVE IInv'
<1>1. FilesOK' /\ UNCHANGED dir
  BY SyncFiles DEF SyncUnmark, IInv, TypeOK, FilesOK, Values
<1>2. rest' \in Seq(Entries) /\ Len(rest') <= 3 /\ \A i \in 1 .. Len(rest') : rest'[i] \notin Live
  BY RemoveBackups DEF SyncUnmark
<1>3. TypeOK'
  BY <1>1, <1>2 DEF SyncUnmark, Remove, progress, FilesOK, Values, IInv, TypeOK, Labels
<1>4. QED
  BY <1>1, <1>2, <1>3 DEF SyncUnmark, Remove, progress, IInv, Jobbed, Staged, Installed, LocalKept, ServedPairVerified,
              Kept, Saved, LiveVerified, Verified, Before, Swapping, Updating, Restoring, Ending

LEMMA RecoverInv == ASSUME IInv, Recover PROVE IInv'
<1>1. CASE pc' \in {"local", "down", "unmark", "restoreDb"} /\ UNCHANGED rest /\ faults' \in 0 .. regime.faults
           /\ job' \in {"idle", "finish", "recover", job}
           /\ (pc' = "unmark" => job' = "finish") /\ (pc' = "restoreDb" => job' = "recover")
  <2>1. TypeOK'
    BY <1>1 DEF Recover, files, progress, IInv, TypeOK, Labels, Jobs
  <2>2. QED
    BY <1>1, <2>1 DEF Recover, files, progress, IInv, Jobbed, Staged, Installed, LocalKept, ServedPairVerified,
              Kept, Saved, LiveVerified, Verified, Before, Swapping, Updating, Restoring, Ending
<1>2. CASE Remove(<<"dbBackup", "manifestBackup">>, "sweep") /\ faults' \in 0 .. regime.faults
  <2>1. rest' \in Seq(Entries) /\ Len(rest') <= 3 /\ \A i \in 1 .. Len(rest') : rest'[i] \notin Live
    BY <1>2, RemoveBackups
  <2>2. TypeOK'
    BY <1>2, <2>1 DEF Recover, Remove, files, progress, IInv, TypeOK, Labels, Jobs
  <2>3. QED
    BY <1>2, <2>1, <2>2 DEF Recover, Remove, files, progress, IInv, Jobbed, Staged, Installed, LocalKept, ServedPairVerified,
              Kept, Saved, LiveVerified, Verified, Before, Swapping, Updating, Restoring, Ending
<1>3. CASE Remove(<<"db", "manifest", "marker">>, "discard") /\ faults' \in 0 .. regime.faults
  <2>1. rest' \in Seq(Entries) /\ Len(rest') <= 3
    BY <1>3, EntriesAre DEF Remove
  <2>2. TypeOK'
    BY <1>3, <2>1 DEF Recover, Remove, files, progress, IInv, TypeOK, Labels, Jobs
  <2>3. QED
    BY <1>3, <2>2 DEF Recover, Remove, files, progress, IInv, Jobbed, Staged, Installed, LocalKept, ServedPairVerified,
              Kept, Saved, LiveVerified, Verified, Before, Swapping, Updating, Restoring, Ending
<1>4. LiveVerified \in BOOLEAN
  BY DEF LiveVerified, Verified
<1>5. CASE RecoverNothing
  BY <1>1, <1>5 DEF RecoverNothing, Goto, IInv, TypeOK
<1>6. CASE RecoverUnmarked
  <2>1. PICK live \in BOOLEAN :
          /\ Answers(LiveVerified, live)
          /\ IF live THEN Remove(<<"dbBackup", "manifestBackup">>, "sweep") ELSE Goto("down")
    BY <1>6 DEF RecoverUnmarked
  <2>2. faults' \in 0 .. regime.faults
    BY <1>4, <2>1, AnswerTells DEF IInv
  <2>3. QED
    BY <1>1, <1>2, <2>1, <2>2 DEF Goto
<1>7. CASE RecoverMarked
  <2>1. PICK live \in BOOLEAN :
          /\ Answers(LiveVerified, live)
          /\ \/ pc' = "unmark" /\ job' = "finish" /\ UNCHANGED rest
             \/ Restore("recover")
             \/ Goto("down")
             \/ Remove(<<"db", "manifest", "marker">>, "discard")
    BY <1>7 DEF RecoverMarked
  <2>2. faults' \in 0 .. regime.faults
    BY <1>4, <2>1, AnswerTells DEF IInv
  <2>3. QED
    BY <1>1, <1>3, <2>1, <2>2 DEF Goto, Restore
<1>8. QED
  BY <1>5, <1>6, <1>7 DEF Recover

LEMMA RemoveNextInv == ASSUME IInv, RemoveNext PROVE IInv'
<1>1. /\ Head(rest) \in Entries /\ Head(rest) = rest[1] /\ 1 \in 1 .. Len(rest)
      /\ Tail(rest) \in Seq(Entries) /\ Len(Tail(rest)) <= 3
      /\ \A i \in 1 .. Len(Tail(rest)) : Tail(rest)[i] = rest[i + 1] /\ i + 1 \in 1 .. Len(rest)
  BY DEF RemoveNext, IInv, TypeOK
<1>2. FilesOK' /\ (dir' = [dir EXCEPT ![Head(rest)] = None] \/ UNCHANGED dir)
  BY <1>1, WriteFiles DEF RemoveNext, Fault, files, IInv, TypeOK, FilesOK, Values
<1>3. faults' \in 0 .. regime.faults
  BY FaultCounts DEF RemoveNext, Fault, IInv, TypeOK
<1>4. TypeOK'
  BY <1>1, <1>2, <1>3 DEF RemoveNext, progress, FilesOK, Values, IInv, TypeOK, Jobs
<1>5. \/ job' = job
      \/ job = "recover" /\ job' = "giveUp"
  BY DEF RemoveNext
<1>6. job # "discard" => dir'["db"] = dir["db"] /\ dir'["manifest"] = dir["manifest"]
  BY <1>1, <1>2, EntriesAre DEF RemoveNext, IInv, TypeOK, Jobbed, Live
<1>7. job # "discard" => \A i \in 1 .. Len(rest') : rest'[i] \notin Live
  BY <1>1 DEF RemoveNext, IInv, Jobbed
<1>8. QED
  BY <1>4, <1>5, <1>6, <1>7 DEF RemoveNext, progress, IInv, Jobbed, Staged, Installed, LocalKept, ServedPairVerified,
              Kept, Saved, LiveVerified, Verified, Before, Swapping, Updating, Restoring, Ending

LEMMA RemovedInv == ASSUME IInv, Removed PROVE IInv'
<1>1. FilesOK' /\ UNCHANGED dir
  BY SyncFiles DEF Removed, files, IInv, TypeOK, FilesOK, Values
<1>2. job \in {"sweep", "discard", "finish", "recover", "giveUp", "stale", "install", "abort", "rollback"}
  BY DEF Removed, IInv, TypeOK, Jobbed, Jobs
<1>3. LiveVerified => dir["db"] \in Versions
  BY DEF LiveVerified, Verified
<1>4. TypeOK'
  BY <1>1, <1>2 DEF Removed, FilesOK, Values, IInv, TypeOK, Labels, Jobs
<1>5. QED
  BY <1>1, <1>2, <1>3, <1>4 DEF Removed, IInv, Jobbed, Staged, Installed, LocalKept, ServedPairVerified,
              Kept, Saved, LiveVerified, Verified, Before, Swapping, Updating, Restoring, Ending

-----------------------------------------------------------------------------
\* Starts, updates, roll-backs and recoveries keep the inductive invariant, whatever
\* is killed, signalled, refused or lost in between.
LEMMA NextInv == ASSUME IInv, FewFaults, [Next]_vars PROVE IInv'
<1>1. CASE ScriptStep
  BY <1>1, StartInv, RecoverInv, LocalInv, FetchInv, KeepManifestInv, StageInv, BackupDbInv, BackupManifestInv,
     MarkInv, SyncMarkInv, SwapDbInv, SwapManifestInv, VerifyInv, RestoreDbInv, RestoreManifestInv,
     UnmarkInv, SyncUnmarkInv, RemoveNextInv, RemovedInv DEF ScriptStep
<1>2. CASE Stop \/ Kill \/ Signal \/ PowerLoss
  BY <1>2, StopInv, KillInv, SignalInv, PowerLossInv
<1>3. CASE UNCHANGED vars
  BY <1>3 DEF vars, IInv, Jobbed, Staged, Installed, LocalKept, ServedPairVerified,
              Kept, Saved, LiveVerified, Verified, Before, Swapping, Updating, Restoring, Ending, TypeOK
<1>4. QED
  BY <1>1, <1>2, <1>3 DEF Next

THEOREM InvariantHolds == ASSUME FewFaults PROVE Spec => []IInv
<1>1. Init => IInv
  BY InitInv
<1>2. IInv /\ [Next]_vars => IInv'
  BY NextInv
<1>3. QED
  BY <1>1, <1>2, PTL DEF Spec

\* Where signals or one failing command may disturb the script (never both), and with
\* every power loss, the server is started on one release only: the one the script
\* verified when it started, or the one it has installed (startup.sh:325 and 369).
THEOREM ServedPairIsVerified == ASSUME FewFaults PROVE Spec => []ServedPairVerified
<1>1. IInv => ServedPairVerified
  BY DEF IInv
<1>2. QED
  BY <1>1, InvariantHolds, PTL

\* The files, the script's variables and its commands are what they are taken for.
THEOREM TypeCorrect == ASSUME FewFaults PROVE Spec => []TypeOK
<1>1. IInv => TypeOK
  BY DEF IInv
<1>2. QED
  BY <1>1, InvariantHolds, PTL

-----------------------------------------------------------------------------
(* The volume: what it holds at every moment of every life of the          *)
(* container is a verified pair, and a directory recovery can go on from.  *)
(*                                                                         *)
(* The argument: a pair is safe when it is verified and no power loss can  *)
(* change it.  The live pair is unsafe only between the first rename and   *)
(* the sync after the marker was removed, and meanwhile the backups, which *)
(* were synced with the marker, are safe.  Where the machine keeps its     *)
(* power, a marker is there as long as the backups are needed.  What can   *)
(* go wrong in removing either of them uses up the one failure there is.   *)

\* What is withstood: kills with one failing command, kills with signals, or power
\* losses.  With two failing commands, or a power loss beside a kill or a failure, a
\* pair may be lost.
SingleCause ==
  \A r \in Regimes :
    /\ r.faults <= 1 /\ (r.signal => r.faults = 0)
    /\ r.powerLoss => r.faults = 0 /\ ~r.kill /\ ~r.signal

Used == faults = regime.faults

\* No power loss changes what these names hold.
Settled(S) == regime.powerLoss => \A e \in S : durable[e] = {dir[e]}

LiveSafe == LiveVerified /\ Settled(Live)
BackupSafe == BackupVerified /\ Settled(Backups)
NoBackups == \A e \in Backups : ~Has(e)

\* The commands between which the live pair may be torn.
Torn ==
  \/ pc \in {"swapManifest", "verify", "restoreManifest"}
  \/ pc \in {"unmark", "syncUnmark"} /\ job # "finish"
  \/ pc = "remove" /\ job = "discard"

-----------------------------------------------------------------------------
(* What is true of the volume, whatever the script does. *)

Volume ==
  /\ ~Torn => Settled(Live)
  /\ LiveSafe \/ Settled(Backups)
  /\ held # None => LiveSafe \/ BackupSafe
  /\ ~regime.powerLoss => LiveVerified \/ NoBackups \/ (Has("marker") /\ BackupVerified)
  /\ held # None /\ Has("marker") /\ NoBackups => Used

-----------------------------------------------------------------------------
(* What each command relies on. *)

\* A marker or a backup that should have been removed has used up the failure.
InRest(e) == \E i \in 1 .. Len(rest) : rest[i] = e
Unmarked ==
  \/ pc \in {"local", "fetch", "keep", "stage", "backupDb", "backupManifest", "syncUnmark"}
  \/ pc = "remove" /\ job # "discard"
  \/ pc = "remove" /\ ~InRest("marker")
Leftovers ==
  /\ Unmarked /\ Has("marker") => Used
  /\ pc = "remove" /\ job \in {"sweep", "finish", "recover"} => \A e \in Backups : Has(e) => InRest(e) \/ Used
  /\ pc = "local" /\ ~NoBackups => LiveVerified /\ Used

\* A start without a local pair of its own has nothing to lose, and no backups.
WithoutLocal ==
  ~localValid =>
    /\ pc \notin {"keep", "backupDb", "backupManifest"}
    /\ pc \in Restoring => job # "rollback"
    /\ pc \in Ending => job \notin {"rollback", "stale", "abort"}
    /\ pc \in {"fetch", "stage"} \cup Swapping \/ (pc \in Ending /\ job = "install") =>
         held = None /\ NoBackups /\ Settled(Backups)

\* Torn or not, there is a pair to go back to, and the marker says so.
Guarded ==
  /\ pc \in Swapping \ {"mark"} => Has("marker")
  /\ pc \in {"swapDb", "swapManifest", "verify"} => Settled(Backups)
  /\ pc \in Restoring => BackupSafe /\ Has("marker")
  /\ pc = "restoreManifest" => dir["db"] = dir["dbBackup"]
  /\ pc \in {"unmark", "syncUnmark"} =>
       /\ LiveVerified
       /\ job \in {"recover", "rollback"} \/ (job = "install" /\ localValid) => BackupSafe
  /\ pc = "remove" /\ job # "discard" => LiveVerified
  /\ pc = "remove" /\ job = "discard" =>
       held = None /\ NoBackups /\ Settled(Backups) /\ \A i \in 1 .. Len(rest) : rest[i] \notin Backups

VInv == IInv /\ Volume /\ Leftovers /\ WithoutLocal /\ Guarded

-----------------------------------------------------------------------------
(* The directory. *)

LEMMA WriteOne ==
  ASSUME TypeOK, NEW n \in Entries, NEW v, Write(n, v)
  PROVE  /\ dir'[n] = v /\ durable'[n] = durable[n] \cup {v}
         /\ \A e \in Entries \ {n} : dir'[e] = dir[e] /\ durable'[e] = durable[e]
BY DEF TypeOK, Write

LEMMA SyncAll ==
  ASSUME TypeOK, SyncDirectory
  PROVE  \A e \in Entries : dir'[e] = dir[e] /\ durable'[e] = {dir'[e]}
BY DEF TypeOK, SyncDirectory, Names

\* A power loss leaves of what is settled just that, and settles everything.
LEMMA PowerKeeps ==
  ASSUME TypeOK, LosePower
  PROVE  \A e \in Entries : dir'[e] \in durable[e] /\ durable'[e] = {dir'[e]}
<1>1. Names = Entries
  BY DEF TypeOK, Names
<1>2. QED
  BY <1>1 DEF LosePower, Possible

\* What can go wrong has gone wrong after a failure, and from the start where none is possible.
LEMMA OneFault ==
  ASSUME TypeOK, SingleCause
  PROVE  /\ CountFault => faults' = regime.faults /\ ~regime.powerLoss /\ ~regime.signal
         /\ regime.signal \/ regime.powerLoss => Used
         /\ regime.powerLoss => ~regime.kill /\ ~regime.signal
<1>1. /\ regime.faults \in Nat /\ regime.faults <= 1 /\ faults \in 0 .. regime.faults
      /\ regime.signal => regime.faults = 0
      /\ regime.powerLoss => regime.faults = 0 /\ ~regime.kill /\ ~regime.signal
  BY StartupAssumption DEF TypeOK, SingleCause
<1>2. QED
  BY <1>1 DEF CountFault, Used

\* A step that leaves the directory alone.
LEMMA VolumeStays ==
  ASSUME VInv, UNCHANGED <<files, regime>>, held' \in {None, held}, Used => Used',
         Torn => Torn' \/ Settled(Live)
  PROVE  Volume'
BY DEF VInv, Volume, files, Settled, LiveSafe, BackupSafe, LiveVerified, BackupVerified, Verified, NoBackups, Has

-----------------------------------------------------------------------------
LEMMA InitVolume == Init => VInv
<1>1. SUFFICES ASSUME Init PROVE Volume /\ Leftovers /\ WithoutLocal /\ Guarded
  BY InitInv DEF VInv
<1>2. \A e \in Entries : durable[e] = {dir[e]} /\ (e \notin Live => dir[e] = None)
  BY <1>1, EntriesAre DEF Init, Live
<1>3. NoBackups /\ Settled(Live) /\ Settled(Backups)
  BY <1>2 DEF NoBackups, Has, Settled, Entries, Live, Backups
<1>4. QED
  BY <1>1, <1>3 DEF Init, Volume, Leftovers, WithoutLocal, Guarded, Unmarked, Before, Swapping, Restoring, Ending

LEMMA StartVolume == ASSUME VInv, Start PROVE Volume' /\ Leftovers' /\ WithoutLocal' /\ Guarded'
<1>1. Volume'
  BY VolumeStays DEF Start, files, Torn, Used
<1>2. QED
  BY <1>1 DEF Start, Leftovers, WithoutLocal, Guarded, Unmarked, Before, Swapping, Restoring, Ending

LEMMA LocalVolume ==
  ASSUME VInv, SingleCause, Local PROVE Volume' /\ Leftovers' /\ WithoutLocal' /\ Guarded'
<1>1. PICK live \in BOOLEAN : Answers(LiveVerified, live) /\ localValid' = live /\ held' = IF live THEN dir["db"] ELSE None
  BY DEF Local
<1>2. live => LiveVerified
  BY <1>1 DEF Answers
<1>3. Used => Used' /\ UNCHANGED faults
  BY <1>1 DEF Answers, CountFault, Used, Local, VInv, IInv, TypeOK
<1>4. ~live => held' = None /\ NoBackups /\ Settled(Backups)
  <2>1. ~live => ~LiveVerified \/ (CountFault /\ ~Used)
    BY <1>1, <1>3 DEF Answers, CountFault, Used, VInv, IInv, TypeOK
  <2>2. CountFault => Settled(Backups)
    BY OneFault DEF VInv, IInv, Settled
  <2>3. ~LiveVerified \/ ~Used => NoBackups
    BY DEF Local, VInv, Leftovers
  <2>4. ~LiveVerified => Settled(Backups)
    BY DEF VInv, Volume, LiveSafe
  <2>5. QED
    BY <1>1, <2>1, <2>2, <2>3, <2>4
<1>5. Volume'
  BY <1>1, <1>2, <1>3 DEF Local, Goto, VInv, Volume, Leftovers, Unmarked, Torn, files, Settled, LiveSafe, BackupSafe,
       LiveVerified, BackupVerified, Verified, NoBackups, Has
<1>6. QED
  BY <1>1, <1>2, <1>3, <1>4, <1>5
     DEF Local, Goto, files, VInv, Leftovers, WithoutLocal, Guarded, Unmarked, Before, Swapping, Restoring, Ending,
         NoBackups, Settled, Has

LEMMA FetchVolume == ASSUME VInv, Fetch PROVE Volume' /\ Leftovers' /\ WithoutLocal' /\ Guarded'
<1>1. Volume'
  BY VolumeStays DEF Fetch, files, Torn, Used
<1>2. QED
  BY <1>1 DEF Fetch, Goto, FallBack, files, VInv, Leftovers, WithoutLocal, Guarded, Unmarked, Before, Swapping, Restoring, Ending,
         NoBackups, Settled, Has, Used

LEMMA StopVolume == ASSUME VInv, Stop PROVE Volume' /\ Leftovers' /\ WithoutLocal' /\ Guarded'
<1>1. Volume'
  BY VolumeStays DEF Stop, progress, files, Torn, Used
<1>2. QED
  BY <1>1 DEF Stop, Goto, Leftovers, WithoutLocal, Guarded, Unmarked, Before, Swapping, Restoring, Ending

LEMMA KillVolume ==
  ASSUME VInv, SingleCause, Kill PROVE Volume' /\ Leftovers' /\ WithoutLocal' /\ Guarded'
<1>1. ~regime.powerLoss
  BY OneFault DEF Kill, VInv, IInv
<1>2. Volume'
  BY <1>1, VolumeStays DEF Kill, progress, files, Settled, Used
<1>3. QED
  BY <1>2 DEF Kill, Goto, Leftovers, WithoutLocal, Guarded, Unmarked, Before, Swapping, Restoring, Ending

LEMMA SignalVolume == ASSUME VInv, Signal PROVE Volume' /\ Leftovers' /\ WithoutLocal' /\ Guarded'
<1>1. Volume'
  BY VolumeStays DEF Signal, files, Torn, Used
<1>2. QED
  BY <1>1 DEF Signal, files, VInv, Leftovers, WithoutLocal, Guarded, Unmarked, InRest, Used, Has, NoBackups, Settled,
              BackupSafe, LiveVerified, BackupVerified, Verified

LEMMA PowerLossVolume ==
  ASSUME VInv, SingleCause, PowerLoss PROVE Volume' /\ Leftovers' /\ WithoutLocal' /\ Guarded'
<1>1. \A e \in Entries : dir'[e] \in durable[e] /\ durable'[e] = {dir'[e]}
  BY PowerKeeps DEF PowerLoss, VInv, IInv
<1>2. regime.powerLoss /\ Used
  BY OneFault DEF PowerLoss, VInv, IInv
<1>3. Settled(Live)' /\ Settled(Backups)'
  BY <1>1, EntriesAre DEF Settled, Live, Backups
<1>4. (LiveSafe => LiveVerified') /\ (BackupSafe => BackupVerified')
  BY <1>1, <1>2, EntriesAre DEF LiveSafe, BackupSafe, Settled, LiveVerified, BackupVerified, Verified, Live, Backups
<1>5. QED
  BY <1>2, <1>3, <1>4 DEF PowerLoss, Goto, progress, VInv, Volume, LiveSafe, BackupSafe, Used,
       Leftovers, WithoutLocal, Guarded, Unmarked, Before, Swapping, Restoring, Ending

-----------------------------------------------------------------------------
(* An update, up to the marker. *)

\* Nothing is relied on where the script does not run, or has become the server.
LEMMA AtRest ==
  ASSUME Volume', pc' \in {"down", "serving"} PROVE Volume' /\ Leftovers' /\ WithoutLocal' /\ Guarded'
BY DEF Leftovers, WithoutLocal, Guarded, Unmarked, Before, Swapping, Restoring, Ending

LEMMA FallBackVolume ==
  ASSUME VInv, FallBack, UNCHANGED <<files, held, regime>>, Used => Used', Torn => Settled(Live)
  PROVE  Volume' /\ Leftovers' /\ WithoutLocal' /\ Guarded'
<1>1. Volume'
  BY VolumeStays
<1>2. QED
  BY <1>1, AtRest DEF FallBack, Goto

\* A failure keeps Used, since it makes it true.
LEMMA FaultUses == ASSUME VInv, SingleCause, Fault, UNCHANGED regime PROVE Used' /\ UNCHANGED files
BY OneFault DEF VInv, IInv, Fault, Used

LEMMA WriteSame ==
  ASSUME TypeOK, NEW n \in Entries, Write(n, dir[n])
  PROVE  \A e \in Entries : dir'[e] = dir[e] /\ (durable[e] = {dir[e]} => durable'[e] = {dir'[e]})
BY WriteOne

LEMMA VolumeSame ==
  ASSUME VInv, UNCHANGED <<held, regime, faults>>, Torn => Torn' \/ Settled(Live),
         \A e \in Entries : dir'[e] = dir[e] /\ (durable[e] = {dir[e]} => durable'[e] = {dir'[e]})
  PROVE  Volume'
<1>1. /\ Settled(Live) => Settled(Live)'
      /\ Settled(Backups) => Settled(Backups)'
      /\ (Has("marker") <=> Has("marker")') /\ (NoBackups <=> NoBackups')
      /\ (LiveVerified <=> LiveVerified') /\ (BackupVerified <=> BackupVerified')
  BY EntriesAre DEF Settled, Has, NoBackups, LiveVerified, BackupVerified, Verified, Live, Backups
<1>2. QED
  BY <1>1 DEF VInv, Volume, LiveSafe, BackupSafe, Used

LEMMA KeepManifestVolume ==
  ASSUME VInv, SingleCause, KeepManifest PROVE Volume' /\ Leftovers' /\ WithoutLocal' /\ Guarded'
<1>1. CASE Write("manifest", remote) /\ staged' = {} /\ Goto("serving") /\ UNCHANGED faults
  <2>1. dir["manifest"] = remote
    BY DEF KeepManifest, VInv, IInv, Installed, LocalKept, Before, Kept, LiveVerified, Verified
  <2>2. Volume'
    BY <1>1, <2>1, WriteSame, VolumeSame, EntriesAre DEF KeepManifest, Goto, VInv, IInv, Torn
  <2>3. QED
    BY <1>1, <2>2, AtRest DEF Goto
<1>2. CASE Goto("down") /\ UNCHANGED files /\ (UNCHANGED faults \/ Fault)
  <2>1. Volume'
    BY <1>2, FaultUses, VolumeStays DEF KeepManifest, Torn, Used
  <2>2. QED
    BY <1>2, <2>1, AtRest DEF Goto
<1>3. QED
  BY <1>1, <1>2 DEF KeepManifest, Fault

LEMMA StageVolume == ASSUME VInv, Stage PROVE Volume' /\ Leftovers' /\ WithoutLocal' /\ Guarded'
<1>1. Volume'
  BY VolumeStays DEF Stage, Torn, Used
<1>2. CASE Remove(<<"dbBackup", "manifestBackup", "marker">>, "stale") /\ localValid
  BY <1>1, <1>2 DEF Stage, Remove, files, VInv, IInv, LocalKept, Kept, InRest, NoBackups, Settled, Has, Used, BackupSafe, LiveSafe, LiveVerified, BackupVerified, Verified,
     Leftovers, WithoutLocal, Guarded, Unmarked, Before, Swapping, Restoring, Ending
<1>3. CASE pc' = "mark" /\ job' = "install" /\ UNCHANGED rest /\ ~localValid
  BY <1>1, <1>3 DEF Stage, files, VInv, NoBackups, Settled, Has,
     Leftovers, WithoutLocal, Guarded, Unmarked, Before, Swapping, Restoring, Ending
<1>4. QED
  BY <1>1, <1>2, <1>3, AtRest DEF Stage, FallBack, Goto, VInv, IInv, TypeOK

LEMMA BackupDbVolume ==
  ASSUME VInv, SingleCause, BackupDb PROVE Volume' /\ Leftovers' /\ WithoutLocal' /\ Guarded'
<1>1. CASE Write("dbBackup", dir["db"]) /\ Goto("backupManifest") /\ UNCHANGED faults
  <2>1. /\ dir'["dbBackup"] = dir["db"]
        /\ \A e \in Entries \ {"dbBackup"} : dir'[e] = dir[e] /\ durable'[e] = durable[e]
    BY <1>1, WriteOne, EntriesAre DEF VInv, IInv
  <2>2. localValid /\ LiveVerified
    BY DEF BackupDb, VInv, IInv, WithoutLocal, LocalKept, Before, Kept
  <2>3. LiveVerified' /\ Settled(Live)' /\ ~NoBackups' /\ (Has("marker")' <=> Has("marker"))
    BY <2>1, <2>2, EntriesAre DEF BackupDb, progress, VInv, Volume, Torn, Settled, LiveVerified, Verified, NoBackups, Has, Live, Backups
  <2>4. Volume'
    BY <2>3 DEF Volume, LiveSafe
  <2>5. QED
    BY <1>1, <2>2, <2>3, <2>4 DEF BackupDb, Goto, progress, VInv, Used,
       Leftovers, WithoutLocal, Guarded, Unmarked, Before, Swapping, Restoring, Ending
<1>2. CASE Fault /\ FallBack
  BY <1>2, FaultUses, FallBackVolume DEF BackupDb, progress, Torn
<1>3. QED
  BY <1>1, <1>2 DEF BackupDb

LEMMA BackupManifestVolume ==
  ASSUME VInv, SingleCause, BackupManifest PROVE Volume' /\ Leftovers' /\ WithoutLocal' /\ Guarded'
<1>1. localValid /\ LiveVerified
  BY DEF BackupManifest, VInv, IInv, WithoutLocal, LocalKept, Before, Kept
<1>2. CASE Write("manifestBackup", dir["manifest"]) /\ Goto("mark") /\ UNCHANGED faults
  <2>1. /\ dir'["manifestBackup"] = dir["manifest"]
        /\ \A e \in Entries \ {"manifestBackup"} : dir'[e] = dir[e] /\ durable'[e] = durable[e]
    BY <1>2, WriteOne, EntriesAre DEF VInv, IInv
  <2>2. LiveVerified' /\ Settled(Live)' /\ ~NoBackups' /\ (Has("marker")' <=> Has("marker"))
    BY <1>1, <2>1, EntriesAre DEF BackupManifest, progress, VInv, Volume, Torn, Settled, LiveVerified, Verified, NoBackups, Has, Live, Backups
  <2>3. Volume'
    BY <2>2 DEF Volume, LiveSafe
  <2>4. QED
    BY <1>1, <1>2, <2>2, <2>3 DEF BackupManifest, Goto, progress, VInv, Used,
       Leftovers, WithoutLocal, Guarded, Unmarked, Before, Swapping, Restoring, Ending
<1>3. CASE Fault /\ Remove(<<"dbBackup">>, "abort")
  <2>1. Used' /\ UNCHANGED files
    BY <1>3, FaultUses DEF BackupManifest, progress
  <2>2. Volume'
    BY <2>1, VolumeStays DEF BackupManifest, progress, Torn
  <2>3. QED
    BY <1>1, <1>3, <2>1, <2>2 DEF BackupManifest, Remove, progress, files, LiveVerified, Verified,
       Leftovers, WithoutLocal, Guarded, Unmarked, Before, Swapping, Restoring, Ending
<1>4. QED
  BY <1>2, <1>3 DEF BackupManifest

LEMMA MarkVolume ==
  ASSUME VInv, SingleCause, Mark PROVE Volume' /\ Leftovers' /\ WithoutLocal' /\ Guarded'
<1>1. CASE Write("marker", remote) /\ Goto("syncMark") /\ UNCHANGED faults
  <2>1. /\ dir'["marker"] = remote /\ remote # None
        /\ \A e \in Entries \ {"marker"} : dir'[e] = dir[e] /\ durable'[e] = durable[e]
    BY <1>1, WriteOne, EntriesAre DEF Mark, VInv, IInv, Jobbed, Updating, Swapping
  <2>2. /\ (Settled(Live) <=> Settled(Live)') /\ (Settled(Backups) <=> Settled(Backups)')
        /\ (LiveVerified <=> LiveVerified') /\ (BackupVerified <=> BackupVerified')
        /\ (NoBackups <=> NoBackups') /\ Has("marker")'
    BY <2>1, EntriesAre DEF Mark, progress, NoBackups, Settled, Has, Used, BackupSafe, LiveSafe, LiveVerified, BackupVerified, Verified, Live, Backups
  <2>3. held # None => ~NoBackups
    BY DEF Mark, VInv, IInv, WithoutLocal, LocalKept, Swapping, Saved, NoBackups, Has, Backups, Versions, None
  <2>4. Volume'
    BY <1>1, <2>2, <2>3 DEF Mark, Goto, progress, VInv, Volume, LiveSafe, BackupSafe, Torn
  <2>5. QED
    BY <1>1, <2>2, <2>4 DEF Mark, Goto, progress, VInv,
       Leftovers, WithoutLocal, Guarded, Unmarked, Before, Swapping, Restoring, Ending
<1>2. CASE Fault /\ FallBack
  BY <1>2, FaultUses, FallBackVolume DEF Mark, progress, Torn
<1>3. QED
  BY <1>1, <1>2 DEF Mark

LEMMA SyncMarkVolume ==
  ASSUME VInv, SingleCause, SyncMark PROVE Volume' /\ Leftovers' /\ WithoutLocal' /\ Guarded'
<1>1. CASE SyncDirectory /\ Goto("swapDb") /\ UNCHANGED faults
  <2>1. \A e \in Entries : dir'[e] = dir[e] /\ durable'[e] = {dir'[e]}
    BY <1>1, SyncAll DEF VInv, IInv
  <2>2. Volume'
    BY <1>1, <2>1, VolumeSame DEF SyncMark, Goto, progress, Torn
  <2>3. Settled(Backups)' /\ (NoBackups <=> NoBackups') /\ (Has("marker") <=> Has("marker")')
    BY <2>1, EntriesAre DEF Settled, NoBackups, Has, Backups
  <2>4. QED
    BY <1>1, <2>2, <2>3 DEF SyncMark, Goto, progress, VInv,
       Leftovers, WithoutLocal, Guarded, Unmarked, Before, Swapping, Restoring, Ending
<1>2. CASE Fault /\ FallBack
  BY <1>2, FaultUses, FallBackVolume DEF SyncMark, progress, Torn
<1>3. QED
  BY <1>1, <1>2 DEF SyncMark

-----------------------------------------------------------------------------
(* The swap. *)

\* A backup that is not there is not a verified one.
LEMMA NothingVerified == NoBackups => ~BackupVerified
BY DEF NoBackups, Has, Backups, BackupVerified, Verified, Versions, None

LEMMA RollBackVolume ==
  ASSUME VInv, RollBack, pc \in {"swapDb", "swapManifest", "verify"},
         UNCHANGED <<files, localValid, held, regime>>, Used', ~regime.powerLoss
  PROVE  Volume' /\ Leftovers' /\ WithoutLocal' /\ Guarded'
<1>1. Volume'
  BY VolumeStays DEF Settled
<1>2. CASE BackupVerified
  <2>1. localValid /\ Has("marker") /\ BackupSafe
    BY <1>2, NothingVerified DEF VInv, WithoutLocal, Guarded, Swapping, BackupSafe
  <2>2. BackupSafe' /\ Has("marker")'
    BY <2>1 DEF files, NoBackups, Settled, Has, Used, BackupSafe, LiveSafe, LiveVerified, BackupVerified, Verified
  <2>3. QED
    BY <1>1, <1>2, <2>1, <2>2 DEF RollBack, Restore, Leftovers, WithoutLocal, Guarded, Unmarked, Before, Swapping, Restoring, Ending
<1>3. CASE ~BackupVerified
  BY <1>1, <1>3, AtRest DEF RollBack, FallBack, Goto
<1>4. QED
  BY <1>2, <1>3

\* Why a rename did not happen.
LEMMA Refuses ==
  ASSUME VInv, SingleCause, CountFault \/ (regime.signal /\ UNCHANGED faults), UNCHANGED regime
  PROVE  Used' /\ ~regime.powerLoss
BY OneFault DEF VInv, IInv, Used

LEMMA SwapDbVolume ==
  ASSUME VInv, SingleCause, SwapDb PROVE Volume' /\ Leftovers' /\ WithoutLocal' /\ Guarded'
<1>1. CASE Write("db", remote) /\ staged' = staged \ {"db"} /\ Goto("swapManifest") /\ UNCHANGED faults
  <2>1. \A e \in Entries \ {"db"} : dir'[e] = dir[e] /\ durable'[e] = durable[e]
    BY <1>1, WriteOne, EntriesAre DEF VInv, IInv
  <2>2. Settled(Backups) /\ Has("marker") /\ (localValid => BackupVerified)
        /\ (~localValid => held = None /\ NoBackups)
    BY DEF SwapDb, VInv, IInv, LocalKept, Saved, BackupVerified, Verified, Leftovers, WithoutLocal, Guarded, Unmarked, Before, Swapping, Restoring, Ending
  <2>3. Settled(Backups)' /\ Has("marker")' /\ (BackupVerified <=> BackupVerified') /\ (NoBackups <=> NoBackups')
    BY <2>1, <2>2, EntriesAre DEF SwapDb, NoBackups, Settled, Has, Used, BackupSafe, LiveSafe, LiveVerified, BackupVerified, Verified, Backups
  <2>4. Volume'
    BY <1>1, <2>2, <2>3, NothingVerified DEF SwapDb, Goto, Volume, BackupSafe, Torn
  <2>5. QED
    BY <1>1, <2>2, <2>3, <2>4 DEF SwapDb, Goto, Leftovers, WithoutLocal, Guarded, Unmarked, Before, Swapping, Restoring, Ending
<1>2. "db" \notin staged => regime.signal
  BY DEF SwapDb, VInv, IInv, Staged, Updating, Swapping, Live
<1>3. CASE RollBack /\ UNCHANGED files /\ (CountFault \/ (regime.signal /\ UNCHANGED faults))
  BY <1>3, Refuses, RollBackVolume DEF SwapDb
<1>4. QED
  BY <1>1, <1>2, <1>3 DEF SwapDb, Fault

LEMMA SwapManifestVolume ==
  ASSUME VInv, SingleCause, SwapManifest PROVE Volume' /\ Leftovers' /\ WithoutLocal' /\ Guarded'
<1>1. CASE Write("manifest", remote) /\ staged' = staged \ {"manifest"} /\ Goto("verify") /\ UNCHANGED faults
  <2>1. \A e \in Entries \ {"manifest"} : dir'[e] = dir[e] /\ durable'[e] = durable[e]
    BY <1>1, WriteOne, EntriesAre DEF VInv, IInv
  <2>2. Settled(Backups) /\ Has("marker") /\ (localValid => BackupVerified)
        /\ (~localValid => held = None /\ NoBackups)
    BY DEF SwapManifest, VInv, IInv, LocalKept, Saved, BackupVerified, Verified, Leftovers, WithoutLocal, Guarded, Unmarked, Before, Swapping, Restoring, Ending
  <2>3. Settled(Backups)' /\ Has("marker")' /\ (BackupVerified <=> BackupVerified') /\ (NoBackups <=> NoBackups')
    BY <2>1, <2>2, EntriesAre DEF SwapManifest, NoBackups, Settled, Has, Used, BackupSafe, LiveSafe, LiveVerified, BackupVerified, Verified, Backups
  <2>4. Volume'
    BY <1>1, <2>2, <2>3, NothingVerified DEF SwapManifest, Goto, Volume, BackupSafe, Torn
  <2>5. QED
    BY <1>1, <2>2, <2>3, <2>4 DEF SwapManifest, Goto, Leftovers, WithoutLocal, Guarded, Unmarked, Before, Swapping, Restoring, Ending
<1>2. "manifest" \notin staged => regime.signal
  BY DEF SwapManifest, VInv, IInv, Staged, Updating, Swapping, Live
<1>3. CASE RollBack /\ UNCHANGED files /\ (CountFault \/ (regime.signal /\ UNCHANGED faults))
  BY <1>3, Refuses, RollBackVolume DEF SwapManifest
<1>4. QED
  BY <1>1, <1>2, <1>3 DEF SwapManifest, Fault

LEMMA VerifyVolume ==
  ASSUME VInv, SingleCause, Verify PROVE Volume' /\ Leftovers' /\ WithoutLocal' /\ Guarded'
<1>1. PICK live \in BOOLEAN : Answers(LiveVerified, live) /\ IF live THEN Goto("unmark") ELSE RollBack
  BY DEF Verify
<1>2. LiveVerified
  BY DEF Verify, VInv, IInv, Installed
<1>3. CASE live
  <2>1. UNCHANGED faults
    BY <1>1, <1>3 DEF Answers
  <2>2. job = "install" /\ (localValid => BackupSafe)
    BY DEF Verify, VInv, IInv, Jobbed, LocalKept, Saved, BackupSafe, BackupVerified, Verified, Guarded, Updating, Swapping
  <2>3. Volume'
    BY <1>1, <1>3, <2>1, <2>2, VolumeStays DEF Verify, progress, Goto, Torn, Used
  <2>4. QED
    BY <1>1, <1>2, <1>3, <2>1, <2>2, <2>3 DEF Verify, progress, Goto, files, VInv, NoBackups, Settled, Has, Used, BackupSafe, LiveSafe, LiveVerified, BackupVerified, Verified,
       Leftovers, WithoutLocal, Guarded, Unmarked, Before, Swapping, Restoring, Ending
<1>4. CASE ~live
  <2>1. CountFault
    BY <1>1, <1>2, <1>4 DEF Answers
  <2>2. QED
    BY <1>1, <1>4, <2>1, Refuses, RollBackVolume DEF Verify, progress
<1>5. QED
  BY <1>3, <1>4

-----------------------------------------------------------------------------
(* Restoring the backups. *)

LEMMA RestoreFails ==
  ASSUME VInv, SingleCause, pc \in Restoring, RestoreFailed, CountFault, UNCHANGED <<held, regime>>,
         \A e \in Entries \ Live : dir'[e] = dir[e]
  PROVE  Volume' /\ Leftovers' /\ WithoutLocal' /\ Guarded'
<1>1. pc' = "down"
  BY RestoreFailedDown DEF VInv, IInv, Goto
<1>2. Used' /\ ~regime.powerLoss
  BY OneFault DEF VInv, IInv, Used
<1>3. BackupVerified' /\ Has("marker")'
  BY EntriesAre DEF VInv, Guarded, BackupSafe, BackupVerified, Verified, Has, Live
<1>4. Volume'
  BY <1>2, <1>3 DEF Volume, BackupSafe, Settled
<1>5. QED
  BY <1>1, <1>4, AtRest

LEMMA RestoreDbVolume ==
  ASSUME VInv, SingleCause, RestoreDb PROVE Volume' /\ Leftovers' /\ WithoutLocal' /\ Guarded'
<1>1. CASE Write("db", dir["dbBackup"]) /\ Goto("restoreManifest") /\ UNCHANGED faults
  <2>1. /\ dir'["db"] = dir["dbBackup"]
        /\ \A e \in Entries \ {"db"} : dir'[e] = dir[e] /\ durable'[e] = durable[e]
    BY <1>1, WriteOne, EntriesAre DEF VInv, IInv
  <2>2. BackupSafe /\ Has("marker")
    BY DEF RestoreDb, VInv, Guarded, Restoring
  <2>3. BackupSafe' /\ Has("marker")' /\ dir'["db"] = dir'["dbBackup"]
    BY <2>1, <2>2, EntriesAre DEF RestoreDb, progress, NoBackups, Settled, Has, Used, BackupSafe, LiveSafe, LiveVerified, BackupVerified, Verified, Backups
  <2>4. Volume'
    BY <1>1, <2>3, NothingVerified DEF Goto, Volume, BackupSafe, Torn, NoBackups, Has, Backups, BackupVerified, Verified, Versions, None
  <2>5. QED
    BY <1>1, <2>3, <2>4 DEF RestoreDb, Goto, progress, VInv, Leftovers, WithoutLocal, Guarded, Unmarked, Before, Swapping, Restoring, Ending
<1>2. CASE Fault /\ RestoreFailed
  BY <1>2, RestoreFails DEF RestoreDb, Fault, files, progress, Restoring
<1>3. QED
  BY <1>1, <1>2 DEF RestoreDb

LEMMA RestoreManifestVolume ==
  ASSUME VInv, SingleCause, RestoreManifest PROVE Volume' /\ Leftovers' /\ WithoutLocal' /\ Guarded'
<1>1. ASSUME Write("manifest", dir["manifestBackup"])
      PROVE  /\ dir'["manifest"] = dir["manifestBackup"]
             /\ \A e \in Entries \ {"manifest"} : dir'[e] = dir[e] /\ durable'[e] = durable[e]
  BY <1>1, WriteOne, EntriesAre DEF VInv, IInv
<1>2. CASE Write("manifest", dir["manifestBackup"]) /\ Goto("unmark") /\ UNCHANGED faults
  <2>1. BackupSafe /\ Has("marker") /\ dir["db"] = dir["dbBackup"]
    BY DEF RestoreManifest, VInv, Guarded, Restoring
  <2>2. BackupSafe' /\ Has("marker")' /\ LiveVerified'
    BY <1>1, <1>2, <2>1, EntriesAre DEF RestoreManifest, progress, NoBackups, Settled, Has, Used, BackupSafe, LiveSafe, LiveVerified, BackupVerified, Verified, Backups
  <2>3. job \in {"rollback", "recover"}
    BY DEF RestoreManifest, VInv, IInv, Jobbed, Restoring
  <2>4. Volume'
    BY <1>2, <2>2, <2>3 DEF Goto, Volume, BackupSafe, Torn, NoBackups, Has, Backups, BackupVerified, Verified, Versions, None
  <2>5. QED
    BY <1>2, <2>2, <2>3, <2>4 DEF RestoreManifest, Goto, progress, VInv, Leftovers, WithoutLocal, Guarded, Unmarked, Before, Swapping, Restoring, Ending
<1>3. CASE (Write("manifest", dir["manifestBackup"]) \/ UNCHANGED files) /\ CountFault /\ RestoreFailed
  BY <1>1, <1>3, RestoreFails DEF RestoreManifest, files, progress, Restoring, Live
<1>4. QED
  BY <1>2, <1>3 DEF RestoreManifest, Fault

-----------------------------------------------------------------------------
(* Clearing up. *)

LEMMA UnmarkVolume ==
  ASSUME VInv, SingleCause, Unmark PROVE Volume' /\ Leftovers' /\ WithoutLocal' /\ Guarded'
<1>1. /\ \A e \in Entries \ {"marker"} : dir'[e] = dir[e] /\ durable'[e] = durable[e]
      /\ Has("marker")' => Used'
  BY WriteOne, FaultUses, EntriesAre DEF Unmark, progress, files, VInv, IInv, Has
<1>2. /\ (Settled(Live) <=> Settled(Live)') /\ (Settled(Backups) <=> Settled(Backups)')
      /\ (LiveVerified <=> LiveVerified') /\ (BackupVerified <=> BackupVerified')
      /\ (NoBackups <=> NoBackups')
  BY <1>1, EntriesAre DEF Unmark, progress, NoBackups, Settled, Has, Used, BackupSafe, LiveSafe, LiveVerified, BackupVerified, Verified, Live, Backups
<1>3. job \in {"rollback", "recover", "finish", "install"} /\ LiveVerified
  BY DEF Unmark, VInv, IInv, Jobbed, Guarded
<1>4. Volume'
  BY <1>1, <1>2, <1>3 DEF Unmark, Goto, progress, VInv, Volume, LiveSafe, BackupSafe, Torn
<1>5. QED
  BY <1>1, <1>2, <1>3, <1>4 DEF Unmark, Goto, progress, VInv, BackupSafe, Leftovers, WithoutLocal, Guarded, Unmarked, Before, Swapping, Restoring, Ending

LEMMA SyncUnmarkVolume ==
  ASSUME VInv, SyncUnmark PROVE Volume' /\ Leftovers' /\ WithoutLocal' /\ Guarded'
<1>1. \A e \in Entries : dir'[e] = dir[e] /\ durable'[e] = {dir'[e]}
  BY SyncAll DEF SyncUnmark, VInv, IInv
<1>2. job \in {"rollback", "recover", "finish", "install"} /\ LiveVerified /\ (Has("marker") => Used)
  BY DEF SyncUnmark, VInv, IInv, Jobbed, Guarded, Leftovers, Unmarked
<1>3. /\ LiveSafe' /\ Settled(Backups)'
      /\ (NoBackups <=> NoBackups') /\ (Has("marker")' => Used')
  BY <1>1, <1>2, EntriesAre DEF SyncUnmark, progress, NoBackups, Settled, Has, Used, BackupSafe, LiveSafe, LiveVerified, BackupVerified, Verified, Live, Backups
<1>4. Volume'
  BY <1>3 DEF Volume, LiveSafe
<1>5. InRest("dbBackup")' /\ InRest("manifestBackup")' /\ pc' = "remove" /\ job' = job
  BY DEF SyncUnmark, Remove, InRest
<1>6. QED
  BY <1>2, <1>3, <1>4, <1>5 DEF SyncUnmark, progress, VInv, LiveSafe, Backups, Leftovers, WithoutLocal, Guarded, Unmarked, Before, Swapping, Restoring, Ending

LEMMA RecoverVolume ==
  ASSUME VInv, SingleCause, Recover PROVE Volume' /\ Leftovers' /\ WithoutLocal' /\ Guarded'
<1>1. ASSUME NEW live, Answers(LiveVerified, live)
      PROVE  (Used => Used') /\ (live => LiveVerified) /\ (~live => ~LiveVerified \/ ~Used) /\ (~live => Settled(Backups))
  <2>1. CASE live = LiveVerified /\ UNCHANGED faults
    BY <2>1 DEF Recover, progress, Used, VInv, Volume, LiveSafe
  <2>2. CASE LiveVerified /\ ~live /\ CountFault
    <3>1. ~Used
      BY <2>2 DEF CountFault, Used, VInv, IInv, TypeOK
    <3>2. QED
      BY <2>2, <3>1, OneFault DEF Settled, VInv, IInv
  <2>3. QED
    BY <1>1, <2>1, <2>2 DEF Answers
<1>2. ASSUME Used => Used' PROVE Volume'
  BY <1>2, VolumeStays DEF Recover, progress, Torn
<1>3. CASE RecoverNothing
  BY <1>2, <1>3 DEF Recover, RecoverNothing, Interrupted, Goto, files, progress, NoBackups, Has, Used, Leftovers, WithoutLocal, Guarded, Unmarked, Before, Swapping, Restoring, Ending
<1>4. CASE RecoverUnmarked
  <2>1. PICK live \in BOOLEAN :
          /\ Answers(LiveVerified, live)
          /\ IF live THEN Remove(<<"dbBackup", "manifestBackup">>, "sweep") ELSE Goto("down")
    BY <1>4 DEF RecoverUnmarked
  <2>2. Volume' /\ (live => LiveVerified)
    BY <1>1, <1>2, <2>1
  <2>3. CASE live
    <3>1. InRest("dbBackup")' /\ InRest("manifestBackup")'
      BY <2>1, <2>3 DEF Remove, InRest
    <3>2. LiveVerified' /\ ~Has("marker")'
      BY <1>4, <2>2, <2>3 DEF Recover, RecoverUnmarked, files, LiveVerified, Verified, Has
    <3>3. QED
      BY <2>1, <2>2, <2>3, <3>1, <3>2 DEF Remove, Backups, Leftovers, WithoutLocal, Guarded, Unmarked, Before, Swapping, Restoring, Ending
  <2>4. QED
    BY <2>1, <2>2, <2>3, AtRest DEF Goto
<1>5. CASE RecoverMarked
  <2>1. PICK live \in BOOLEAN :
          /\ Answers(LiveVerified, live)
          /\ CASE live -> pc' = "unmark" /\ job' = "finish" /\ UNCHANGED rest
               [] ~live /\ BackupVerified -> Restore("recover")
               [] ~live /\ ~BackupVerified /\ (\E e \in Backups : Has(e)) -> Goto("down")
               [] OTHER -> Remove(<<"db", "manifest", "marker">>, "discard")
    BY <1>5 DEF RecoverMarked
  <2>2. /\ Volume' /\ (live => LiveVerified) /\ (~live => ~LiveVerified \/ ~Used) /\ (~live => Settled(Backups))
        /\ Has("marker")
    BY <1>1, <1>2, <1>5, <2>1 DEF RecoverMarked
  <2>3. CASE live
    BY <2>1, <2>2, <2>3 DEF Recover, files, LiveVerified, Verified, Leftovers, WithoutLocal, Guarded, Unmarked, Before, Swapping, Restoring, Ending
  <2>4. CASE ~live /\ BackupVerified
    BY <2>1, <2>2, <2>4 DEF Recover, progress, files, Restore, Settled, Has, BackupSafe, BackupVerified, Verified, Leftovers, WithoutLocal, Guarded, Unmarked, Before, Swapping, Restoring, Ending
  <2>5. CASE ~live /\ ~BackupVerified /\ (\E e \in Backups : Has(e))
    BY <2>1, <2>2, <2>5, AtRest DEF Goto
  <2>6. CASE ~live /\ ~BackupVerified /\ NoBackups
    <3>1. Remove(<<"db", "manifest", "marker">>, "discard")
      BY <2>1, <2>6 DEF NoBackups
    <3>2. held = None
      BY <2>2, <2>6 DEF VInv, Volume, LiveSafe, BackupSafe
    <3>3. InRest("marker")' /\ \A i \in 1 .. Len(rest') : rest'[i] \notin Backups
      <4>1. rest' = <<"db", "manifest", "marker">>
        BY <3>1 DEF Remove
      <4>2. /\ Len(rest') = 3 /\ rest'[1] = "db" /\ rest'[2] = "manifest" /\ rest'[3] = "marker"
            /\ \A i \in 1 .. 3 : i = 1 \/ i = 2 \/ i = 3
        BY <4>1
      <4>3. QED
        BY <4>2 DEF InRest, Backups
    <3>4. NoBackups' /\ Settled(Backups)' /\ held' = None
      BY <2>2, <2>6, <3>2 DEF Recover, progress, files, NoBackups, Has, Settled
    <3>5. QED
      BY <2>2, <3>1, <3>3, <3>4 DEF Remove, Leftovers, WithoutLocal, Guarded, Unmarked, Before, Swapping, Restoring, Ending
  <2>7. QED
    BY <2>3, <2>4, <2>5, <2>6 DEF NoBackups
<1>6. QED
  BY <1>3, <1>4, <1>5 DEF Recover

LEMMA RemoveNextVolume ==
  ASSUME VInv, SingleCause, RemoveNext PROVE Volume' /\ Leftovers' /\ WithoutLocal' /\ Guarded'
<1>1. /\ Head(rest) \in Entries /\ Head(rest) = rest[1] /\ 1 \in 1 .. Len(rest)
      /\ \A i \in 1 .. Len(Tail(rest)) : Tail(rest)[i] = rest[i + 1] /\ i + 1 \in 1 .. Len(rest)
      /\ \A i \in 1 .. Len(rest) : i = 1 \/ (i - 1 \in 1 .. Len(Tail(rest)) /\ rest[i] = Tail(rest)[i - 1])
  BY DEF RemoveNext, VInv, IInv, TypeOK
<1>2. /\ \A e : InRest(e) => e = Head(rest) \/ InRest(e)'
      /\ \A e : InRest(e)' => InRest(e)
      /\ job = "discard" => Head(rest) \notin Backups /\ \A i \in 1 .. Len(rest') : rest'[i] \notin Backups
      /\ job # "discard" => Head(rest) \notin Live
  BY <1>1 DEF RemoveNext, InRest, VInv, IInv, Jobbed, Guarded
<1>3. /\ job # "discard" => LiveVerified /\ Settled(Live) /\ (Has("marker") => Used)
      /\ job = "discard" => held = None /\ NoBackups /\ Settled(Backups)
  BY DEF RemoveNext, VInv, Volume, Guarded, Leftovers, Unmarked, Torn
<1>4. CASE Write(Head(rest), None) /\ UNCHANGED <<faults, job>>
  <2>1. /\ dir'[Head(rest)] = None
        /\ \A e \in Entries \ {Head(rest)} : dir'[e] = dir[e] /\ durable'[e] = durable[e]
    BY <1>1, <1>4, WriteOne DEF VInv, IInv
  <2>2. \A e \in Entries : Has(e)' => Has(e) /\ e # Head(rest)
    BY <2>1 DEF Has
  <2>3. /\ job # "discard" => LiveVerified' /\ Settled(Live)'
        /\ job = "discard" => NoBackups' /\ Settled(Backups)'
    BY <1>2, <1>3, <2>1, <2>2, EntriesAre DEF RemoveNext, progress, Settled, LiveVerified, Verified, NoBackups, Has, Live, Backups
  <2>4. /\ Has("marker")' => Has("marker") /\ Head(rest) # "marker"
        /\ \A e \in Backups : Has(e)' => Has(e) /\ e # Head(rest)
    BY <2>2, EntriesAre DEF Backups
  <2>5. Volume'
    BY <1>3, <1>4, <2>3, <2>4 DEF RemoveNext, progress, Volume, LiveSafe, BackupSafe, Torn, Used
  <2>6. Leftovers'
    BY <1>2, <1>4, <2>4 DEF RemoveNext, progress, VInv, Leftovers, Unmarked, Used
  <2>7. Guarded'
    BY <1>2, <1>3, <1>4, <2>3 DEF RemoveNext, progress, Guarded, Swapping, Restoring
  <2>8. NoBackups /\ Settled(Backups) => NoBackups' /\ Settled(Backups)'
    <3>1. SUFFICES ASSUME NoBackups, Settled(Backups) PROVE Settled(Backups)'
      BY <2>4 DEF NoBackups
    <3>2. \A e \in Backups : e \in Entries /\ dir[e] = None
      BY <3>1, EntriesAre DEF NoBackups, Has, Backups
    <3>3. Head(rest) \in Backups => durable'[Head(rest)] = durable[Head(rest)] \cup {None}
      BY <1>1, <1>4, WriteOne DEF VInv, IInv
    <3>4. QED
      BY <2>1, <3>1, <3>2, <3>3 DEF RemoveNext, progress, Settled
  <2>9. WithoutLocal'
    BY <1>4, <2>8 DEF RemoveNext, progress, VInv, WithoutLocal, Before, Swapping, Restoring, Ending
  <2>10. QED
    BY <2>5, <2>6, <2>7, <2>9
<1>5. CASE Fault /\ job' \in {job, "giveUp"} /\ (job' # job => job = "recover")
  <2>1. Used' /\ UNCHANGED files
    BY <1>5, FaultUses DEF RemoveNext, progress
  <2>2. Volume'
    BY <1>5, <2>1, VolumeStays DEF RemoveNext, progress, Torn
  <2>3. QED
    BY <1>2, <1>3, <1>5, <2>1, <2>2 DEF RemoveNext, progress, files, VInv, Settled, NoBackups, Has, LiveVerified, Verified, Leftovers, WithoutLocal, Guarded, Unmarked, Before, Swapping, Restoring, Ending
<1>6. QED
  BY <1>4, <1>5 DEF RemoveNext

LEMMA RemovedVolume ==
  ASSUME VInv, Removed PROVE Volume' /\ Leftovers' /\ WithoutLocal' /\ Guarded'
<1>1. /\ job \in {"sweep", "discard", "finish", "recover", "giveUp", "stale", "install", "abort", "rollback"}
      /\ \A e : ~InRest(e)
  BY DEF Removed, VInv, IInv, TypeOK, Jobbed, Jobs, InRest
<1>2. /\ Has("marker") => Used
      /\ job # "discard" => LiveVerified /\ Settled(Live)
      /\ job = "discard" => held = None /\ NoBackups /\ Settled(Backups)
      /\ job \in {"sweep", "finish", "recover"} => NoBackups \/ Used
      /\ job = "stale" => localValid
  BY <1>1 DEF Removed, VInv, Volume, Leftovers, Unmarked, Guarded, WithoutLocal, Torn, NoBackups, Ending
<1>3. /\ \A e \in Entries : dir'[e] = dir[e] /\ (durable[e] = {dir[e]} => durable'[e] = {dir'[e]})
      /\ job = "discard" => \A e \in Entries : durable'[e] = {dir'[e]}
  BY SyncAll DEF Removed, files, VInv, IInv
<1>4. /\ (Has("marker") <=> Has("marker")') /\ (NoBackups <=> NoBackups') /\ (LiveVerified <=> LiveVerified')
      /\ (Settled(Live) => Settled(Live)') /\ (Settled(Backups) => Settled(Backups)')
      /\ (job = "discard" => Settled(Live)')
  BY <1>3, EntriesAre DEF Removed, NoBackups, Has, Settled, LiveVerified, Verified, Live, Backups
<1>5. Volume'
  BY <1>1, <1>2, <1>4 DEF Removed, Volume, LiveSafe, BackupSafe, Used
<1>6. QED
  BY <1>1, <1>2, <1>4, <1>5 DEF Removed, Used, Leftovers, WithoutLocal, Guarded, Unmarked, Before, Swapping, Restoring, Ending

-----------------------------------------------------------------------------
LEMMA NextVolume == ASSUME VInv, SingleCause, [Next]_vars PROVE VInv'
<1>1. IInv'
  <2>1. FewFaults
    BY DEF SingleCause, FewFaults
  <2>2. QED
    BY <2>1, NextInv DEF VInv
<1>2. CASE ScriptStep
  BY <1>1, <1>2, StartVolume, RecoverVolume, LocalVolume, FetchVolume, KeepManifestVolume, StageVolume,
     BackupDbVolume, BackupManifestVolume, MarkVolume, SyncMarkVolume, SwapDbVolume, SwapManifestVolume,
     VerifyVolume, RestoreDbVolume, RestoreManifestVolume, UnmarkVolume, SyncUnmarkVolume, RemoveNextVolume,
     RemovedVolume DEF ScriptStep, VInv
<1>3. CASE Stop \/ Kill \/ Signal \/ PowerLoss
  BY <1>1, <1>3, StopVolume, KillVolume, SignalVolume, PowerLossVolume DEF VInv
<1>4. CASE UNCHANGED vars
  BY <1>1, <1>4 DEF vars, VInv, Volume, Torn, InRest, NoBackups, Settled, Has, Used, BackupSafe, LiveSafe, LiveVerified, BackupVerified, Verified,
     Leftovers, WithoutLocal, Guarded, Unmarked, Before, Swapping, Restoring, Ending
<1>5. QED
  BY <1>2, <1>3, <1>4 DEF Next

\* Through every kill, failure, signal or power loss the volume is one that the next
\* command of startup.sh can rely on.
THEOREM VolumeInvariant == ASSUME SingleCause PROVE Spec => []VInv
<1>1. Init => VInv
  BY InitVolume
<1>2. VInv /\ [Next]_vars => VInv'
  BY NextVolume
<1>3. QED
  BY <1>1, <1>2, PTL DEF Spec

LEMMA SafePairs == ASSUME VInv PROVE KeepsVerifiedPair
<1>1. SUFFICES ASSUME held # None, NEW d \in Disks
               PROVE  Verified(d["db"], d["manifest"]) \/ Verified(d["dbBackup"], d["manifestBackup"])
  BY DEF KeepsVerifiedPair
<1>2. \A e \in Entries : IF regime.powerLoss THEN d[e] \in durable[e] ELSE d[e] = dir[e]
  BY <1>1 DEF Disks, Possible, Names, VInv, IInv, TypeOK
<1>3. LiveSafe => d["db"] = dir["db"] /\ d["manifest"] = dir["manifest"]
  BY <1>2, EntriesAre DEF LiveSafe, Settled, Live
<1>4. BackupSafe => d["dbBackup"] = dir["dbBackup"] /\ d["manifestBackup"] = dir["manifestBackup"]
  BY <1>2, EntriesAre DEF BackupSafe, Settled, Backups
<1>5. QED
  BY <1>1, <1>3, <1>4 DEF VInv, Volume, LiveSafe, BackupSafe, LiveVerified, BackupVerified

\* Once the script has verified a pair, one verified pair is on the volume at every
\* moment, live or as backup, whatever a power loss leaves (startup.sh:279 and 294).
THEOREM VerifiedPairIsOnVolume == ASSUME SingleCause PROVE Spec => []KeepsVerifiedPair
  BY SafePairs, VolumeInvariant, PTL

\* On a machine that keeps its power, recovery never gives up on a directory that no
\* failure in it explains (startup.sh:200).
THEOREM RecoveryGoesOn == ASSUME SingleCause PROVE Spec => []RecoveryFindsAWayAfterKill
<1>1. VInv => RecoveryFindsAWayAfterKill
  BY DEF VInv, Volume, NoBackups, RecoveryFindsAWayAfterKill, RecoveryFindsAWay, Refused, Interrupted
<1>2. QED
  BY <1>1, VolumeInvariant, PTL
=============================================================================
