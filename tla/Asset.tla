-------------------------------- MODULE Asset --------------------------------
(***************************************************************************)
(* How the database whose rows were counted becomes the staged asset of a  *)
(* release: the rest of processUnifiedDatabaseWithBatchSize, and what run  *)
(* leaves in the output directory.                                         *)
(*                                                                         *)
(* The asset is to be the same, byte by byte, whenever it is built from    *)
(* the same input.  A file tells more than its rows, however: when they    *)
(* were written, by which statements, and what was done to it since.  Such *)
(* a trait of a file is here one that its rows do not determine.           *)
(***************************************************************************)
EXTENDS Pipeline

VARIABLES step,       \* the next step; 0 before the staged file is there
          returned,   \* whether the build has returned, and how
          files,      \* the files of the build that are there
          stuck,      \* those whose removal has failed
          traits      \* of the database and of its snapshot

assetVars == <<step, returned, files, stuck, traits>>
allVars == <<vars, assetVars>>

-----------------------------------------------------------------------------
(* Traits of a file. *)

Tables == {"dynasties", "authors", "types", "poems", "sources"}
Clock(l) == {<<"clock", t, l>> : t \in Tables}             \* created_at of the rows
Segments(l) == <<"segments", "fts", l>>                    \* of the index: one for each INSERT
LedgerClock == <<"clock", "rejections", "both">>
MetadataClock == <<"clock", "metadata", "both">>
Order == <<"order", "stat1", "both">>                      \* in which ANALYZE wrote its rows
Sizes == <<"sizes", "stat1", "both">>                      \* of segments, when it counted them
Samples == <<"samples", "stat4", "both">>                  \* of a build of SQLite that takes them
Cookie == <<"cookie", "header", "both">>                   \* how often the schema was changed
Counters == <<"counters", "header", "both">>               \* of changes, and the free pages

Written == (UNION {Clock(l) \cup {Segments(l)} : l \in Languages}) \cup {LedgerClock, MetadataClock, Cookie, Counters}

-----------------------------------------------------------------------------
(* Steps. *)

\* Statistics that are taken of the index as it was written.
StepsAnalyzeFirst == << "timestamps", "metadata", "analyze", "rebuild", "statistics", "cookie",
                        "reserve", "vacuum", "check", "close", "sidecars", "install", "sync" >>
Steps == << "timestamps", "metadata", "rebuild", "analyze", "statistics", "cookie",
            "reserve", "vacuum", "check", "close", "sidecars", "install", "sync" >>

\* The staged database with its log and the index of that, which SQLite adds to it,
\* and what SQLite may lay beside the snapshot.
Staged == {"db", "wal", "shm"}
Beside == {"snapshot-wal", "snapshot-shm"}

AssetInit ==
  /\ Init
  /\ step = 0 /\ returned = "no"
  /\ files = {} /\ stuck = {}
  /\ traits = [db |-> Written, snapshot |-> {}]

At(s) == outcome = "ok" /\ returned = "no" /\ step \in DOMAIN Steps /\ Steps[step] = s
Proceed == step' = step + 1 /\ UNCHANGED <<vars, returned, stuck>>
Becomes(t) == traits' = [traits EXCEPT !.db = t] /\ Proceed /\ UNCHANGED files

\* A file of a new name is created and closed, for the build to write.
StageDatabase ==
  /\ step = 0 /\ returned = "no"
  /\ files' = Staged
  /\ Proceed /\ UNCHANGED traits

\* Every row of the tables is updated; that of a poem fires the trigger of its index.
NormalizeTimestamps ==
  /\ At("timestamps")
  /\ Becomes((traits.db \ ({LedgerClock} \cup UNION {Clock(l) : l \in Languages})) \cup {Segments(l) : l \in Languages})

NormalizeMetadata == At("metadata") /\ Becomes(traits.db \ {MetadataClock})

\* The segments are made anew in the order of rows, and compared with the products.
RebuildIndexes == At("rebuild") /\ Becomes(traits.db \ {Segments(l) : l \in Languages})

\* ANALYZE creates its table and counts what it finds, the tables of the index included.
Analyze ==
  /\ At("analyze")
  /\ \E sampled \in SUBSET {Samples} :
       Becomes(traits.db \cup sampled \cup {Order, Cookie}
                 \cup (IF \E l \in Languages : Segments(l) \in traits.db THEN {Sizes} ELSE {}))

\* The rows of the one statistics table are written again in their order.
NormalizeStatistics == At("statistics") /\ Samples \notin traits.db /\ Becomes(traits.db \ {Order})

NormalizeCookie == At("cookie") /\ Becomes(traits.db \ {Cookie})

\* A name for the snapshot: a new file is created, closed and removed.
ReserveName == At("reserve") /\ Proceed /\ UNCHANGED <<files, traits>>

\* VACUUM INTO writes the rows into a new file, with the schema's cookie.
Vacuum ==
  /\ At("vacuum")
  /\ files' = files \cup {"snapshot"}
  /\ traits' = [traits EXCEPT !.snapshot = traits.db \ {Counters}]
  /\ Proceed

\* The snapshot is synced and opened read-only, and no file is found beside it.
CheckSnapshot == At("check") /\ Proceed /\ UNCHANGED <<files, traits>>

\* Closing the last connection removes the log, or leaves it.
CloseDatabase ==
  /\ At("close")
  /\ files' \in {files, files \ {"wal", "shm"}}
  /\ Proceed /\ UNCHANGED traits

RemoveSidecars == At("sidecars") /\ files' = files \ {"wal", "shm"} /\ Proceed /\ UNCHANGED traits

\* The snapshot replaces the database by one rename.
InstallSnapshot ==
  /\ At("install")
  /\ files' = files \ {"snapshot"}
  /\ traits' = [traits EXCEPT !.db = traits.snapshot]
  /\ Proceed

SyncDirectory == At("sync") /\ Proceed /\ UNCHANGED <<files, traits>>

-----------------------------------------------------------------------------
(* The end of the build. *)

\* What a build that fails removes: run its files, and the function that has the
\* snapshot in its care that one, until it is installed.
Deferred ==
  Staged \cup {f \in {"snapshot"} :
                 \E s \in {"reserve", "vacuum", "check", "close", "sidecars", "install"} : At(s)}

\* The removals, of which some fail without a word, after n calls that failed.
ReturnError(made, n) ==
  \E failing \in SUBSET ((files \cup made) \cap Deferred) :
    /\ faults + n + Cardinality(failing) <= MaxFaults
    /\ faults' = faults + n + Cardinality(failing)
    /\ files' = ((files \cup made) \ Deferred) \cup failing
    /\ stuck' = failing
    /\ returned' = "error"
    /\ UNCHANGED <<inputs, tables, control, channels, writing, worker, cached, step, traits>>

\* The staged file cannot be created; or not be closed, and nothing removes it.
StageFails ==
  /\ step = 0 /\ returned = "no" /\ main = "open"
  /\ Fault /\ Finish("failed")
  /\ files' \in {{}, {"db"}}
  /\ returned' = "error"
  /\ UNCHANGED <<inputs, tables, channels, writing, worker, cached, step, stuck, traits>>

ReturnAsset ==
  /\ outcome = "ok" /\ returned = "no" /\ step > Len(Steps)
  /\ returned' = "asset"
  /\ UNCHANGED <<vars, step, files, stuck, traits>>

\* The rows could not be written, or are not those of the input.
ReturnRowsError ==
  /\ outcome = "failed" /\ returned = "no"
  /\ ReturnError({}, 0) /\ UNCHANGED fatal

RefuseStatistics ==
  /\ At("statistics") /\ Samples \in traits.db
  /\ ReturnError({}, 0) /\ UNCHANGED fatal

\* A snapshot that is not a database of one file; what is beside it nobody removes.
RefuseSnapshot ==
  /\ At("check")
  /\ \E beside \in SUBSET Beside : ReturnError(beside, 0)
  /\ UNCHANGED fatal

\* A call fails: that which writes the snapshot half way, that which closes the new
\* file of its name once there is one, one that reads the snapshot beside its files.
StepFails ==
  /\ outcome = "ok" /\ returned = "no" /\ step \in DOMAIN Steps
  /\ \E half \in SUBSET (IF At("check") THEN Beside
                         ELSE {f \in {"snapshot"} : At("reserve") \/ At("vacuum")}) :
       ReturnError(half, 1)
  /\ fatal' = TRUE

\* The call that fails is the one that removes the new file: there is no other.
NameStaysTaken ==
  /\ At("reserve")
  /\ ReturnError({"snapshot"}, 0) /\ "snapshot" \in stuck'
  /\ fatal' = TRUE

FinishStep ==
  \/ StageDatabase \/ NormalizeTimestamps \/ NormalizeMetadata \/ RebuildIndexes \/ Analyze
  \/ NormalizeStatistics \/ NormalizeCookie \/ ReserveName \/ Vacuum \/ CheckSnapshot
  \/ CloseDatabase \/ RemoveSidecars \/ InstallSnapshot \/ SyncDirectory \/ ReturnAsset
  \/ StageFails \/ ReturnRowsError \/ RefuseStatistics \/ RefuseSnapshot \/ StepFails \/ NameStaysTaken

\* The rows are written into a file that is staged.
BuildStep == (step > 0 \/ main = "done") /\ Next /\ UNCHANGED assetVars

AssetNext == BuildStep \/ FinishStep

AssetSpec == AssetInit /\ [][AssetNext]_allVars /\ Fairness /\ WF_allVars(FinishStep)

-----------------------------------------------------------------------------
(* Properties. *)

\* What no deferred call removes: a staged file that could not be closed (main.go:105),
\* and the files beside a snapshot (main.go:826).
Unattended == IF step = 0 THEN {"db"} ELSE IF Steps[step] = "check" THEN Beside ELSE {}

\* What a build returns is determined by its input alone: the rows, their authors and
\* the ledger are those of the catalogue, and no trait of the file tells of the time,
\* of the workers and transactions that wrote it, or of the statements since (comments
\* at main.go:572 and 610).  Of a build that fails, at whichever call, no file is left
\* but one whose removal failed or which has no removal.
AssetIsReproducible ==
  /\ returned = "asset" =>
       /\ files = {"db"} /\ traits.db = {}
       /\ \A l \in Languages : rows[l] = Prepared(Corpus) /\ authors[l] = AuthorsOf(Corpus)
       /\ ledger = Locators(Rejections(loaded))
  /\ returned = "error" => files \subseteq stuck \cup Unattended
  /\ stuck # {} => faults > 0
=============================================================================
