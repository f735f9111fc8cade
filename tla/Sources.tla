------------------------------ MODULE Sources -------------------------------
(***************************************************************************)
(* internal/loader and the quality boundary of processor.PartitionSources: *)
(* how the command turns the files of the data sets into the records of a  *)
(* build and into the report that accounts for every one of them.          *)
(*                                                                         *)
(* A tree maps the key of a data set to its default author and its files;  *)
(* a file is listed by its path below the data root, and two data sets may *)
(* name one path.  Keys and paths are integers: the order of numbers is    *)
(* that of the strings.  The map of data sets and a directory are listed   *)
(* in any order.                                                           *)
(***************************************************************************)
EXTENDS Catalog, FiniteSets

CONSTANTS Trees,              \* what the configuration and the file system may hold
          LocatorId(_, _, _)  \* the hash of a data set, a path and a place in the file

Kinds == {"directory", "file", "missing"}
Uses == {"poetry", "listed", "metadata", "other"}
Texts == {"text", "none", "blank", "placeholder", "garbled"}

\* Of a file: what it is used for, whether its dynasty can be inferred, whether it
\* is below the data root, whether it parses, and its records.
Files == [use : Uses, dated : BOOLEAN, inside : BOOLEAN, parses : BOOLEAN,
          records : Seq([text : Texts, canonical : STRING, id : Nat, product : STRING, author : STRING])]

AllFiles(t) == UNION {{k} \X DOMAIN t[k].files : k \in DOMAIN t}

WellFormed(t) ==
  /\ IsFiniteSet(DOMAIN t) /\ DOMAIN t \subseteq Nat
  /\ \A k \in DOMAIN t :
       /\ t[k].kind \in Kinds /\ t[k].author \in STRING
       /\ IsFiniteSet(DOMAIN t[k].files) /\ DOMAIN t[k].files \subseteq Nat
       /\ t[k].kind = "file" => \E p \in DOMAIN t[k].files : DOMAIN t[k].files = {p}
  /\ \A f \in AllFiles(t) :
       /\ t[f[1]].files[f[2]] \in Files
       /\ \A i \in DOMAIN t[f[1]].files[f[2]].records : LocatorId(f[1], f[2], i) \in Int

ASSUME SourcesAssumption == \A t \in Trees : WellFormed(t)

VARIABLES tree,        \* the data sets, and the files there are
          stage,       \* what run does next
          keys,        \* the data sets that are still to be loaded
          paths,       \* the files of the current one that are
          poems,       \* the records loaded so far
          decisions,   \* the loader's report: a decision of each file it considered
          accepted, rejections,   \* the quality boundary's parts
          report,      \* the report of the build
          faulted      \* a call of the file system has failed

building == <<tree, stage, keys, paths, poems, decisions, accepted, rejections, report, faulted>>

-----------------------------------------------------------------------------
\* A listing that is taken as it comes.
AsListed(listing) == listing

\* sort.Strings of a listing, in which no name occurs twice
Ordered(listing) == Ascending(ToSet(listing))

Fail == stage' = "failed"

\* A record, as it is found at a place in a file.
Record(k, p, i) ==
  LET r == tree[k].files[p].records[i]
  IN  [dataset |-> k, path |-> p, index |-> i, locator |-> LocatorId(k, p, i), text |-> r.text,
       canonical |-> r.canonical, id |-> r.id, product |-> r.product,
       author |-> IF r.author = "" THEN tree[k].author ELSE r.author,
       reason |-> IF r.text = "none" THEN "missing_content" ELSE ""]

Loaded(k, p) == [i \in DOMAIN tree[k].files[p].records |-> Record(k, p, i)]

\* The places of the records that nothing, and that something, speaks against.
Unreasoned(records) == {i \in DOMAIN records : records[i].reason = ""}
Reasoned(records) == DOMAIN records \ Unreasoned(records)

Decision(k, p, action, records) ==
  [dataset |-> k, path |-> p, action |-> action, total |-> Len(records),
   accepted |-> Cardinality(Unreasoned(records)), rejected |-> Cardinality(Reasoned(records))]

\* The totals of a report over the decisions that loaded a file.
LoadedOf(ds) == {i \in DOMAIN ds : ds[i].action = "loaded"}
Total(counts) == Cardinality(UNION {{i} \X (1 .. counts[i]) : i \in DOMAIN counts})
Report(ds) ==
  [files |-> ds,
   total |-> Total([i \in LoadedOf(ds) |-> ds[i].total]),
   accepted |-> Total([i \in LoadedOf(ds) |-> ds[i].accepted]),
   rejected |-> Total([i \in LoadedOf(ds) |-> ds[i].rejected]),
   excluded |-> Cardinality(DOMAIN ds \ LoadedOf(ds))]

-----------------------------------------------------------------------------
LoaderInit ==
  /\ tree \in Trees
  /\ stage = "start"
  /\ keys = <<>> /\ paths = <<>>
  /\ poems = <<>> /\ decisions = <<>>
  /\ accepted = <<>> /\ rejections = <<>>
  /\ report = Report(<<>>)
  /\ faulted = FALSE

\* A new process is given the same tree.
Anew ==
  /\ stage' = "start"
  /\ keys' = <<>> /\ paths' = <<>>
  /\ poems' = <<>> /\ decisions' = <<>>
  /\ accepted' = <<>> /\ rejections' = <<>>
  /\ report' = Report(<<>>)
  /\ faulted' = FALSE
  /\ UNCHANGED tree

\* LoadAll: the report is new, and the data sets are taken in the order of their keys.
LoadAll ==
  /\ stage = "start"
  /\ stage' = "datasets"
  /\ \E listing \in SetToSeqs(DOMAIN tree) : keys' = Ordered(listing)
  /\ decisions' = <<>> /\ poems' = <<>>
  /\ UNCHANGED <<tree, paths, accepted, rejections, report, faulted>>

Current == tree[Head(keys)]
Considered(p) == Current.files[p].use # "other"
Escapes(listing) == \E i \in DOMAIN listing : Considered(listing[i]) /\ ~Current.files[listing[i]].inside
UsedAs(listing, uses) == Subsequence(listing, {i \in DOMAIN listing : Current.files[listing[i]].use \in uses})
Candidates(listing) == UsedAs(listing, {"poetry"})
Excluded(listing) == UsedAs(listing, {"listed", "metadata"})

\* loadDataset opens a directory: excluded files are recorded, candidates sorted.
OpenDirectory ==
  /\ stage = "datasets" /\ keys # <<>> /\ Current.kind = "directory"
  /\ \E listing \in SetToSeqs(DOMAIN Current.files) :
       IF Escapes(listing) THEN Fail /\ UNCHANGED <<paths, decisions>>
       ELSE /\ paths' = Ordered(Candidates(listing))
            /\ decisions' = decisions \o [i \in DOMAIN Excluded(listing) |->
                                            Decision(Head(keys), Excluded(listing)[i], "excluded", <<>>)]
            /\ stage' = "files"
  /\ UNCHANGED <<tree, keys, poems, accepted, rejections, report, faulted>>

\* A data set of a single file loads it, whatever is excluded.
OpenFile ==
  /\ stage = "datasets" /\ keys # <<>> /\ Current.kind = "file"
  /\ \E p \in DOMAIN Current.files : paths' = <<p>>
  /\ stage' = "files"
  /\ UNCHANGED <<tree, keys, poems, decisions, accepted, rejections, report, faulted>>

OpenMissing ==
  /\ stage = "datasets" /\ keys # <<>> /\ Current.kind = "missing"
  /\ Fail
  /\ UNCHANGED <<tree, keys, paths, poems, decisions, accepted, rejections, report, faulted>>

\* A file is loaded, or the build fails: its dynasty is not guessed, and nothing is
\* left out because it does not parse.
LoadFile ==
  /\ stage = "files" /\ paths # <<>>
  /\ LET k == Head(keys) p == Head(paths) file == tree[k].files[p]
     IN  IF ~(file.dated /\ file.inside /\ file.parses)
         THEN Fail /\ UNCHANGED <<paths, poems, decisions>>
         ELSE /\ decisions' = Append(decisions, Decision(k, p, "loaded", Loaded(k, p)))
              /\ poems' = poems \o Loaded(k, p)
              /\ paths' = Tail(paths)
              /\ UNCHANGED stage
  /\ UNCHANGED <<tree, keys, accepted, rejections, report, faulted>>

CloseDataset ==
  /\ stage = "files" /\ paths = <<>>
  /\ keys' = Tail(keys)
  /\ stage' = "datasets"
  /\ UNCHANGED <<tree, paths, poems, decisions, accepted, rejections, report, faulted>>

\* stat, ReadDir and ReadFile may fail.
ReadFails ==
  /\ \/ stage = "start"
     \/ stage = "datasets" /\ keys # <<>>
     \/ stage = "files" /\ paths # <<>>
  /\ faulted' = TRUE
  /\ Fail
  /\ UNCHANGED <<tree, keys, paths, poems, decisions, accepted, rejections, report>>

\* A report in the order in which its decisions were made.
ReportAsMade ==
  /\ stage = "datasets" /\ keys = <<>>
  /\ stage' = "loaded"
  /\ UNCHANGED <<tree, keys, paths, poems, decisions, accepted, rejections, report, faulted>>

\* The decisions are sorted by data set and path: no data set decides twice on a file.
ReportedBefore(d, e) == d.dataset < e.dataset \/ (d.dataset = e.dataset /\ d.path < e.path)
ReportedAhead(i) == {j \in DOMAIN decisions : ReportedBefore(decisions[j], decisions[i])}

SortReport ==
  /\ stage = "datasets" /\ keys = <<>>
  /\ LET order == Sorted(DOMAIN decisions, [i \in DOMAIN decisions |-> Cardinality(ReportedAhead(i))])
     IN  decisions' = [k \in DOMAIN order |-> decisions[order[k]]]
  /\ stage' = "loaded"
  /\ UNCHANGED <<tree, keys, paths, poems, accepted, rejections, report, faulted>>

Classified(r) ==
  IF r.reason # "" THEN r
  ELSE [r EXCEPT !.reason = CASE r.text = "garbled"     -> "unicode_replacement_character"
                              [] r.text = "blank"       -> "empty_after_normalization"
                              [] r.text = "placeholder" -> "placeholder_content"
                              [] OTHER                  -> ""]

\* PartitionSources classifies the records in place.
PartitionSources ==
  /\ stage = "loaded"
  /\ LET classified == [i \in DOMAIN poems |-> Classified(poems[i])]
     IN  /\ poems' = classified
         /\ accepted' = Subsequence(classified, Unreasoned(classified))
         /\ rejections' = Subsequence(classified, Reasoned(classified))
  /\ stage' = "partitioned"
  /\ UNCHANGED <<tree, keys, paths, decisions, report, faulted>>

-----------------------------------------------------------------------------
\* A map holds the decision of each path: the last one that loaded the file.
Stands(i) ==
  /\ i \in LoadedOf(decisions)
  /\ \A j \in LoadedOf(decisions) : decisions[j].path = decisions[i].path => j <= i

\* The places of the records that are counted for a decision.
AccountedTo(i) == {j \in DOMAIN poems : Stands(i) /\ poems[j].path = decisions[i].path}

\* FinalizeReport counts the records again, after the quality boundary.
Recounted ==
  [i \in DOMAIN decisions |->
    IF i \notin LoadedOf(decisions) THEN decisions[i]
    ELSE [decisions[i] EXCEPT !.accepted = Cardinality(AccountedTo(i) \cap Unreasoned(poems)),
                              !.rejected = Cardinality(AccountedTo(i) \cap Reasoned(poems))]]

Accounts(ds) ==
  /\ \A j \in DOMAIN poems : \E i \in DOMAIN ds : j \in AccountedTo(i)
  /\ \A i \in LoadedOf(ds) : ds[i].accepted + ds[i].rejected = ds[i].total

FinalizeReport ==
  /\ stage = "partitioned"
  /\ IF Accounts(Recounted)
     THEN report' = Report(Recounted) /\ stage' = "accounted"
     ELSE Fail /\ UNCHANGED report
  /\ UNCHANGED <<tree, keys, paths, poems, decisions, accepted, rejections, faulted>>

\* run compares the report with what it has in hand before anything is built.
CheckAccounting ==
  /\ stage = "accounted"
  /\ stage' = IF /\ report.total = Len(poems)
                 /\ report.accepted = Len(accepted)
                 /\ report.rejected = Len(rejections) THEN "ready" ELSE "failed"
  /\ UNCHANGED <<tree, keys, paths, poems, decisions, accepted, rejections, report, faulted>>

LoaderNext ==
  \/ LoadAll \/ OpenDirectory \/ OpenFile \/ OpenMissing \/ LoadFile \/ CloseDataset \/ ReadFails
  \/ SortReport \/ PartitionSources \/ FinalizeReport \/ CheckAccounting

LoaderSpec == LoaderInit /\ [][LoaderNext]_building

-----------------------------------------------------------------------------
(* Properties. *)

\* What is loaded of a tree, and what is excluded.
LoadedFiles(t) ==
  {f \in AllFiles(t) : t[f[1]].kind = "file" \/ (t[f[1]].kind = "directory" /\ t[f[1]].files[f[2]].use = "poetry")}
ExcludedFiles(t) ==
  {f \in AllFiles(t) : t[f[1]].kind = "directory" /\ t[f[1]].files[f[2]].use \in {"listed", "metadata"}}

\* A tree that can be built: nothing that has to be read is missing, undated, outside
\* of the data root or malformed, and no record could be taken for one of another
\* data set that names the same file.
SoundTree(t) ==
  /\ \A k \in DOMAIN t : t[k].kind # "missing"
  /\ \A f \in LoadedFiles(t) \cup ExcludedFiles(t) : t[f[1]].files[f[2]].inside
  /\ \A f \in LoadedFiles(t) : t[f[1]].files[f[2]].dated /\ t[f[1]].files[f[2]].parses
  /\ \A f, g \in LoadedFiles(t) : f[2] = g[2] /\ f[1] < g[1] => t[f[1]].files[f[2]].records = <<>>

Good(t, f) == {i \in DOMAIN t[f[1]].files[f[2]].records : t[f[1]].files[f[2]].records[i].text = "text"}
Tally(t, f) ==
  LET n == Len(t[f[1]].files[f[2]].records)
  IN  [dataset |-> f[1], path |-> f[2], action |-> "loaded", total |-> n,
       accepted |-> Cardinality(Good(t, f)), rejected |-> n - Cardinality(Good(t, f))]
Unread(f) == [dataset |-> f[1], path |-> f[2], action |-> "excluded", total |-> 0, accepted |-> 0, rejected |-> 0]

\* The report of a build that goes on has one decision for every file there was to
\* decide on, in order, each with the number of its records that are in the build and
\* of those that are not, after every later rejection, and its totals are those of
\* the records in hand (comments at json_loader.go:48 and 405).
ReportIsTrue ==
  stage = "ready" =>
    /\ ToSet(report.files) = {Tally(tree, f) : f \in LoadedFiles(tree)} \cup {Unread(f) : f \in ExcludedFiles(tree)}
    /\ \A i, j \in DOMAIN report.files : i < j => ReportedBefore(report.files[i], report.files[j])
    /\ report.accepted = Len(accepted) /\ report.rejected = Len(rejections)
    /\ report.total = report.accepted + report.rejected
    /\ report.excluded = Cardinality(ExcludedFiles(tree))

\* Where the records of a tree are, and where those of them are that are in the build.
AllPlaces(t) == UNION {{<<f[1], f[2], i>> : i \in DOMAIN t[f[1]].files[f[2]].records} : f \in LoadedFiles(t)}
GoodPlaces(t) == UNION {{<<f[1], f[2], i>> : i \in Good(t, f)} : f \in LoadedFiles(t)}

Place(r) == <<r.dataset, r.path, r.index>>
Places(records) == {Place(records[i]) : i \in DOMAIN records}

\* Records in the order of their data sets, files and places.
Earlier(a, b) == a[1] < b[1] \/ (a[1] = b[1] /\ (a[2] < b[2] \/ (a[2] = b[2] /\ a[3] < b[3])))
InOrder(records) == \A i, j \in DOMAIN records : i < j => Earlier(Place(records[i]), Place(records[j]))

\* Whatever order the data sets and the directories are listed in, the same tree gives
\* the same records in the same order (comment at json_loader.go:109), none is lost or
\* taken twice, and a tree that cannot be built is refused and only such a one, unless
\* the file system fails (comments at json_loader.go:455 and 466).
OutcomeIsDetermined ==
  /\ stage = "ready" =>
       /\ SoundTree(tree)
       /\ Places(accepted) = GoodPlaces(tree) /\ InOrder(accepted)
       /\ Places(rejections) = AllPlaces(tree) \ GoodPlaces(tree) /\ InOrder(rejections)
  /\ stage = "failed" => faulted \/ ~SoundTree(tree)
=============================================================================
