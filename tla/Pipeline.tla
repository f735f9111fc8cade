------------------------------ MODULE Pipeline ------------------------------
(***************************************************************************)
(* The build of the staged database: processUnifiedDatabaseWithBatchSize   *)
(* writes the ledger of rejected sources and runs Processor.Process for    *)
(* the simplified and then for the traditional tables, in one new database *)
(* file.  Process warms the author cache and then runs a dispatcher, the   *)
(* workers and the batch inserter, connected by bounded channels.          *)
(*                                                                         *)
(* A database call may fail; a failed build leaves a staged file that      *)
(* nobody installs, and a killed one too (see OutputPair), so a build is   *)
(* modelled from its start to its outcome.  Dynasties and poetry types are *)
(* seeded by the migration and only read here.                             *)
(***************************************************************************)
EXTENDS Catalog

CONSTANTS Corpora,           \* what the loader may have loaded: sequences of records
          Workers,           \* the worker goroutines
          WorkBuffer, ResultBuffer, ErrorBuffer,   \* capacities of the channels
          TransactionSize,   \* rows written by one transaction
          MaxFaults          \* bound: database calls that fail

ASSUME PipelineAssumption ==
  /\ Workers # {}
  /\ {WorkBuffer, ResultBuffer, ErrorBuffer, TransactionSize} \subseteq Nat \ {0}
  /\ MaxFaults \in Nat
  /\ \A input \in Corpora : Loadable(input)

VARIABLES loaded,      \* the records of the loader
          lang,        \* the language that is being written
          main,        \* where the build itself is
          outcome,
          next,        \* the record the dispatcher sends next
          work,        \* the channel of records for the workers
          worker,      \* what each worker does, and with which record
          results,     \* the channel of products
          errors,      \* how many errors the error channel holds
          errorCount,  \* the atomic counter of failed records
          inserter,    \* what the inserter does, its poems and the rows still to write
          bar,         \* witnesses the inserter's progress bar still waits for
          report,      \* what the inserter answered
          cached,      \* authors in the cache of this language's repository
          ledger, authors, rows,   \* the tables of the staged database
          faults,
          fatal        \* whether a call failed whose error the build must not survive

inputs == <<loaded>>
tables == <<ledger, authors, rows>>
history == <<faults, fatal>>
control == <<lang, main, outcome>>
channels == <<next, work, results, errors, errorCount>>
writing == <<inserter, bar, report>>
vars == <<inputs, tables, history, control, channels, writing, worker, cached>>

Languages == {"Hans", "Hant"}
Places == {"receive", "author", "store", "cache", "type", "send", "exited"}
Corpus == Accepted(loaded)

Nobody == [at |-> "exited", item |-> 0]
Idle == [at |-> "receive", item |-> 0]
Closed == [items |-> <<>>, open |-> FALSE]
Opened == [items |-> <<>>, open |-> TRUE]
NoInserter == [at |-> "idle", poems |-> <<>>, plan |-> <<>>, failed |-> FALSE]

TypeOK ==
  /\ loaded \in Corpora
  /\ lang \in Languages
  /\ main \in {"open", "prewarm", "join", "await", "verify", "done"}
  /\ outcome \in {"running", "ok", "failed"}
  /\ next \in 1 .. Len(Corpus) + 1
  /\ work \in [items : Seq(1 .. Len(Corpus)), open : BOOLEAN]
  /\ Len(work.items) <= WorkBuffer
  /\ worker \in [Workers -> [at : Places, item : 0 .. Len(Corpus)]]
  /\ results \in [items : Seq(1 .. Len(Corpus)), open : BOOLEAN]
  /\ Len(results.items) <= ResultBuffer
  /\ errors \in 0 .. ErrorBuffer
  /\ errorCount \in Nat
  /\ inserter.at \in {"idle", "drain", "prepare", "insert", "wait"}
  /\ inserter.poems \in Seq(1 .. Len(Corpus))
  /\ inserter.failed \in BOOLEAN
  /\ bar \in Nat
  /\ report \in {"none", "ok", "failed"}
  /\ cached \subseteq AuthorsOf(Corpus)
  /\ authors \in [Languages -> SUBSET AuthorsOf(Corpus)]
  /\ ledger \subseteq Locators(loaded)
  /\ DOMAIN rows = Languages
  /\ faults \in 0 .. MaxFaults
  /\ fatal \in BOOLEAN

Init ==
  /\ loaded \in Corpora
  /\ lang = "Hans" /\ main = "open" /\ outcome = "running"
  /\ next = 1 /\ work = Closed /\ results = Closed
  /\ worker = [w \in Workers |-> Nobody]
  /\ errors = 0 /\ errorCount = 0
  /\ inserter = NoInserter /\ bar = 0 /\ report = "none"
  /\ cached = {}
  /\ ledger = {} /\ authors = [l \in Languages |-> {}] /\ rows = [l \in Languages |-> <<>>]
  /\ faults = 0 /\ fatal = FALSE

-----------------------------------------------------------------------------
(* Failing calls and the end of a build. *)

\* A call fails whose error ends the build, or is counted against its record.
Fault ==
  /\ faults < MaxFaults
  /\ faults' = faults + 1
  /\ fatal' = TRUE

Finish(result) ==
  /\ main' = "done"
  /\ outcome' = result
  /\ UNCHANGED lang

-----------------------------------------------------------------------------
(* The build, and Process up to the start of its goroutines. *)

OpenBuild ==
  /\ main = "open"
  /\ Distinct(Rejections(loaded))
  /\ ledger' = Locators(Rejections(loaded))
  /\ main' = "prewarm"
  /\ UNCHANGED <<inputs, authors, rows, history, lang, outcome, channels, writing, worker, cached>>

OpenBuildFails ==
  /\ main = "open"
  /\ \/ ~Distinct(Rejections(loaded)) /\ UNCHANGED history
     \/ Fault
  /\ Finish("failed")
  /\ UNCHANGED <<inputs, tables, channels, writing, worker, cached>>

\* The channels, the workers, the inserter and the dispatcher of this language.
StartGoroutines ==
  /\ main' = "join"
  /\ next' = 1 /\ work' = Opened /\ results' = Opened
  /\ errors' = 0 /\ errorCount' = 0
  /\ worker' = [w \in Workers |-> Idle]
  /\ inserter' = [NoInserter EXCEPT !.at = "drain"]
  /\ bar' = 0 /\ report' = "none"

\* An author is refused whose public identifier is that of a row of the table.
Refused(table, a) == \E b \in table : Clash(a, b)

\* A table after the call for each of these authors, in some order.
Filled(table, asked) ==
  /\ \A a \in table : ~Refused(table, a)
  /\ \A a \in asked : a \in table \/ Refused(table, a)

\* A warm-up that remembers every author it asked for, stored or not.
PrewarmRemembersAll ==
  /\ main = "prewarm"
  /\ \E missed, table \in SUBSET AuthorsOf(Corpus) :
       /\ faults + Cardinality(missed) <= MaxFaults
       /\ faults' = faults + Cardinality(missed)
       /\ authors[lang] \subseteq table /\ Filled(table, AuthorsOf(Corpus) \ missed)
       /\ authors' = [authors EXCEPT ![lang] = table]
       /\ cached' = AuthorsOf(Corpus)
  /\ StartGoroutines
  /\ UNCHANGED <<inputs, ledger, rows, fatal, lang, outcome>>

\* An author that cannot be warmed, stored or refused, is left to the workers.
Prewarm ==
  /\ main = "prewarm"
  /\ \E missed, table \in SUBSET AuthorsOf(Corpus) :
       /\ faults + Cardinality(missed) <= MaxFaults
       /\ faults' = faults + Cardinality(missed)
       /\ authors[lang] \subseteq table /\ Filled(table, AuthorsOf(Corpus) \ missed)
       /\ authors' = [authors EXCEPT ![lang] = table]
       /\ cached' = table \ missed
  /\ StartGoroutines
  /\ UNCHANGED <<inputs, ledger, rows, fatal, lang, outcome>>

\* A dynasty that cannot be read ends the build.
PrewarmFails ==
  /\ main = "prewarm"
  /\ Fault
  /\ Finish("failed")
  /\ UNCHANGED <<inputs, tables, channels, writing, worker, cached>>

-----------------------------------------------------------------------------
(* The dispatcher. *)

Dispatch ==
  /\ work.open
  /\ next <= Len(Corpus)
  /\ Len(work.items) < WorkBuffer
  /\ work' = [work EXCEPT !.items = Append(@, next)]
  /\ next' = next + 1
  /\ UNCHANGED <<inputs, tables, history, control, results, errors, errorCount, writing, worker, cached>>

CloseWork ==
  /\ work.open
  /\ next > Len(Corpus)
  /\ work' = [work EXCEPT !.open = FALSE]
  /\ UNCHANGED <<inputs, tables, history, control, next, results, errors, errorCount, writing, worker, cached>>

-----------------------------------------------------------------------------
(* A worker. *)

Item(w) == Corpus[worker[w].item]

Receive(w) ==
  /\ worker[w].at = "receive"
  /\ work.items # <<>>
  /\ work' = [work EXCEPT !.items = Tail(@)]
  /\ worker' = [worker EXCEPT ![w] = [at |-> "author", item |-> Head(work.items)]]
  /\ UNCHANGED <<inputs, tables, history, control, next, results, errors, errorCount, writing, cached>>

Exit(w) ==
  /\ worker[w].at = "receive"
  /\ work.items = <<>> /\ ~work.open
  /\ worker' = [worker EXCEPT ![w] = Nobody]
  /\ UNCHANGED <<inputs, tables, history, control, channels, writing, cached>>

GoTo(w, label) == worker' = [worker EXCEPT ![w].at = label]

WithAuthor(a) == [authors EXCEPT ![lang] = @ \cup {a}]

\* The error is counted, and kept where the channel has room: nobody waits here.
CountError(w) ==
  /\ errorCount' = errorCount + 1
  /\ errors' = IF errors < ErrorBuffer THEN errors + 1 ELSE errors
  /\ worker' = [worker EXCEPT ![w] = Idle]

RejectRecord(w) ==
  /\ worker[w].at = "author"
  /\ Item(w).fate = "broken"
  /\ CountError(w)
  /\ UNCHANGED <<inputs, tables, history, control, next, work, results, writing, cached>>

FindAuthor(w) ==
  /\ worker[w].at = "author"
  /\ Item(w).fate = "good"
  /\ GoTo(w, IF Item(w).author \in cached THEN "type" ELSE "store")
  /\ UNCHANGED <<inputs, tables, history, control, channels, writing, cached>>

\* An insert that reports a row another worker has stored meanwhile.
StoreAuthorOnce(w) ==
  /\ worker[w].at = "store"
  /\ ~Refused(authors[lang], Item(w).author)
  /\ IF Item(w).author \in authors[lang]
     THEN CountError(w) /\ UNCHANGED authors
     ELSE authors' = WithAuthor(Item(w).author) /\ GoTo(w, "cache") /\ UNCHANGED <<errors, errorCount>>
  /\ UNCHANGED <<inputs, ledger, rows, history, control, next, work, results, writing, cached>>

\* INSERT ... ON CONFLICT DO NOTHING, and the row is read back by its identity.
StoreAuthor(w) ==
  /\ worker[w].at = "store"
  /\ ~Refused(authors[lang], Item(w).author)
  /\ authors' = WithAuthor(Item(w).author)
  /\ GoTo(w, "cache")
  /\ UNCHANGED <<inputs, ledger, rows, history, control, channels, writing, cached>>

\* Another author has the identifier: the insert is skipped and there is no such row.
RefuseAuthor(w) ==
  /\ worker[w].at = "store"
  /\ Refused(authors[lang], Item(w).author)
  /\ CountError(w)
  /\ UNCHANGED <<inputs, tables, history, control, next, work, results, writing, cached>>

CacheAuthor(w) ==
  /\ worker[w].at = "cache"
  /\ cached' = cached \cup {Item(w).author}
  /\ GoTo(w, "type")
  /\ UNCHANGED <<inputs, tables, history, control, channels, writing>>

FindType(w) ==
  /\ worker[w].at = "type"
  /\ GoTo(w, "send")
  /\ UNCHANGED <<inputs, tables, history, control, channels, writing, cached>>

\* The statement that stores the author fails, or the one that reads it back.
AuthorFails(w) ==
  /\ worker[w].at = "store"
  /\ Fault
  /\ \/ UNCHANGED authors
     \/ ~Refused(authors[lang], Item(w).author) /\ authors' = WithAuthor(Item(w).author)
  /\ CountError(w)
  /\ UNCHANGED <<inputs, ledger, rows, control, next, work, results, writing, cached>>

TypeFails(w) ==
  /\ worker[w].at = "type"
  /\ Fault
  /\ CountError(w)
  /\ UNCHANGED <<inputs, tables, control, next, work, results, writing, cached>>

Send(w) ==
  /\ worker[w].at = "send"
  /\ Len(results.items) < ResultBuffer
  /\ results' = [results EXCEPT !.items = Append(@, worker[w].item)]
  /\ worker' = [worker EXCEPT ![w] = Idle]
  /\ UNCHANGED <<inputs, tables, history, control, next, work, errors, errorCount, writing, cached>>

WorkerStep(w) ==
  \/ Receive(w) \/ Exit(w) \/ RejectRecord(w) \/ FindAuthor(w) \/ StoreAuthor(w)
  \/ RefuseAuthor(w) \/ CacheAuthor(w) \/ AuthorFails(w) \/ FindType(w) \/ TypeFails(w) \/ Send(w)

-----------------------------------------------------------------------------
(* The batch inserter and BatchInsertPoemsWithTransaction. *)

Poems == [k \in DOMAIN inserter.poems |-> Corpus[inserter.poems[k]]]

Drain ==
  /\ inserter.at = "drain"
  /\ results.items # <<>>
  /\ inserter' = [inserter EXCEPT !.poems = Append(@, Head(results.items))]
  /\ results' = [results EXCEPT !.items = Tail(@)]
  /\ UNCHANGED <<inputs, tables, history, control, next, work, errors, errorCount, bar, report, worker, cached>>

Drained ==
  /\ inserter.at = "drain"
  /\ results.items = <<>> /\ ~results.open
  /\ inserter' = [inserter EXCEPT !.at = "prepare"]
  /\ UNCHANGED <<inputs, tables, history, control, channels, bar, report, worker, cached>>

\* An inserter that stops only where no poem is left.
NothingLeftToInsert == inserter.poems = <<>>

\* Nothing is written where there is nothing to write or a source record failed.
NothingToInsert == inserter.poems = <<>> \/ errorCount > 0

SkipInsertion ==
  /\ inserter.at = "prepare"
  /\ NothingToInsert
  /\ inserter' = [inserter EXCEPT !.at = "idle"]
  /\ report' = "ok"
  /\ UNCHANGED <<inputs, tables, history, control, channels, bar, worker, cached>>

RefusePoems ==
  /\ inserter.at = "prepare"
  /\ ~NothingToInsert
  /\ Conflict(Poems)
  /\ inserter' = [inserter EXCEPT !.at = "wait", !.failed = TRUE]
  /\ UNCHANGED <<inputs, tables, history, control, channels, bar, report, worker, cached>>

\* A bar that counts products while it is advanced by witnesses.
PlanInsertionOfProducts ==
  /\ inserter.at = "prepare"
  /\ ~NothingToInsert
  /\ ~Conflict(Poems)
  /\ inserter' = [inserter EXCEPT !.at = "insert", !.plan = Prepared(Poems)]
  /\ bar' = Len(Prepared(Poems))
  /\ UNCHANGED <<inputs, tables, history, control, channels, report, worker, cached>>

PlanInsertion ==
  /\ inserter.at = "prepare"
  /\ ~NothingToInsert
  /\ ~Conflict(Poems)
  /\ inserter' = [inserter EXCEPT !.at = "insert", !.plan = Prepared(Poems)]
  /\ bar' = Len(Poems)
  /\ UNCHANGED <<inputs, tables, history, control, channels, report, worker, cached>>

Chunk == SubSeq(inserter.plan, 1, IF TransactionSize < Len(inserter.plan)
                                  THEN TransactionSize ELSE Len(inserter.plan))

\* The foreign key of the author holds and no witness is in the ledger of rejections.
Acceptable(chunk) ==
  /\ AuthorsOf(chunk) \subseteq authors[lang]
  /\ WitnessesOf(chunk) \cap ledger = {}

Commit ==
  /\ inserter.at = "insert"
  /\ inserter.plan # <<>>
  /\ Acceptable(Chunk)
  /\ rows' = [rows EXCEPT ![lang] = @ \o Chunk]
  /\ bar' = bar - Cardinality(WitnessRows(Chunk))
  /\ inserter' = [inserter EXCEPT !.plan = SubSeq(@, Len(Chunk) + 1, Len(@))]
  /\ UNCHANGED <<inputs, ledger, authors, history, control, channels, report, worker, cached>>

\* A failure that leaves the progress bar as it is.
RollBackKeepsBar ==
  /\ inserter.at = "insert"
  /\ inserter.plan # <<>>
  /\ \/ ~Acceptable(Chunk) /\ UNCHANGED history
     \/ Fault
  /\ inserter' = [inserter EXCEPT !.at = "wait", !.failed = TRUE]
  /\ UNCHANGED <<inputs, tables, control, channels, bar, report, worker, cached>>

\* The transaction is rolled back, those before it stay, and the bar is aborted.
RollBack ==
  /\ inserter.at = "insert"
  /\ inserter.plan # <<>>
  /\ \/ ~Acceptable(Chunk) /\ UNCHANGED history
     \/ Fault
  /\ inserter' = [inserter EXCEPT !.at = "wait", !.failed = TRUE]
  /\ bar' = 0
  /\ UNCHANGED <<inputs, tables, control, channels, report, worker, cached>>

Inserted ==
  /\ inserter.at = "insert"
  /\ inserter.plan = <<>>
  /\ inserter' = [inserter EXCEPT !.at = "wait"]
  /\ UNCHANGED <<inputs, tables, history, control, channels, bar, report, worker, cached>>

\* progress.Wait returns when every bar is complete or aborted.
Report ==
  /\ inserter.at = "wait"
  /\ bar = 0
  /\ report' = IF inserter.failed THEN "failed" ELSE "ok"
  /\ inserter' = [inserter EXCEPT !.at = "idle"]
  /\ UNCHANGED <<inputs, tables, history, control, channels, bar, worker, cached>>

InserterStep ==
  \/ Drain \/ Drained \/ SkipInsertion \/ RefusePoems \/ PlanInsertion \/ Commit
  \/ RollBack \/ Inserted \/ Report

-----------------------------------------------------------------------------
(* Process after its goroutines have started, and the build after Process. *)

Exited == \A w \in Workers : worker[w].at = "exited"

\* A wait that ends with the dispatcher instead of the workers.
JoinDispatcher ==
  /\ main = "join"
  /\ ~work.open
  /\ results' = [results EXCEPT !.open = FALSE]
  /\ main' = "await"
  /\ UNCHANGED <<inputs, tables, history, lang, outcome, next, work, errors, errorCount, writing, worker, cached>>

Join ==
  /\ main = "join"
  /\ Exited
  /\ results' = [results EXCEPT !.open = FALSE]
  /\ main' = "await"
  /\ UNCHANGED <<inputs, tables, history, lang, outcome, next, work, errors, errorCount, writing, worker, cached>>

ProcessFailed == report = "failed" \/ errorCount > 0

ProcessFails ==
  /\ main = "await"
  /\ report # "none"
  /\ ProcessFailed
  /\ Finish("failed")
  /\ UNCHANGED <<inputs, tables, history, channels, writing, worker, cached>>

\* The traditional tables are next, with a repository and a cache of their own.
ProcessSucceeds ==
  /\ main = "await"
  /\ report # "none"
  /\ ~ProcessFailed
  /\ lang' = "Hant"
  /\ main' = IF lang = "Hans" THEN "prewarm" ELSE "verify"
  /\ cached' = {}
  /\ UNCHANGED <<inputs, tables, history, outcome, channels, writing, worker>>

\* Every accepted record is a witness in both languages, or the build fails.
Counted == \A l \in Languages : Cardinality(WitnessRows(rows[l])) = Len(Corpus)

Verify ==
  /\ main = "verify"
  /\ Finish(IF Counted THEN "ok" ELSE "failed")
  /\ UNCHANGED <<inputs, tables, history, channels, writing, worker, cached>>

VerifyFails ==
  /\ main = "verify"
  /\ Fault
  /\ Finish("failed")
  /\ UNCHANGED <<inputs, tables, channels, writing, worker, cached>>

MainStep ==
  \/ OpenBuild \/ OpenBuildFails \/ Prewarm \/ PrewarmFails
  \/ Join \/ ProcessFails \/ ProcessSucceeds \/ Verify \/ VerifyFails

Finished == main = "done" /\ UNCHANGED vars

Next ==
  \/ MainStep
  \/ Dispatch \/ CloseWork
  \/ \E w \in Workers : WorkerStep(w)
  \/ InserterStep
  \/ Finished

Spec == Init /\ [][Next]_vars

\* The Go scheduler runs every goroutine that can go on, and database calls return.
Fairness ==
  /\ WF_vars(MainStep)
  /\ WF_vars(Dispatch \/ CloseWork)
  /\ \A w \in Workers : WF_vars(WorkerStep(w))
  /\ WF_vars(InserterStep)

FairSpec == Spec /\ Fairness

-----------------------------------------------------------------------------
(* Properties. *)

\* The result channel is closed only after the last worker is gone: a worker
\* that still had a product to send would panic, and the build would end
\* without an answer; and when the build has its outcome nothing runs any more.
ClosedAfterWorkers ==
  /\ ~results.open => Exited
  /\ main = "done" => inserter.at = "idle" /\ Exited /\ results.items = <<>>

\* batchInserter writes nothing unless every accepted record of the corpus was
\* turned into a product: no set of products "that looks successful and lacks
\* witnesses" (comment at pipeline.go:421), whatever the order of the failures.
NoPartialProduct ==
  rows[lang] # <<>> => ToSet(inserter.poems) = 1 .. Len(Corpus)

\* At every moment the rows of each language are the beginning of the one
\* catalogue of the input: their order and the order of their witnesses do not
\* depend on which worker finished first, nor on where transactions end.
RowsBeginCatalog ==
  \A l \in Languages : BeginsCatalog(rows[l], Corpus)

\* A build that succeeds had an input without conflicts, its authors' included, whom
\* no preflight compares (repository_write.go:92), and every loaded record is a
\* witness in both languages or in the ledger of rejections, never in both.
SuccessIsComplete ==
  outcome = "ok" =>
    /\ Sound(loaded)
    /\ rows["Hans"] = rows["Hant"]
    /\ WitnessesOf(rows["Hans"]) = Locators(Corpus)
    /\ ledger = Locators(loaded) \ Locators(Corpus)

\* Of a sound input, in which no public identifier stands for two works or two authors,
\* the build fails only where a call failed that is not retried:
\* an author that could not be warmed is stored by the workers ("a failed warm-up
\* does not affect the run", pipeline.go:230), two of them at once included.
FailsOnlyForCause ==
  outcome = "failed" => fatal \/ ~Sound(loaded)

\* What the cache of the repository answers is in the table it caches.
CachedAuthorsStored ==
  main \in {"join", "await"} => cached \subseteq authors[lang]

\* Every build ends: no goroutine waits for a channel, a bar or another one for ever.
Terminates == <>(main = "done")
=============================================================================
