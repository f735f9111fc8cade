# Verification of chinese-poetry-api

TLA+ models of the parts of this repository that are concurrent, that survive
crashes or that share state, the TLC runs that check them on small instances,
and TLAPS proofs of what matters most for every instance. Paths in this text
and in the modules are relative to the repository root (`src/`).

Contents: [1 The system](#1-the-system) ·
[2 Modules](#2-modules) · [3 How the models correspond to the code](#3-how-the-models-correspond-to-the-code) ·
[4 Runs](#4-runs) · [5 Fairness](#5-fairness) · [6 What the code does wrong](#6-what-the-code-does-wrong) ·
[7 Proofs](#7-proofs) · [8 What is not modelled](#8-what-is-not-modelled) · [9 Plan](#9-plan)

## 1 The system

A batch command (`cmd/processor`) turns a corpus of JSON files into a SQLite
database and a JSON source report. Both are published as a release. A container
entry point (`scripts/startup.sh`) keeps one release on a volume and then
becomes the API server (`cmd/server`), which answers REST and GraphQL requests
from the read-only database.

    corpus --loader--> records --Process (Hans, Hant)--> staged database + report
                                                              |
                                             installOutputPair (two live files)
                                                              |
                          release ---- download ----> startup.sh (database + manifest)
                                                              |
                                                   cmd/server: rate limiter -> REST
                                                                            -> GraphQL

### Components

| Component | State it keeps | Operations | What is hard | What makes it correct |
|---|---|---|---|---|
| Output installer, `cmd/processor/main.go` 50-462 | two live files, two backups, a marker in one directory | recover, build, install, roll back | kills, power losses and failing calls between any two steps; presence tests that answer "absent" when they fail; recovery interrupted and repeated | the pair changes as one value; a verified pair is never lost; recovery always finds its way |
| Entry point, `scripts/startup.sh` | database and manifest, their backups, a marker; `local_valid` | recover, verify, fetch, stage, swap, restore, serve | the same, and a TERM whose trap lets the script go on | only a verified pair is served; one is always on the volume; it is served without the network |
| Build pipeline, `internal/processor/pipeline.go` | bounded channels, counters, the inserter's progress bar | prewarm, dispatch, work, insert, join, once per language | interleaving of workers, first error wins, a bar that must complete | no partial catalogue, an order no schedule changes, every build ends |
| Batch insert, `internal/database/repository_write.go`, `rejections.go` | poem, witness and rejection tables | preflight, transactions, read-back | a transaction fails after others were committed | conflicts are refused before the first write; every source is a witness or rejected |
| Author cache, `internal/database/cache.go` | three maps under a mutex | look up, store, fill | check and fill are two critical sections | an answer of the cache is in the table |
| Rate limiter, `internal/api/middleware/ratelimit.go` | bounded map of buckets, one shared bucket | look up, admit, sweep | clock read before the mutex, token taken after it | eviction cannot be told from keeping the bucket |
| GraphQL count fields, `internal/graph` | per operation: a language per path and a registry of counts | root resolvers, prefetch, count fields, nested pages | root fields run concurrently and share the registry | counts are true in the language that was asked for |
| GraphQL execution, `internal/graph/generated`, `complexity.go` | none of its own | admission by price, the marshalling of fields, objects and lists | an error far below decides how much of the response is null; a relation that cannot be loaded is null without an error; pages nested under any number of aliases | the work of an operation stays within its price; the response is null where the schema says |
| Loader and report, `internal/loader/json_loader.go` | none while it runs (sequential) | scan, decide per file, load, partition, finalise | data sets in a map, two data sets may name one file, records rejected after they were counted | every file and record is accounted for, whatever the order of listings |
| Assets of a build, `cmd/processor/main.go` 504-836 | the staged file, its log and snapshot | timestamps, search index, statistics, cookie, snapshot | the steps undo what earlier ones leave in the file, so their order matters; removals that fail without a word | the same input gives the same file; what a failed build leaves is what could not be removed or has no removal |
| Migration and search index, `internal/database/migrate.go`, `schema.go` | schema, triggers, search index | migrate, fill the index, the triggers | every statement is a commit of its own: a stop between any two, and a repeat over half-done work | a repeat goes on and changes nothing that is done; the recorded version means a complete schema; the index mirrors the poems |
| Reads, `internal/database/repository_*.go`, REST handlers, connections, search validation | none | listings by page, filters by name, single rows, relations | queries that fail unnoticed, a server replaced between two pages | the pages of a listing are its rows, once and in order; nothing is missing from an answer without a cause |
| Configuration, classifier, helpers, identity, CORS, logger, errors | none or constant | pure functions | numeric edges | defined results |
| Server process, `cmd/server/main.go` | wiring | start, serve, shut down | concurrency of requests | see rate limiter and count fields |
| Release scripts and workflows | files of a release | verify | none beyond shell | see the entry point's verification |

### Interactions

* The pipeline writes a database in a file of its own; only a finished one
  reaches the installer, so a killed build needs no recovery.
* The installer and the entry point share no process but the same idea, a
  marker and two backups. They differ in what they sync and when, which is why
  they are two modules over one model of a directory (`DurableDir`).
* The loader hands its records to the pipeline and its decisions to the report;
  the command compares the two before it builds (main.go:76-88).
* A new build does not touch the database that a server has open. A new server
  opens the new one, and clients go on with the page they were at. That this
  loses and repeats nothing rests on the loader (one order), the pipeline
  (identifiers that do not depend on the schedule) and the listings (orders
  that the identifiers complete) together.
* The server reads a database nobody writes. Its only shared mutable state is
  the rate limiter's map, for the life of the process, and the registry of one
  GraphQL operation.

`PROJECT.json` lists, for every hazard of the code with its line, the
properties that would catch it, or why none does yet.

## 2 Modules

| Module | Kind | What it is |
|---|---|---|
| `DurableDir` | component | a directory whose changes are visible at once and durable after an fsync |
| `PairStore` | abstract specification | a database and its report are replaced as one value |
| `OutputPair` | component over `DurableDir` | the installation protocol of `cmd/processor` |
| `OutputPairProofs` | proofs | type correctness, rollback and crash safety of `OutputPair` |
| `Startup` | component over `DurableDir` | `scripts/startup.sh` |
| `StartupProofs` | proofs | type correctness, which pair is served, that a verified pair stays on the volume and recovery goes on |
| `Sources` | component over `Catalog` | the loader, the quality boundary and the report |
| `Catalog` | operators | records, the quality boundary, conflicts, the rows of a catalogue, and reference definitions (`Sound`, `BeginsCatalog`) that say what they should be |
| `CatalogProofs` | lemmas | sorting, selecting and partitioning, and the rows of a catalogue, for every sequence of records |
| `Pipeline` | component over `Catalog` | the build of both languages |
| `Asset` | component, extends `Pipeline` | from the rows of a finished build to the installed asset |
| `PipelineProofs` | proofs, about `Asset` and `Pipeline` | all their safety properties, for every input |
| `Browse` | component | how clients read an open catalogue, page by page, through both APIs |
| `Release` | composition, extends `Sources` and `Browse` | from the files to the answers, with a second build and a second server |
| `ReleaseProofs` | proofs | what the report says, which trees are built, and that a tree has one catalogue |
| `TokenBuckets` | abstract specification | one bucket per client that lives for ever |
| `RateLimiter` | component | `ratelimit.go`, shown to implement `TokenBuckets` |
| `RateLimiterProofs` | proofs | its invariants and the implementation of `TokenBuckets` |
| `GraphCounts` | component | the resolvers of one GraphQL operation and its registry |
| `Schema` | operators | the published schema, the generated functions of fields, objects and lists, and where each lets an error end |
| `Response` | component, extends `GraphCounts` and `Schema` | one operation from admission to response; it implements `GraphCounts` |
| `GraphCountsProofs` | proofs, about both | which counts are true, that `Response` implements `GraphCounts`, where a response is null, and that its price bounds its work |
| `Migration` | component | the statements of `Migrate`, stopped and repeated, the index triggers and the writes that fire them |
| `MigrationProofs` | proofs | all safety properties of `Migration`, for every database |
| `MC*` | TLC | values of the constants for the runs |

Each component module has its constants with one named assumption, one type
invariant, one action per system call, handler or critical section, and its
properties at the end, with a comment that says which behaviour of the code
they are about. Definitions named after a mistake (`MarkSkipped`,
`IdleTTLRoundedDown`, `FullPagesOnly`, ...) stand before the definition they are a wrong version
of; they are not part of the specification. `PROJECT.json` uses them to show
that each property can be broken by a plausible bug.

## 3 How the models correspond to the code

### Directory on a machine (`DurableDir`)

`dir` is what processes see; `durable[n]` the set of values the name `n` may
have after a power loss: everything it held since the last fsync of the
directory. Names lose power independently of each other. That is the failure
the code itself describes when it orders its fsyncs, and what a journalling file
system without ordered directory updates may do. `SyncDirectory` is
`syncOutputDirectory`, in the script `sync`.

### Output installer (`OutputPair`)

A file is abstracted to the number of the build it holds: its contents are
fsynced under a temporary name before it gets its name, so a name never holds
half a file. `pc` is the next system call, `job` the routine it is made for
(`recover`, `sweep` for unmarked backups, `install`, `rollback`), because
recovery and rollback share the restoring calls. `regime` fixes at the start
what may go wrong in a behaviour. `acked` is the newest installation that
returned nil, `base` the pair before the current one.

`Recover` is the case distinction of `recoverOutputPair`, `Precheck` ...
`SyncDrop` the calls of `installOutputPairWithRename` in their order, each of
which succeeds or, where the regime allows, fails and goes to the code's error
path. Errors that the code ignores are ignored (`RemoveIgnoringErrors`). `Kill`
and `PowerLoss` may come before every call.

A presence test is a call that fails in a way of its own: `fileExists`
(main.go:229) answers "absent" for every error of `stat`. `Recover`, `Precheck`,
`SyncLive` and `RestoreReport` therefore choose a set of entries that they
overlook (`Overlooked`, `Sees`), and the regime bounds how many tests fail in a
behaviour (`stats`), apart from the calls that fail visibly (`faults`).
`existed` is the variable `databaseExists` of the installation, which a failing
test makes wrong and a rollback relies on. Recovery looks at a marker that it saw a
second time (main.go:171), and there a failing `stat` is an error (`markerAgain`).

`Build` (loading, processing, verifying, writing the report) is one step. A hard
link is modelled as a copy of the name; the fallback that copies the bytes where
hard links are not supported is left out. One command runs at a time.

### Entry point (`Startup`)

The same directory with the script's names. A file belongs to a release, or is
`Junk`. `Local` is the verification of the live pair, `Fetch` ... `Stage` the
download and its check, both of which succeed or fail; the rest are the script's
commands one by one. `rest` holds the names a running `rm` still has to remove:
`rm -f` goes on after a failure and its status matters only where it is the last
command of a function. The script's tests of presence (`[ -f ... ]`) are assumed not
to fail. `Signal` is TERM, INT or HUP: the trap deletes the
temporary files and the script continues with the next command, as `sh` does.
`held` is the release the script has verified or installed. A fallback `cp`
that stops half way is left out.

### Build (`Catalog`, `Pipeline`)

A record has a locator, a canonical identity, a public integer, the remaining
product fields as one value, an author with a name and a public identifier, and a
fate: good, unusable (rejected by the quality boundary) or broken (`processPoem`
reports an error). Public identifiers keep 53 bits of the canonical ones: poems that
share one are refused by the preflight (`Disagree`), authors by the read-back of the
second insert (`Clash`, `RefuseAuthor`; repository_write.go:92), whichever of the two
a worker stores first. `Sound` asks that there is neither. Text
conversion, classification and hashing are what gives it these values.

Goroutines: the build itself (`main`), the dispatcher (`next`), the workers
(`worker[w]` with the record it is at), the inserter (`inserter`). The channels
are sequences with their capacities. `work` and `results` can be closed;
`errors` is a number because only the number matters. A worker's handling of a
record is split at every point where others can interfere: cache look-up
(`FindAuthor`), database call (`StoreAuthor`), cache fill (`CacheAuthor`), type
look-up, send. The inserter collects all products, then sorts and checks them
(`PlanInsertion`), then commits one transaction a step; `bar` is what its
progress bar still waits for, and `Report` waits for the bar as the code does.
Any database call may fail; `fatal` is set where the error must end the build.
Dynasties and types are only read (they are seeded by the migration). `TypeFails`
over-approximates: it may fail for any record, where the code fails only for a
type without a row.

### Loader and report (`Sources`)

A tree is what the configuration and the file system hold: data sets by key,
each a directory, a single file or missing, and their files by path. What a file
is used for is the outcome of the code's tests on its name (`poetry`, `listed`
in the exclusions, `metadata`, `other`); whether its dynasty can be inferred,
whether it lies below the data root and whether it parses are attributes of it.
Keys and paths are numbers, since only their order matters. A data set's map and
a directory may be listed in any order (`SetToSeqs`); the code sorts, and the
model sorts where the code does. A locator is a hash of the place of a record
(`LocatorId`, a constant: any function, since two places may have one hash, and
then the build has a conflict). `stage` is the next step of `run`: load the
data sets, sort the decisions, partition, finalise the report, compare.
`FinalizeReport` finds a record's decision in a map by its path alone, so the
last decision that loaded a path takes its records (`Stands`, `AccountedTo`),
and two data sets that name one file are told apart only by the accounting
that follows. A map of decisions and a sorted slice are functions of places, and
counts are cardinalities. `ReadFails` is a failing `stat`, `ReadDir` or `ReadFile`.

### Finishing a build (`Asset`)

`Steps` are the calls of `processUnifiedDatabaseWithBatchSize` after the counts
were verified. A *trait* is something the bytes of a file tell that its rows do
not: a time, a number of segments, an order, a counter. Each step adds traits or
removes them, so a file without traits is determined by the rows.
The staged file is created and closed before the build writes it
(`StageDatabase`), the name of the snapshot is reserved by a file that is created,
closed and removed again (`ReserveName`). `Deferred` is what the deferred calls of
the function that fails remove, which depends on how far it got. A step may fail before
it has done anything; the one that writes the snapshot half way, and the one that
reserves its name with the new file there (main.go:778). The removals ignore their
errors: `stuck` are the files whose removal failed (`ReturnError`). Two things have no
removal at all: a staged file that could not be closed (main.go:105, `StageFails`), and
what lies beside a snapshot that is refused for it (main.go:826, `RefuseSnapshot`).
Whether SQLite samples its indexes depends on how it was built: `Analyze` chooses,
`RefuseStatistics` is the code's check. The installation of the file, with crashes,
is `OutputPair`.

### Reading the catalogue (`Browse`)

A client wants one listing (`Walks`: which API, which list, page size, filters)
or one row, and asks for page after page while the answer says that there is
more, each time in any of its languages. It never asks for a page after the last, and the
flag for a previous page (helpers.go:79) is left out. `Plan` is the sequence of queries of
the handler or resolver; `step` the next one. A query may fail: `Ignored` are
those whose error the code drops (the relation then is missing), `TakenForNothing`
those it answers as not found (a lookup, a single row of REST, the count of a
random poem), and any other is an error after which the client
asks again. The database returns rows in any order its `ORDER BY` allows
(`Orders`). `Open` is a new server: a request that runs is lost. Names are
resolved by the code's queries, the dynasty first (`Lookups`); the queries of
each listing and single row follow in the order of its handler (`Queries`). A search text has
a number of characters, may contain a pattern character, and hits some works.

### Corpus to answers (`Release`)

The loader runs beside the readers. `Publish` stands for the pipeline, the
installer and the start of a server, which have models of their own: a sound
input becomes the rows of `Catalog`'s `Prepared`, whatever order the workers
hand the records over in, a conflict leaves what there was. `BuildAgain` is a new
process over the same tree.

### Rate limiter (`TokenBuckets`, `RateLimiter`)

`Arrive` reads the clock (ratelimit.go:106), one of `FindEntry`, `UseOverflow`
and `AddEntry` is the critical section of `getLimiter`, `AllowOwn` and
`AllowOverflow` take the token after the mutex was released, `Sweep` is one
critical section. `golang.org/x/time/rate` is modelled by its use: a tick adds
`Rate` units, a request costs `Cost`. A slow handler writes its old clock
reading into `lastSeen`, as in the code. `MaxStall` bounds the ticks between a
handler's look at the clock and its token; without a bound a handler that
sleeps for the whole idle time loses its bucket. The assumption
`2 * MaxStall <= IdleTTL` is generous: the idle time is at least a minute.

### Count fields (`GraphCounts`)

A field's resolver makes its queries one after the other (`queries`); after each
it puts counts into the registry one at a time (`writes`, `Cache`), since each
`cache...Count` call takes the registry's lock for itself; when it has returned,
the count fields below it are resolved (`asks`), from the registry if it knows
the count, otherwise by a query. `Batches` says what each query of a resolver
adds. A nested `author.poems` is a field with a parent and an alias; each of its
instances, one for each row of the parent and each alias, is a field of its own. It
runs when the parent has
returned, in the language that the registry has for the parent's path. A page
size out of bounds fails the field before its first query (`PageRefused`). `paths` is the registry of languages, which nested fields read.
The database is a constant, one per language. `GraphCountsAssumption` says that
it is a published catalogue: authors have poems, of their dynasty, and a poem's
author, dynasty and type have rows (foreign keys, migrate.go:265); and that no
selection is below itself, as a query is a finite tree. Under it the
prefetch that counts author rows (prefetch.go:98) agrees with the count of
distinct authors over poems (repository_stats.go:34); for an arbitrary database
the two queries differ. A failing query fails its field, but for those that load the
relations of poems and of a single author: their errors are not looked at
(repository_poems.go:46-71 and 109-141, repository_additional.go:85). `Relations` lists
these statements with what each is for, `RelationFails` lets one fail, and `dropped`
remembers it: what it was for is missing from the rows (`LostPlaces`), and no count
and no page below it is reached (`Reached`, `AuthorFound`). The dynasties of a page of
authors are loaded by a query whose error is reported (repository_stats.go:189), and
failing it is a `QueryFails`. `searchPoems` is a page like `poems` and `randomPoem` a
poem, so they have no kind of their own.

### GraphQL execution (`Schema`, `Response`)

`Schema` has two sets of tables. `...Schema` is what clients are promised
(`schema.graphqls`): the type of each field and whether it is required.
`...Fields` and `...Object` are what the generated code does: the type a field's
function marshals, and the fields whose null an object's function counts as
invalid. `NulledBy` follows an error up the generated functions, `DeclaredNull`
up the schema. `Response` prices an operation as `complexity.go` does (`Cost`;
`PageCost` for a page, one more than what is below it for any other field),
refuses it above the limit, lets `GraphCounts` resolve it and then collects the
errors and the relations that were lost into nulls (`Respond`). `Unanswered`, by
which the nulls are judged, is taken from what was asked for and what was answered, not
from the errors. `Statements` counts the queries that were made, with those of a
resolver's first query (`FirstStatements`: seven for a random poem, which is counted,
found, read and given four relations).
A field that asks for counts selects all of them, one that does not a leaf. A
selection below a page is written, and priced, once for all of its rows, while
each row has a field of its own that is resolved: where these instances differ
`NestedCost` takes the dearest, whose selection is the whole. Each alias is a selection
of its own, and their prices add up, as gqlgen adds those of all selected fields. Aliases of count fields and of relations are left out, of the
price and of the work.
`ResponseAssumption` says
what the price relies on: poems and authors have primary keys, a page has at most
the rows it was asked for (`RowLimit`), a field nested below it has at most one
instance for each row and alias, and the charge for a nested page (20 in the code) is at
least 7, so that with the page's own 1 it covers the eight statements of a page.

### Migration (`Migration`)

`pc` is the next statement of `Migrate` and `lang` the language whose tables it
is for. What a table consists of is a set of parts per language; a statement
that makes what is missing adds its part. `poems` and `index` are functions from
row numbers to rows and to indexed texts. The statements that create a table's
plain indexes are one step with the table, since they are repeated together and
nothing asks for them. The index triggers are part of the write that fires them:
`Insert` (new rows of a batch or an upsert), `Update` (`UpsertPoem`),
`NormalizeTimestamps` (the processor's update of every row), `Delete`. `Stop` is
a kill, a power loss or an error. `Databases` is what the first `Migrate` may
find. `torn`, a history variable, remembers where a Migrate stopped after it had
made the index and before it had filled it. The processor deletes an old file
before it opens the database (main.go:512), so in its own use there are no rows
before the first `Migrate`; the code, its comments and its tests
(`migrate_v2_test.go`) provide for databases of version 1, and so does the
model.

## 4 Runs

| Run | Checks | Bounds, and why they are enough |
|---|---|---|
| `output_pair` | `UnmarkedPairWhole`, `VerifiedPairKept`, `RecoveryNeverStuck`, `RollbackRestores`, `InterruptionResolved`, `ImplementsStore` | 3 builds: a first installation, a replacement and a replacement of that, so backups of two generations meet. 3 crashes: one in the installation, one in the recovery, one in the recovery of that. Regimes (`Withstood`): kills with one failing call that is not a presence test; power losses; or, without crashes, one failing call and one failing presence test |
| `output_pair_kill_power`, `output_pair_kill_stat` | `VerifiedPairKept`, violated | two mixtures the protocol does not withstand: a kill and a power loss, a kill and a failing presence test |
| `startup` | `ServedPairVerified`, `KeepsVerifiedPair`, `RecoveryFindsAWayAfterKill`, `VerifiedPairIsServed` | 3 releases: an update after an update, and a return to an older one. 3 crashes. Regimes: kills with one failing command, kills with signals, or power losses |
| `startup_power`, `startup_signal` | `RecoveryFindsAWay`, `ServedPairVerified`, violated | one crash is enough |
| `pipeline` | type, `ClosedAfterWorkers`, `NoPartialProduct`, `RowsBeginCatalog`, `SuccessIsComplete`, `FailsOnlyForCause`, `CachedAuthorsStored`, `AssetIsReproducible`, `Terminates` | 3 workers and channels for one item, so that every channel is full at times; transactions of one row, so that a later one fails after an earlier one was committed; 2 failing calls, so that a failed warm-up meets another failure; eleven inputs of up to three records, one for each way in which records or their authors may agree or conflict; then every step of the asset, any of which may fail, with removals that fail, with and without samples |
| `rate_limiter` | type, `HeldBucketsAreKept`, `MapStaysBounded`, `EvictionIsInvisible` | 2 clients and room for one, so the shared bucket is used; 2 handlers that may be a tick late, so one can set the other's time back; a bucket that fills in 4 ticks with seconds of 3, so rounding matters; 9 ticks, enough for an eviction and a second use |
| `graph_counts` | type, `PoemCountsAreTrue`, `WrongOnlyBesideStatistics`, `WorkIsPriced`, `ErrorsStayInPlace`, `WrongCountIsContradicted`, `ResponseIsSent` | 18 operations of two or three fields, which cover every kind of field, statistics beside each kind that is listed and beside an author (whose counts are among those of a poem), pages below authors and under two aliases, pages out of bounds and, with a limit of 100, operations that are refused; two languages in which author numbers differ; one failing query, which may be that of a relation |
| `graph_statistics` | `AuthorCountsAreTrue`, violated | `statistics` and `dynasties`, no failure |
| `migration` | `NothingStale`, `MissingOnlyAfterStop`, `VersionMeansComplete`, `RepeatChangesNothing`, `MigrationSucceeds` | four databases: empty, version 1 with a poem in both languages or in one, refused in the second language; 2 stops, so that a repeat is stopped too; 2 writes, so that a row is written and written again or removed, with a Migrate between; the writes have numbers and texts to collide |
| `release` | `ReportIsTrue`, `OutcomeIsDetermined`, `WalkIsComplete`, `AnswersForCause`, `CatalogueIsReproducible` | a corpus of three data sets with every kind of record and file, two authors of one name and a work with two witnesses, and seven trees to be refused, each for a reason of its own; 4 works on pages of 1 or 2, so that listings have one page, several, or more than may be asked for (`MaxPage` 2); sizes 0 and 3 are out of bounds; 2 builds, so that the catalogue is replaced between two pages; one failing query |

What the passing runs show:

* **Installer.** Under kills with a failing call, under power losses, or under a
  failing call and a failing presence test where nothing crashes, an
  unmarked directory never holds the database of one build with the report of
  another, in what a process sees and in what a power loss may leave. An
  acknowledged pair is neither lost nor rolled back. Recovery never refuses a
  directory, a rollback that got to its clean-up has restored the old pair
  durably, an interruption does not stay, and the whole protocol implements
  `PairStore`, where the pair is one value (refinement mapping: what recovery
  would make of the directory). A presence test that fails in the recovery after a
  kill is not withstood: see section 6.
* **Entry point.** The server starts only on the release that was verified or
  installed; one verified pair is on the volume at every moment; after kills
  recovery always goes on, and a verified pair gets served without the network.
* **Build.** Nothing is written for a language unless every accepted record
  became a product; the rows are a prefix of one catalogue that does not depend
  on the schedule; success means a sound input that is completely written in both
  languages, with every other record in the ledger; a sound input fails only
  for a failed call that is not retried; every build ends. The file it leaves
  tells of nothing but its input; a build that fails leaves only files whose
  removal failed, a staged file it could not close, or files beside a snapshot that it
  refused for them.
* **Corpus to answers.** The report has one decision for every file, with the
  numbers of records that are and are not in the build, whatever order things
  are listed in; a tree is refused only if something in it has to be, or a
  read fails. Building the tree again gives the same rows. A client is shown
  every row of its listing once and in order, in whichever languages it asks
  for the pages, and whichever server answers; what is missing from an answer
  has a failed query for its cause.
* **Rate limiter.** Requests are answered as by buckets that are never evicted.
* **Count fields and responses.** Poem counts are always true. Author counts are
  true unless another field of the operation asks for statistics, the only wrong
  answer is zero, and a response that contains it contains the right number too.
  An operation makes no more queries than its price and eight for each root
  field allow, pages under several aliases included. An error makes null
  what the schema says, a relation that could not be loaded is null by itself, nothing
  else is missing, and every operation is answered or refused.
* **Migration.** The index never finds a poem by a text the poem does not have,
  not even half way. A migrated database lacks an index row only for a poem of
  before the first migration whose one-time fill was cut off. The version is
  recorded only for a complete schema, a repeat changes nothing, and a
  database that is not refused gets migrated wherever the runs before stopped.

Deadlock is checked everywhere but in `release`, where a client that has read
everything, a tree that was refused and a server nobody asks are quiet for good.
Modules of things that end have a `Finished` step that is enabled
only in the final state, so a state in which everything waits is still found as a deadlock.

## 5 Fairness

* `OutputPair`: weak fairness of the steps of recovery and of installation: a
  started command keeps running, and the command is run again after it failed.
  No fairness of `Kill`, `PowerLoss` or failures.
* `Startup`: weak fairness of the script's steps: the restart policy of
  `docker-compose.yml` (`restart: unless-stopped`) starts it again. None of
  `Stop`, signals or crashes.
* `Pipeline`: weak fairness of each goroutine, which is what the Go scheduler
  gives, and database calls return. A choice between a success and a failure of
  one call is inside one fair action; neither outcome is forced.
* `Asset`: weak fairness of `FinishStep`, one goroutine's calls, besides that of
  `Pipeline`.
* `Response`: weak fairness of all its steps together, that is, some goroutine
  that can run does, and database calls return. The fields of an operation do not
  wait for each other, so fairness between them is not needed. `GraphCounts` by
  itself is a safety specification.
* `Migration`: weak fairness of `MigrateStep`: SQLite's calls return, and
  somebody starts a migration that has stopped again. None of `Stop` (bounded)
  or of writes.
* `RateLimiter`, `Sources`, `Browse`, `Release`: none; their properties promise no
  progress. A listing that is read is complete, but nobody has to read it.

## 6 What the code does wrong

Five runs end in a violation of something the repository says of itself. The
`findings` of `PROJECT.json` quote the lines.

1. **`output_pair_kill_power`** - recovery of an unmarked directory removes
   both backups without an fsync (main.go:166). If the removal of the marker by
   the run before was not durable (it was killed between main.go:450 and 456),
   a power loss brings the marker back without its backups, and the next
   recovery takes the verified pair for a half-finished first installation and
   deletes it. An fsync before the sweep would prevent it.
2. **`output_pair_kill_stat`** - `fileExists` takes every failing `stat` for a
   missing file (main.go:229). After a kill that left the marker, a failing `stat`
   of the marker makes the next recovery sweep both backups of a directory that is
   still marked (main.go:155-168), and the recovery after that finds the marker without
   backups and deletes the verified pair (main.go:208). With a failing
   `stat` of one backup instead, recovery acknowledges a mixed pair (main.go:175-195).
   Telling "does not exist" from other errors would prevent both.
3. **`startup_power`** - the script does not sync between the two renames and
   the removal of the marker (startup.sh:294-315). A power loss can leave a mixed
   pair, both backups and no marker, which every later start refuses, although
   the verified pair is there.
4. **`startup_signal`** - the fallback at startup.sh:347 tests `local_valid`,
   which was computed before the live pair was touched. After a TERM during the
   swap and a failing restore the script serves a new database with an old
   manifest as its "verified local database".
5. **`graph_statistics`** - `statistics` registers every dynasty with zero
   authors before it has counted them (schema.resolvers.go:353);
   `dynasties { authorCount }` in the same operation may answer 0. If the statistics
   arrive at all they contradict it (`WrongCountIsContradicted`).

Also seen, without runs of their own: after a failed fsync of the marker the
clean-up removes the marker and the backups unsynced (main.go:389); a power loss may
keep the marker alone, with the end of the first item (`MCOutputPairKillPower.cfg` with
`Regimes <- FaultAndPowerLoss` shows it). Two failing calls and kills can lose a pair
in the installer, because the error of removing the marker is ignored on one
path. And `MissingOnlyAfterStop` is as strong as the code allows: a Migrate that
stops between the creation of the index and its fill (migrate.go:383-435) leaves
an index without the old poems, and every later Migrate takes the comment at
migrate.go:427 ("a table that is there is up to date") for granted. The
processor is safe from it, because it starts from an empty file and compares the
index with the poems before it publishes (main.go:717).

## 7 Proofs

TLAPS checks every leaf. The proofs hold for every value of the constants that
satisfies the modules' assumptions; TLC evaluates those assumptions for the
instances it checks.

### `OutputPairProofs`

* `TypeCorrect`: no assumption on what may go wrong.
* `RollbackCorrect`: under `FewStatsFail`, at most one presence test fails, and none
  where power may be lost; any number of other calls fail. Two failing tests can make
  an installation take a pair that is there for absent, and its rollback deletes it.
* `SafeInvariant`, `VerifiedPairIsKept`, `UnmarkedPairIsWhole`,
  `RecoveryIsNeverStuck`: under `Survivable`, every regime has kills and at most one
  failing call that is not a presence test, or power losses without kills and
  failing calls, or at most one failing call and one failing presence test without
  crashes. The counterexamples of section 6 show that the mixtures are not survived.

The safety properties are not inductive: they speak of unmarked directories, or of
the moment of recovery, and what a step does depends on what has been made
durable. The invariant says, for every system call, what the next one may rely
on: `Clean` (the live pair counts and the marker is durably absent), `Armed`
(the marker is durable and both backups hold the old pair), and the stages
between, over `May(e)`, the values a name may have for the next command. There is
one lemma per routine. The properties follow from it state by state.

`StoreIsImplemented`: under `Survivable` the protocol implements `PairStore`,
for any number of rebuilds. `Counting` names the generation that recovery would
produce: the backed up one while `Armed` holds, else the live one. `OneOutcome`
shows that recovery makes that pair of every directory the next command may find,
except between the removal of the marker and its fsync, where `TwoOutcomes`
leaves the old and the new pair. `CountingKept` goes through the calls: only the
removal of the marker by an installation changes the pair that counts, and that
step is `Publish`. The fsync after it, or a kill at that point, is `Persist`; a
power loss is `Crash`; the rest stutters. `StoreCore` adds to the invariant
that builds are numbered upwards, which makes the published pair a newer one.

### `StartupProofs`

`ServedPairIsVerified` and `TypeCorrect`, for every number of releases and
crashes, with power losses, under `FewFaults`: in one life of the volume at most
one command fails, or signals come, not both. The run `startup_signal` is a
behaviour with both, so the assumption cannot be dropped. The argument: while
the script holds its local pair for verified, that pair is the live one until
the first rename, and from the second backup on it is behind the two backups
(`Kept`, `Saved`). A roll-back is taken only after a failure, so where one
command may fail it does not fail itself, and under signals it does not fail at
all. The invariant adds which commands run for which job, what is staged, and
what is installed at each command of the swap. One lemma per action.

`VerifiedPairIsOnVolume` and `RecoveryGoesOn`, under `SingleCause`: kills with
one failing command, kills with signals, or power losses. A pair is *safe* when
it is verified and every name of it is settled, that is, no power loss can change
it. The invariant `Volume` says that the live pair is safe or the backups are
settled, and, once something was verified, that one of the pairs is safe. The
live pair is torn only between the first rename and the sync after the marker's
removal (`Torn`), and the sync of the marker has settled the backups by then
(`Guarded`). For machines that keep their power it adds what recovery needs: a
verified live pair, no backups, or a marker with verified backups. Two
things make this inductive: a marker or backup that was left behind has used up
the one failure (`Leftovers`), so recovery cannot mistake a verified pair for an
unfinished first installation; and a start without a verified pair has no
backups (`WithoutLocal`). TLC finds a lost pair with two failing commands, with a
power loss beside a kill, and with a power loss beside a failing command; that
signals come without the others is more than is needed.

### `CatalogProofs`

What sorting and selecting return, for every finite set and sequence. `Sorted`
puts an element where its rank says, the number of elements that are not after
it. `RankIsBijective` shows that this reaches every place once, and from it
`SortedFacts`, `AscendingFacts` and `SubsequenceFacts` follow without an
induction over data: an injection of a finite set into its own cardinality is a
bijection. (Where a proof does need an induction, over the steps of a path in
`GraphCountsProofs`, it takes the least of the counterexamples, `SmallestNumber`.)
On these rest
`PreparedFacts` (the rows of a catalogue: every work once, by public identifier,
its product that of the witness with the least locator), `CatalogOfRecords`
(`Prepared` depends on the set of records and not on their order), `CountsAdd`
(the quality boundary's halves add up) and `SoundFacts`.

### `PipelineProofs`

`Inv` says, beside types: `Phases` (which goroutine runs when); `Conserved`
(a dispatched record is in a channel, with a worker or with the inserter until
an error is counted); what has become a product was good; what the inserter's
plan and the written rows are at each of its calls, in terms of `Prepared`; what
the cache knows; and, for every way a build may have ended, its cause.
`Conserved` is what makes it inductive: when the workers are gone and the
channels empty, no counted error means that every record is with the inserter.
Then the products are a permutation of the accepted records, and
`CatalogOfRecords` makes the rows independent of the schedule. Theorems, for all
inputs, workers, capacities and faults: `InvariantHolds`, `TypeCorrect`,
`ChannelClosedAfterWorkers`, `NothingPartialIsWritten`,
`CacheAnswersStoredAuthors`, `RowsAlwaysBeginCatalog`,
`SuccessNeedsEveryRecord`, `FailureHasCause`.

`AssetIsDetermined`: `Stepping` says which files and which traits a build may
have left before each step (`Clean`), so none is left after the last, and what
`Deferred` removes at the first failing step is everything there is but
`Unattended`, of which only what it fails to remove is left (`stuck`).
`AssetKeepsBuild`: the finish changes nothing that was proved of the build.

### `ReleaseProofs`

`LoaderInvariant`: while the loader runs, the records in hand are, in order,
exactly those of the files that come before what is left (`DoneFiles`), each
once, and there is one decision for each of these and of the excluded files
passed by. The keys and paths that are left are rising and greater than all that
was done, so the next file's records come last: this is what sorting a listing
is for. Afterwards the decisions are those on all files, in the order of the
report, and the records are classified (`AllRead`, `Partitioned`). Then

* `FinalizeReport` goes on exactly if no two data sets share a file that has
  records (`SoundTree`'s last condition). If they do, the decision that stands for the
  path has the records of both and does not add up with its total; if they do
  not, each record is counted for the decision on its own file.
* The totals are cardinalities of disjoint unions (`Total`), and the places of
  the records are the disjoint union of those of the files, so they agree
  with the records in hand. `CheckAccounting`'s comparison (main.go:76-88)
  therefore never fails after `FinalizeReport` has succeeded: it guards
  against a change of the code, not against an input.

Theorems: `ReportCorrect` (`ReportIsTrue`), `OutcomeCorrect`
(`OutcomeIsDetermined`), `CatalogueReproducible` (`CatalogueIsReproducible`):
the accepted records are a function of the tree, so by `CatalogOfRecords`
the rows of an open catalogue are (`CatalogueInv`), whoever builds it again. For all
trees, listings, hashes, failing reads and numbers of builds.

`ReaderInvariant` is about the clients. Its invariant `ReadInv` strengthens the two
properties of `Browse` by what a client and a request know half way:

* `Walking`: the client has been shown as many rows as come before the page it is
  at, and if that is not the first page there are more rows than that. The rows of
  the open catalogue have distinct identifiers (`RowsKnown`), which the preflight
  of the build grants (`RowsOfRecords`: an identifier shared by two works is a
  conflict).
* `Choosing`: a filter is what the client gave if its lookup is done (`Done`), and
  empty before. The author is looked up after the dynasty, so the namesakes that
  are found are those of the dynasty, and one that is found is the only one.
* `Finding`: a page is the page of some order of the rows that are intended
  (`MatchingIsIntended`), the total their number, a single row one of them.
* `Related`: the relations of what was found are loaded, or their query has failed.

Two lemmas carry it. `PlaceInOrder`: in whichever order the database returns rows,
the place of a row is the number of rows before it, since the identifiers complete
every order (`IdentifiersConnect`); with `BeforeByCountOnly` there would be
no such place. `PlanFacts`: the queries of every handler come in an order in
which each finds what it needs (`Planned`), and are those its listing needs
(`Suits`). Then `NextPageFacts`: both ways of telling whether there is a next
page, the number of pages of REST and the comparison of GraphQL, tell it
rightly, and a page before the last is full, so `RespondInv` puts the next places
behind those that were shown. A server that is replaced loses the request and, by
`CatalogueReproducible`, nothing else (`PublishReadInv`). Theorems:
`WalkComplete` (`WalkIsComplete`), `AnswersCaused` (`AnswersForCause`), for
all catalogues, walks, page sizes, languages, bounds and numbers of failing queries.

They rest on `BrowseAssumption` and `ReleaseAssumption`, which say what the routes
admit: names are given in one language, to the listing of poems and to the
random poem of REST (handler/poem.go:149) only; a listing of works and a single row are
asked for by an identifier; the empty name is nobody's; dynasties and types have
distinct row numbers; and every record has an author with a row, the anonymous one
if neither its file nor its data set names one (pipeline.go:187).

### `RateLimiterProofs`

The invariant: a handler at work read the clock at most `MaxStall` ticks ago
(`Timely`); the bucket it holds was last seen at most `MaxStall` ticks before
that (`Held`), because whoever set the time back was timely too; a bucket is
full or has gained `Rate` with each tick but `2 * MaxStall` since it was last
seen (`Refilled`). So a sweep takes no bucket that is held
(`HeldBucketsSurvive`), the map keeps to its bound (`MapIsBounded`), and what a
sweep takes is full. `EvictionCannotBeSeen` is the implementation of
`TokenBuckets`: `Tick`, `AllowOwn` and `AllowOverflow` map to the abstract
actions and everything else stutters. It has the hypothesis `Slack`: the idle
time leaves room for slow handlers, `Rate * (IdleTTL + 1 - 2 * MaxStall) >=
Capacity`. The configured limiter (burst 20, 10 a second, idle time a minute)
has ample room; where burst / rps is a whole number of seconds of a minute or
more there is none, and a bucket may be evicted as much too early as a handler
was slow.

### `GraphCountsProofs`

The invariant: what a resolver has still to register is right, but for the
zeros of a statistics field after its first query (`Writing`); a wrong author
count in the registry is zero and a statistics field is `Pending` that will
replace it, or has failed (`Registry`). A field that answers has returned, so
the pending one is another: `WrongOnlyBesideStatistics`. Theorems:
`InvariantHolds`, `TypeCorrect`, `PoemCountsCorrect`, `AuthorCountsCorrect`, for
every catalogue that satisfies the assumption, every set of fields and failing query.

`ResponseImplementsGraphCounts`: admission and response leave the fields alone,
so `ResponseSpec => Spec` and every theorem above holds of responses
(`AnsweredPoemCountsCorrect`, `AnsweredTypeCorrect`). `WrongCountContradicted` puts three things
together: a wrong author count has a statistics field beside it; when a response
is written that field has returned or
failed; and if it failed the generated object function of `Query` cannot
contain its null (`StatisticsNull`, computed from the tables of `Schema`), so
there is no data that could be wrong. For every catalogue, set of fields, limit,
schedule and number of failing queries.

`NullsStayInPlace` (`ErrorsStayInPlace`): an error makes null what the schema says, a
relation that was lost is null by itself, nothing else is null, and whatever was asked
for without an answer is at or below one of these nulls. A field without an answer has
failed, waits below one that failed or below an author that was lost, or is a count
that failed or lies below a lost relation; in each case the null is above it on its path.
The tables of the generated functions and of the schema agree field by field
(`TablesAgree`), so along a path of the schema they climb equally far
(`NullsAgree`); and the path of every error is one (`ErrorsLead`), from a root
field down through nested pages of any depth. That nesting ends is the
assumption that no selection is below itself: a field without a path would have
a parent without one, and so on (`PathsExist`).

`WorkPriced` (`WorkIsPriced`): the work of an operation is bounded by its price.
The argument has three parts.

* The account (`WorkInv`, checked with TLC on the instance of `graph_counts`
  before it was proved). Counts are asked for where the schema has them below the
  rows and answered once (`Open`, `Once`); what a query learned is in the registry
  or on its way (`Stored`), so below a field that lists, whose price has no rows in
  it, no count is ever asked of the database (`ListedKnown`, `Prefetched`); and
  every fault left a field failed, a count missing or a relation passed over
  (`Faulted`, `PassedOver`). The last is a sum
  over the fields: a fault raises one term of it by one (`FaultsGrow`), any other
  step leaves all terms alone (`FaultsStand`).
* One field (`FieldPays`). A resolver makes eight statements at most
  (`FieldStatements`), and a row has as many counts below it as its selection has
  (`PoemCountsFit` and its like: six below a poem, three below an author). So what
  was done for a field, together with the prices of the fields nested below it, is
  at most its own price; for a root field, eight more. The fields nested below it are
  paid for alias by alias: those of one alias are no more than the rows, and none is
  dearer than the dearest, for which each row has paid (`NestedPaid`). A relation that
  was passed over is a statement less and a fault more (`RelationFailsWork`).
* The whole (`OperationPays`). Added up over all fields, the price of each nested
  field is on both sides, once as a price and once below its parent
  (`SumOfParts`): what is left is the work on one side and the prices of the roots
  on the other.

`WorkLimited` adds the admission: whatever is asked, the statements made so far
never exceed the configured limit but for those eight of each root page, and a
refused operation makes none. Sums are the folds of the community modules, which
take an element out of a set at a time; `SumsExist` and `CostsExist` show that the
recursive functions behind a sum and behind the price are there, by an argument
about a smallest subset (`SmallestSubset`, from the library's well-founded
ordering of finite sets), and `SumWithout` that the order of elements does not
matter. No induction rule with an operator parameter is needed.

### `MigrationProofs`

The invariant says what the language at work has at each statement, that the
language before it is complete (`Progress`), and why a poem may be missing from
the index (`Lacking`): its language has no index yet, or the Migrate that made the
index is about to fill it, or it stopped there. `Lacking` is what makes
`MissingOnlyAfterStop` inductive, since half-way states lack poems lawfully;
`existed` at the fill is tied to the index by `Progress`, which also gives the
writers all three triggers. Theorems: `TypeCorrect`, `IndexIsNotStale`,
`OnlyAStoppedFillIsMissing`, `VersionIsHonest`, `RepeatIsIdle`, for all databases,
rows, stops and writes.

### Only model-checked

* Liveness (`InterruptionResolved`, `VerifiedPairIsServed`, `Terminates`,
  `ResponseIsSent`, `MigrationSucceeds`): fairness is out of the prover's reach here.

Every invariant and every action property of a passing run is proved.

## 8 What is not modelled

* Two processor commands at once on one output: the code takes no lock, the
  deployment starts one at a time.
* What is inside a text: conversion between scripts, classification by form,
  hashes of identity and provenance, LIKE patterns, sentence splitting. The
  models take the values they give as attributes of records and phrases. They are
  pure functions, with no order of events a model checker could search.
* Configuration: read once. What it admits are the assumptions on constants
  (`RateLimiterAssumption`, `ResponseAssumption`, `BrowseAssumption`); the
  defaults of the connection pool are left out.
* The stop of the server: it drains requests that run (`Browse` loses them, which
  is the harder case) and closes the database.
* The handlers of health and of statistics over REST, CORS headers, request logs,
  error wrapping: no state, or the state of `GetStatistics`, which `GraphCounts`
  has.
* GraphQL parsing and validation, `@defer`, introspection and `__typename`: an
  operation is a set of valid fields. Aliases of root fields are fields of their own, of
  nested pages they are modelled; those of count fields and of relations are left out.
* Pages after the last one and the flag for a previous page; presence tests of the
  entry point that fail.
* Searches of one character, which no route reaches, and the repository
  functions that nothing calls (`GetPoemsByAuthor` and its like).
* Upserts and single inserts into a database that already holds poems, but for
  what they do to the search index (`Migration`).
* A kill during a build: it leaves temporary files, which no later run removes and
  none reads.
* Release workflows: sequential checks; their verdict is a step of `Startup`.
* Disk space: `exec` in startup.sh skips the EXIT trap and temporary
  files stay on the volume; no property speaks of its size.

## 9 Plan

Done, in this order: `DurableDir`, `OutputPair` with `PairStore` and proofs;
`Startup`; `Catalog`, `Pipeline` and proofs; `TokenBuckets`, `RateLimiter` and
proofs; `GraphCounts` and proofs; `Migration` and proofs; `Sources`, `Browse` and
their composition `Release`; `Schema`, `Response` and proofs; `Asset`; the proofs
about `Startup`; the proof that `OutputPair` implements `PairStore`; the proofs of
the catalogue's rows, of the assets, of the nulls of a response, of the loader
and its report, and of the readers; the proof that the work of an operation is
bounded by its price.

Next:

1. Two processor commands on one output, as two copies of `OutputPair`'s steps
   over one directory: which interleavings lose a pair, and whether a lock file
   at main.go:345 would be enough.
2. The single insert and the upsert beside a batch (`repository_write.go`), and
   the drain of the server at its stop.
3. Pool defaults and sentence splitting as operators against reference
   definitions.
