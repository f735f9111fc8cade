--------------------------- MODULE PipelineProofs ---------------------------
(***************************************************************************)
(* Proofs about the build pipeline, for every set of inputs and workers    *)
(* and every capacity of the channels.  The argument is a conservation     *)
(* law: a record that was dispatched is in a channel, with a worker or     *)
(* with the inserter, until an error is counted.                           *)
(***************************************************************************)
EXTENDS Asset, CatalogProofs

Index == 1 .. Len(Corpus)

Typing ==
  /\ loaded \in Corpora
  /\ lang \in Languages
  /\ main \in {"open", "prewarm", "join", "await", "verify", "done"}
  /\ next \in 1 .. Len(Corpus) + 1
  /\ work \in [items : Seq(Index), open : BOOLEAN]
  /\ worker \in [Workers -> [at : Places, item : 0 .. Len(Corpus)]]
  /\ results \in [items : Seq(Index), open : BOOLEAN]
  /\ errorCount \in Nat
  /\ inserter = [at |-> inserter.at, poems |-> inserter.poems,
                 plan |-> inserter.plan, failed |-> inserter.failed]
  /\ inserter.at \in {"idle", "drain", "prepare", "insert", "wait"}
  /\ inserter.poems \in Seq(Index)
  /\ report \in {"none", "ok", "failed"}
  /\ cached \subseteq AuthorsOf(Corpus)
  /\ authors \in [Languages -> SUBSET AuthorsOf(Corpus)]
  /\ rows = [l \in Languages |-> rows[l]]

\* Which goroutine runs when.
Quiet ==
  /\ Exited
  /\ ~work.open /\ work.items = <<>>
  /\ ~results.open /\ results.items = <<>>
  /\ inserter.at = "idle"

Phases ==
  /\ main \in {"open", "prewarm", "verify", "done"} => Quiet
  /\ main = "join" => results.open /\ inserter.at = "drain" /\ report = "none"
  /\ main = "await" =>
       /\ Exited /\ ~work.open /\ work.items = <<>> /\ ~results.open
       /\ report # "none" <=> inserter.at = "idle"
  /\ inserter.at # "drain" => results.items = <<>>
  /\ \A w \in Workers : worker[w].at = "exited" => ~work.open /\ work.items = <<>>
  /\ \A w \in Workers : worker[w].at \in {"receive", "exited"} <=> worker[w].item = 0

\* The conservation of records.
Placed(i) ==
  \/ i \in ToSet(work.items)
  \/ \E w \in Workers : worker[w].item = i
  \/ i \in ToSet(results.items)
  \/ i \in ToSet(inserter.poems)

Conserved ==
  main \in {"join", "await"} =>
    /\ ~work.open => next = Len(Corpus) + 1
    /\ errorCount = 0 => \A i \in 1 .. next - 1 : Placed(i)

\* Nothing is written before every record is with the inserter.
Complete == ToSet(inserter.poems) = Index

WrittenWhole ==
  /\ main \in {"open", "prewarm"} => rows[lang] = <<>>
  /\ lang = "Hans" => rows["Hant"] = <<>>
  /\ inserter.at \in {"drain", "prepare"} => rows[lang] = <<>>
  /\ inserter.at = "insert" => Complete
  /\ rows[lang] # <<>> => Complete

\* A worker fills the cache with what it has stored, and what is stored differs in its
\* public identifier.
Unclashing(table) == \A a, b \in table : ~Clash(a, b)

CacheSound ==
  /\ \A l \in Languages : Unclashing(authors[l])
  /\ main \in {"join", "await"} => cached \subseteq authors[lang]
  /\ \A w \in Workers : worker[w].at = "cache" => Item(w).author \in authors[lang]

\* The rest of the type invariant, the progress bar apart.
Bounds ==
  /\ Len(work.items) <= WorkBuffer /\ Len(results.items) <= ResultBuffer
  /\ errors \in 0 .. ErrorBuffer /\ faults \in 0 .. MaxFaults /\ fatal \in BOOLEAN
  /\ ledger \subseteq Locators(loaded)
  /\ outcome \in {"running", "ok", "failed"} /\ inserter.failed \in BOOLEAN

\* The workers have received the records up to this one, each of them once, and what
\* they were given back has gone from place to place since.
Received == next - Len(work.items)
Delivered == ToSet(results.items) \cup ToSet(inserter.poems)
NoRepeat(s) == \A k, l \in DOMAIN s : s[k] = s[l] => k = l

Once ==
  main \in {"join", "await"} =>
    /\ Received >= 1
    /\ \A k \in 1 .. Len(work.items) : work.items[k] = Received + k - 1
    /\ \A w \in Workers : worker[w].item < Received /\ worker[w].item \notin Delivered
    /\ \A v, w \in Workers : worker[v].item = worker[w].item => v = w \/ worker[v].item = 0
    /\ \A i \in Delivered : i < Received
    /\ NoRepeat(results.items) /\ NoRepeat(inserter.poems)
    /\ ToSet(results.items) \cap ToSet(inserter.poems) = {}

\* What has become a product was good, and its author is stored.
Stored(i) == Corpus[i].author \in authors[lang]
Produced ==
  main \in {"join", "await"} =>
    /\ \A w \in Workers :
         /\ worker[w].at \in {"store", "cache", "type", "send"} => Item(w).fate = "good"
         /\ worker[w].at \in {"type", "send"} => Item(w).author \in authors[lang]
    /\ \A i \in Delivered : Corpus[i].fate = "good" /\ Stored(i)

\* The rows of a language: none, the first ones of the catalogue, or all of them.
Catalogue == Prepared(Corpus)
Whole(l) ==
  /\ ~Conflict(Corpus) /\ \A i \in Index : Corpus[i].fate = "good"
  /\ rows[l] = Catalogue /\ authors[l] = AuthorsOf(Corpus)

Begun(l) ==
  /\ ~Conflict(Corpus)
  /\ Len(rows[l]) \in 0 .. Len(Catalogue) /\ rows[l] = SubSeq(Catalogue, 1, Len(rows[l]))
  /\ WitnessesOf(rows[l]) \cap ledger = {}

Inserting ==
  /\ \A l \in Languages : rows[l] # <<>> => Begun(l)
  /\ inserter.at # "insert" => bar = 0
  /\ inserter.at = "insert" =>
       /\ ~Conflict(Corpus) /\ errorCount = 0
       /\ inserter.plan = SubSeq(Catalogue, Len(rows[lang]) + 1, Len(Catalogue))
       /\ IsFiniteSet(WitnessRows(inserter.plan)) /\ bar = Cardinality(WitnessRows(inserter.plan))
  /\ main = "await" /\ inserter.at = "wait" /\ ~inserter.failed => Whole(lang)
  /\ main = "await" /\ report = "ok" /\ errorCount = 0 => Whole(lang)

\* Why a build may fail.
Cause == fatal \/ ~Sound(loaded)
Blamed ==
  /\ inserter.failed => Cause
  /\ report = "failed" => Cause
  /\ errorCount > 0 => Cause
  /\ outcome = "failed" => Cause

\* What the steps before have left: the ledger, and the language that is finished.
Ledgered ==
  ledger = Locators(Rejections(loaded)) /\ Distinct(Rejections(loaded))

Ended ==
  /\ outcome = "running" <=> main # "done"
  /\ main = "open" => lang = "Hans" /\ rows["Hans"] = <<>> /\ ledger = {}
  /\ main # "open" /\ outcome # "failed" => Ledgered
  /\ lang = "Hant" => Whole("Hans")
  /\ main = "verify" \/ outcome = "ok" => lang = "Hant" /\ Whole("Hant")

Flow == Typing /\ Phases /\ Conserved /\ WrittenWhole /\ CacheSound
Inv == Flow /\ Bounds /\ Once /\ Produced /\ Inserting /\ Blamed /\ Ended

-----------------------------------------------------------------------------
(* Sequences as sets. *)

LEMMA AppendedSet ==
  ASSUME NEW S, NEW s \in Seq(S), NEW e \in S
  PROVE  Append(s, e) \in Seq(S) /\ ToSet(Append(s, e)) = ToSet(s) \cup {e}
<1>1. Append(s, e) \in Seq(S) /\ DOMAIN Append(s, e) = 1 .. Len(s) + 1
  OBVIOUS
<1>2. \A i \in 1 .. Len(s) : Append(s, e)[i] = s[i]
  OBVIOUS
<1>3. Append(s, e)[Len(s) + 1] = e
  OBVIOUS
<1>4. DOMAIN s = 1 .. Len(s) /\ Len(s) \in Nat
  OBVIOUS
<1> QED BY <1>1, <1>2, <1>3, <1>4 DEF ToSet

LEMMA HeadAndTail ==
  ASSUME NEW S, NEW s \in Seq(S), s # <<>>
  PROVE  /\ Head(s) \in S /\ Tail(s) \in Seq(S)
         /\ ToSet(s) = {Head(s)} \cup ToSet(Tail(s))
<1>1. Head(s) = s[1] /\ Head(s) \in S /\ Tail(s) \in Seq(S)
  OBVIOUS
<1>2. DOMAIN Tail(s) = 1 .. Len(s) - 1 /\ \A i \in 1 .. Len(s) - 1 : Tail(s)[i] = s[i + 1]
  OBVIOUS
<1>3. DOMAIN s = 1 .. Len(s) /\ Len(s) \in Nat \ {0}
  OBVIOUS
<1>4. \A i \in 1 .. Len(s) : i = 1 \/ i - 1 \in 1 .. Len(s) - 1
  BY <1>3
<1>5. ToSet(s) \subseteq {Head(s)} \cup ToSet(Tail(s))
  <2>1. ASSUME NEW i \in 1 .. Len(s), i # 1
        PROVE  s[i] \in {Tail(s)[j] : j \in 1 .. Len(s) - 1}
    <3>1. i - 1 \in 1 .. Len(s) - 1 /\ (i - 1) + 1 = i
      BY <1>3, <2>1
    <3>2. s[i] = Tail(s)[i - 1]
      BY <1>2, <3>1
    <3> QED BY <3>1, <3>2
  <2>2. \A i \in 1 .. Len(s) : s[i] = Head(s) \/ s[i] \in {Tail(s)[j] : j \in 1 .. Len(s) - 1}
    BY <1>1, <2>1
  <2> QED BY <1>2, <1>3, <2>2 DEF ToSet
<1>6. {Head(s)} \cup ToSet(Tail(s)) \subseteq ToSet(s)
  <2>1. \A i \in 1 .. Len(s) - 1 : i + 1 \in 1 .. Len(s)
    BY <1>3
  <2> QED BY <1>1, <1>2, <1>3, <2>1 DEF ToSet
<1> QED BY <1>1, <1>5, <1>6

LEMMA EmptySet == ToSet(<<>>) = {}
BY DEF ToSet

\* What the inputs are.
LEMMA CorpusIsSequence ==
  ASSUME Typing
  PROVE  Loadable(loaded) /\ Loadable(Corpus) /\ Len(Corpus) \in Nat /\ DOMAIN Corpus = Index
<1>1. Loadable(loaded)
  BY PipelineAssumption DEF Typing
<1>2. Loadable(Corpus)
  BY <1>1, PartitionFacts DEF Corpus
<1>3. QED  BY <1>1, <1>2, ElementsOfSequence DEF Loadable, Index

-----------------------------------------------------------------------------
(* Types. *)

LEMMA SameInputs == ASSUME Next PROVE loaded' = loaded
BY DEF Next, MainStep, OpenBuild, OpenBuildFails, Prewarm, PrewarmFails, Join, ProcessFails,
       ProcessSucceeds, Verify, VerifyFails, Dispatch, CloseWork, WorkerStep, Receive, Exit,
       RejectRecord, FindAuthor, StoreAuthor, RefuseAuthor, WithAuthor, CacheAuthor, AuthorFails, FindType, TypeFails, Send,
       InserterStep, Drain, Drained, SkipInsertion, RefusePoems, PlanInsertion, Commit, RollBack,
       Inserted, Report, Finished, inputs, vars

\* The steps of the build itself.
LEMMA MainTypes == ASSUME Typing, MainStep PROVE Typing'
<1> USE DEF Typing, Places, Languages, Corpus, Index
<1>1. CASE OpenBuild
  BY <1>1 DEF OpenBuild, inputs, history, channels, writing
<1>2. CASE OpenBuildFails
  BY <1>2 DEF OpenBuildFails, Finish, inputs, tables, channels, writing
<1>3. CASE Prewarm
  <2>1. Len(Corpus) \in Nat
    BY CorpusIsSequence
  <2>2. /\ main' = "join" /\ next' = 1 /\ work' = Opened /\ results' = Opened
        /\ errorCount' = 0 /\ worker' = [w \in Workers |-> Idle]
        /\ inserter' = [NoInserter EXCEPT !.at = "drain"] /\ report' = "none"
        /\ UNCHANGED <<loaded, lang, rows>>
    BY <1>3 DEF Prewarm, StartGoroutines, inputs
  <2>3. cached' \subseteq AuthorsOf(Corpus) /\ authors' \in [Languages -> SUBSET AuthorsOf(Corpus)]
    BY <1>3 DEF Prewarm
  <2>4. inserter' = [at |-> "drain", poems |-> <<>>, plan |-> <<>>, failed |-> FALSE]
    BY <2>2 DEF NoInserter
  <2>5. next' \in 1 .. Len(Corpus) + 1 /\ Idle \in [at : Places, item : 0 .. Len(Corpus)]
    BY <2>1, <2>2 DEF Idle
  <2>6. work' \in [items : Seq(Index), open : BOOLEAN] /\ results' \in [items : Seq(Index), open : BOOLEAN]
    BY <2>2 DEF Opened
  <2>7. worker' \in [Workers -> [at : Places, item : 0 .. Len(Corpus)]]
    BY <2>2, <2>5
  <2>8. /\ inserter' = [at |-> inserter'.at, poems |-> inserter'.poems,
                        plan |-> inserter'.plan, failed |-> inserter'.failed]
        /\ inserter'.at = "drain" /\ inserter'.poems \in Seq(Index)
    BY <2>4
  <2>9. loaded' = loaded /\ Corpus' = Corpus /\ errorCount' \in Nat
    BY <2>2
  <2> HIDE DEF Corpus, Index
  <2> QED BY <2>2, <2>3, <2>5, <2>6, <2>7, <2>8, <2>9 DEF Index
<1>4. CASE PrewarmFails
  BY <1>4 DEF PrewarmFails, Finish, inputs, tables, channels, writing
<1>5. CASE Join
  BY <1>5 DEF Join, inputs, tables, history, writing
<1>6. CASE ProcessFails
  BY <1>6 DEF ProcessFails, Finish, inputs, tables, channels, writing
<1>7. CASE ProcessSucceeds
  BY <1>7 DEF ProcessSucceeds, inputs, tables, channels, writing
<1>8. CASE Verify
  BY <1>8 DEF Verify, Finish, inputs, tables, channels, writing
<1>9. CASE VerifyFails
  BY <1>9 DEF VerifyFails, Finish, inputs, tables, channels, writing
<1> QED BY <1>1, <1>2, <1>3, <1>4, <1>5, <1>6, <1>7, <1>8, <1>9 DEF MainStep

\* The steps of the dispatcher.
LEMMA DispatcherTypes == ASSUME Typing, Dispatch \/ CloseWork PROVE Typing'
<1>1. Len(Corpus) \in Nat /\ next \in 1 .. Len(Corpus) + 1
  BY CorpusIsSequence DEF Typing
<1>2. CASE Dispatch
  <2>1. next \in Index /\ work.items \in Seq(Index)
    BY <1>1, <1>2 DEF Dispatch, Index, Typing
  <2>2. Append(work.items, next) \in Seq(Index) /\ next + 1 \in 1 .. Len(Corpus) + 1
    BY <1>1, <2>1, AppendedSet DEF Index
  <2> QED BY <1>2, <2>2 DEF Dispatch, Typing, Corpus, Index, inputs, tables, history, control, writing
<1>3. CASE CloseWork
  BY <1>3 DEF CloseWork, Typing, Corpus, Index, inputs, tables, history, control, writing
<1> QED BY <1>2, <1>3

\* The steps of a worker.
LEMMA WorkerTypes == ASSUME Typing, Phases, NEW w \in Workers, WorkerStep(w) PROVE Typing'
<1> USE DEF Places, Languages
<1>1. /\ Len(Corpus) \in Nat /\ worker[w].item \in 0 .. Len(Corpus)
      /\ worker \in [Workers -> [at : Places, item : 0 .. Len(Corpus)]]
  BY CorpusIsSequence DEF Typing
<1>2. CASE Receive(w)
  <2>1. Head(work.items) \in Index /\ Tail(work.items) \in Seq(Index)
    BY <1>2, HeadAndTail DEF Receive, Typing
  <2>2. work' \in [items : Seq(Index), open : BOOLEAN]
    BY <1>2, <2>1 DEF Receive, Typing
  <2>3. worker' \in [Workers -> [at : Places, item : 0 .. Len(Corpus)]]
    BY <1>1, <1>2, <2>1 DEF Receive, Index
  <2> QED BY <1>2, <2>2, <2>3 DEF Receive, Typing, Corpus, Index, inputs, tables, history, control, writing
<1>3. CASE Exit(w) \/ FindAuthor(w) \/ FindType(w)
  <2>1. worker' \in [Workers -> [at : Places, item : 0 .. Len(Corpus)]]
    BY <1>1, <1>3 DEF Exit, FindAuthor, FindType, GoTo, Nobody
  <2> QED BY <1>3, <2>1 DEF Exit, FindAuthor, FindType, Typing, Corpus, Index, inputs, tables,
            history, control, channels, writing
<1>4. CASE RejectRecord(w) \/ RefuseAuthor(w) \/ TypeFails(w)
  <2>1. worker' = [worker EXCEPT ![w] = Idle] /\ errorCount' = errorCount + 1
    BY <1>4 DEF RejectRecord, RefuseAuthor, TypeFails, CountError
  <2>2. worker' \in [Workers -> [at : Places, item : 0 .. Len(Corpus)]] /\ errorCount' \in Nat
    BY <1>1, <2>1 DEF Idle, Typing
  <2> QED BY <1>4, <2>2 DEF RejectRecord, RefuseAuthor, TypeFails, Typing, Corpus, Index, inputs, tables,
            control, writing
<1>5. CASE worker[w].at \in {"store", "cache"}
  <2>1. Item(w).author \in AuthorsOf(Corpus)
    BY <1>1, <1>5, CorpusIsSequence DEF Item, AuthorsOf, Phases, Index
  <2>2. CASE StoreAuthor(w)
    <3>1. worker' \in [Workers -> [at : Places, item : 0 .. Len(Corpus)]]
      BY <1>1, <2>2 DEF StoreAuthor, RefuseAuthor, WithAuthor, GoTo
    <3>2. authors' \in [Languages -> SUBSET AuthorsOf(Corpus)]
      BY <2>1, <2>2 DEF StoreAuthor, RefuseAuthor, WithAuthor, Typing
    <3> QED BY <2>2, <3>1, <3>2 DEF StoreAuthor, RefuseAuthor, WithAuthor, Typing, Corpus, Index, inputs, history, control,
              channels, writing
  <2>3. CASE CacheAuthor(w)
    <3>1. worker' \in [Workers -> [at : Places, item : 0 .. Len(Corpus)]]
      BY <1>1, <2>3 DEF CacheAuthor, GoTo
    <3> QED BY <2>1, <2>3, <3>1 DEF CacheAuthor, Typing, Corpus, Index, inputs, tables, history,
              control, channels, writing
  <2>4. CASE AuthorFails(w)
    <3>1. worker' \in [Workers -> [at : Places, item : 0 .. Len(Corpus)]] /\ errorCount' \in Nat
      BY <1>1, <2>4 DEF AuthorFails, CountError, Idle, Typing
    <3>2. authors' \in [Languages -> SUBSET AuthorsOf(Corpus)]
      <4>1. authors' = authors \/ authors' = WithAuthor(Item(w).author)
        BY <2>4 DEF AuthorFails
      <4>2. WithAuthor(Item(w).author) \in [Languages -> SUBSET AuthorsOf(Corpus)]
        BY <2>1 DEF WithAuthor, Typing
      <4>3. QED  BY <4>1, <4>2 DEF Typing
    <3> QED BY <2>4, <3>1, <3>2 DEF AuthorFails, Typing, Corpus, Index, inputs, control, writing
  <2> QED BY <1>2, <1>3, <1>4, <1>5, <2>2, <2>3, <2>4
             DEF WorkerStep, Send
<1>6. CASE Send(w)
  <2>1. worker[w].item \in Index
    BY <1>1, <1>6 DEF Send, Phases, Index
  <2>2. results' \in [items : Seq(Index), open : BOOLEAN]
    BY <1>6, <2>1, AppendedSet DEF Send, Typing
  <2>3. worker' \in [Workers -> [at : Places, item : 0 .. Len(Corpus)]]
    BY <1>1, <1>6 DEF Send, Idle
  <2> QED BY <1>6, <2>2, <2>3 DEF Send, Typing, Corpus, Index, inputs, tables, history, control, writing
<1> QED BY <1>2, <1>3, <1>4, <1>5, <1>6 DEF WorkerStep, StoreAuthor, RefuseAuthor, WithAuthor, CacheAuthor, AuthorFails

\* The steps of the inserter.
LEMMA InserterTypes == ASSUME Typing, InserterStep PROVE Typing'
<1> USE DEF Typing, Corpus, Index
<1>1. CASE Drain
  <2>1. Head(results.items) \in Index /\ Tail(results.items) \in Seq(Index)
    BY <1>1, HeadAndTail DEF Drain
  <2>2. inserter'.poems \in Seq(Index)
    BY <1>1, <2>1, AppendedSet DEF Drain
  <2>3. inserter' = [at |-> inserter'.at, poems |-> inserter'.poems,
                     plan |-> inserter'.plan, failed |-> inserter'.failed]
        /\ inserter'.at = "drain"
    BY <1>1 DEF Drain
  <2>4. results' \in [items : Seq(Index), open : BOOLEAN]
    BY <1>1, <2>1 DEF Drain
  <2> QED BY <1>1, <2>2, <2>3, <2>4 DEF Drain, inputs, tables, history, control
<1>2. CASE Drained
  BY <1>2 DEF Drained, inputs, tables, history, control, channels
<1>3. CASE SkipInsertion
  BY <1>3 DEF SkipInsertion, inputs, tables, history, control, channels
<1>4. CASE RefusePoems
  BY <1>4 DEF RefusePoems, inputs, tables, history, control, channels
<1>5. CASE PlanInsertion
  BY <1>5 DEF PlanInsertion, inputs, tables, history, control, channels
<1>6. CASE Commit
  BY <1>6 DEF Commit, inputs, history, control, channels
<1>7. CASE RollBack
  BY <1>7 DEF RollBack, inputs, tables, control, channels
<1>8. CASE Inserted
  BY <1>8 DEF Inserted, inputs, tables, history, control, channels
<1>9. CASE Report
  BY <1>9 DEF Report, inputs, tables, history, control, channels
<1> QED BY <1>1, <1>2, <1>3, <1>4, <1>5, <1>6, <1>7, <1>8, <1>9 DEF InserterStep

-----------------------------------------------------------------------------
(* Phases. *)

LEMMA MainPhases == ASSUME Typing, Phases, MainStep PROVE Phases'
<1> USE DEF Phases, Quiet, Exited
<1>1. CASE OpenBuild
  BY <1>1 DEF OpenBuild, channels, writing
<1>2. CASE OpenBuildFails
  BY <1>2 DEF OpenBuildFails, Finish, channels, writing
<1>3. CASE Prewarm
  <2>1. /\ main' = "join" /\ work' = Opened /\ results' = Opened /\ report' = "none"
        /\ worker' = [w \in Workers |-> Idle] /\ inserter' = [NoInserter EXCEPT !.at = "drain"]
    BY <1>3 DEF Prewarm, StartGoroutines
  <2>2. inserter'.at = "drain"
    BY <2>1 DEF NoInserter
  <2> QED BY <2>1, <2>2 DEF Opened, Idle
<1>4. CASE PrewarmFails
  BY <1>4 DEF PrewarmFails, Finish, channels, writing
<1>5. CASE Join
  <2>1. /\ main = "join" /\ main' = "await" /\ Exited /\ results' = [results EXCEPT !.open = FALSE]
        /\ UNCHANGED <<worker, work, inserter, report>>
    BY <1>5 DEF Join, writing
  <2>2. ~work.open /\ work.items = <<>>
    BY <2>1, PipelineAssumption
  <2>3. ~results'.open /\ results'.items = results.items
    BY <2>1 DEF Typing
  <2> QED BY <2>1, <2>2, <2>3
<1>6. CASE ProcessFails
  BY <1>6 DEF ProcessFails, Finish, channels, writing
<1>7. CASE ProcessSucceeds
  BY <1>7 DEF ProcessSucceeds, channels, writing
<1>8. CASE Verify
  BY <1>8 DEF Verify, Finish, channels, writing
<1>9. CASE VerifyFails
  BY <1>9 DEF VerifyFails, Finish, channels, writing
<1> QED BY <1>1, <1>2, <1>3, <1>4, <1>5, <1>6, <1>7, <1>8, <1>9 DEF MainStep

\* The dispatcher and the workers run only between the start and the join.
LEMMA GoroutinesOnlyBeforeJoin ==
  ASSUME Typing, Phases
  PROVE  /\ work.open => main = "join"
         /\ \A w \in Workers : worker[w].at # "exited" => main = "join"
BY DEF Typing, Phases, Quiet, Exited

LEMMA DispatcherPhases == ASSUME Typing, Phases, Dispatch \/ CloseWork PROVE Phases'
<1>1. main = "join" /\ work.open
  BY GoroutinesOnlyBeforeJoin DEF Dispatch, CloseWork
<1>2. UNCHANGED <<main, worker, results, inserter, report>>
  BY DEF Dispatch, CloseWork, control, writing
<1> QED BY <1>1, <1>2 DEF Phases

LEMMA WorkerPhases == ASSUME Typing, Phases, NEW w \in Workers, WorkerStep(w) PROVE Phases'
<1>1. main = "join" /\ worker[w].at # "exited"
  BY GoroutinesOnlyBeforeJoin
     DEF WorkerStep, Receive, Exit, RejectRecord, FindAuthor, StoreAuthor, RefuseAuthor, WithAuthor, CacheAuthor, AuthorFails,
         FindType, TypeFails, Send
<1>2. /\ main' = main /\ report' = report /\ inserter' = inserter
      /\ results'.open = results.open /\ work'.open = work.open
  BY DEF WorkerStep, Receive, Exit, RejectRecord, FindAuthor, StoreAuthor, RefuseAuthor, WithAuthor, CacheAuthor, AuthorFails,
         FindType, TypeFails, Send, control, channels, writing, Typing
<1>3. \A v \in Workers : worker'[v].at = "exited" => ~work'.open /\ work'.items = <<>>
  <2>1. CASE Receive(w)
    <3>1. work.items # <<>> /\ \A v \in Workers : worker'[v].at # "exited"
      BY <2>1 DEF Receive, Phases, Typing
    <3> QED BY <3>1
  <2>2. CASE ~Receive(w)
    <3>1. work' = work /\ \A v \in Workers \ {w} : worker'[v] = worker[v]
      BY <2>2 DEF WorkerStep, Exit, RejectRecord, FindAuthor, StoreAuthor, RefuseAuthor, WithAuthor, CacheAuthor, AuthorFails,
             FindType, TypeFails, Send, GoTo, CountError, channels, Typing
    <3>2. worker'[w].at = "exited" => ~work.open /\ work.items = <<>>
      BY <2>2, <1>1 DEF WorkerStep, Exit, RejectRecord, FindAuthor, StoreAuthor, RefuseAuthor, WithAuthor, CacheAuthor,
             AuthorFails, FindType, TypeFails, Send, GoTo, CountError, Idle, Nobody, Typing
    <3> QED BY <3>1, <3>2 DEF Phases
  <2> QED BY <2>1, <2>2
<1>4. \A v \in Workers : worker'[v].at \in {"receive", "exited"} <=> worker'[v].item = 0
  <2>1. \A v \in Workers \ {w} : worker'[v] = worker[v]
    BY DEF WorkerStep, Receive, Exit, RejectRecord, FindAuthor, StoreAuthor, RefuseAuthor, WithAuthor, CacheAuthor, AuthorFails,
           FindType, TypeFails, Send, GoTo, CountError, Typing
  <2>2. CASE Receive(w)
    <3>1. Head(work.items) \in Index
      BY <2>2, HeadAndTail DEF Receive, Typing
    <3> QED BY <2>1, <2>2, <3>1 DEF Receive, Phases, Typing, Index
  <2>3. CASE Exit(w) \/ RejectRecord(w) \/ RefuseAuthor(w) \/ AuthorFails(w) \/ TypeFails(w) \/ Send(w)
    <3>1. worker'[w] \in {Idle, Nobody}
      BY <2>3 DEF Exit, RejectRecord, RefuseAuthor, AuthorFails, TypeFails, Send, CountError, Typing
    <3> QED BY <2>1, <3>1 DEF Idle, Nobody, Phases
  <2>4. CASE FindAuthor(w) \/ StoreAuthor(w) \/ CacheAuthor(w) \/ FindType(w)
    <3>1. /\ worker[w].at \in {"author", "store", "cache", "type"}
          /\ worker'[w].at \in {"store", "cache", "type", "send"}
          /\ worker'[w].item = worker[w].item
      BY <2>4 DEF FindAuthor, StoreAuthor, RefuseAuthor, WithAuthor, CacheAuthor, FindType, GoTo, Typing
    <3> QED BY <2>1, <3>1 DEF Phases
  <2> QED BY <2>2, <2>3, <2>4 DEF WorkerStep
<1> QED BY <1>1, <1>2, <1>3, <1>4 DEF Phases

LEMMA InserterPhases == ASSUME Typing, Phases, InserterStep PROVE Phases'
<1> USE DEF Phases, Quiet, Exited
<1>1. CASE Drain
  <2>1. /\ inserter.at = "drain" /\ results.items # <<>> /\ inserter'.at = "drain"
        /\ results'.open = results.open
        /\ UNCHANGED <<main, worker, work, report>>
    BY <1>1 DEF Drain, Typing, control
  <2>2. main \in {"join", "await"}
    BY <2>1 DEF Typing
  <2> QED BY <2>1, <2>2
<1>2. CASE Drained
  BY <1>2 DEF Drained, Typing, control, channels
<1>3. CASE SkipInsertion
  BY <1>3 DEF SkipInsertion, Typing, control, channels
<1>4. CASE RefusePoems
  BY <1>4 DEF RefusePoems, Typing, control, channels
<1>5. CASE PlanInsertion
  BY <1>5 DEF PlanInsertion, Typing, control, channels
<1>6. CASE Commit
  BY <1>6 DEF Commit, Typing, control, channels
<1>7. CASE RollBack
  BY <1>7 DEF RollBack, Typing, control, channels
<1>8. CASE Inserted
  BY <1>8 DEF Inserted, Typing, control, channels
<1>9. CASE Report
  BY <1>9 DEF Report, Typing, control, channels
<1> QED BY <1>1, <1>2, <1>3, <1>4, <1>5, <1>6, <1>7, <1>8, <1>9 DEF InserterStep

-----------------------------------------------------------------------------
(* The conservation of records. *)

\* A step that moves a record from one place to the next loses none.
LEMMA Moved ==
  ASSUME Typing, Conserved,
         UNCHANGED <<loaded, main, next>>, work'.open = work.open, errorCount' = errorCount,
         \A i \in Index : Placed(i) => Placed(i)'
  PROVE  Conserved'
<1>1. \A i \in 1 .. next - 1 : i \in Index
  BY CorpusIsSequence DEF Typing, Index
<1> QED BY <1>1 DEF Conserved, Corpus

LEMMA MainConserves == ASSUME Typing, Conserved, MainStep PROVE Conserved'
<1>1. CASE Prewarm
  BY <1>1 DEF Prewarm, StartGoroutines, Opened, Conserved
<1>2. CASE Join
  <2>1. /\ main = "join" /\ results'.items = results.items
        /\ UNCHANGED <<loaded, next, work, errorCount, worker, inserter>>
    BY <1>2 DEF Join, inputs, writing, Typing
  <2> QED BY <2>1 DEF Conserved, Placed, Corpus
<1>3. CASE ~Prewarm /\ ~Join
  <2>1. main' \notin {"join", "await"}
    BY <1>3 DEF MainStep, OpenBuild, OpenBuildFails, PrewarmFails, ProcessFails, ProcessSucceeds,
           Verify, VerifyFails, Finish
  <2> QED BY <2>1 DEF Conserved
<1> QED BY <1>1, <1>2, <1>3

LEMMA DispatcherConserves ==
  ASSUME Typing, Phases, Conserved, Dispatch \/ CloseWork
  PROVE  Conserved'
<1>1. UNCHANGED <<loaded, main, worker, results, inserter, errorCount>>
  BY DEF Dispatch, CloseWork, inputs, control, writing
<1>2. next \in 1 .. Len(Corpus) + 1 /\ Len(Corpus) \in Nat /\ main = "join" /\ work.open
  BY CorpusIsSequence, GoroutinesOnlyBeforeJoin DEF Typing, Dispatch, CloseWork
<1>3. CASE Dispatch
  <2>1. work'.open /\ next' = next + 1 /\ ToSet(work'.items) = ToSet(work.items) \cup {next}
    BY <1>2, <1>3, AppendedSet DEF Dispatch, Typing, Index
  <2>2. \A i \in 1 .. next' - 1 : i = next \/ i \in 1 .. next - 1
    BY <1>2, <2>1
  <2> QED BY <1>1, <1>2, <2>1, <2>2 DEF Conserved, Placed
<1>4. CASE CloseWork
  <2>1. next = Len(Corpus) + 1 /\ next' = next /\ work'.items = work.items
    BY <1>2, <1>4 DEF CloseWork, Typing
  <2> QED BY <1>1, <1>2, <2>1 DEF Conserved, Placed, Corpus
<1> QED BY <1>3, <1>4

LEMMA WorkerConserves ==
  ASSUME Typing, Phases, Conserved, NEW w \in Workers, WorkerStep(w)
  PROVE  Conserved'
<1>1. UNCHANGED <<loaded, main, next, inserter>> /\ work'.open = work.open
  BY DEF WorkerStep, Receive, Exit, RejectRecord, FindAuthor, StoreAuthor, RefuseAuthor, WithAuthor, CacheAuthor, AuthorFails,
         FindType, TypeFails, Send, inputs, control, channels, writing, Typing
<1>2. \A v \in Workers \ {w} : worker'[v] = worker[v]
  BY DEF WorkerStep, Receive, Exit, RejectRecord, FindAuthor, StoreAuthor, RefuseAuthor, WithAuthor, CacheAuthor, AuthorFails,
         FindType, TypeFails, Send, GoTo, CountError, Typing
<1>3. 0 \notin Index /\ errorCount \in Nat
  BY CorpusIsSequence DEF Index, Typing
<1>4. CASE Receive(w)
  <2>1. ToSet(work.items) = {Head(work.items)} \cup ToSet(work'.items)
    BY <1>4, HeadAndTail DEF Receive, Typing
  <2>2. worker[w].item = 0 /\ worker'[w].item = Head(work.items)
    BY <1>4 DEF Receive, Phases, Typing
  <2>3. results' = results /\ errorCount' = errorCount
    BY <1>4 DEF Receive
  <2>4. \A i \in Index : Placed(i) => Placed(i)'
    BY <1>1, <1>2, <1>3, <2>1, <2>2, <2>3 DEF Placed
  <2> QED BY <1>1, <2>3, <2>4, Moved
<1>5. CASE Send(w)
  <2>1. worker[w].item \in Index
    BY <1>5, CorpusIsSequence DEF Send, Phases, Typing, Index
  <2>2. ToSet(results'.items) = ToSet(results.items) \cup {worker[w].item}
    BY <1>5, <2>1, AppendedSet DEF Send, Typing
  <2>3. work' = work /\ errorCount' = errorCount
    BY <1>5 DEF Send
  <2>4. \A i \in Index : Placed(i) => Placed(i)'
    BY <1>1, <1>2, <2>2, <2>3 DEF Placed
  <2> QED BY <1>1, <2>3, <2>4, Moved
<1>6. CASE RejectRecord(w) \/ RefuseAuthor(w) \/ AuthorFails(w) \/ TypeFails(w)
  <2>1. errorCount' = errorCount + 1 /\ work' = work
    BY <1>6 DEF RejectRecord, RefuseAuthor, AuthorFails, TypeFails, CountError
  <2>2. errorCount' # 0
    BY <1>3, <2>1
  <2> QED BY <1>1, <2>1, <2>2 DEF Conserved, Corpus
<1>7. CASE Exit(w) \/ FindAuthor(w) \/ StoreAuthor(w) \/ CacheAuthor(w) \/ FindType(w)
  <2>1. work' = work /\ results' = results /\ errorCount' = errorCount
    BY <1>7 DEF Exit, FindAuthor, StoreAuthor, RefuseAuthor, WithAuthor, CacheAuthor, FindType, channels
  <2>2. worker'[w].item = worker[w].item
    BY <1>7 DEF Exit, FindAuthor, StoreAuthor, RefuseAuthor, WithAuthor, CacheAuthor, FindType, GoTo, Nobody, Phases, Typing
  <2>3. \A i \in Index : Placed(i) => Placed(i)'
    BY <1>1, <1>2, <2>1, <2>2 DEF Placed
  <2> QED BY <1>1, <2>1, <2>3, Moved
<1> QED BY <1>4, <1>5, <1>6, <1>7 DEF WorkerStep

LEMMA InserterConserves == ASSUME Typing, Conserved, InserterStep PROVE Conserved'
<1>1. UNCHANGED <<loaded, main, next, work, worker, errorCount>>
  BY DEF InserterStep, Drain, Drained, SkipInsertion, RefusePoems, PlanInsertion, Commit, RollBack,
         Inserted, Report, inputs, control, channels
<1>2. \A i \in Index : Placed(i) => Placed(i)'
  <2>1. CASE Drain
    <3>1. ToSet(results.items) = {Head(results.items)} \cup ToSet(results'.items)
      BY <2>1, HeadAndTail DEF Drain, Typing
    <3>2. Head(results.items) \in Index /\ inserter'.poems = Append(inserter.poems, Head(results.items))
      BY <2>1, HeadAndTail DEF Drain, Typing
    <3>3. ToSet(inserter'.poems) = ToSet(inserter.poems) \cup {Head(results.items)}
      BY <3>2, AppendedSet DEF Typing
    <3> QED BY <1>1, <3>1, <3>3 DEF Placed
  <2>2. CASE ~Drain
    <3>1. results' = results /\ inserter'.poems = inserter.poems
      BY <2>2 DEF InserterStep, Drained, SkipInsertion, RefusePoems, PlanInsertion, Commit, RollBack,
             Inserted, Report, channels, Typing
    <3> QED BY <1>1, <3>1 DEF Placed
  <2> QED BY <2>1, <2>2
<1> QED BY <1>1, <1>2, Moved

-----------------------------------------------------------------------------
(* What is written. *)

LEMMA MainWrites == ASSUME Typing, WrittenWhole, MainStep PROVE WrittenWhole'
<1> USE DEF WrittenWhole, Complete, Index, Corpus, Languages
<1>1. CASE OpenBuild
  BY <1>1 DEF OpenBuild, inputs, writing
<1>2. CASE OpenBuildFails \/ PrewarmFails \/ ProcessFails \/ Verify \/ VerifyFails
  BY <1>2 DEF OpenBuildFails, PrewarmFails, ProcessFails, Verify, VerifyFails, Finish, inputs, tables, writing
<1>3. CASE Prewarm
  <2>1. main = "prewarm" /\ main' = "join" /\ UNCHANGED <<loaded, lang, rows>>
    BY <1>3 DEF Prewarm, StartGoroutines, inputs
  <2>2. inserter'.at = "drain"
    BY <1>3 DEF Prewarm, StartGoroutines, NoInserter
  <2> QED BY <2>1, <2>2
<1>4. CASE Join
  BY <1>4 DEF Join, inputs, tables, writing
<1>5. CASE ProcessSucceeds
  BY <1>5 DEF ProcessSucceeds, Typing, inputs, tables, writing
<1> QED BY <1>1, <1>2, <1>3, <1>4, <1>5 DEF MainStep

\* Where the inserter prepares its plan no record is anywhere else.
LEMMA AllWithInserter ==
  ASSUME Typing, Phases, Conserved, inserter.at = "prepare", errorCount = 0
  PROVE  Complete
<1>1. main = "await" /\ Exited /\ ~work.open /\ work.items = <<>> /\ results.items = <<>>
  BY DEF Typing, Phases, Quiet
<1>2. \A i \in Index : Placed(i)
  <2>1. next = Len(Corpus) + 1 /\ Len(Corpus) \in Nat
    BY <1>1, CorpusIsSequence DEF Conserved
  <2>2. \A i \in Index : i \in 1 .. next - 1
    BY <2>1 DEF Index
  <2> QED BY <1>1, <2>2 DEF Conserved
<1>3. \A i \in Index : i \in ToSet(inserter.poems)
  <2>1. \A w \in Workers : worker[w].item = 0
    BY <1>1 DEF Exited, Phases
  <2>2. 0 \notin Index
    BY CorpusIsSequence DEF Index
  <2> QED BY <1>1, <1>2, <2>1, <2>2, EmptySet DEF Placed
<1>4. ToSet(inserter.poems) \subseteq Index
  BY DEF Typing, ToSet
<1> QED BY <1>3, <1>4 DEF Complete

LEMMA InserterWrites ==
  ASSUME Typing, Phases, Conserved, WrittenWhole, InserterStep
  PROVE  WrittenWhole'
<1>1. UNCHANGED <<loaded, main, lang>>
  BY DEF InserterStep, Drain, Drained, SkipInsertion, RefusePoems, PlanInsertion, Commit, RollBack,
         Inserted, Report, inputs, control
<1>2. main \in {"join", "await"}
  BY DEF InserterStep, Drain, Drained, SkipInsertion, RefusePoems, PlanInsertion, Commit, RollBack,
         Inserted, Report, Typing, Phases, Quiet
<1> USE DEF WrittenWhole, Complete, Index, Corpus
<1>3. CASE Drain
  <2>1. inserter.at = "drain" /\ inserter'.at = "drain" /\ rows' = rows
    BY <1>3 DEF Drain, tables, Typing
  <2> QED BY <1>1, <1>2, <2>1
<1>4. CASE PlanInsertion
  <2>1. /\ inserter.at = "prepare" /\ inserter'.at = "insert" /\ inserter'.poems = inserter.poems
        /\ rows' = rows /\ errorCount = 0
    BY <1>4 DEF PlanInsertion, NothingToInsert, tables, Typing
  <2>2. Complete
    BY <2>1, AllWithInserter
  <2> QED BY <1>1, <1>2, <2>1, <2>2
<1>5. CASE Commit
  <2>1. /\ inserter.at = "insert" /\ inserter'.at = "insert" /\ inserter'.poems = inserter.poems
        /\ \A l \in Languages \ {lang} : rows'[l] = rows[l]
    BY <1>5 DEF Commit, Typing
  <2> QED BY <1>1, <1>2, <2>1 DEF Languages
<1>6. CASE Drained \/ SkipInsertion \/ RefusePoems \/ RollBack \/ Inserted \/ Report
  <2>1. /\ inserter'.poems = inserter.poems /\ rows' = rows
        /\ inserter'.at \in {"drain", "prepare"} => inserter.at \in {"drain", "prepare"}
        /\ inserter'.at # "insert"
    BY <1>6 DEF Drained, SkipInsertion, RefusePoems, RollBack, Inserted, Report, tables, Typing
  <2> QED BY <1>1, <1>2, <2>1
<1> QED BY <1>3, <1>4, <1>5, <1>6 DEF InserterStep

\* The dispatcher and the workers write no rows.
LEMMA OthersWrite ==
  ASSUME WrittenWhole, Dispatch \/ CloseWork \/ \E w \in Workers : WorkerStep(w)
  PROVE  WrittenWhole'
<1>1. UNCHANGED <<loaded, main, lang, inserter, rows>>
  BY DEF Dispatch, CloseWork, WorkerStep, Receive, Exit, RejectRecord, FindAuthor, StoreAuthor, RefuseAuthor, WithAuthor,
         CacheAuthor, AuthorFails, FindType, TypeFails, Send, inputs, tables, control, writing
<1> QED BY <1>1 DEF WrittenWhole, Complete, Index, Corpus

-----------------------------------------------------------------------------
(* The cache of authors. *)

LEMMA MainCaches == ASSUME Typing, Phases, CacheSound, MainStep PROVE CacheSound'
<1>1. CASE Prewarm
  <2>1. /\ cached' \subseteq authors'[lang] /\ UNCHANGED <<loaded, lang>>
        /\ worker' = [w \in Workers |-> Idle]
    BY <1>1 DEF Prewarm, StartGoroutines, inputs, Typing
  <2>2. \A l \in Languages : Unclashing(authors'[l])
    BY <1>1 DEF Prewarm, Filled, Refused, Unclashing, CacheSound, Typing
  <2> QED BY <2>1, <2>2 DEF CacheSound, Idle
<1>2. CASE Join
  BY <1>2 DEF Join, CacheSound, Item, Corpus, inputs, tables
<1>3. CASE ~Prewarm /\ ~Join
  <2>1. main' \notin {"join", "await"} /\ worker' = worker /\ Exited /\ authors' = authors
    BY <1>3 DEF MainStep, OpenBuild, OpenBuildFails, PrewarmFails, ProcessFails, ProcessSucceeds,
           Verify, VerifyFails, Finish, Phases, Quiet, tables
  <2> QED BY <2>1 DEF CacheSound, Exited
<1> QED BY <1>1, <1>2, <1>3

LEMMA WorkerCaches ==
  ASSUME Typing, CacheSound, NEW w \in Workers, WorkerStep(w)
  PROVE  CacheSound'
<1>1. UNCHANGED <<loaded, main, lang>> /\ \A v \in Workers \ {w} : worker'[v] = worker[v]
  BY DEF WorkerStep, Receive, Exit, RejectRecord, FindAuthor, StoreAuthor, RefuseAuthor, WithAuthor, CacheAuthor, AuthorFails,
         FindType, TypeFails, Send, GoTo, CountError, inputs, control, Typing
<1>2. authors[lang] \subseteq authors'[lang]
  BY DEF WorkerStep, Receive, Exit, RejectRecord, FindAuthor, StoreAuthor, RefuseAuthor, WithAuthor, CacheAuthor, AuthorFails,
         FindType, TypeFails, Send, tables, Typing
<1>3. cached' \subseteq cached \cup (IF worker[w].at = "cache" THEN {Item(w).author} ELSE {})
  BY DEF WorkerStep, Receive, Exit, RejectRecord, FindAuthor, StoreAuthor, RefuseAuthor, WithAuthor, CacheAuthor, AuthorFails,
         FindType, TypeFails, Send
<1>4. worker'[w].at = "cache" => Item(w)'.author \in authors'[lang]
  <2>1. CASE StoreAuthor(w)
    BY <1>1, <2>1 DEF StoreAuthor, RefuseAuthor, WithAuthor, GoTo, Item, Corpus, Typing
  <2>2. CASE ~StoreAuthor(w)
    <3>1. worker'[w].at # "cache"
      BY <2>2 DEF WorkerStep, Receive, Exit, RejectRecord, FindAuthor, RefuseAuthor, CacheAuthor, AuthorFails,
             FindType, TypeFails, Send, GoTo, CountError, Idle, Nobody, Typing
    <3> QED BY <3>1
  <2> QED BY <2>1, <2>2
<1>5. \A l \in Languages : Unclashing(authors'[l])
  <2>1. authors' = authors \/ (~Refused(authors[lang], Item(w).author) /\ authors' = WithAuthor(Item(w).author))
    BY DEF WorkerStep, Receive, Exit, RejectRecord, FindAuthor, StoreAuthor, RefuseAuthor, CacheAuthor,
           AuthorFails, FindType, TypeFails, Send, tables
  <2>2. CASE authors' = authors
    BY <2>2 DEF CacheSound
  <2>3. CASE ~Refused(authors[lang], Item(w).author) /\ authors' = WithAuthor(Item(w).author)
    <3> DEFINE a == Item(w).author
    <3>1. \A b \in authors[lang] : ~Clash(a, b)
      BY <2>3 DEF Refused, Clash
    <3>2. Unclashing(authors[lang])
      BY DEF CacheSound, Typing
    <3>3. authors'[lang] = authors[lang] \cup {a} /\ \A l \in Languages \ {lang} : authors'[l] = authors[l]
      BY <2>3 DEF WithAuthor, Typing
    <3> HIDE DEF a
    <3>4. Unclashing(authors'[lang])
      BY <3>1, <3>2, <3>3 DEF Unclashing, Clash
    <3> QED BY <3>3, <3>4 DEF CacheSound
  <2> QED BY <2>1, <2>2, <2>3
<1> QED BY <1>1, <1>2, <1>3, <1>4, <1>5 DEF CacheSound, Item, Corpus

LEMMA OthersCache == ASSUME CacheSound, Dispatch \/ CloseWork \/ InserterStep PROVE CacheSound'
<1>1. UNCHANGED <<loaded, main, lang, worker, cached, authors>>
  BY DEF Dispatch, CloseWork, InserterStep, Drain, Drained, SkipInsertion, RefusePoems,
         PlanInsertion, Commit, RollBack, Inserted, Report, inputs, tables, control
<1> QED BY <1>1 DEF CacheSound, Item, Corpus

-----------------------------------------------------------------------------
(* What each goroutine leaves alone. *)

LEMMA DispatcherFrame ==
  ASSUME Dispatch \/ CloseWork
  PROVE  UNCHANGED <<loaded, main, lang, outcome, worker, results, inserter, errorCount, errors, bar,
                     report, cached, ledger, authors, rows, faults, fatal>>
BY DEF Dispatch, CloseWork, inputs, tables, history, control, writing

LEMMA WorkerFrame ==
  ASSUME Typing, NEW w \in Workers, WorkerStep(w)
  PROVE  /\ UNCHANGED <<loaded, main, lang, outcome, next, inserter, bar, report, ledger, rows>>
         /\ \A v \in Workers \ {w} : worker'[v] = worker[v]
         /\ authors[lang] \subseteq authors'[lang]
         /\ \A l \in Languages \ {lang} : authors'[l] = authors[l]
<1>1. /\ UNCHANGED <<loaded, main, lang, outcome, next, inserter, bar, report, ledger, rows>>
      /\ \A v \in Workers \ {w} : worker'[v] = worker[v]
  BY DEF WorkerStep, Receive, Exit, RejectRecord, FindAuthor, StoreAuthor, RefuseAuthor, WithAuthor, CacheAuthor, AuthorFails,
         FindType, TypeFails, Send, GoTo, CountError, inputs, tables, control, channels, writing, Typing
<1>2. authors' = authors \/ authors' = [authors EXCEPT ![lang] = @ \cup {Item(w).author}]
  BY DEF WorkerStep, Receive, Exit, RejectRecord, FindAuthor, StoreAuthor, RefuseAuthor, WithAuthor, CacheAuthor, AuthorFails,
         FindType, TypeFails, Send, tables
<1>3. QED  BY <1>1, <1>2 DEF Typing

LEMMA InserterFrame ==
  ASSUME InserterStep
  PROVE  UNCHANGED <<loaded, main, lang, outcome, next, work, worker, errors, errorCount, cached,
                     ledger, authors>>
BY DEF InserterStep, Drain, Drained, SkipInsertion, RefusePoems, PlanInsertion, Commit, RollBack,
       Inserted, Report, inputs, tables, control, channels

-----------------------------------------------------------------------------
(* Capacities and counters. *)

LEMMA Capacities ==
  /\ WorkBuffer \in Nat \ {0} /\ ResultBuffer \in Nat \ {0} /\ ErrorBuffer \in Nat \ {0}
  /\ TransactionSize \in Nat \ {0} /\ MaxFaults \in Nat
BY PipelineAssumption

LEMMA FaultCounts ==
  ASSUME faults \in 0 .. MaxFaults, fatal \in BOOLEAN, UNCHANGED <<faults, fatal>> \/ Fault
  PROVE  faults' \in 0 .. MaxFaults /\ fatal' \in BOOLEAN
<1>1. CASE UNCHANGED <<faults, fatal>>
  BY <1>1
<1>2. CASE Fault
  BY <1>2, Capacities DEF Fault
<1> QED BY <1>1, <1>2

LEMMA MainBounds == ASSUME Typing, Bounds, MainStep PROVE Bounds'
<1> USE Capacities DEF Bounds
<1>1. CASE OpenBuild
  <2>1. Locators(Rejections(loaded)) \subseteq Locators(loaded)
    BY CorpusIsSequence, PartitionFacts
  <2>2. QED  BY <1>1, <2>1 DEF OpenBuild, inputs, history, channels, writing
<1>2. CASE OpenBuildFails
  <2>1. UNCHANGED <<faults, fatal>> \/ Fault
    BY <1>2 DEF OpenBuildFails, history
  <2>2. faults' \in 0 .. MaxFaults /\ fatal' \in BOOLEAN
    BY <2>1, FaultCounts
  <2>3. QED  BY <1>2, <2>2 DEF OpenBuildFails, Finish, inputs, tables, channels, writing
<1>3. CASE Prewarm
  <2>1. IsFiniteSet(AuthorsOf(Corpus))
    BY CorpusIsSequence, AuthorCount
  <2>2. PICK missed \in SUBSET AuthorsOf(Corpus) :
          faults + Cardinality(missed) <= MaxFaults /\ faults' = faults + Cardinality(missed)
    BY <1>3 DEF Prewarm
  <2>3. Cardinality(missed) \in Nat
    BY <2>1, FS_Subset, FS_CardinalityType
  <2>4. /\ work' = Opened /\ results' = Opened /\ errors' = 0
        /\ inserter' = [NoInserter EXCEPT !.at = "drain"]
        /\ UNCHANGED <<loaded, ledger, fatal, outcome>>
    BY <1>3 DEF Prewarm, StartGoroutines, inputs
  <2>5. work'.items = <<>> /\ results'.items = <<>> /\ inserter'.failed = FALSE
    BY <2>4 DEF Opened, NoInserter
  <2>6. faults' \in 0 .. MaxFaults
    BY <2>2, <2>3
  <2>7. Len(work'.items) = 0 /\ Len(results'.items) = 0
    BY <2>5
  <2>8. Len(work'.items) <= WorkBuffer /\ Len(results'.items) <= ResultBuffer /\ errors' \in 0 .. ErrorBuffer
    BY <2>4, <2>7
  <2>9. /\ ledger' \subseteq Locators(loaded') /\ outcome' \in {"running", "ok", "failed"}
        /\ fatal' \in BOOLEAN /\ inserter'.failed \in BOOLEAN
    BY <2>4, <2>5
  <2>10. QED  BY <2>6, <2>8, <2>9
<1>4. CASE PrewarmFails
  BY <1>4 DEF PrewarmFails, Fault, Finish, inputs, tables, channels, writing
<1>5. CASE Join
  <2>1. results'.items = results.items
    BY <1>5 DEF Join, Typing
  <2>2. QED  BY <1>5, <2>1 DEF Join, inputs, tables, history, writing
<1>6. CASE ProcessFails
  BY <1>6 DEF ProcessFails, Finish, inputs, tables, history, channels, writing
<1>7. CASE ProcessSucceeds
  BY <1>7 DEF ProcessSucceeds, inputs, tables, history, channels, writing
<1>8. CASE Verify
  BY <1>8 DEF Verify, Finish, inputs, tables, history, channels, writing
<1>9. CASE VerifyFails
  BY <1>9 DEF VerifyFails, Fault, Finish, inputs, tables, channels, writing
<1>10. QED  BY <1>1, <1>2, <1>3, <1>4, <1>5, <1>6, <1>7, <1>8, <1>9 DEF MainStep

LEMMA DispatcherBounds == ASSUME Typing, Bounds, Dispatch \/ CloseWork PROVE Bounds'
<1>1. next \in Nat /\ work.items \in Seq(Index)
  BY CorpusIsSequence DEF Typing
<1>2. Len(work'.items) <= WorkBuffer
  <2>1. CASE Dispatch
    <3>1. Len(work.items) < WorkBuffer /\ work'.items = Append(work.items, next)
      BY <2>1 DEF Dispatch, Typing
    <3>2. Len(work'.items) = Len(work.items) + 1 /\ Len(work.items) \in Nat /\ WorkBuffer \in Nat
      BY <1>1, <3>1, Capacities
    <3>3. QED  BY <3>1, <3>2
  <2>2. CASE CloseWork
    BY <2>2 DEF CloseWork, Bounds, Typing
  <2>3. QED  BY <2>1, <2>2
<1>3. QED  BY <1>2, DispatcherFrame DEF Bounds

LEMMA WorkerBounds == ASSUME Typing, Bounds, NEW w \in Workers, WorkerStep(w) PROVE Bounds'
<1>1. errors' \in 0 .. ErrorBuffer
  <2>1. errors' \in {errors, IF errors < ErrorBuffer THEN errors + 1 ELSE errors}
    BY DEF WorkerStep, Receive, Exit, RejectRecord, FindAuthor, StoreAuthor, RefuseAuthor, WithAuthor, CacheAuthor, AuthorFails,
         FindType, TypeFails, Send, CountError, channels
  <2>2. QED  BY <2>1, Capacities DEF Bounds
<1>2. faults' \in 0 .. MaxFaults /\ fatal' \in BOOLEAN
  <2>1. UNCHANGED <<faults, fatal>> \/ Fault
    BY DEF WorkerStep, Receive, Exit, RejectRecord, FindAuthor, StoreAuthor, RefuseAuthor, WithAuthor, CacheAuthor, AuthorFails,
         FindType, TypeFails, Send, history
  <2>2. QED  BY <2>1, FaultCounts DEF Bounds
<1>3. Len(work'.items) <= WorkBuffer
  <2>1. CASE Receive(w)
    <3>1. work.items \in Seq(Index) /\ work.items # <<>> /\ work'.items = Tail(work.items)
      BY <2>1 DEF Receive, Typing
    <3>2. Len(work'.items) = Len(work.items) - 1 /\ Len(work.items) \in Nat /\ WorkBuffer \in Nat
      BY <3>1, Capacities
    <3>3. QED  BY <3>2 DEF Bounds
  <2>2. CASE ~Receive(w)
    BY <2>2 DEF WorkerStep, Exit, RejectRecord, FindAuthor, StoreAuthor, RefuseAuthor, WithAuthor, CacheAuthor, AuthorFails,
         FindType, TypeFails, Send, channels, Bounds
  <2>3. QED  BY <2>1, <2>2
<1>4. Len(results'.items) <= ResultBuffer
  <2>1. CASE Send(w)
    <3>1. /\ Len(results.items) < ResultBuffer /\ results.items \in Seq(Index)
          /\ results'.items = Append(results.items, worker[w].item)
      BY <2>1 DEF Send, Typing
    <3>2. Len(results'.items) = Len(results.items) + 1 /\ Len(results.items) \in Nat /\ ResultBuffer \in Nat
      BY <3>1, Capacities
    <3>3. QED  BY <3>1, <3>2
  <2>2. CASE ~Send(w)
    BY <2>2 DEF WorkerStep, Receive, Exit, RejectRecord, FindAuthor, StoreAuthor, RefuseAuthor, WithAuthor, CacheAuthor, AuthorFails,
         FindType, TypeFails, channels, Bounds
  <2>3. QED  BY <2>1, <2>2
<1>5. QED  BY <1>1, <1>2, <1>3, <1>4, WorkerFrame DEF Bounds

LEMMA InserterBounds == ASSUME Typing, Bounds, InserterStep PROVE Bounds'
<1>1. faults' \in 0 .. MaxFaults /\ fatal' \in BOOLEAN
  <2>1. UNCHANGED <<faults, fatal>> \/ Fault
    BY DEF InserterStep, Drain, Drained, SkipInsertion, RefusePoems, PlanInsertion, Commit, RollBack,
       Inserted, Report, history
  <2>2. QED  BY <2>1, FaultCounts DEF Bounds
<1>2. inserter'.failed \in BOOLEAN
  BY DEF InserterStep, Drain, Drained, SkipInsertion, RefusePoems, PlanInsertion, Commit, RollBack,
       Inserted, Report, Bounds, Typing
<1>3. Len(results'.items) <= ResultBuffer
  <2>1. CASE Drain
    <3>1. results.items \in Seq(Index) /\ results.items # <<>> /\ results'.items = Tail(results.items)
      BY <2>1 DEF Drain, Typing
    <3>2. Len(results'.items) = Len(results.items) - 1 /\ Len(results.items) \in Nat /\ ResultBuffer \in Nat
      BY <3>1, Capacities
    <3>3. QED  BY <3>2 DEF Bounds
  <2>2. CASE ~Drain
    BY <2>2 DEF InserterStep, Drained, SkipInsertion, RefusePoems, PlanInsertion, Commit, RollBack,
       Inserted, Report, channels, Bounds
  <2>3. QED  BY <2>1, <2>2
<1>4. QED  BY <1>1, <1>2, <1>3, InserterFrame DEF Bounds

-----------------------------------------------------------------------------
(* Every record is with one of them, and once. *)

LEMMA NoRepeatAfterAppend ==
  ASSUME NEW S, NEW s \in Seq(S), NEW e \in S, NoRepeat(s), e \notin ToSet(s)
  PROVE  NoRepeat(Append(s, e))
<1>1. Len(s) \in Nat /\ DOMAIN s = 1 .. Len(s) /\ DOMAIN Append(s, e) = 1 .. Len(s) + 1
  OBVIOUS
<1>2. /\ \A i \in 1 .. Len(s) : Append(s, e)[i] = s[i] /\ s[i] # e
      /\ Append(s, e)[Len(s) + 1] = e
  BY <1>1 DEF ToSet
<1>3. \A i \in 1 .. Len(s) + 1 : i \in 1 .. Len(s) \/ i = Len(s) + 1
  BY <1>1
<1>4. QED  BY <1>1, <1>2, <1>3 DEF NoRepeat

LEMMA NoRepeatInTail ==
  ASSUME NEW S, NEW s \in Seq(S), s # <<>>, NoRepeat(s)
  PROVE  NoRepeat(Tail(s)) /\ Head(s) \notin ToSet(Tail(s))
<1>1. Len(s) \in Nat \ {0} /\ DOMAIN s = 1 .. Len(s) /\ DOMAIN Tail(s) = 1 .. Len(s) - 1 /\ Head(s) = s[1]
  OBVIOUS
<1>2. \A i \in 1 .. Len(s) - 1 : Tail(s)[i] = s[i + 1]
  OBVIOUS
<1>3. \A i \in 1 .. Len(s) - 1 : i + 1 \in 1 .. Len(s) /\ i + 1 # 1
  BY <1>1
<1>4. 1 \in 1 .. Len(s)
  BY <1>1
<1>5. NoRepeat(Tail(s))
  <2>1. SUFFICES ASSUME NEW k \in 1 .. Len(s) - 1, NEW l \in 1 .. Len(s) - 1, Tail(s)[k] = Tail(s)[l]
                 PROVE  k = l
    BY <1>1 DEF NoRepeat
  <2>2. s[k + 1] = s[l + 1]
    BY <1>2, <2>1
  <2>3. k + 1 = l + 1
    BY <1>1, <1>3, <2>2 DEF NoRepeat
  <2>4. QED  BY <2>3
<1>6. \A i \in 1 .. Len(s) - 1 : Tail(s)[i] # Head(s)
  BY <1>1, <1>2, <1>3, <1>4 DEF NoRepeat
<1>7. QED  BY <1>1, <1>5, <1>6 DEF ToSet

LEMMA MainOnce == ASSUME Typing, Once, MainStep PROVE Once'
<1>1. CASE Prewarm
  <2>1. /\ next' = 1 /\ work' = Opened /\ results' = Opened /\ worker' = [w \in Workers |-> Idle]
        /\ inserter' = [NoInserter EXCEPT !.at = "drain"]
    BY <1>1 DEF Prewarm, StartGoroutines
  <2>2. work'.items = <<>> /\ results'.items = <<>> /\ inserter'.poems = <<>>
    BY <2>1 DEF Opened, NoInserter
  <2>3. Len(work'.items) = 0 /\ \A w \in Workers : worker'[w].item = 0
    BY <2>1, <2>2 DEF Idle
  <2>4. Received' = 1 /\ Delivered' = {}
    BY <2>1, <2>2, <2>3, EmptySet DEF Received, Delivered
  <2>5. NoRepeat(results'.items) /\ NoRepeat(inserter'.poems)
    BY <2>2 DEF NoRepeat
  <2>6. ToSet(results'.items) = {} /\ 1 .. 0 = {}
    BY <2>2, EmptySet
  <2>7. QED  BY <2>3, <2>4, <2>5, <2>6 DEF Once
<1>2. CASE Join
  <2>1. /\ main = "join" /\ results'.items = results.items
        /\ UNCHANGED <<next, work, worker, inserter>>
    BY <1>2 DEF Join, writing, Typing
  <2>2. Received' = Received /\ Delivered' = Delivered
    BY <2>1 DEF Received, Delivered
  <2>3. QED  BY <2>1, <2>2 DEF Once
<1>3. CASE ~Prewarm /\ ~Join
  <2>1. main' \notin {"join", "await"}
    BY <1>3 DEF MainStep, OpenBuild, OpenBuildFails, PrewarmFails, ProcessFails, ProcessSucceeds,
           Verify, VerifyFails, Finish
  <2>2. QED  BY <2>1 DEF Once
<1>4. QED  BY <1>1, <1>2, <1>3

LEMMA DispatcherOnce == ASSUME Typing, Once, Dispatch \/ CloseWork PROVE Once'
<1>1. main' = main /\ worker' = worker /\ results' = results /\ inserter' = inserter
  BY DispatcherFrame
<1>2. Delivered' = Delivered
  BY <1>1 DEF Delivered
<1>3. CASE Dispatch
  <2>1. work'.items = Append(work.items, next) /\ next' = next + 1
    BY <1>3 DEF Dispatch, Typing
  <2>2. work.items \in Seq(Index) /\ next \in Int /\ Len(work.items) \in Nat
    BY CorpusIsSequence DEF Typing
  <2>3. /\ Len(work'.items) = Len(work.items) + 1
        /\ \A k \in 1 .. Len(work.items) : work'.items[k] = work.items[k]
        /\ work'.items[Len(work.items) + 1] = next
    BY <2>1, <2>2
  <2>4. Received' = Received /\ Received + (Len(work.items) + 1) - 1 = next
    BY <2>1, <2>2, <2>3 DEF Received
  <2>5. ASSUME main \in {"join", "await"}, NEW k \in 1 .. Len(work'.items)
        PROVE  work'.items[k] = Received + k - 1
    <3>1. k \in 1 .. Len(work.items) \/ k = Len(work.items) + 1
      BY <2>2, <2>3
    <3>2. QED  BY <2>3, <2>4, <2>5, <3>1 DEF Once
  <2>6. QED  BY <1>1, <1>2, <2>4, <2>5 DEF Once
<1>4. CASE CloseWork
  <2>1. work'.items = work.items /\ next' = next
    BY <1>4 DEF CloseWork, Typing
  <2>2. Received' = Received
    BY <2>1 DEF Received
  <2>3. QED  BY <1>1, <1>2, <2>1, <2>2 DEF Once
<1>5. QED  BY <1>3, <1>4

\* What has been delivered are places of the corpus.
LEMMA DeliveredIsIndex == ASSUME Typing PROVE Delivered \subseteq Index /\ 0 \notin Delivered
<1>1. Delivered \subseteq Index
  BY ElementsOfSequence DEF Typing, Delivered
<1>2. 0 \notin Index
  BY CorpusIsSequence DEF Index
<1>3. QED  BY <1>1, <1>2

LEMMA WorkerOnce ==
  ASSUME Typing, Phases, Once, NEW w \in Workers, WorkerStep(w)
  PROVE  Once'
<1>1. /\ UNCHANGED <<main, next, inserter>>
      /\ \A v \in Workers \ {w} : worker'[v] = worker[v]
  BY WorkerFrame
<1>2. /\ work.items \in Seq(Index) /\ next \in Int /\ Len(work.items) \in Nat
      /\ results.items \in Seq(Index)
      /\ \A v \in Workers : worker[v].item \in Int
  BY CorpusIsSequence DEF Typing
<1>3. /\ main = "join" /\ Received >= 1 /\ Received \in Int
      /\ \A k \in 1 .. Len(work.items) : work.items[k] = Received + k - 1
      /\ \A v \in Workers : worker[v].item < Received /\ worker[v].item \notin Delivered
      /\ \A u, v \in Workers : worker[u].item = worker[v].item => u = v \/ worker[u].item = 0
      /\ \A i \in Delivered : i < Received
      /\ NoRepeat(results.items) /\ NoRepeat(inserter.poems)
      /\ ToSet(results.items) \cap ToSet(inserter.poems) = {}
  <2>1. main = "join"
    BY GoroutinesOnlyBeforeJoin
       DEF WorkerStep, Receive, Exit, RejectRecord, FindAuthor, StoreAuthor, RefuseAuthor, WithAuthor, CacheAuthor, AuthorFails,
           FindType, TypeFails, Send
  <2>2. QED  BY <1>2, <2>1 DEF Once, Received
<1>4. Delivered \subseteq Int /\ 0 \notin Delivered
  BY DeliveredIsIndex DEF Index
<1>5. CASE Receive(w)
  <2>1. /\ work.items # <<>> /\ work'.items = Tail(work.items) /\ results' = results
        /\ worker'[w].item = Head(work.items)
    BY <1>5 DEF Receive, Typing
  <2>2. /\ Len(work'.items) = Len(work.items) - 1 /\ Len(work.items) >= 1
        /\ \A k \in 1 .. Len(work.items) - 1 : work'.items[k] = work.items[k + 1]
        /\ Head(work.items) = work.items[1]
    BY <1>2, <2>1
  <2>3. Received' = Received + 1 /\ worker'[w].item = Received
    BY <1>1, <1>2, <1>3, <2>1, <2>2 DEF Received
  <2>4. \A k \in 1 .. Len(work'.items) : work'.items[k] = Received' + k - 1
    <3>1. SUFFICES ASSUME NEW k \in 1 .. Len(work.items) - 1
                   PROVE  work'.items[k] = Received + 1 + k - 1
      BY <2>2, <2>3
    <3>2. k + 1 \in 1 .. Len(work.items)
      BY <1>2
    <3>3. QED  BY <1>2, <1>3, <2>2, <3>2
  <2>5. Delivered' = Delivered /\ Received \notin Delivered
    BY <1>1, <1>3, <1>4, <2>1 DEF Delivered
  <2>6. \A v \in Workers : worker'[v].item < Received + 1 /\ worker'[v].item \notin Delivered
    BY <1>1, <1>2, <1>3, <2>3, <2>5
  <2>7. \A u, v \in Workers : worker'[u].item = worker'[v].item => u = v \/ worker'[u].item = 0
    <3>1. \A v \in Workers \ {w} : worker'[v].item # Received
      BY <1>1, <1>2, <1>3
    <3>2. QED  BY <1>1, <1>3, <2>3, <3>1
  <2>8. \A i \in Delivered : i < Received + 1
    BY <1>3, <1>4
  <2>9. QED  BY <1>1, <1>3, <2>1, <2>3, <2>4, <2>5, <2>6, <2>7, <2>8 DEF Once
<1>6. CASE Send(w)
  <2>1. /\ worker[w].item \in Index /\ worker[w].item # 0 /\ worker[w].at = "send"
        /\ results'.items = Append(results.items, worker[w].item)
        /\ worker'[w].item = 0 /\ work' = work
    BY <1>6, CorpusIsSequence DEF Send, Phases, Typing, Idle, Index
  <2>2. ToSet(results'.items) = ToSet(results.items) \cup {worker[w].item}
    BY <1>2, <2>1, AppendedSet
  <2>3. Delivered' = Delivered \cup {worker[w].item} /\ Received' = Received
    BY <1>1, <2>1, <2>2 DEF Delivered, Received
  <2>4. worker[w].item \notin ToSet(results.items) /\ worker[w].item \notin ToSet(inserter.poems)
    BY <1>3 DEF Delivered
  <2>5. NoRepeat(results'.items)
    BY <1>2, <1>3, <2>1, <2>4, NoRepeatAfterAppend
  <2>6. \A v \in Workers : worker'[v].item < Received /\ worker'[v].item \notin Delivered'
    BY <1>1, <1>3, <1>4, <2>1, <2>3
  <2>7. \A u, v \in Workers : worker'[u].item = worker'[v].item => u = v \/ worker'[u].item = 0
    BY <1>1, <1>3, <2>1
  <2>8. ToSet(results'.items) \cap ToSet(inserter.poems) = {}
    BY <1>3, <2>2, <2>4
  <2>9. QED  BY <1>1, <1>3, <2>1, <2>3, <2>5, <2>6, <2>7, <2>8 DEF Once
<1>7. CASE ~Receive(w) /\ ~Send(w)
  <2>1. work'.items = work.items /\ results'.items = results.items
    BY <1>7 DEF WorkerStep, Exit, RejectRecord, FindAuthor, StoreAuthor, RefuseAuthor, WithAuthor, CacheAuthor, AuthorFails,
           FindType, TypeFails, channels
  <2>2. worker'[w].item \in {0, worker[w].item}
    BY <1>7 DEF WorkerStep, Exit, RejectRecord, FindAuthor, StoreAuthor, RefuseAuthor, WithAuthor, CacheAuthor, AuthorFails,
           FindType, TypeFails, GoTo, CountError, Idle, Nobody, Typing
  <2>3. Delivered' = Delivered /\ Received' = Received
    BY <1>1, <2>1 DEF Delivered, Received
  <2>4. \A v \in Workers : worker'[v].item < Received /\ worker'[v].item \notin Delivered
    BY <1>1, <1>3, <1>4, <2>2
  <2>5. \A u, v \in Workers : worker'[u].item = worker'[v].item => u = v \/ worker'[u].item = 0
    BY <1>1, <1>3, <2>2
  <2>6. QED  BY <1>1, <1>3, <2>1, <2>3, <2>4, <2>5 DEF Once
<1>8. QED  BY <1>5, <1>6, <1>7

LEMMA InserterOnce == ASSUME Typing, Once, InserterStep PROVE Once'
<1>1. UNCHANGED <<main, next, work, worker>>
  BY InserterFrame
<1>2. Received' = Received
  BY <1>1 DEF Received
<1>3. results.items \in Seq(Index) /\ inserter.poems \in Seq(Index)
  BY DEF Typing
<1>4. CASE Drain
  <2>1. /\ results.items # <<>> /\ results'.items = Tail(results.items)
        /\ inserter'.poems = Append(inserter.poems, Head(results.items))
    BY <1>4 DEF Drain, Typing
  <2> DEFINE h == Head(results.items)
  <2>2. /\ h \in Index /\ ToSet(results.items) = {h} \cup ToSet(results'.items)
        /\ ToSet(inserter'.poems) = ToSet(inserter.poems) \cup {h}
    BY <1>3, <2>1, HeadAndTail, AppendedSet
  <2>3. Delivered' = Delivered
    BY <2>2 DEF Delivered
  <2>4. ASSUME main \in {"join", "await"}
        PROVE  /\ NoRepeat(results'.items) /\ NoRepeat(inserter'.poems)
               /\ ToSet(results'.items) \cap ToSet(inserter'.poems) = {}
    <3>1. /\ NoRepeat(results.items) /\ NoRepeat(inserter.poems)
          /\ ToSet(results.items) \cap ToSet(inserter.poems) = {}
      BY <2>4 DEF Once
    <3>2. NoRepeat(results'.items) /\ h \notin ToSet(results'.items)
      BY <1>3, <2>1, <3>1, NoRepeatInTail
    <3>3. h \notin ToSet(inserter.poems)
      BY <2>2, <3>1
    <3>4. NoRepeat(inserter'.poems)
      BY <1>3, <2>1, <2>2, <3>1, <3>3, NoRepeatAfterAppend
    <3>5. QED  BY <2>2, <3>1, <3>2, <3>3, <3>4
  <2>5. QED  BY <1>1, <1>2, <2>3, <2>4 DEF Once
<1>5. CASE ~Drain
  <2>1. results'.items = results.items /\ inserter'.poems = inserter.poems
    BY <1>5 DEF InserterStep, Drained, SkipInsertion, RefusePoems, PlanInsertion, Commit, RollBack,
           Inserted, Report, channels, Typing
  <2>2. Delivered' = Delivered
    BY <2>1 DEF Delivered
  <2>3. QED  BY <1>1, <1>2, <2>1, <2>2 DEF Once
<1>6. QED  BY <1>4, <1>5

-----------------------------------------------------------------------------
(* What becomes a product. *)

LEMMA DeliveredStays == ASSUME Typing, Dispatch \/ CloseWork \/ InserterStep PROVE Delivered' = Delivered
<1>1. CASE Dispatch \/ CloseWork
  BY <1>1, DispatcherFrame DEF Delivered
<1>2. CASE Drain
  <2>1. /\ results.items # <<>> /\ results'.items = Tail(results.items)
        /\ inserter'.poems = Append(inserter.poems, Head(results.items))
        /\ results.items \in Seq(Index) /\ inserter.poems \in Seq(Index)
    BY <1>2 DEF Drain, Typing
  <2>2. QED  BY <2>1, HeadAndTail, AppendedSet DEF Delivered
<1>3. CASE InserterStep /\ ~Drain
  BY <1>3 DEF InserterStep, Drained, SkipInsertion, RefusePoems, PlanInsertion, Commit, RollBack,
         Inserted, Report, channels, Typing, Delivered
<1>4. QED  BY <1>1, <1>2, <1>3

LEMMA MainProduces == ASSUME Typing, Produced, MainStep PROVE Produced'
<1>1. CASE Prewarm
  <2>1. /\ results' = Opened /\ worker' = [w \in Workers |-> Idle]
        /\ inserter' = [NoInserter EXCEPT !.at = "drain"]
    BY <1>1 DEF Prewarm, StartGoroutines
  <2>2. results'.items = <<>> /\ inserter'.poems = <<>> /\ \A w \in Workers : worker'[w].at = "receive"
    BY <2>1 DEF Opened, NoInserter, Idle
  <2>3. Delivered' = {}
    BY <2>2, EmptySet DEF Delivered
  <2>4. QED  BY <2>2, <2>3 DEF Produced
<1>2. CASE Join
  <2>1. /\ main = "join" /\ results'.items = results.items
        /\ UNCHANGED <<loaded, lang, worker, inserter, authors>>
    BY <1>2 DEF Join, inputs, tables, writing, Typing
  <2>2. Delivered' = Delivered
    BY <2>1 DEF Delivered
  <2>3. QED  BY <2>1, <2>2 DEF Produced, Stored, Item, Corpus
<1>3. CASE ~Prewarm /\ ~Join
  <2>1. main' \notin {"join", "await"}
    BY <1>3 DEF MainStep, OpenBuild, OpenBuildFails, PrewarmFails, ProcessFails, ProcessSucceeds,
           Verify, VerifyFails, Finish
  <2>2. QED  BY <2>1 DEF Produced
<1>4. QED  BY <1>1, <1>2, <1>3

LEMMA OthersProduce ==
  ASSUME Typing, Produced, Dispatch \/ CloseWork \/ InserterStep
  PROVE  Produced'
<1>1. UNCHANGED <<loaded, main, lang, worker, authors>>
  BY DispatcherFrame, InserterFrame
<1>2. QED  BY <1>1, DeliveredStays DEF Produced, Stored, Item, Corpus

LEMMA WorkerProduces ==
  ASSUME Typing, Phases, CacheSound, Produced, NEW w \in Workers, WorkerStep(w)
  PROVE  Produced'
<1>1. /\ UNCHANGED <<loaded, main, lang, inserter>> /\ main = "join"
      /\ \A v \in Workers \ {w} : worker'[v] = worker[v]
      /\ authors[lang] \subseteq authors'[lang]
  <2>1. main = "join"
    BY GoroutinesOnlyBeforeJoin
       DEF WorkerStep, Receive, Exit, RejectRecord, FindAuthor, StoreAuthor, RefuseAuthor, WithAuthor, CacheAuthor, AuthorFails,
           FindType, TypeFails, Send
  <2>2. QED  BY <2>1, WorkerFrame
<1>2. /\ \A v \in Workers :
           /\ worker[v].at \in {"store", "cache", "type", "send"} => Item(v).fate = "good"
           /\ worker[v].at \in {"type", "send"} => Item(v).author \in authors[lang]
      /\ \A i \in Delivered : Corpus[i].fate = "good" /\ Corpus[i].author \in authors[lang]
  BY <1>1 DEF Produced, Stored
<1>3. Corpus' = Corpus
  BY <1>1 DEF Corpus
<1>4. \A v \in Workers \ {w} :
        /\ worker'[v].at \in {"store", "cache", "type", "send"} => Corpus[worker'[v].item].fate = "good"
        /\ worker'[v].at \in {"type", "send"} => Corpus[worker'[v].item].author \in authors'[lang]
  BY <1>1, <1>2 DEF Item
<1>5. worker'[w].at \in {"store", "cache", "type", "send"} =>
        worker'[w].item = worker[w].item /\ Item(w).fate = "good"
  <2>1. CASE FindAuthor(w) \/ StoreAuthor(w) \/ CacheAuthor(w) \/ FindType(w)
    BY <1>2, <2>1 DEF FindAuthor, StoreAuthor, RefuseAuthor, WithAuthor, CacheAuthor, FindType, GoTo, Typing
  <2>2. CASE Receive(w) \/ Exit(w) \/ RejectRecord(w) \/ RefuseAuthor(w) \/ AuthorFails(w) \/ TypeFails(w) \/ Send(w)
    <3>1. worker'[w].at \in {"author", "receive", "exited"}
      BY <2>2 DEF Receive, Exit, RejectRecord, RefuseAuthor, AuthorFails, TypeFails, Send, CountError, Idle, Nobody, Typing
    <3>2. QED  BY <3>1
  <2>3. QED  BY <2>1, <2>2 DEF WorkerStep
<1>6. worker'[w].at \in {"type", "send"} => Item(w).author \in authors[lang]
  <2>1. CASE FindAuthor(w)
    BY <1>1, <2>1 DEF FindAuthor, GoTo, Typing, CacheSound
  <2>2. CASE CacheAuthor(w)
    BY <2>2 DEF CacheAuthor, CacheSound
  <2>3. CASE FindType(w)
    BY <1>2, <2>3 DEF FindType
  <2>4. CASE StoreAuthor(w) \/ Receive(w) \/ Exit(w) \/ RejectRecord(w) \/ RefuseAuthor(w) \/ AuthorFails(w) \/ TypeFails(w) \/ Send(w)
    <3>1. worker'[w].at \in {"cache", "author", "receive", "exited"}
      BY <2>4 DEF StoreAuthor, RefuseAuthor, WithAuthor, Receive, Exit, RejectRecord, AuthorFails, TypeFails, Send, CountError, GoTo,
             Idle, Nobody, Typing
    <3>2. QED  BY <3>1
  <2>5. QED  BY <2>1, <2>2, <2>3, <2>4 DEF WorkerStep
<1>7. \A i \in Delivered' : Corpus[i].fate = "good" /\ Corpus[i].author \in authors'[lang]
  <2>1. CASE Send(w)
    <3>1. /\ worker[w].item \in Index /\ worker[w].at = "send" /\ results.items \in Seq(Index)
          /\ results'.items = Append(results.items, worker[w].item)
      BY <2>1, CorpusIsSequence DEF Send, Phases, Typing, Index
    <3>2. Delivered' = Delivered \cup {worker[w].item}
      BY <1>1, <3>1, AppendedSet DEF Delivered
    <3>3. QED  BY <1>1, <1>2, <3>1, <3>2 DEF Item
  <2>2. CASE ~Send(w)
    <3>1. results'.items = results.items
      BY <2>2 DEF WorkerStep, Receive, Exit, RejectRecord, FindAuthor, StoreAuthor, RefuseAuthor, WithAuthor, CacheAuthor, AuthorFails,
             FindType, TypeFails, channels
    <3>2. Delivered' = Delivered
      BY <1>1, <3>1 DEF Delivered
    <3>3. QED  BY <1>1, <1>2, <3>2
  <2>3. QED  BY <2>1, <2>2
<1>8. \A v \in Workers :
        /\ worker'[v].at \in {"store", "cache", "type", "send"} => Corpus[worker'[v].item].fate = "good"
        /\ worker'[v].at \in {"type", "send"} => Corpus[worker'[v].item].author \in authors'[lang]
  <2>1. worker'[w].at \in {"type", "send"} => worker'[w].at \in {"store", "cache", "type", "send"}
    OBVIOUS
  <2>2. QED  BY <1>1, <1>4, <1>5, <1>6, <2>1 DEF Item
<1>9. QED  BY <1>1, <1>3, <1>7, <1>8 DEF Produced, Stored, Item

-----------------------------------------------------------------------------
(* What the inserter makes of the products. *)

LEMMA CatalogueIsSequence ==
  ASSUME Typing, ~Conflict(Corpus)
  PROVE  /\ Loadable(Corpus) /\ Consistent(Corpus)
         /\ Catalogue \in Seq(Made(Corpus)) /\ ToSet(Catalogue) = Made(Corpus) /\ Len(Catalogue) \in Nat
         /\ IsFiniteSet(WitnessRows(Catalogue))
<1>1. Loadable(Corpus) /\ Consistent(Corpus)
  BY CorpusIsSequence, ConflictFree
<1>2. Prepared(Corpus) \in Seq(Made(Corpus)) /\ ToSet(Prepared(Corpus)) = Made(Corpus)
  BY <1>1, PreparedFacts
<1>3. IsFiniteSet(WitnessRows(Prepared(Corpus)))
  BY <1>1, WitnessCount
<1>4. QED  BY <1>1, <1>2, <1>3, ElementsOfSequence DEF Catalogue

\* With every record an inserter has the records of the corpus, in another order.
LEMMA PoemsAreCorpus ==
  ASSUME Typing, Complete
  PROVE  /\ Loadable(Poems) /\ ToSet(Poems) = ToSet(Corpus) /\ Prepared(Poems) = Catalogue
         /\ ~Conflict(Poems) => ~Conflict(Corpus)
         /\ NoRepeat(inserter.poems) /\ Conflict(Poems) => ~Sound(loaded)
<1> DEFINE at == inserter.poems
           C == Corpus
           P == Poems
<1>1. /\ at \in Seq(Index) /\ DOMAIN at = 1 .. Len(at) /\ Len(at) \in Nat
      /\ Index = {at[k] : k \in 1 .. Len(at)}
  <2>1. at \in Seq(Index) /\ ToSet(at) = Index
    BY DEF Typing, Complete
  <2>2. QED  BY <2>1, ElementsOfSequence
<1>2. Loadable(C) /\ DOMAIN C = Index /\ ToSet(C) = {C[i] : i \in Index}
  BY CorpusIsSequence DEF ToSet
<1>3. DOMAIN P = 1 .. Len(at) /\ P = [k \in 1 .. Len(at) |-> C[at[k]]]
  BY <1>1 DEF Poems
<1> HIDE DEF at, C, P
<1>4. ToSet(P) = ToSet(C)
  <2>1. ToSet(P) = {C[at[k]] : k \in 1 .. Len(at)}
    BY <1>3 DEF ToSet
  <2>2. QED  BY <1>1, <1>2, <2>1
<1>5. Loadable(P)
  <2>1. P \in Seq(ToSet(P))
    <3>1. \A k \in 1 .. Len(at) : P[k] \in ToSet(P)
      BY <1>3 DEF ToSet
    <3>2. QED  BY <1>1, <1>3, <3>1
  <2>2. \A k \in DOMAIN P : at[k] \in DOMAIN C /\ P[k] = C[at[k]]
    BY <1>1, <1>2, <1>3
  <2>3. \A k \in DOMAIN P : P[k].fate \in Fates /\ P[k].locator \in Int /\ P[k].id \in Int
    BY <1>2, <2>2 DEF Loadable
  <2>4. \A i, j \in DOMAIN C : C[i].canonical = C[j].canonical => C[i].id = C[j].id
    BY <1>2 DEF Loadable
  <2>5. \A k, l \in DOMAIN P : P[k].canonical = P[l].canonical => P[k].id = P[l].id
    BY <2>2, <2>4
  <2>6. QED  BY <2>1, <2>3, <2>5 DEF Loadable
<1>6. Prepared(P) = Prepared(C)
  BY <1>4, CatalogOfRecords
<1>7. Consistent(P) <=> Consistent(C)
  BY <1>4 DEF Consistent
<1>8. Distinct(P) => Distinct(C)
  <2>1. SUFFICES ASSUME Distinct(P), NEW i \in Index, NEW j \in Index, C[i].locator = C[j].locator
                 PROVE  i = j
    BY <1>2 DEF Distinct
  <2>2. PICK k \in 1 .. Len(at), l \in 1 .. Len(at) : at[k] = i /\ at[l] = j
    BY <1>1
  <2>3. P[k].locator = P[l].locator
    BY <1>3, <2>1, <2>2
  <2>4. k = l
    BY <1>3, <2>1, <2>3 DEF Distinct
  <2>5. QED  BY <2>2, <2>4
<1>9. NoRepeat(at) /\ Distinct(C) => Distinct(P)
  <2>1. SUFFICES ASSUME NoRepeat(at), Distinct(C), NEW k \in 1 .. Len(at), NEW l \in 1 .. Len(at),
                        P[k].locator = P[l].locator
                 PROVE  k = l
    BY <1>3 DEF Distinct
  <2>2. at[k] \in DOMAIN C /\ at[l] \in DOMAIN C /\ P[k] = C[at[k]] /\ P[l] = C[at[l]]
    BY <1>1, <1>2, <1>3
  <2>3. at[k] = at[l]
    BY <2>1, <2>2 DEF Distinct
  <2>4. QED  BY <1>1, <2>1, <2>3 DEF NoRepeat
<1>10. Sound(loaded) => Distinct(C) /\ Consistent(C)
  <2>1. Loadable(loaded)
    BY CorpusIsSequence
  <2>2. QED  BY <2>1, SoundFacts, PartitionFacts DEF C, Corpus
<1>11. (~Conflict(P) <=> Distinct(P) /\ Consistent(P)) /\ (~Conflict(C) <=> Distinct(C) /\ Consistent(C))
  BY ConflictFree
<1>12. QED  BY <1>4, <1>5, <1>6, <1>7, <1>8, <1>9, <1>10, <1>11 DEF at, C, P, Catalogue

\* Where every record has become a product, all of them were good and their authors are there.
LEMMA AllProduced ==
  ASSUME Typing, Produced, Complete, main = "await"
  PROVE  (\A i \in Index : Corpus[i].fate = "good") /\ authors[lang] = AuthorsOf(Corpus)
<1>1. \A i \in Index : Corpus[i].fate = "good" /\ Corpus[i].author \in authors[lang]
  BY DEF Produced, Complete, Delivered, Stored
<1>2. authors[lang] \subseteq AuthorsOf(Corpus)
  BY DEF Typing
<1>3. QED  BY <1>1, <1>2, CorpusIsSequence DEF AuthorsOf

\* A corpus without records has a catalogue without rows.
LEMMA NothingIsWhole ==
  ASSUME Typing, Index = {}, rows[lang] = <<>>
  PROVE  Whole(lang)
<1>1. Loadable(Corpus) /\ DOMAIN Corpus = {}
  BY CorpusIsSequence
<1>2. ~Conflict(Corpus)
  BY <1>1 DEF Conflict, Distinct
<1>3. Made(Corpus) = {} /\ AuthorsOf(Corpus) = {}
  BY <1>1 DEF Made, Works, AuthorsOf
<1>4. Catalogue = <<>>
  <2>1. Catalogue \in Seq({})
    BY <1>2, <1>3, CatalogueIsSequence
  <2>2. QED  BY <2>1
<1>5. authors[lang] = {}
  BY <1>3 DEF Typing
<1>6. QED  BY <1>2, <1>3, <1>4, <1>5 DEF Whole

\* The rows of a language and the rows that are left, for the language being written.
LEMMA SoFar ==
  ASSUME Typing, Inserting, inserter.at = "insert"
  PROVE  /\ Len(rows[lang]) \in 0 .. Len(Catalogue)
         /\ rows[lang] = SubSeq(Catalogue, 1, Len(rows[lang]))
         /\ WitnessesOf(rows[lang]) \cap ledger = {}
<1>1. lang \in Languages /\ Len(Catalogue) \in Nat
  BY CatalogueIsSequence DEF Typing, Inserting
<1>2. CASE rows[lang] = <<>>
  <2>1. Len(<<>>) = 0 /\ SubSeq(Catalogue, 1, 0) = <<>> /\ WitnessesOf(<<>>) = {}
    BY DEF WitnessesOf
  <2>2. QED  BY <1>1, <1>2, <2>1
<1>3. CASE rows[lang] # <<>>
  BY <1>1, <1>3 DEF Inserting, Begun
<1>4. QED  BY <1>2, <1>3

\* The steps of the build itself, and of the dispatcher and the workers.
LEMMA MainInserts ==
  ASSUME Typing, Phases, WrittenWhole, Inserting, Ended, MainStep
  PROVE  Inserting'
<1>1. CASE OpenBuild
  <2>1. /\ main = "open" /\ main' = "prewarm" /\ UNCHANGED <<loaded, lang, rows, inserter, bar, report>>
    BY <1>1 DEF OpenBuild, inputs, writing
  <2>2. inserter.at = "idle"
    BY <2>1 DEF Phases, Quiet
  <2>3. \A l \in Languages : rows[l] = <<>>
    BY <2>1 DEF Ended, WrittenWhole, Languages
  <2>4. QED  BY <2>1, <2>2, <2>3 DEF Inserting
<1>2. CASE Prewarm
  <2>1. /\ main' = "join" /\ UNCHANGED <<loaded, lang, rows, ledger>> /\ bar' = 0
        /\ inserter' = [NoInserter EXCEPT !.at = "drain"]
    BY <1>2 DEF Prewarm, StartGoroutines, inputs
  <2>2. inserter'.at = "drain"
    BY <2>1 DEF NoInserter
  <2>3. QED  BY <2>1, <2>2 DEF Inserting, Begun, Catalogue, Corpus
<1>3. CASE ~OpenBuild /\ ~Prewarm
  <2>1. UNCHANGED <<loaded, rows, ledger, inserter, bar, report, errorCount>>
    <3>1. CASE OpenBuildFails \/ PrewarmFails \/ ProcessFails \/ Verify \/ VerifyFails
      BY <3>1 DEF OpenBuildFails, PrewarmFails, ProcessFails, Verify, VerifyFails, inputs, tables,
             channels, writing
    <3>2. CASE Join \/ ProcessSucceeds
      BY <3>2 DEF Join, ProcessSucceeds, inputs, tables, channels, writing
    <3>3. QED  BY <1>3, <3>1, <3>2 DEF MainStep
  <2>2. inserter.at # "insert" /\ (main' = "await" => inserter.at = "drain" /\ report = "none")
    <3>1. CASE Join
      BY <3>1 DEF Join, Phases
    <3>2. CASE ~Join
      BY <1>3, <3>2 DEF MainStep, OpenBuildFails, PrewarmFails, ProcessFails, ProcessSucceeds, Verify,
             VerifyFails, Finish, Phases, Quiet
    <3>3. QED  BY <3>1, <3>2
  <2>3. QED  BY <2>1, <2>2 DEF Inserting, Begun, Catalogue, Corpus
<1>4. QED  BY <1>1, <1>2, <1>3

LEMMA OthersInsert ==
  ASSUME Typing, Phases, Inserting, Dispatch \/ CloseWork \/ \E w \in Workers : WorkerStep(w)
  PROVE  Inserting'
<1>1. /\ main = "join" /\ inserter.at = "drain"
      /\ UNCHANGED <<loaded, main, lang, rows, ledger, inserter, bar, report>>
  <2>1. CASE Dispatch \/ CloseWork
    <3>1. main = "join"
      BY <2>1, GoroutinesOnlyBeforeJoin DEF Dispatch, CloseWork
    <3>2. QED  BY <2>1, <3>1, DispatcherFrame DEF Phases
  <2>2. CASE \E w \in Workers : WorkerStep(w)
    <3>1. PICK w \in Workers : WorkerStep(w)
      BY <2>2
    <3>2. main = "join"
      BY <3>1, GoroutinesOnlyBeforeJoin
         DEF WorkerStep, Receive, Exit, RejectRecord, FindAuthor, StoreAuthor, RefuseAuthor, WithAuthor, CacheAuthor, AuthorFails,
             FindType, TypeFails, Send
    <3>3. QED  BY <3>1, <3>2, WorkerFrame DEF Phases
  <2>3. QED  BY <2>1, <2>2
<1>2. QED  BY <1>1 DEF Inserting, Begun, Catalogue, Corpus

LEMMA InserterInserts ==
  ASSUME Typing, Phases, Conserved, WrittenWhole, Once, Produced, Inserting, InserterStep
  PROVE  Inserting'
<1>1. /\ UNCHANGED <<loaded, main, lang, errorCount, ledger, authors>> /\ main \in {"join", "await"}
      /\ inserter.at # "drain" => main = "await"
  <2>1. inserter.at # "idle"
    BY DEF InserterStep, Drain, Drained, SkipInsertion, RefusePoems, PlanInsertion, Commit, RollBack,
           Inserted, Report
  <2>2. QED  BY <2>1, InserterFrame DEF Typing, Phases, Quiet
<1>2. Corpus' = Corpus /\ Catalogue' = Catalogue
  BY <1>1 DEF Corpus, Catalogue
<1>3. CASE Drain \/ Drained
  <2>1. /\ inserter.at = "drain" /\ inserter'.at \in {"drain", "prepare"}
        /\ UNCHANGED <<rows, bar, report>>
    BY <1>3 DEF Drain, Drained, tables, Typing
  <2>2. main = "await" => report = "none"
    BY <2>1 DEF Phases, Typing
  <2>3. QED  BY <1>1, <1>2, <2>1, <2>2 DEF Inserting, Begun
<1>4. CASE SkipInsertion
  <2>1. /\ inserter.at = "prepare" /\ inserter'.at = "idle" /\ UNCHANGED <<rows, bar>>
        /\ errorCount = 0 => inserter.poems = <<>>
    BY <1>4 DEF SkipInsertion, NothingToInsert, tables, Typing
  <2>2. ASSUME errorCount = 0 PROVE Whole(lang)
    <3>1. Index = {}
      BY <2>1, <2>2, AllWithInserter, EmptySet DEF Complete
    <3>2. QED  BY <1>1, <2>1, <3>1, NothingIsWhole DEF WrittenWhole
  <2>3. errorCount' = 0 => Whole(lang)'
    BY <1>1, <1>2, <2>1, <2>2 DEF Whole, Index
  <2>4. QED  BY <1>1, <1>2, <2>1, <2>3 DEF Inserting, Begun
<1>5. CASE RefusePoems
  <2>1. /\ inserter.at = "prepare" /\ inserter'.at = "wait" /\ inserter'.failed = TRUE
        /\ UNCHANGED <<rows, bar, report>>
    BY <1>5 DEF RefusePoems, tables, Typing
  <2>2. report = "none"
    BY <1>1, <2>1 DEF Phases, Typing
  <2>3. QED  BY <1>1, <1>2, <2>1, <2>2 DEF Inserting, Begun
<1>6. CASE PlanInsertion
  <2>1. /\ inserter.at = "prepare" /\ inserter'.at = "insert" /\ UNCHANGED <<rows, report>>
        /\ errorCount = 0 /\ ~Conflict(Poems)
        /\ inserter'.plan = Prepared(Poems) /\ bar' = Len(Poems)
    BY <1>6 DEF PlanInsertion, NothingToInsert, tables, Typing
  <2>2. Complete
    BY <2>1, AllWithInserter
  <2>3. /\ Loadable(Poems) /\ Prepared(Poems) = Catalogue /\ ~Conflict(Corpus)
    BY <2>1, <2>2, PoemsAreCorpus
  <2>4. IsFiniteSet(WitnessRows(Catalogue)) /\ Cardinality(WitnessRows(Catalogue)) = Len(Poems)
    BY <2>1, <2>3, WitnessCount
  <2>5. rows[lang] = <<>> /\ report = "none"
    BY <1>1, <2>1 DEF WrittenWhole, Phases, Typing
  <2>6. Catalogue = SubSeq(Catalogue, Len(rows[lang]) + 1, Len(Catalogue))
    <3> DEFINE C == Catalogue
    <3>1. C \in Seq(Made(Corpus)) /\ Len(<<>>) = 0
      BY <2>3, CatalogueIsSequence
    <3> HIDE DEF C
    <3>2. C = SubSeq(C, 0 + 1, Len(C))
      BY <3>1
    <3>3. QED  BY <2>5, <3>1, <3>2 DEF C
  <2>7. QED  BY <1>1, <1>2, <2>1, <2>3, <2>4, <2>5, <2>6 DEF Inserting, Begun
<1>7. CASE Commit
  <2> DEFINE n == Len(rows[lang])
             m == IF TransactionSize < Len(inserter.plan) THEN TransactionSize ELSE Len(inserter.plan)
             C == Catalogue
             chunk == SubSeq(inserter.plan, 1, m)
             R == Made(Corpus)
  <2>1. /\ inserter.at = "insert" /\ inserter'.at = "insert" /\ report' = report
        /\ Acceptable(chunk) /\ rows' = [rows EXCEPT ![lang] = @ \o chunk]
        /\ bar' = bar - Cardinality(WitnessRows(chunk))
        /\ inserter'.plan = SubSeq(inserter.plan, Len(chunk) + 1, Len(inserter.plan))
    BY <1>7 DEF Commit, Chunk, Typing
  <2>2. /\ ~Conflict(Corpus) /\ errorCount = 0 /\ inserter.plan = SubSeq(C, n + 1, Len(C))
        /\ IsFiniteSet(WitnessRows(inserter.plan)) /\ bar = Cardinality(WitnessRows(inserter.plan))
    BY <2>1 DEF Inserting
  <2>3. n \in 0 .. Len(C) /\ rows[lang] = SubSeq(C, 1, n) /\ WitnessesOf(rows[lang]) \cap ledger = {}
    BY <2>1, SoFar
  <2>4. C \in Seq(R)
    BY <2>2, CatalogueIsSequence
  <2>5. lang \in Languages /\ rows'[lang] = rows[lang] \o chunk /\ \A l \in Languages \ {lang} : rows'[l] = rows[l]
    BY <2>1 DEF Typing
  <2>6. WitnessesOf(chunk) \cap ledger = {}
    BY <2>1 DEF Acceptable
  <2>7. report # "ok"
    BY <1>1, <2>1 DEF Phases, Typing
  <2>8. inserter.plan \in Seq(R) /\ Len(inserter.plan) \in Nat
    <3>1. n + 1 \in Nat \ {0} /\ Len(C) \in Nat /\ n + 1 <= Len(C) + 1
      BY <2>3, <2>4, ElementsOfSequence
    <3> HIDE DEF C, n, R
    <3>2. QED  BY <2>2, <2>4, <3>1, Part, ElementsOfSequence
  <2>9. m \in 0 .. Len(inserter.plan)
    BY <2>8, Capacities
  <2> HIDE DEF n, m, C, R
  <2> DEFINE plan == inserter.plan
  <2>10. plan = SubSeq(C, n + 1, Len(C)) /\ plan \in Seq(R) /\ m \in 0 .. Len(plan)
         /\ IsFiniteSet(WitnessRows(plan))
    BY <2>2, <2>8, <2>9
  <2> HIDE DEF plan
  <2>11. /\ n + m \in 0 .. Len(C) /\ SubSeq(plan, 1, m) \in Seq(R) /\ Len(SubSeq(plan, 1, m)) = m
         /\ SubSeq(plan, m + 1, Len(plan)) = SubSeq(C, n + m + 1, Len(C))
         /\ SubSeq(C, 1, n) \o SubSeq(plan, 1, m) = SubSeq(C, 1, n + m)
         /\ Len(SubSeq(C, 1, n + m)) = n + m
    BY <2>3, <2>4, <2>10, Advance
  <2>12. /\ Cardinality(WitnessRows(SubSeq(plan, 1, m))) \in Nat
         /\ Cardinality(WitnessRows(SubSeq(plan, m + 1, Len(plan)))) \in Nat
         /\ IsFiniteSet(WitnessRows(SubSeq(plan, m + 1, Len(plan))))
         /\ Cardinality(WitnessRows(plan)) =
              Cardinality(WitnessRows(SubSeq(plan, 1, m))) + Cardinality(WitnessRows(SubSeq(plan, m + 1, Len(plan))))
    BY <2>10, CountsAdd
  <2>13. chunk = SubSeq(plan, 1, m) /\ Len(chunk) = m
    BY <2>11 DEF plan
  <2>14. rows'[lang] = SubSeq(C, 1, n + m) /\ Len(rows'[lang]) = n + m
    BY <2>3, <2>5, <2>11, <2>13
  <2>15. /\ inserter'.plan = SubSeq(C, n + m + 1, Len(C))
         /\ inserter'.plan = SubSeq(plan, m + 1, Len(plan))
    BY <2>1, <2>11, <2>13 DEF plan
  <2>16. bar' = Cardinality(WitnessRows(inserter'.plan)) /\ IsFiniteSet(WitnessRows(inserter'.plan))
    <3>1. /\ bar = Cardinality(WitnessRows(plan))
          /\ bar' = bar - Cardinality(WitnessRows(SubSeq(plan, 1, m)))
      BY <2>1, <2>2, <2>13 DEF plan
    <3> DEFINE a == Cardinality(WitnessRows(SubSeq(plan, 1, m)))
               b == Cardinality(WitnessRows(SubSeq(plan, m + 1, Len(plan))))
    <3>2. a \in Nat /\ b \in Nat /\ bar' = bar - a /\ bar = a + b
      BY <2>12, <3>1
    <3>3. b = Cardinality(WitnessRows(inserter'.plan)) /\ IsFiniteSet(WitnessRows(inserter'.plan))
      BY <2>12, <2>15
    <3> HIDE DEF a, b
    <3>4. bar' = b
      BY <3>2
    <3>5. QED  BY <3>3, <3>4
  <2>17. WitnessesOf(rows'[lang]) \cap ledger = {}
    <3>1. rows[lang] \in Seq(R)
      <4>1. rows[lang] = SubSeq(C, 1, n) /\ n \in Nat /\ n <= Len(C) /\ Len(C) \in Nat
        BY <2>3, <2>4, ElementsOfSequence
      <4>2. QED  BY <2>4, <4>1, Part
    <3>2. chunk \in Seq(R)
      BY <2>11, <2>13
    <3> HIDE DEF chunk
    <3>3. WitnessesOf(rows'[lang]) = WitnessesOf(rows[lang]) \cup WitnessesOf(chunk)
      BY <2>5, <3>1, <3>2, WitnessesOfConcat
    <3>4. QED  BY <2>3, <2>6, <3>3
  <2>18. Begun(lang)'
    BY <1>1, <1>2, <2>2, <2>11, <2>14, <2>17 DEF Begun, C
  <2>19. \A l \in Languages : rows'[l] # <<>> => Begun(l)'
    <3>1. ASSUME NEW l \in Languages \ {lang}, rows'[l] # <<>> PROVE Begun(l)'
      BY <1>1, <1>2, <2>5, <3>1 DEF Inserting, Begun
    <3>2. QED  BY <1>1, <2>18, <3>1
  <2>20. inserter'.plan = SubSeq(Catalogue, Len(rows'[lang]) + 1, Len(Catalogue))
    BY <2>14, <2>15 DEF C
  <2>21. QED  BY <1>1, <1>2, <2>1, <2>2, <2>7, <2>16, <2>19, <2>20 DEF Inserting
<1>8. CASE RollBack
  <2>1. /\ inserter.at = "insert" /\ inserter'.at = "wait" /\ inserter'.failed = TRUE /\ bar' = 0
        /\ UNCHANGED <<rows, report>>
    BY <1>8 DEF RollBack, tables, Typing
  <2>2. report = "none"
    BY <1>1, <2>1 DEF Phases, Typing
  <2>3. QED  BY <1>1, <1>2, <2>1, <2>2 DEF Inserting, Begun
<1>9. CASE Inserted
  <2>1. /\ inserter.at = "insert" /\ inserter.plan = <<>> /\ inserter'.at = "wait"
        /\ UNCHANGED <<rows, bar, report>>
    BY <1>9 DEF Inserted, tables, Typing
  <2>2. bar = 0
    BY <2>1, NoRows DEF Inserting
  <2>3. report = "none" /\ main = "await" /\ Complete /\ ~Conflict(Corpus)
    BY <1>1, <2>1 DEF Phases, Typing, WrittenWhole, Inserting
  <2>4. rows[lang] = Catalogue
    <3> DEFINE n == Len(rows[lang])
               C == Catalogue
    <3>1. C \in Seq(Made(Corpus)) /\ n \in 0 .. Len(C) /\ rows[lang] = SubSeq(C, 1, n)
          /\ SubSeq(C, n + 1, Len(C)) = <<>>
      BY <2>1, <2>3, SoFar, CatalogueIsSequence DEF Inserting
    <3> HIDE DEF C, n
    <3>2. Len(C) \in Nat
      BY <3>1
    <3>3. Len(SubSeq(C, n + 1, Len(C))) = Len(C) - (n + 1) + 1
      BY <3>1, <3>2, Part
    <3>4. 0 = Len(C) - (n + 1) + 1
      <4>1. Len(<<>>) = 0
        OBVIOUS
      <4>2. QED  BY <3>1, <3>3, <4>1
    <3>5. n = Len(C)
      BY <3>1, <3>2, <3>4
    <3>6. SubSeq(C, 1, Len(C)) = C
      BY <3>1
    <3>7. QED  BY <3>1, <3>5, <3>6 DEF C
  <2>5. Whole(lang)
    BY <2>3, <2>4, AllProduced DEF Whole
  <2>6. Whole(lang)'
    BY <1>1, <1>2, <2>1, <2>5 DEF Whole, Index
  <2>7. QED  BY <1>1, <1>2, <2>1, <2>2, <2>3, <2>6 DEF Inserting, Begun
<1>10. CASE Report
  <2>1. /\ inserter.at = "wait" /\ inserter'.at = "idle" /\ bar' = 0 /\ rows' = rows
        /\ report' = "ok" => ~inserter.failed
    BY <1>10 DEF Report, tables, Typing
  <2>2. report' = "ok" => Whole(lang)
    BY <1>1, <2>1 DEF Inserting
  <2>3. report' = "ok" => Whole(lang)'
    BY <1>1, <1>2, <2>1, <2>2 DEF Whole, Index
  <2>4. QED  BY <1>1, <1>2, <2>1, <2>3 DEF Inserting, Begun
<1>11. QED  BY <1>3, <1>4, <1>5, <1>6, <1>7, <1>8, <1>9, <1>10 DEF InserterStep

-----------------------------------------------------------------------------
(* How a build ends, and why. *)

LEMMA WholeStays ==
  ASSUME NEW l \in Languages, loaded' = loaded, rows'[l] = rows[l], authors'[l] = authors[l], Whole(l)
  PROVE  Whole(l)'
BY DEF Whole, Catalogue, Corpus, Index

LEMMA WholeIsCounted ==
  ASSUME Typing, NEW l \in Languages, Whole(l)
  PROVE  Cardinality(WitnessRows(rows[l])) = Len(Corpus)
BY CorpusIsSequence, WitnessCount DEF Whole, Catalogue

\* An input with a record that cannot be made a product, with a locator in the ledger
\* and in the catalogue, or with two authors of one identifier, is not sound.
LEMMA Unsound ==
  ASSUME Typing
  PROVE  /\ ~Distinct(Rejections(loaded)) => ~Sound(loaded)
         /\ Locators(Corpus) \cap Locators(Rejections(loaded)) # {} => ~Sound(loaded)
         /\ (\E i \in Index : Corpus[i].fate # "good") => ~Sound(loaded)
         /\ ~Unclashing(AuthorsOf(Corpus)) => ~Sound(loaded)
<1>1. Loadable(loaded) /\ DOMAIN Corpus = Index
  BY CorpusIsSequence
<1>2. Distinct(loaded) => /\ Distinct(Rejections(loaded))
                          /\ Locators(Corpus) \cap Locators(Rejections(loaded)) = {}
  BY <1>1, PartitionFacts DEF Corpus
<1>3. Sound(loaded) => Distinct(loaded) /\ \A i \in DOMAIN Corpus : Corpus[i].fate = "good"
  BY <1>1, SoundFacts DEF Corpus
<1>4. Sound(loaded) => Unclashing(AuthorsOf(Corpus))
  BY <1>1, SoundFacts DEF Corpus, Unclashing
<1>5. QED  BY <1>1, <1>2, <1>3, <1>4

LEMMA MainEnds == ASSUME Typing, Phases, Inserting, Ended, MainStep PROVE Ended'
<1>1. CASE OpenBuild
  <2>1. /\ main = "open" /\ main' = "prewarm" /\ UNCHANGED <<loaded, lang, outcome, rows, authors>>
        /\ ledger' = Locators(Rejections(loaded)) /\ Distinct(Rejections(loaded))
    BY <1>1 DEF OpenBuild, inputs
  <2>2. outcome = "running" /\ lang = "Hans"
    BY <2>1 DEF Ended
  <2>3. QED  BY <2>1, <2>2 DEF Ended, Ledgered
<1>2. CASE OpenBuildFails \/ PrewarmFails \/ ProcessFails \/ VerifyFails \/ (Verify /\ ~Counted)
  <2>1. /\ main # "done" /\ main' = "done" /\ outcome' = "failed"
        /\ UNCHANGED <<loaded, lang, ledger, rows, authors>>
    BY <1>2 DEF OpenBuildFails, PrewarmFails, ProcessFails, Verify, VerifyFails, Finish, inputs, tables
  <2>2. lang = "Hant" => Whole("Hans")'
    BY <2>1, WholeStays DEF Ended, Languages
  <2>3. QED  BY <2>1, <2>2 DEF Ended
<1>3. CASE Prewarm
  <2>1. /\ main = "prewarm" /\ main' = "join" /\ UNCHANGED <<loaded, lang, outcome, ledger, rows>>
        /\ \A l \in Languages \ {lang} : authors'[l] = authors[l]
    BY <1>3 DEF Prewarm, StartGoroutines, inputs, Typing
  <2>2. lang = "Hant" => Whole("Hans")'
    BY <2>1, WholeStays DEF Ended, Languages
  <2>3. outcome = "running" /\ Ledgered
    BY <2>1 DEF Ended
  <2>4. QED  BY <2>1, <2>2, <2>3 DEF Ended, Ledgered
<1>4. CASE Join
  <2>1. main = "join" /\ main' = "await" /\ UNCHANGED <<loaded, lang, outcome, ledger, rows, authors>>
    BY <1>4 DEF Join, inputs, tables
  <2>2. lang = "Hant" => Whole("Hans")'
    BY <2>1, WholeStays DEF Ended, Languages
  <2>3. outcome = "running" /\ Ledgered
    BY <2>1 DEF Ended
  <2>4. QED  BY <2>1, <2>2, <2>3 DEF Ended, Ledgered
<1>5. CASE ProcessSucceeds
  <2>1. /\ main = "await" /\ main' = (IF lang = "Hans" THEN "prewarm" ELSE "verify") /\ lang' = "Hant"
        /\ report = "ok" /\ errorCount = 0 /\ lang \in Languages
        /\ UNCHANGED <<loaded, outcome, ledger, rows, authors>>
    BY <1>5 DEF ProcessSucceeds, ProcessFailed, inputs, tables, Typing
  <2>2. Whole(lang)
    BY <2>1 DEF Inserting
  <2>3. Whole("Hans")' /\ (lang = "Hant" => Whole("Hant")')
    <3>1. Whole("Hans") /\ (lang = "Hant" => Whole("Hant"))
      BY <2>1, <2>2 DEF Ended, Languages
    <3>2. QED  BY <2>1, <3>1, WholeStays DEF Languages
  <2>4. outcome = "running" /\ Ledgered
    BY <2>1 DEF Ended
  <2>5. QED  BY <2>1, <2>3, <2>4 DEF Ended, Ledgered, Languages
<1>6. CASE Verify /\ Counted
  <2>1. /\ main = "verify" /\ main' = "done" /\ outcome' = "ok"
        /\ UNCHANGED <<loaded, lang, ledger, rows, authors>>
    BY <1>6 DEF Verify, Finish, inputs, tables
  <2>2. lang = "Hant" /\ Whole("Hant") /\ Whole("Hans") /\ Ledgered
    BY <2>1 DEF Ended
  <2>3. Whole("Hant")' /\ Whole("Hans")'
    BY <2>1, <2>2, WholeStays DEF Languages
  <2>4. QED  BY <2>1, <2>2, <2>3 DEF Ended, Ledgered
<1>7. QED  BY <1>1, <1>2, <1>3, <1>4, <1>5, <1>6 DEF MainStep

LEMMA OthersEnd ==
  ASSUME Typing, Phases, Ended, Dispatch \/ CloseWork \/ (\E w \in Workers : WorkerStep(w)) \/ InserterStep
  PROVE  Ended'
<1>1. /\ UNCHANGED <<loaded, main, lang, outcome, ledger>>
      /\ \A l \in Languages \ {lang} : rows'[l] = rows[l] /\ authors'[l] = authors[l]
  <2>1. CASE Dispatch \/ CloseWork
    BY <2>1, DispatcherFrame
  <2>2. CASE \E w \in Workers : WorkerStep(w)
    BY <2>2, WorkerFrame
  <2>3. CASE InserterStep
    <3>1. \A l \in Languages \ {lang} : rows'[l] = rows[l]
      BY <2>3 DEF InserterStep, Drain, Drained, SkipInsertion, RefusePoems, PlanInsertion, Commit, RollBack,
             Inserted, Report, tables, Typing
    <3>2. QED  BY <2>3, <3>1, InserterFrame
  <2>4. QED  BY <2>1, <2>2, <2>3
<1>2. main \in {"join", "await"}
  <2>1. CASE Dispatch \/ CloseWork
    BY <2>1, GoroutinesOnlyBeforeJoin DEF Dispatch, CloseWork
  <2>2. CASE \E w \in Workers : WorkerStep(w)
    BY <2>2, GoroutinesOnlyBeforeJoin
       DEF WorkerStep, Receive, Exit, RejectRecord, FindAuthor, StoreAuthor, RefuseAuthor, WithAuthor, CacheAuthor, AuthorFails,
           FindType, TypeFails, Send
  <2>3. CASE InserterStep
    BY <2>3 DEF InserterStep, Drain, Drained, SkipInsertion, RefusePoems, PlanInsertion, Commit, RollBack,
           Inserted, Report, Typing, Phases, Quiet
  <2>4. QED  BY <2>1, <2>2, <2>3
<1>3. outcome = "running" /\ Ledgered
  BY <1>2 DEF Ended
<1>4. lang = "Hant" => Whole("Hans")'
  BY <1>1, WholeStays DEF Ended, Languages
<1>5. QED  BY <1>1, <1>2, <1>3, <1>4 DEF Ended, Ledgered

LEMMA MainBlames == ASSUME Typing, Blamed, Ended, MainStep PROVE Blamed'
<1>1. loaded' = loaded /\ (fatal => fatal')
  BY DEF MainStep, OpenBuild, OpenBuildFails, Prewarm, PrewarmFails, Join, ProcessFails, ProcessSucceeds,
         Verify, VerifyFails, Fault, inputs, history
<1>2. Cause => Cause'
  BY <1>1 DEF Cause
<1>3. CASE Prewarm
  <2>1. /\ errorCount' = 0 /\ inserter' = [NoInserter EXCEPT !.at = "drain"] /\ report' = "none"
        /\ outcome' = outcome
    BY <1>3 DEF Prewarm, StartGoroutines
  <2>2. inserter'.failed = FALSE
    BY <2>1 DEF NoInserter
  <2>3. QED  BY <1>2, <2>1, <2>2 DEF Blamed
<1>4. CASE ~Prewarm
  <2>1. UNCHANGED <<inserter, report, errorCount>>
    BY <1>4 DEF MainStep, OpenBuild, OpenBuildFails, PrewarmFails, Join, ProcessFails, ProcessSucceeds,
           Verify, VerifyFails, channels, writing
  <2>2. outcome' = "failed" => Cause'
    <3>1. CASE OpenBuild \/ Join \/ ProcessSucceeds
      BY <1>2, <3>1 DEF OpenBuild, Join, ProcessSucceeds, Blamed
    <3>2. CASE OpenBuildFails
      <4>1. ~Distinct(Rejections(loaded)) \/ fatal' = TRUE
        BY <3>2 DEF OpenBuildFails, Fault
      <4>2. QED  BY <1>1, <4>1, Unsound DEF Cause
    <3>3. CASE PrewarmFails \/ VerifyFails
      BY <3>3 DEF PrewarmFails, VerifyFails, Fault, Cause
    <3>4. CASE ProcessFails
      BY <1>2, <3>4 DEF ProcessFails, ProcessFailed, Blamed
    <3>5. CASE Verify
      <4>1. main = "verify"
        BY <3>5 DEF Verify
      <4>2. \A l \in Languages : Whole(l)
        BY <4>1 DEF Ended, Languages
      <4>3. Counted
        BY <4>2, WholeIsCounted DEF Counted
      <4>4. outcome' = "ok"
        BY <3>5, <4>3 DEF Verify, Finish
      <4>5. QED  BY <4>4
    <3>6. QED  BY <1>4, <3>1, <3>2, <3>3, <3>4, <3>5 DEF MainStep
  <2>3. QED  BY <1>2, <2>1, <2>2 DEF Blamed
<1>5. QED  BY <1>3, <1>4

LEMMA DispatcherBlames == ASSUME Blamed, Dispatch \/ CloseWork PROVE Blamed'
<1>1. UNCHANGED <<loaded, outcome, inserter, errorCount, report, fatal>>
  BY DispatcherFrame
<1>2. QED  BY <1>1 DEF Blamed, Cause

LEMMA WorkerBlames ==
  ASSUME Typing, Phases, Blamed, NEW w \in Workers, WorkerStep(w)
  PROVE  Blamed'
<1>1. UNCHANGED <<loaded, outcome, inserter, report>>
  BY WorkerFrame
<1>2. fatal => fatal'
  BY DEF WorkerStep, Receive, Exit, RejectRecord, FindAuthor, StoreAuthor, RefuseAuthor, WithAuthor, CacheAuthor, AuthorFails,
         FindType, TypeFails, Send, Fault, history
<1>3. Cause => Cause'
  BY <1>1, <1>2 DEF Cause
<1>4. errorCount' > 0 => Cause'
  <2>0. CASE RefuseAuthor(w)
    <3>1. worker[w].item \in Index
      BY <2>0, CorpusIsSequence DEF RefuseAuthor, Phases, Typing, Index
    <3>2. Item(w).author \in AuthorsOf(Corpus) /\ authors[lang] \subseteq AuthorsOf(Corpus)
      BY <3>1, CorpusIsSequence DEF Item, AuthorsOf, Typing
    <3>3. ~Unclashing(AuthorsOf(Corpus))
      BY <2>0, <3>2 DEF RefuseAuthor, Refused, Unclashing
    <3>4. QED  BY <1>1, <3>3, Unsound DEF Cause
  <2>1. CASE RejectRecord(w)
    <3>1. worker[w].item \in Index /\ Corpus[worker[w].item].fate = "broken"
      BY <2>1, CorpusIsSequence DEF RejectRecord, Item, Phases, Typing, Index
    <3>2. QED  BY <1>1, <3>1, Unsound DEF Cause
  <2>2. CASE AuthorFails(w) \/ TypeFails(w)
    BY <2>2 DEF AuthorFails, TypeFails, Fault, Cause
  <2>3. CASE ~RejectRecord(w) /\ ~RefuseAuthor(w) /\ ~AuthorFails(w) /\ ~TypeFails(w)
    <3>1. errorCount' = errorCount
      BY <2>3 DEF WorkerStep, Receive, Exit, FindAuthor, StoreAuthor, RefuseAuthor, WithAuthor, CacheAuthor, FindType, Send, channels
    <3>2. QED  BY <1>3, <3>1 DEF Blamed
  <2>4. QED  BY <2>0, <2>1, <2>2, <2>3
<1>5. QED  BY <1>1, <1>3, <1>4 DEF Blamed

\* Of what is in a chunk, the authors are there; a witness of it in the ledger is one
\* record too many.
LEMMA UnacceptableChunk ==
  ASSUME Typing, Phases, WrittenWhole, Produced, Inserting, Ended, inserter.at = "insert", ~Acceptable(Chunk)
  PROVE  ~Sound(loaded)
<1>1. main = "await" /\ Complete /\ ~Conflict(Corpus)
  BY DEF Phases, Quiet, Typing, WrittenWhole, Inserting
<1>2. Ledgered
  BY <1>1 DEF Ended
<1>3. Chunk \in Seq(Made(Corpus))
  <2> DEFINE n == Len(rows[lang])
             m == IF TransactionSize < Len(inserter.plan) THEN TransactionSize ELSE Len(inserter.plan)
             C == Catalogue
             R == Made(Corpus)
  <2>1. C \in Seq(R) /\ n \in 0 .. Len(C) /\ inserter.plan = SubSeq(C, n + 1, Len(C))
    BY <1>1, SoFar, CatalogueIsSequence DEF Inserting
  <2>2. inserter.plan \in Seq(R) /\ Len(inserter.plan) \in Nat
    <3>1. n + 1 \in Nat \ {0} /\ Len(C) \in Nat /\ n + 1 <= Len(C) + 1
      BY <2>1, ElementsOfSequence
    <3> HIDE DEF C, n, R
    <3>2. QED  BY <2>1, <3>1, Part, ElementsOfSequence
  <2>3. m \in Nat /\ m <= Len(inserter.plan)
    BY <2>2, Capacities
  <2>4. Chunk = SubSeq(inserter.plan, 1, m)
    BY DEF Chunk
  <2> HIDE DEF m, R
  <2>5. SubSeq(inserter.plan, 1, m) \in Seq(R)
    BY <2>2, <2>3, Part
  <2>6. QED  BY <2>4, <2>5 DEF R
<1>4. WitnessesOf(Chunk) \subseteq Locators(Corpus) /\ AuthorsOf(Chunk) \subseteq AuthorsOf(Corpus)
  <2> DEFINE part == Chunk
  <2>1. part \in Seq(Made(Corpus)) /\ Loadable(Corpus)
    BY <1>3, CorpusIsSequence
  <2> HIDE DEF part
  <2>2. WitnessesOf(part) \subseteq Locators(Corpus) /\ AuthorsOf(part) \subseteq AuthorsOf(Corpus)
    BY <2>1, PartFacts
  <2>3. QED  BY <2>2 DEF part
<1>5. authors[lang] = AuthorsOf(Corpus)
  BY <1>1, AllProduced
<1>6. WitnessesOf(Chunk) \cap ledger # {}
  BY <1>4, <1>5 DEF Acceptable
<1>7. QED  BY <1>2, <1>4, <1>6, Unsound DEF Ledgered

LEMMA InserterBlames ==
  ASSUME Typing, Phases, Conserved, WrittenWhole, Once, Produced, Inserting, Ended, Blamed, InserterStep
  PROVE  Blamed'
<1>1. UNCHANGED <<loaded, main, outcome, errorCount>>
  BY InserterFrame
<1>2. fatal => fatal'
  BY DEF InserterStep, Drain, Drained, SkipInsertion, RefusePoems, PlanInsertion, Commit, RollBack,
         Inserted, Report, Fault, history
<1>3. Cause => Cause'
  BY <1>1, <1>2 DEF Cause
<1>4. inserter'.failed => Cause'
  <2>1. CASE RefusePoems
    <3>1. inserter.at = "prepare" /\ errorCount = 0 /\ Conflict(Poems)
      BY <2>1 DEF RefusePoems, NothingToInsert, Typing
    <3>2. Complete /\ main = "await"
      BY <3>1, AllWithInserter DEF Phases, Quiet, Typing
    <3>3. NoRepeat(inserter.poems)
      BY <3>2 DEF Once
    <3>4. ~Sound(loaded)
      BY <3>1, <3>2, <3>3, PoemsAreCorpus
    <3>5. QED  BY <1>1, <3>4 DEF Cause
  <2>2. CASE RollBack
    <3>1. inserter.at = "insert" /\ (~Acceptable(Chunk) \/ fatal' = TRUE)
      BY <2>2 DEF RollBack, Fault
    <3>2. QED  BY <1>1, <3>1, UnacceptableChunk DEF Cause
  <2>3. CASE ~RefusePoems /\ ~RollBack
    <3>1. inserter'.failed = inserter.failed
      BY <2>3 DEF InserterStep, Drain, Drained, SkipInsertion, PlanInsertion, Commit, Inserted, Report, Typing
    <3>2. QED  BY <1>3, <3>1 DEF Blamed
  <2>4. QED  BY <2>1, <2>2, <2>3
<1>5. report' = "failed" => report = "failed" \/ inserter.failed
  BY DEF InserterStep, Drain, Drained, SkipInsertion, RefusePoems, PlanInsertion, Commit, RollBack,
         Inserted, Report
<1>6. QED  BY <1>1, <1>3, <1>4, <1>5 DEF Blamed

-----------------------------------------------------------------------------
(* The invariant and what follows from it. *)

LEMMA InitFlow == Init => Flow
<1> SUFFICES ASSUME Init PROVE Flow
  OBVIOUS
<1>1. Len(Corpus) \in Nat
  <2>1. Loadable(Corpus)
    BY PipelineAssumption, PartitionFacts DEF Init, Corpus
  <2>2. QED  BY <2>1, ElementsOfSequence DEF Loadable
<1>2. Typing
  <2>1. /\ loaded \in Corpora /\ lang \in Languages /\ main = "open"
        /\ next \in 1 .. Len(Corpus) + 1 /\ errorCount \in Nat /\ report = "none"
        /\ cached \subseteq AuthorsOf(Corpus)
    BY <1>1 DEF Init, Languages
  <2>2. work \in [items : Seq(Index), open : BOOLEAN] /\ results \in [items : Seq(Index), open : BOOLEAN]
    BY DEF Init, Closed
  <2>3. worker \in [Workers -> [at : Places, item : 0 .. Len(Corpus)]]
    BY <1>1 DEF Init, Nobody, Places
  <2>4. inserter = [at |-> "idle", poems |-> <<>>, plan |-> <<>>, failed |-> FALSE]
    BY DEF Init, NoInserter
  <2>5. authors \in [Languages -> SUBSET AuthorsOf(Corpus)] /\ rows = [l \in Languages |-> rows[l]]
    BY DEF Init
  <2> QED BY <2>1, <2>2, <2>3, <2>4, <2>5 DEF Typing
<1>3. Phases
  BY DEF Init, Phases, Quiet, Exited, Closed, Nobody, NoInserter
<1>4. Conserved /\ WrittenWhole /\ CacheSound
  BY DEF Init, Conserved, WrittenWhole, CacheSound, Unclashing, Languages, Nobody, NoInserter
<1> QED BY <1>2, <1>3, <1>4 DEF Flow

LEMMA NextFlow == Flow /\ [Next]_vars => Flow'
<1> SUFFICES ASSUME Flow, [Next]_vars PROVE Flow'
  OBVIOUS
<1> USE DEF Flow
<1>1. CASE MainStep
  BY <1>1, MainTypes, MainPhases, MainConserves, MainWrites, MainCaches
<1>2. CASE Dispatch \/ CloseWork
  BY <1>2, DispatcherTypes, DispatcherPhases, DispatcherConserves, OthersWrite, OthersCache
<1>3. CASE \E w \in Workers : WorkerStep(w)
  BY <1>3, WorkerTypes, WorkerPhases, WorkerConserves, OthersWrite, WorkerCaches
<1>4. CASE InserterStep
  BY <1>4, InserterTypes, InserterPhases, InserterConserves, InserterWrites, OthersCache
<1>5. CASE UNCHANGED vars
  BY <1>5 DEF vars, inputs, tables, history, control, channels, writing, Typing, Phases, Quiet, Exited,
     Conserved, Placed, WrittenWhole, Complete, CacheSound, Item, Corpus, Index
<1> QED BY <1>1, <1>2, <1>3, <1>4, <1>5 DEF Next, Finished

LEMMA InitInv == Init => Inv
<1> SUFFICES ASSUME Init PROVE Inv
  OBVIOUS
<1>1. Flow
  BY InitFlow
<1>2. Bounds
  <2>1. Len(<<>>) = 0 /\ work.items = <<>> /\ results.items = <<>>
    BY DEF Init, Closed
  <2>2. errors \in 0 .. ErrorBuffer /\ faults \in 0 .. MaxFaults /\ Len(work.items) <= WorkBuffer
        /\ Len(results.items) <= ResultBuffer
    BY <2>1, Capacities DEF Init
  <2>3. fatal = FALSE /\ ledger = {} /\ outcome = "running" /\ inserter.failed = FALSE
    BY DEF Init, NoInserter
  <2>4. QED  BY <2>2, <2>3 DEF Bounds
<1>3. Once /\ Produced
  BY DEF Init, Once, Produced
<1>4. Inserting /\ Blamed
  BY DEF Init, NoInserter, Inserting, Blamed
<1>5. Ended
  BY DEF Init, Ended, Languages
<1>6. QED  BY <1>1, <1>2, <1>3, <1>4, <1>5 DEF Inv

LEMMA NextInv == Inv /\ [Next]_vars => Inv'
<1> SUFFICES ASSUME Inv, [Next]_vars PROVE Inv'
  OBVIOUS
<1>1. Flow'
  BY NextFlow DEF Inv
<1>2. Typing /\ Phases /\ Conserved /\ WrittenWhole /\ CacheSound
  BY DEF Inv, Flow
<1> USE DEF Inv
<1>3. CASE MainStep
  BY <1>1, <1>2, <1>3, MainBounds, MainOnce, MainProduces, MainInserts, MainBlames, MainEnds
<1>4. CASE Dispatch \/ CloseWork
  BY <1>1, <1>2, <1>4, DispatcherBounds, DispatcherOnce, OthersProduce, OthersInsert, DispatcherBlames,
     OthersEnd
<1>5. CASE \E w \in Workers : WorkerStep(w)
  BY <1>1, <1>2, <1>5, WorkerBounds, WorkerOnce, WorkerProduces, OthersInsert, WorkerBlames, OthersEnd
<1>6. CASE InserterStep
  BY <1>1, <1>2, <1>6, InserterBounds, InserterOnce, OthersProduce, InserterInserts, InserterBlames, OthersEnd
<1>7. CASE UNCHANGED vars
  <2>1. UNCHANGED <<loaded, lang, main, outcome, next, work, worker, results, errors, errorCount, inserter,
                    bar, report, cached, ledger, authors, rows, faults, fatal>>
    BY <1>7 DEF vars, inputs, tables, history, control, channels, writing
  <2>2. Bounds' /\ Once'
    BY <2>1 DEF Bounds, Once, Received, Delivered
  <2>3. Produced'
    BY <2>1 DEF Produced, Delivered, Stored, Item, Corpus
  <2>4. Inserting' /\ Ended'
    BY <2>1 DEF Inserting, Ended, Ledgered, Begun, Whole, Catalogue, Corpus, Index
  <2>5. Blamed'
    BY <2>1 DEF Blamed, Cause
  <2>6. QED  BY <1>1, <2>2, <2>3, <2>4, <2>5
<1>8. QED  BY <1>3, <1>4, <1>5, <1>6, <1>7 DEF Next, Finished

\* The goroutines of a build keep to their phases, every dispatched record is
\* somewhere, once, until an error is counted, and what is written is the
\* beginning of the catalogue: what the theorems below follow from.
THEOREM InvariantHolds == Spec => []Inv
BY InitInv, NextInv, PTL DEF Spec

-----------------------------------------------------------------------------
(* What the invariant says of each state. *)

LEMMA InvTypes == Inv => TypeOK
<1> SUFFICES ASSUME Inv PROVE TypeOK
  OBVIOUS
<1>1. Typing /\ Bounds /\ Inserting
  BY DEF Inv, Flow
<1>2. bar \in Nat
  <2>1. CASE inserter.at = "insert"
    <3> DEFINE W == WitnessRows(inserter.plan)
    <3>1. IsFiniteSet(W) /\ bar = Cardinality(W)
      BY <1>1, <2>1 DEF Inserting
    <3> HIDE DEF W
    <3>2. QED  BY <3>1, FS_CardinalityType
  <2>2. CASE inserter.at # "insert"
    BY <1>1, <2>2 DEF Inserting
  <2>3. QED  BY <2>1, <2>2
<1>3. DOMAIN rows = Languages
  BY <1>1 DEF Typing
<1>4. QED  BY <1>1, <1>2, <1>3 DEF Typing, Bounds, TypeOK, Index

LEMMA InvCloses == Inv => ClosedAfterWorkers
BY DEF Inv, Flow, Typing, Phases, Quiet, ClosedAfterWorkers

LEMMA InvWrites == Inv => NoPartialProduct
BY DEF Inv, Flow, WrittenWhole, Complete, Index, NoPartialProduct

LEMMA InvCaches == Inv => CachedAuthorsStored
BY DEF Inv, Flow, CacheSound, CachedAuthorsStored

LEMMA InvBegins == Inv => RowsBeginCatalog
<1> SUFFICES ASSUME Inv, NEW l \in Languages PROVE BeginsCatalog(rows[l], Corpus)
  BY DEF RowsBeginCatalog
<1>1. Typing /\ Inserting
  BY DEF Inv, Flow
<1>2. CASE rows[l] = <<>>
  <2>1. DOMAIN rows[l] = {}
    BY <1>2
  <2>2. QED  BY <2>1 DEF BeginsCatalog
<1>3. CASE rows[l] # <<>>
  <2>1. Begun(l)
    BY <1>1, <1>3 DEF Inserting
  <2>2. Loadable(Corpus) /\ Consistent(Corpus) /\ Len(rows[l]) \in 0 .. Len(Prepared(Corpus))
        /\ rows[l] = SubSeq(Prepared(Corpus), 1, Len(rows[l]))
    BY <1>1, <2>1, CatalogueIsSequence DEF Begun, Catalogue
  <2> DEFINE n == Len(rows[l])
  <2>3. n \in 0 .. Len(Prepared(Corpus)) /\ rows[l] = SubSeq(Prepared(Corpus), 1, n)
    BY <2>2
  <2> HIDE DEF n
  <2>4. QED  BY <2>2, <2>3, PrefixBegins
<1>4. QED  BY <1>2, <1>3

LEMMA InvSucceeds == Inv => SuccessIsComplete
<1> SUFFICES ASSUME Inv, outcome = "ok" PROVE SuccessIsComplete
  BY DEF SuccessIsComplete
<1>1. Typing /\ Inserting /\ Ended
  BY DEF Inv, Flow
<1>2. Whole("Hans") /\ Whole("Hant") /\ Ledgered
  BY <1>1 DEF Ended
<1>3. /\ Loadable(Corpus) /\ Consistent(Corpus) /\ Distinct(Corpus) /\ DOMAIN Corpus = Index
      /\ \A i \in Index : Corpus[i].fate = "good"
  BY <1>1, <1>2, CorpusIsSequence, ConflictFree DEF Whole
<1>4. /\ rows["Hans"] = rows["Hant"] /\ rows["Hans"] = Prepared(Corpus)
      /\ WitnessesOf(rows["Hans"]) = Locators(Corpus)
  BY <1>2, <1>3, CatalogIsComplete DEF Whole, Catalogue
<1>5. Locators(Corpus) \cap ledger = {}
  <2>1. CASE rows["Hans"] = <<>>
    BY <1>4, <2>1 DEF WitnessesOf
  <2>2. CASE rows["Hans"] # <<>>
    BY <1>1, <1>4, <2>2 DEF Inserting, Begun, Languages
  <2>3. QED  BY <2>1, <2>2
<1>6. Loadable(loaded)
  BY <1>1, CorpusIsSequence
<1>7. Locators(loaded) = Locators(Corpus) \cup ledger /\ Distinct(loaded)
  BY <1>2, <1>3, <1>5, <1>6, PartitionFacts DEF Ledgered, Corpus
<1>8. Sound(loaded)
  <2>1. \A a, b \in AuthorsOf(Corpus) : ~Clash(a, b)
    BY <1>2 DEF Inv, Flow, CacheSound, Unclashing, Whole, Languages
  <2>2. QED  BY <1>3, <1>6, <1>7, <2>1, SoundFacts DEF Corpus
<1>9. ledger = Locators(loaded) \ Locators(Corpus)
  BY <1>5, <1>7
<1>10. QED  BY <1>4, <1>8, <1>9 DEF SuccessIsComplete

LEMMA InvBlames == Inv => FailsOnlyForCause
BY DEF Inv, Blamed, Cause, FailsOnlyForCause

\* Every channel, queue and counter of a build stays within its capacity and its
\* type, the progress bar that the inserter waits for included: its witnesses are
\* counted down to zero and not below.
THEOREM TypeCorrect == Spec => []TypeOK
BY InvariantHolds, InvTypes, PTL

\* No worker ever sends on a closed result channel, and nothing runs on after
\* the build has its outcome (Process, pipeline.go:337-349).
THEOREM ChannelClosedAfterWorkers == Spec => []ClosedAfterWorkers
BY InvariantHolds, InvCloses, PTL

\* However many workers there are and whichever records fail, a language gets
\* its first row only when every accepted record is a product with the inserter.
THEOREM NothingPartialIsWritten == Spec => []NoPartialProduct
BY InvariantHolds, InvWrites, PTL

\* What the author cache answers is stored, whichever calls failed and however
\* the workers' checks and fills interleave.
THEOREM CacheAnswersStoredAuthors == Spec => []CachedAuthorsStored
BY InvariantHolds, InvCaches, PTL

\* The rows of a language are at every moment the first ones of the catalogue of the
\* input, whichever worker finished first and wherever the transactions end.
THEOREM RowsAlwaysBeginCatalog == Spec => []RowsBeginCatalog
BY InvariantHolds, InvBegins, PTL

\* A build succeeds only on a sound input, and then every loaded record is a witness
\* in both languages or a locator of the ledger.
THEOREM SuccessNeedsEveryRecord == Spec => []SuccessIsComplete
BY InvariantHolds, InvSucceeds, PTL

\* A build of a sound input in which no database call failed for good does not fail:
\* the preflight, the foreign keys, the ledger's check and the final count refuse
\* nothing that can be published.
THEOREM FailureHasCause == Spec => []FailsOnlyForCause
BY InvariantHolds, InvBlames, PTL

-----------------------------------------------------------------------------
(* The asset. *)

\* What the files and the traits of the database are before each step.
Clean(k) ==
  CASE k \in 0 .. 1 -> Written
    [] k = 2 -> {Segments(l) : l \in Languages} \cup {MetadataClock, Cookie, Counters}
    [] k = 3 -> {Segments(l) : l \in Languages} \cup {Cookie, Counters}
    [] k = 4 -> {Cookie, Counters}
    [] k = 5 -> {Samples, Order, Cookie, Counters}
    [] k = 6 -> {Cookie, Counters}
    [] k \in 7 .. 12 -> {Counters}
    [] OTHER -> {}

Present(k) ==
  CASE k = 0 -> {{}}
    [] k \in 1 .. 8 -> {Staged}
    [] k \in 9 .. 10 -> {Staged \cup {"snapshot"}}
    [] k = 11 -> {Staged \cup {"snapshot"}, {"db", "snapshot"}}
    [] k = 12 -> {{"db", "snapshot"}}
    [] OTHER -> {{"db"}}

Stepping ==
  /\ step \in 0 .. 14
  /\ returned \in {"no", "asset", "error"}
  /\ traits = [db |-> traits.db, snapshot |-> traits.snapshot]
  /\ outcome # "ok" => step \in 0 .. 1 /\ returned # "asset"
  /\ outcome = "running" => returned = "no"
  /\ step = 0 => main = "open" \/ outcome # "running"
  /\ step = 0 /\ returned = "no" => outcome = "running"
  /\ step = 0 => outcome # "ok"
  /\ returned = "asset" => step = 14 /\ files = {"db"}
  /\ returned = "error" => files \subseteq stuck \cup Unattended
  /\ returned = "no" => files \in Present(step)
  /\ stuck # {} => faults > 0
  /\ traits.db \subseteq Clean(step)
  /\ step \in 9 .. 14 => traits.snapshot = {}

LEMMA StepNames ==
  /\ Len(Steps) = 13 /\ DOMAIN Steps = 1 .. 13
  /\ Steps[1] = "timestamps" /\ Steps[2] = "metadata" /\ Steps[3] = "rebuild" /\ Steps[4] = "analyze"
  /\ Steps[5] = "statistics" /\ Steps[6] = "cookie" /\ Steps[7] = "reserve" /\ Steps[8] = "vacuum"
  /\ Steps[9] = "check" /\ Steps[10] = "close" /\ Steps[11] = "sidecars" /\ Steps[12] = "install"
  /\ Steps[13] = "sync"
BY DEF Steps

LEMMA StepPlaces ==
  ASSUME step \in 0 .. 14
  PROVE  /\ At("timestamps") => step = 1
         /\ At("metadata") => step = 2
         /\ At("rebuild") => step = 3
         /\ At("analyze") => step = 4
         /\ At("statistics") => step = 5
         /\ At("cookie") => step = 6
         /\ At("reserve") => step = 7
         /\ At("vacuum") => step = 8
         /\ At("check") => step = 9
         /\ At("close") => step = 10
         /\ At("sidecars") => step = 11
         /\ At("install") => step = 12
         /\ At("sync") => step = 13
<1>1. step <= Len(Steps) => step \in {0, 1, 2, 3, 4, 5, 6, 7, 8, 9, 10, 11, 12, 13}
  BY StepNames
<1>2. QED  BY <1>1, StepNames DEF At

LEMMA AssetInitStepping == AssetInit => Stepping
BY DEF AssetInit, Init, Stepping, Present, Clean

\* A build that has its outcome keeps it.
LEMMA OutcomeStays == ASSUME Inv, Next, outcome # "running" PROVE outcome' = outcome
<1>1. main = "done"
  BY DEF Inv, Ended
<1>2. ~MainStep
  BY <1>1 DEF MainStep, OpenBuild, OpenBuildFails, Prewarm, PrewarmFails, Join, ProcessFails,
     ProcessSucceeds, Verify, VerifyFails
<1>3. CASE Dispatch \/ CloseWork
  BY <1>3, DispatcherFrame
<1>4. CASE \E w \in Workers : WorkerStep(w)
  BY <1>4, WorkerFrame DEF Inv, Flow
<1>5. CASE InserterStep
  BY <1>5, InserterFrame
<1>6. CASE UNCHANGED vars
  BY <1>6 DEF vars, control
<1>7. QED  BY <1>2, <1>3, <1>4, <1>5, <1>6 DEF Next, Finished

\* A build knows nothing of the calls that fail in its finish.
LEMMA FaultsKeep ==
  ASSUME Inv, faults' \in faults .. MaxFaults, fatal' \in {fatal, TRUE},
         UNCHANGED <<loaded, lang, main, outcome, next, work, worker, results, errors, errorCount, inserter,
                     bar, report, cached, ledger, authors, rows>>
  PROVE  Inv'
<1>1. Typing' /\ Phases' /\ Conserved' /\ WrittenWhole' /\ CacheSound'
  BY DEF Inv, Flow, Typing, Phases, Quiet, Exited, Conserved, Placed, WrittenWhole, Complete, CacheSound,
     Item, Corpus, Index
<1>2. Bounds'
  <2>1. faults' \in 0 .. MaxFaults
    BY Capacities DEF Inv, Bounds
  <2>2. fatal' \in BOOLEAN
    BY DEF Inv, Bounds
  <2>3. QED  BY <2>1, <2>2 DEF Inv, Bounds
<1>3. Once' /\ Produced'
  BY DEF Inv, Once, Received, Produced, Delivered, Stored, Item, Corpus
<1>4. Inserting' /\ Ended'
  BY DEF Inv, Inserting, Ended, Ledgered, Begun, Whole, Catalogue, Corpus, Index
<1>5. Blamed'
  BY DEF Inv, Blamed, Cause
<1>6. QED  BY <1>1, <1>2, <1>3, <1>4, <1>5 DEF Inv, Flow

\* A removal that fails is one call more that failed.
LEMMA RemovalsCount ==
  ASSUME NEW made, NEW n \in Nat, ReturnError(made, n), faults \in 0 .. MaxFaults
  PROVE  /\ faults' \in faults .. MaxFaults /\ (n > 0 \/ stuck' # {} => faults' > 0)
         /\ stuck' \subseteq (files \cup made) \cap Deferred
         /\ files' = ((files \cup made) \ Deferred) \cup stuck'
         /\ returned' = "error"
         /\ UNCHANGED <<loaded, lang, main, outcome, next, work, worker, results, errors, errorCount, inserter,
                        bar, report, cached, ledger, authors, rows, step, traits>>
<1>1. PICK failing \in SUBSET ((files \cup made) \cap Deferred) :
        /\ faults + n + Cardinality(failing) <= MaxFaults
        /\ faults' = faults + n + Cardinality(failing)
        /\ files' = ((files \cup made) \ Deferred) \cup failing
        /\ stuck' = failing
        /\ returned' = "error"
        /\ UNCHANGED <<inputs, tables, control, channels, writing, worker, cached, step, traits>>
  BY DEF ReturnError
<1>2. IsFiniteSet({"db", "wal", "shm", "snapshot"})
  <2>1. IsFiniteSet({"db"}) /\ IsFiniteSet({"wal"}) /\ IsFiniteSet({"shm"}) /\ IsFiniteSet({"snapshot"})
    BY FS_Singleton
  <2>2. IsFiniteSet({"db"} \cup {"wal"}) /\ IsFiniteSet({"shm"} \cup {"snapshot"})
    BY <2>1, FS_Union
  <2>3. IsFiniteSet(({"db"} \cup {"wal"}) \cup ({"shm"} \cup {"snapshot"}))
    BY <2>2, FS_Union
  <2>4. ({"db"} \cup {"wal"}) \cup ({"shm"} \cup {"snapshot"}) = {"db", "wal", "shm", "snapshot"}
    OBVIOUS
  <2>5. QED  BY <2>3, <2>4
<1>3. failing \subseteq {"db", "wal", "shm", "snapshot"}
  BY DEF Deferred, Staged
<1>4. IsFiniteSet(failing)
  BY <1>2, <1>3, FS_Subset
<1>5. Cardinality(failing) \in Nat /\ (failing # {} => Cardinality(failing) # 0)
  BY <1>4, FS_CardinalityType, FS_EmptySet
<1>6. faults' \in faults .. MaxFaults /\ (n > 0 \/ failing # {} => faults' > 0)
  BY <1>1, <1>5, Capacities
<1>7. QED  BY <1>1, <1>6 DEF inputs, tables, control, channels, writing

\* The steps in which a build returns an error.
Erring == ReturnRowsError \/ RefuseStatistics \/ RefuseSnapshot \/ StepFails \/ NameStaysTaken

\* What they have made, and how many calls failed before the removals.
LEMMA Errors ==
  ASSUME Erring
  PROVE  \E made \in SUBSET (Beside \cup {"snapshot"}), n \in 0 .. 1 :
           /\ ReturnError(made, n) /\ fatal' \in {fatal, TRUE}
           /\ (\E f \in made : f \in Beside) => At("check")
           /\ "snapshot" \in made => At("reserve") \/ At("vacuum")
<1>1. {} \in SUBSET (Beside \cup {"snapshot"}) /\ {"snapshot"} \in SUBSET (Beside \cup {"snapshot"})
      /\ 0 \in 0 .. 1 /\ 1 \in 0 .. 1 /\ "snapshot" \notin Beside
  BY DEF Beside
<1>2. CASE ReturnRowsError \/ RefuseStatistics
  <2>1. ReturnError({}, 0) /\ fatal' = fatal
    BY <1>2 DEF ReturnRowsError, RefuseStatistics
  <2>2. QED  BY <1>1, <2>1, Zenon
<1>3. CASE RefuseSnapshot
  <2>1. PICK beside \in SUBSET Beside : ReturnError(beside, 0) /\ fatal' = fatal /\ At("check")
    BY <1>3 DEF RefuseSnapshot
  <2>2. beside \in SUBSET (Beside \cup {"snapshot"}) /\ "snapshot" \notin beside
    BY <1>1
  <2>3. QED  BY <1>1, <2>1, <2>2, Zenon
<1>4. CASE StepFails
  <2>1. PICK half \in SUBSET (IF At("check") THEN Beside ELSE {f \in {"snapshot"} : At("reserve") \/ At("vacuum")}) :
          ReturnError(half, 1) /\ fatal' = TRUE
    BY <1>4, Zenon DEF StepFails
  <2>2. half \in SUBSET (Beside \cup {"snapshot"}) /\ ("snapshot" \in half => At("reserve") \/ At("vacuum"))
        /\ ((\E f \in half : f \in Beside) => At("check"))
    <3> HIDE DEF At
    <3>1. CASE At("check")
      BY <1>1, <3>1
    <3>2. CASE ~At("check")
      BY <1>1, <3>2
    <3>3. QED  BY <3>1, <3>2
  <2>3. QED  BY <1>1, <2>1, <2>2, Zenon
<1>5. CASE NameStaysTaken
  <2>1. ReturnError({"snapshot"}, 0) /\ fatal' = TRUE /\ At("reserve")
    BY <1>5 DEF NameStaysTaken
  <2>2. ~(\E f \in {"snapshot"} : f \in Beside)
    BY <1>1
  <2>3. QED  BY <1>1, <2>1, <2>2, Zenon
<1>6. QED  BY <1>2, <1>3, <1>4, <1>5 DEF Erring

LEMMA AssetNextInv == Inv /\ [AssetNext]_allVars => Inv'
<1>1. ASSUME Inv, FinishStep, ~Erring, ~StageFails PROVE UNCHANGED vars
  BY <1>1 DEF FinishStep, StageDatabase, NormalizeTimestamps, NormalizeMetadata, RebuildIndexes, Analyze,
     NormalizeStatistics, NormalizeCookie, ReserveName, Vacuum, CheckSnapshot, CloseDatabase, RemoveSidecars,
     InstallSnapshot, SyncDirectory, ReturnAsset, Erring, Becomes, Proceed
<1>2. ASSUME Inv, Erring PROVE Inv'
  <2>1. PICK made \in SUBSET (Beside \cup {"snapshot"}), n \in 0 .. 1 :
          ReturnError(made, n) /\ fatal' \in {fatal, TRUE}
    BY <1>2, Errors
  <2>2. faults \in 0 .. MaxFaults
    BY <1>2 DEF Inv, Bounds
  <2>3. n \in Nat
    OBVIOUS
  <2>4. /\ faults' \in faults .. MaxFaults
        /\ UNCHANGED <<loaded, lang, main, outcome, next, work, worker, results, errors, errorCount, inserter,
                       bar, report, cached, ledger, authors, rows>>
    BY <2>1, <2>2, <2>3, RemovalsCount
  <2>5. QED  BY <1>2, <2>1, <2>4, FaultsKeep
<1>3. StageFails => OpenBuildFails
  BY DEF StageFails, OpenBuildFails
<1>4. QED  BY <1>1, <1>2, <1>3, NextInv DEF AssetNext, BuildStep, allVars, Next, MainStep

\* What each step of the finish finds and leaves.
LEMMA FinishSteps == ASSUME Stepping, Inv, FinishStep PROVE Stepping'
<1>1. /\ step \in 0 .. 14 /\ traits = [db |-> traits.db, snapshot |-> traits.snapshot]
      /\ returned = "no" => files \in Present(step)
      /\ traits.db \subseteq Clean(step) /\ (step \in 9 .. 14 => traits.snapshot = {})
      /\ outcome # "ok" => step \in 0 .. 1
      /\ stuck # {} => faults > 0
  BY DEF Stepping
<1>2. ASSUME NEW k \in 1 .. 13, NEW t, NEW s, step = k, returned = "no", outcome = "ok", step' = k + 1,
             returned' = returned, outcome' = outcome, stuck' = stuck, faults' = faults,
             traits' = [db |-> t, snapshot |-> s],
             t \subseteq Clean(k + 1), files' \in Present(k + 1),
             k + 1 \in 9 .. 14 => s = {}
      PROVE  Stepping'
  BY <1>1, <1>2 DEF Stepping
<1>3. CASE NormalizeTimestamps
  <2>1. step = 1 /\ returned = "no" /\ outcome = "ok"
    BY <1>1, <1>3, StepPlaces DEF NormalizeTimestamps, At
  <2> DEFINE t == (traits.db \ ({LedgerClock} \cup UNION {Clock(l) : l \in Languages})) \cup {Segments(l) : l \in Languages}
  <2>2. t \subseteq Clean(2)
    <3>1. traits.db \subseteq (UNION {Clock(l) \cup {Segments(l)} : l \in Languages})
                           \cup {LedgerClock, MetadataClock, Cookie, Counters}
      BY <1>1, <2>1 DEF Clean, Written
    <3>2. Clean(2) = {Segments(l) : l \in Languages} \cup {MetadataClock, Cookie, Counters}
      BY DEF Clean
    <3>3. ASSUME NEW e \in t, e \notin {Segments(l) : l \in Languages}
          PROVE  e \in {MetadataClock, Cookie, Counters}
      <4>1. e \in traits.db /\ e # LedgerClock /\ \A l \in Languages : e \notin Clock(l) /\ e # Segments(l)
        BY <3>3
      <4>2. QED  BY <3>1, <4>1
    <3>4. QED  BY <3>2, <3>3
  <2>3. /\ step' = 2 /\ returned' = returned /\ outcome' = outcome /\ files' = files
        /\ stuck' = stuck /\ faults' = faults /\ traits' = [db |-> t, snapshot |-> traits.snapshot]
    <3>1. Becomes(t)
      BY <1>3 DEF NormalizeTimestamps
    <3> HIDE DEF t
    <3>2. QED  BY <1>1, <2>1, <3>1 DEF Becomes, Proceed, vars, control, history
  <2> HIDE DEF t
  <2>4. files' \in Present(2)
    BY <1>1, <2>1, <2>3 DEF Present
  <2>5. QED  BY <1>2, <2>1, <2>2, <2>3, <2>4
<1>4. CASE NormalizeMetadata
  <2>1. step = 2 /\ returned = "no" /\ outcome = "ok"
    BY <1>1, <1>4, StepPlaces DEF NormalizeMetadata, At
  <2> DEFINE t == traits.db \ {MetadataClock}
  <2>2. t \subseteq Clean(3)
    BY <1>1, <2>1 DEF Clean
  <2>3. /\ step' = 3 /\ returned' = returned /\ outcome' = outcome /\ files' = files
        /\ stuck' = stuck /\ faults' = faults /\ traits' = [db |-> t, snapshot |-> traits.snapshot]
    BY <1>1, <1>4, <2>1 DEF NormalizeMetadata, Becomes, Proceed, vars, control, history
  <2> HIDE DEF t
  <2>4. files' \in Present(3)
    BY <1>1, <2>1, <2>3 DEF Present
  <2>5. QED  BY <1>2, <2>1, <2>2, <2>3, <2>4
<1>5. CASE RebuildIndexes
  <2>1. step = 3 /\ returned = "no" /\ outcome = "ok"
    BY <1>1, <1>5, StepPlaces DEF RebuildIndexes, At
  <2> DEFINE t == traits.db \ {Segments(l) : l \in Languages}
  <2>2. t \subseteq Clean(4)
    BY <1>1, <2>1 DEF Clean
  <2>3. /\ step' = 4 /\ returned' = returned /\ outcome' = outcome /\ files' = files
        /\ stuck' = stuck /\ faults' = faults /\ traits' = [db |-> t, snapshot |-> traits.snapshot]
    BY <1>1, <1>5, <2>1 DEF RebuildIndexes, Becomes, Proceed, vars, control, history
  <2> HIDE DEF t
  <2>4. files' \in Present(4)
    BY <1>1, <2>1, <2>3 DEF Present
  <2>5. QED  BY <1>2, <2>1, <2>2, <2>3, <2>4
<1>6. CASE Analyze
  <2>1. step = 4 /\ returned = "no" /\ outcome = "ok"
    BY <1>1, <1>6, StepPlaces DEF Analyze, At
  <2>2. \A l \in Languages : Segments(l) \notin traits.db
    BY <1>1, <2>1 DEF Clean, Segments, Cookie, Counters
  <2>3. PICK t : /\ t \subseteq traits.db \cup {Samples, Order, Cookie}
                 /\ step' = 5 /\ returned' = returned /\ outcome' = outcome /\ files' = files
                 /\ stuck' = stuck /\ faults' = faults /\ traits' = [db |-> t, snapshot |-> traits.snapshot]
    <3>1. PICK sampled \in SUBSET {Samples} :
            Becomes(traits.db \cup sampled \cup {Order, Cookie}
                      \cup (IF \E l \in Languages : Segments(l) \in traits.db THEN {Sizes} ELSE {}))
      BY <1>6 DEF Analyze
    <3> DEFINE t == traits.db \cup sampled \cup {Order, Cookie}
    <3>2. Becomes(t)
      BY <2>2, <3>1
    <3>3. t \subseteq traits.db \cup {Samples, Order, Cookie}
      OBVIOUS
    <3> HIDE DEF t
    <3>4. QED  BY <1>1, <2>1, <3>2, <3>3 DEF Becomes, Proceed, vars, control, history
  <2>4. t \subseteq Clean(5)
    BY <1>1, <2>1, <2>3 DEF Clean
  <2>5. files' \in Present(5)
    BY <1>1, <2>1, <2>3 DEF Present
  <2>6. QED  BY <1>2, <2>1, <2>3, <2>4, <2>5
<1>7. CASE NormalizeStatistics
  <2>1. step = 5 /\ returned = "no" /\ outcome = "ok" /\ Samples \notin traits.db
    BY <1>1, <1>7, StepPlaces DEF NormalizeStatistics, At
  <2> DEFINE t == traits.db \ {Order}
  <2>2. t \subseteq Clean(6)
    BY <1>1, <2>1 DEF Clean
  <2>3. /\ step' = 6 /\ returned' = returned /\ outcome' = outcome /\ files' = files
        /\ stuck' = stuck /\ faults' = faults /\ traits' = [db |-> t, snapshot |-> traits.snapshot]
    BY <1>1, <1>7, <2>1 DEF NormalizeStatistics, Becomes, Proceed, vars, control, history
  <2> HIDE DEF t
  <2>4. files' \in Present(6)
    BY <1>1, <2>1, <2>3 DEF Present
  <2>5. QED  BY <1>2, <2>1, <2>2, <2>3, <2>4
<1>8. CASE NormalizeCookie
  <2>1. step = 6 /\ returned = "no" /\ outcome = "ok"
    BY <1>1, <1>8, StepPlaces DEF NormalizeCookie, At
  <2> DEFINE t == traits.db \ {Cookie}
  <2>2. t \subseteq Clean(7)
    BY <1>1, <2>1 DEF Clean
  <2>3. /\ step' = 7 /\ returned' = returned /\ outcome' = outcome /\ files' = files
        /\ stuck' = stuck /\ faults' = faults /\ traits' = [db |-> t, snapshot |-> traits.snapshot]
    BY <1>1, <1>8, <2>1 DEF NormalizeCookie, Becomes, Proceed, vars, control, history
  <2> HIDE DEF t
  <2>4. files' \in Present(7)
    BY <1>1, <2>1, <2>3 DEF Present
  <2>5. QED  BY <1>2, <2>1, <2>2, <2>3, <2>4
<1>9. CASE ReserveName
  <2>1. step = 7 /\ returned = "no" /\ outcome = "ok"
    BY <1>1, <1>9, StepPlaces DEF ReserveName, At
  <2>2. traits.db \subseteq Clean(8) /\ files \in Present(8)
    BY <1>1, <2>1 DEF Clean, Present
  <2>3. /\ step' = 8 /\ returned' = returned /\ outcome' = outcome /\ files' = files
        /\ stuck' = stuck /\ faults' = faults /\ traits' = [db |-> traits.db, snapshot |-> traits.snapshot]
    BY <1>1, <1>9, <2>1 DEF ReserveName, Proceed, vars, control, history
  <2>4. QED  BY <1>2, <2>1, <2>2, <2>3
<1>10. CASE Vacuum
  <2>1. step = 8 /\ returned = "no" /\ outcome = "ok"
    BY <1>1, <1>10, StepPlaces DEF Vacuum, At
  <2>2. traits.db \subseteq Clean(9) /\ traits.db \ {Counters} = {}
    BY <1>1, <2>1 DEF Clean
  <2>3. /\ step' = 9 /\ returned' = returned /\ outcome' = outcome /\ files' = files \cup {"snapshot"}
        /\ stuck' = stuck /\ faults' = faults /\ traits' = [db |-> traits.db, snapshot |-> {}]
    BY <1>1, <1>10, <2>1, <2>2 DEF Vacuum, Proceed, vars, control, history
  <2>4. files' \in Present(9)
    BY <1>1, <2>1, <2>3 DEF Present
  <2>5. QED  BY <1>2, <2>1, <2>2, <2>3, <2>4
<1>11. CASE CheckSnapshot \/ CloseDatabase \/ RemoveSidecars
  <2>1. /\ step \in 9 .. 11 /\ returned = "no" /\ outcome = "ok"
        /\ CheckSnapshot => step = 9
        /\ CloseDatabase => step = 10
        /\ RemoveSidecars => step = 11
    BY <1>1, <1>11, StepPlaces DEF CheckSnapshot, CloseDatabase, RemoveSidecars, At
  <2>2. traits.db \subseteq Clean(step + 1) /\ traits.snapshot = {}
    BY <1>1, <2>1 DEF Clean
  <2>3. /\ step' = step + 1 /\ returned' = returned /\ outcome' = outcome /\ traits' = traits
        /\ stuck' = stuck /\ faults' = faults
    BY <1>11 DEF CheckSnapshot, CloseDatabase, RemoveSidecars, Proceed, vars, control, history
  <2>4. files' \in Present(step + 1)
    <3>1. CASE CheckSnapshot
      BY <1>1, <2>1, <3>1 DEF CheckSnapshot, Present
    <3>2. CASE CloseDatabase
      <4>1. step = 10 /\ files = Staged \cup {"snapshot"} /\ files' \in {files, files \ {"wal", "shm"}}
        BY <1>1, <2>1, <3>2 DEF CloseDatabase, Present
      <4>2. (Staged \cup {"snapshot"}) \ {"wal", "shm"} = {"db", "snapshot"}
        BY DEF Staged
      <4>3. QED  BY <4>1, <4>2 DEF Present
    <3>3. CASE RemoveSidecars
      <4>1. step = 11 /\ files' = files \ {"wal", "shm"}
            /\ files \in {Staged \cup {"snapshot"}, {"db", "snapshot"}}
        BY <1>1, <2>1, <3>3 DEF RemoveSidecars, Present
      <4>2. files' = {"db", "snapshot"}
        BY <4>1 DEF Staged
      <4>3. QED  BY <4>1, <4>2 DEF Present
    <3>4. QED  BY <1>11, <3>1, <3>2, <3>3
  <2>5. QED  BY <1>1, <1>2, <2>1, <2>2, <2>3, <2>4
<1>12. CASE InstallSnapshot
  <2>1. step = 12 /\ returned = "no" /\ outcome = "ok" /\ traits.snapshot = {}
    BY <1>1, <1>12, StepPlaces DEF InstallSnapshot, At
  <2>2. /\ step' = 13 /\ returned' = returned /\ outcome' = outcome /\ files' = files \ {"snapshot"}
        /\ stuck' = stuck /\ faults' = faults /\ traits' = [db |-> {}, snapshot |-> {}]
    BY <1>1, <1>12, <2>1 DEF InstallSnapshot, Proceed, vars, control, history
  <2>3. files' \in Present(13)
    BY <1>1, <2>1, <2>2 DEF Present
  <2>4. QED  BY <1>2, <2>1, <2>2, <2>3
<1>13. CASE SyncDirectory
  <2>1. step = 13 /\ returned = "no" /\ outcome = "ok"
    BY <1>1, <1>13, StepPlaces DEF SyncDirectory, At
  <2>2. /\ step' = 14 /\ returned' = returned /\ outcome' = outcome /\ files' = files /\ traits' = traits
        /\ stuck' = stuck /\ faults' = faults
    BY <1>13, <2>1 DEF SyncDirectory, Proceed, vars, control, history
  <2>3. files' \in Present(14) /\ traits.db \subseteq Clean(14)
    BY <1>1, <2>1, <2>2 DEF Present, Clean
  <2>4. QED  BY <1>1, <1>2, <2>1, <2>2, <2>3
<1>14. CASE ReturnAsset
  <2>1. /\ returned = "no" /\ outcome = "ok" /\ step = 14 /\ returned' = "asset"
        /\ UNCHANGED <<step, outcome, traits, files, stuck, faults>>
    BY <1>1, <1>14, StepNames DEF ReturnAsset, vars, control, history
  <2>2. files = {"db"}
    BY <1>1, <2>1 DEF Present
  <2>3. QED  BY <1>1, <2>1, <2>2 DEF Stepping
<1>15. CASE StageDatabase
  <2>1. /\ step = 0 /\ returned = "no" /\ step' = 1 /\ files' = Staged /\ outcome # "ok"
        /\ UNCHANGED <<returned, outcome, traits, stuck, faults>>
    BY <1>15 DEF StageDatabase, Proceed, vars, control, history, Stepping
  <2>2. files' \in Present(1) /\ traits.db \subseteq Clean(1)
    BY <1>1, <2>1 DEF Present, Clean
  <2>3. QED  BY <1>1, <2>1, <2>2 DEF Stepping
<1>16. CASE StageFails
  <2>1. /\ step = 0 /\ returned' = "error" /\ outcome' = "failed" /\ files' \subseteq {"db"} /\ faults' = faults + 1
        /\ UNCHANGED <<step, traits, stuck>>
    BY <1>16 DEF StageFails, Finish, Fault
  <2>2. Unattended' = {"db"}
    BY <2>1 DEF Unattended
  <2>3. faults' > 0
    BY <2>1 DEF Inv, Bounds
  <2>4. QED  BY <1>1, <2>1, <2>2, <2>3 DEF Stepping
<1>17. CASE Erring
  <2>1. PICK made \in SUBSET (Beside \cup {"snapshot"}), n \in 0 .. 1 :
          /\ ReturnError(made, n)
          /\ (\E f \in made : f \in Beside) => At("check")
          /\ "snapshot" \in made => At("reserve") \/ At("vacuum")
    BY <1>17, Errors
  <2>2. /\ faults' >= faults /\ (stuck' # {} => faults' > 0)
        /\ files' = ((files \cup made) \ Deferred) \cup stuck'
        /\ returned' = "error"
        /\ UNCHANGED <<main, outcome, step, traits>>
    BY <2>1, RemovalsCount DEF Inv, Bounds
  <2>3. returned = "no" /\ outcome # "running"
    BY <1>17 DEF Erring, ReturnRowsError, RefuseStatistics, RefuseSnapshot, StepFails, NameStaysTaken, At
  <2>4. step # 0
    BY <2>3 DEF Stepping
  <2>5. files \subseteq Staged \cup {"snapshot"} /\ ("snapshot" \in files => step \in 9 .. 12)
    BY <1>1, <2>3, <2>4 DEF Present, Staged
  <2>6. "snapshot" \in files \cup made => "snapshot" \in Deferred
    <3>1. CASE "snapshot" \in made
      BY <2>1, <3>1 DEF Deferred
    <3>2. CASE "snapshot" \in files
      <4>1. step \in 9 .. 12 /\ outcome = "ok"
        BY <1>1, <2>5, <3>2
      <4>2. At("check") \/ At("close") \/ At("sidecars") \/ At("install")
        BY <2>3, <4>1, StepNames DEF At
      <4>3. QED  BY <4>2 DEF Deferred
    <3>3. QED  BY <3>1, <3>2
  <2>7. (files \cup made) \ Deferred \subseteq Unattended'
    <3>1. SUFFICES ASSUME NEW f \in files \cup made, f \notin Deferred PROVE f \in Unattended
      BY <2>2 DEF Unattended
    <3>2. f \notin Staged /\ f # "snapshot"
      BY <2>6, <3>1 DEF Deferred
    <3>3. f \in made /\ f \in Beside
      BY <2>5, <3>1, <3>2
    <3>4. At("check")
      BY <2>1, <3>3
    <3>5. QED  BY <2>4, <3>3, <3>4 DEF At, Unattended
  <2>8. QED  BY <1>1, <2>2, <2>3, <2>4, <2>7 DEF Stepping
<1>18. QED
  BY <1>3, <1>4, <1>5, <1>6, <1>7, <1>8, <1>9, <1>10, <1>11, <1>12, <1>13, <1>14, <1>15, <1>16, <1>17
     DEF FinishStep, Erring

LEMMA AssetSteps == Inv /\ Stepping /\ [AssetNext]_allVars => Stepping'
<1> SUFFICES ASSUME Inv, Stepping, [AssetNext]_allVars PROVE Stepping'
  OBVIOUS
<1>1. CASE BuildStep
  <2>1. /\ UNCHANGED <<step, returned, files, stuck, traits>> /\ Next
        /\ step > 0 \/ main = "done"
    BY <1>1 DEF BuildStep, assetVars
  <2>2. faults' >= faults /\ faults \in Nat /\ faults' \in Nat
    <3>1. UNCHANGED faults \/ Fault \/ Prewarm
      BY <2>1 DEF Next, MainStep, OpenBuild, OpenBuildFails, PrewarmFails, Join, ProcessFails, ProcessSucceeds,
         Verify, VerifyFails, Dispatch, CloseWork, WorkerStep, Receive, Exit, RejectRecord, FindAuthor,
         StoreAuthor, RefuseAuthor, CacheAuthor, AuthorFails, FindType, TypeFails, Send, InserterStep, Drain, Drained,
         SkipInsertion, RefusePoems, PlanInsertion, Commit, RollBack, Inserted, Report, Finished, vars, history
    <3>2. faults \in Nat
      BY DEF Inv, Bounds
    <3>3. CASE Prewarm
      <4>1. PICK missed \in SUBSET AuthorsOf(Corpus) : faults' = faults + Cardinality(missed)
        BY <3>3 DEF Prewarm
      <4>2. IsFiniteSet(AuthorsOf(Corpus))
        BY CorpusIsSequence, AuthorCount DEF Inv, Flow
      <4>3. Cardinality(missed) \in Nat
        BY <4>2, FS_Subset, FS_CardinalityType
      <4>4. QED  BY <3>2, <4>1, <4>3
    <3>4. QED  BY <3>1, <3>2, <3>3 DEF Fault
  <2>3. stuck' # {} => faults' > 0
    BY <2>1, <2>2 DEF Stepping
  <2>4. Unattended' = Unattended
    BY <2>1 DEF Unattended
  <2>5. CASE outcome = "running"
    <3>1. step \in 0 .. 1 /\ returned = "no"
      BY <2>5 DEF Stepping
    <3>2. step = 1
      BY <2>1, <2>5, <3>1 DEF Inv, Ended
    <3>3. QED  BY <2>1, <2>3, <2>4, <3>1, <3>2 DEF Stepping
  <2>6. CASE outcome # "running"
    <3>1. outcome' = outcome
      BY <2>1, <2>6, OutcomeStays
    <3>2. QED  BY <2>1, <2>3, <2>4, <2>6, <3>1 DEF Stepping
  <2>7. QED  BY <2>5, <2>6
<1>2. CASE FinishStep
  BY <1>2, FinishSteps
<1>3. CASE UNCHANGED allVars
  BY <1>3 DEF allVars, vars, control, history, assetVars, Stepping, Unattended
<1>4. QED  BY <1>1, <1>2, <1>3 DEF AssetNext

LEMMA AssetInvariantHolds == AssetSpec => [](Inv /\ Stepping)
<1>1. AssetInit => Inv /\ Stepping
  BY InitInv, AssetInitStepping DEF AssetInit
<1>2. Inv /\ Stepping /\ [AssetNext]_allVars => (Inv /\ Stepping)'
  BY AssetNextInv, AssetSteps
<1>3. QED  BY <1>1, <1>2, PTL DEF AssetSpec

\* The asset that a build returns is determined by its input: the rows, their authors
\* and the ledger are those of the catalogue, and no trait of the file tells how it was
\* made.  A build that fails, at whichever call, leaves no file that a deferred call
\* could have removed, and of those that no call removes only the staged file that it
\* could not close and what SQLite laid beside a snapshot.
THEOREM AssetIsDetermined == AssetSpec => []AssetIsReproducible
<1>1. Inv /\ Stepping => AssetIsReproducible
  <2> SUFFICES ASSUME Inv, Stepping PROVE AssetIsReproducible
    OBVIOUS
  <2>1. /\ returned = "error" => files \subseteq stuck \cup Unattended
        /\ stuck # {} => faults > 0
    BY DEF Stepping
  <2>2. ASSUME returned = "asset"
        PROVE  /\ files = {"db"} /\ traits.db = {}
               /\ \A l \in Languages : rows[l] = Prepared(Corpus) /\ authors[l] = AuthorsOf(Corpus)
               /\ ledger = Locators(Rejections(loaded))
    <3>1. outcome = "ok" /\ step = 14 /\ files = {"db"} /\ traits.db \subseteq Clean(14)
      BY <2>2 DEF Stepping
    <3>2. traits.db = {}
      BY <3>1 DEF Clean
    <3>3. Whole("Hans") /\ Whole("Hant") /\ Ledgered
      BY <3>1 DEF Inv, Ended
    <3>4. QED  BY <3>1, <3>2, <3>3 DEF Whole, Catalogue, Ledgered, Languages
  <2>3. QED  BY <2>1, <2>2 DEF AssetIsReproducible
<1>2. QED  BY <1>1, AssetInvariantHolds, PTL

\* The finish of a build changes nothing that was proved of the build itself.
THEOREM AssetKeepsBuild ==
  AssetSpec => [](TypeOK /\ ClosedAfterWorkers /\ NoPartialProduct /\ CachedAuthorsStored
                  /\ RowsBeginCatalog /\ SuccessIsComplete /\ FailsOnlyForCause)
BY AssetInvariantHolds, InvTypes, InvCloses, InvWrites, InvCaches, InvBegins, InvSucceeds, InvBlames, PTL
=============================================================================
