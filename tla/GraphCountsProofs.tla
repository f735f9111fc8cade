-------------------------- MODULE GraphCountsProofs --------------------------
(***************************************************************************)
(* What count fields answer and where a response is null, for every        *)
(* catalogue, every set of fields in one operation, every schedule and     *)
(* every failing query.                                                    *)
(*                                                                         *)
(* The counts: whatever a resolver has still to put into the registry is   *)
(* right, but for the zeros of a statistics field that has made its first  *)
(* query only; and a wrong author count stays in the registry only while   *)
(* some statistics field is pending that will replace it, or has failed.   *)
(* A field that answers has returned, so the pending one is another.       *)
(*                                                                         *)
(* The nulls: the tables of the generated code and of the schema agree     *)
(* field by field, so a null of the one is a null of the other at the end  *)
(* of any path of the schema; and the path of every error is one, which    *)
(* follows from a field to those below it, as every selection ends.        *)
(*                                                                         *)
(* The work: every statement is one of a resolver, of a count that was     *)
(* answered, or a fault, which left a field failed or a count missing; so  *)
(* what was done for a field is bounded by its rows.  The price of a field *)
(* covers that and the prices of the fields nested below it; added up over *)
(* the operation, all prices but those of the roots cancel.                *)
(***************************************************************************)
EXTENDS Response, FiniteSetTheorems, SequenceTheorems, WellFoundedInduction, TLAPS

WellKeyed(k) == k = Key(k.lang, k.kind, k.id)
PoemsRight(e) == e.poems = PoemCount(e.key.lang, e.key.kind, e.key.id)
AuthorsRight(e) == e.key.kind = "dynasty" => e.authors = AuthorCount(e.key.lang, e.key.id)

\* What a statistics field knows of a dynasty after its first query.
Unfinished(e) == e.key.kind = "dynasty" /\ e.key.id \in Dynasties /\ e.authors = 0

Shapes ==
  /\ operation \in Operations
  /\ status \in [operation -> {"waiting", "resolved", "failed"}]
  /\ queries \in [operation -> Nat]
  /\ \A f \in operation : Fields[f].kind = "statistics" => queries[f] \in 0 .. 2
  /\ writes = [f \in operation |-> writes[f]]
  /\ asks = [f \in operation |-> asks[f]]

\* A field has registered the language it was asked in before anything depends on it.
Spoken ==
  /\ \A f \in DOMAIN paths : paths[f] = Fields[f].lang
  /\ \A f \in operation : (queries[f] > 0 \/ status[f] = "resolved") => f \in DOMAIN paths

Writing ==
  \A f \in operation : \A e \in writes[f] :
    /\ e.key.lang = Fields[f].lang /\ WellKeyed(e.key) /\ PoemsRight(e)
    /\ \/ AuthorsRight(e)
       \/ Unfinished(e) /\ Fields[f].kind = "statistics" /\ status[f] = "waiting" /\ queries[f] = 1

\* A statistics field that will still replace what the registry has for a key.
Replaces(g, k) ==
  \/ queries[g] = 1
  \/ queries[g] = 2 /\ \E e \in writes[g] : e.key = k /\ AuthorsRight(e)
Pending(g, k) ==
  /\ Fields[g].kind = "statistics" /\ Fields[g].lang = k.lang /\ k.id \in Dynasties
  /\ status[g] = "failed" \/ (status[g] = "waiting" /\ Replaces(g, k))

AuthorsKnown(k) ==
  \/ k.kind = "dynasty" => registry[k].authors = AuthorCount(k.lang, k.id)
  \/ k.kind = "dynasty" /\ registry[k].authors = 0 /\ \E g \in operation : Pending(g, k)

Registry ==
  \A k \in DOMAIN registry :
    /\ WellKeyed(k)
    /\ registry[k].poems = PoemCount(k.lang, k.kind, k.id)
    /\ AuthorsKnown(k)

Asked(f, a) ==
  /\ a.key.lang = Fields[f].lang
  /\ a.count = "poems" \/ (a.count = "authors" /\ a.key.kind = "dynasty")
Asking ==
  \A f \in operation : \A a \in asks[f] : status[f] = "resolved" /\ Asked(f, a)

Inv == Shapes /\ Spoken /\ Writing /\ Registry /\ Asking /\ PoemCountsAreTrue /\ WrongOnlyBesideStatistics

-----------------------------------------------------------------------------
(* The counts of a resolver. *)

\* In a published catalogue a dynasty's author rows are the authors of its poems
\* (prefetchAuthorDynastyStats counts the former).
LEMMA RowsAreAuthors ==
  ASSUME NEW l \in Langs, NEW d
  PROVE  AuthorRows(l, d) = AuthorCount(l, d)
<1>1. {a.id : a \in {b \in Authors[l] : b.dynasty = d}} = {p.author : p \in PoemsOf(l, "dynasty", d)}
  BY GraphCountsAssumption DEF PoemsOf
<1>2. QED  BY <1>1 DEF AuthorRows, AuthorCount

\* A dynasty without poems has no authors: the zero of a statistics field that the
\* second query does not replace is right.
LEMMA NoPoemsNoAuthors ==
  ASSUME NEW l \in Langs, NEW d, AuthorCount(l, d) # 0
  PROVE  PoemCount(l, "dynasty", d) > 0
<1>1. IsFiniteSet(PoemsOf(l, "dynasty", d))
  BY GraphCountsAssumption, FS_Subset DEF PoemsOf
<1>2. PoemsOf(l, "dynasty", d) # {}
  <2>1. SUFFICES ASSUME PoemsOf(l, "dynasty", d) = {} PROVE FALSE
    OBVIOUS
  <2>2. {p.author : p \in PoemsOf(l, "dynasty", d)} = {}
    BY <2>1
  <2>3. QED  BY <2>2, FS_EmptySet DEF AuthorCount
<1>3. QED  BY <1>1, <1>2, FS_EmptySet, FS_CardinalityType DEF PoemCount

\* An entry of a batch speaks of the given language, and is right but for the
\* author counts of the first batch of a statistics field.
LEMMA BatchIsRight ==
  ASSUME NEW f \in DOMAIN Fields, NEW l \in Langs
  PROVE  /\ Len(Batches(f, l)) \in Nat \ {0}
         /\ \A i \in 1 .. Len(Batches(f, l)) : \A e \in Batches(f, l)[i] :
              /\ e.key.lang = l /\ WellKeyed(e.key) /\ PoemsRight(e)
              /\ AuthorsRight(e) \/ (Unfinished(e) /\ Fields[f].kind = "statistics" /\ i = 1)
<1> DEFINE Fine(e) == e.key.lang = l /\ WellKeyed(e.key) /\ PoemsRight(e) /\ AuthorsRight(e)
<1>1. \A a : Fine(AuthorEntry(l, a)) /\ Fine(TypeEntry(l, a))
  BY DEF AuthorEntry, TypeEntry, Key, WellKeyed, PoemsRight, AuthorsRight
<1>2. \A d : Fine(DynastyEntry(l, d, AuthorCount(l, d))) /\ Fine(DynastyEntry(l, d, AuthorRows(l, d)))
  BY RowsAreAuthors DEF DynastyEntry, Key, WellKeyed, PoemsRight, AuthorsRight
<1>3. \A d \in Dynasties : /\ DynastyEntry(l, d, 0).key.lang = l /\ WellKeyed(DynastyEntry(l, d, 0).key)
                           /\ PoemsRight(DynastyEntry(l, d, 0)) /\ Unfinished(DynastyEntry(l, d, 0))
  BY DEF DynastyEntry, Key, WellKeyed, PoemsRight, Unfinished
<1> HIDE DEF Fine
<1> DEFINE B == Batches(f, l)
           Good == /\ Len(B) \in Nat \ {0}
                   /\ \A i \in 1 .. Len(B) : \A e \in B[i] :
                        Fine(e) \/ (e.key.lang = l /\ WellKeyed(e.key) /\ PoemsRight(e) /\ Unfinished(e) /\ Fields[f].kind = "statistics" /\ i = 1)
<1>4. CASE Fields[f].kind = "statistics"
  <2>1. B = Statistics(l)
    BY <1>4 DEF Batches
  <2>2. Good
    BY <2>1, <1>1, <1>2, <1>3, <1>4 DEF Statistics
  <2>3. QED  BY <2>2 DEF Fine
<1>5. CASE Fields[f].kind = "dynasties"
  <2>1. B = << {DynastyEntry(l, d, AuthorCount(l, d)) : d \in Dynasties} >>
    BY <1>5 DEF Batches
  <2>2. QED  BY <2>1, <1>2 DEF Fine
<1>6. CASE Fields[f].kind = "poemTypes"
  <2>1. B = << {TypeEntry(l, t) : t \in Types} >>
    BY <1>6 DEF Batches
  <2>2. QED  BY <2>1, <1>1 DEF Fine
<1>7. CASE Fields[f].kind = "authors"
  <2>1. B = AuthorPage(l, Rows(f, l))
    BY <1>7 DEF Batches
  <2>2. Good
    BY <2>1, <1>1, <1>2 DEF AuthorPage
  <2>3. QED  BY <2>2 DEF Fine
<1>8. CASE Fields[f].kind \in {"poems", "author.poems"}
  <2>1. B = PoemPage(l, Rows(f, l))
    BY <1>8 DEF Batches
  <2>2. Good
    BY <2>1, <1>1, <1>2 DEF PoemPage
  <2>3. QED  BY <2>2 DEF Fine
<1>9. CASE Fields[f].kind \in {"poem", "author"}
  <2>1. B = << {} >>
    BY <1>9 DEF Batches
  <2>2. QED  BY <2>1
<1>10. QED  BY <1>4, <1>5, <1>6, <1>7, <1>8, <1>9, GraphCountsAssumption DEF Kinds

\* A statistics field makes two queries, and the second batch replaces every zero
\* that is wrong.
LEMMA SecondBatchReplaces ==
  ASSUME NEW f \in DOMAIN Fields, NEW l \in Langs, Fields[f].kind = "statistics"
  PROVE  /\ Len(Batches(f, l)) = 2
         /\ \A d \in Dynasties : AuthorCount(l, d) # 0 =>
              \E e \in Batches(f, l)[2] : e.key = Key(l, "dynasty", d) /\ AuthorsRight(e)
<1>1. Batches(f, l) = Statistics(l)
  BY DEF Batches
<1>2. ASSUME NEW d \in Dynasties, AuthorCount(l, d) # 0
      PROVE  \E e \in Statistics(l)[2] : e.key = Key(l, "dynasty", d) /\ AuthorsRight(e)
  <2> DEFINE e == DynastyEntry(l, d, AuthorCount(l, d))
  <2>1. PoemCount(l, "dynasty", d) > 0
    BY <1>2, NoPoemsNoAuthors
  <2>2. e \in Statistics(l)[2]
    BY <2>1 DEF Statistics
  <2>3. e.key = Key(l, "dynasty", d) /\ AuthorsRight(e)
    BY DEF DynastyEntry, Key, AuthorsRight
  <2>4. QED  BY <2>2, <2>3
<1>3. QED  BY <1>1, <1>2 DEF Statistics

\* What is asked below a field is asked in its language, and authorCount of
\* dynasties only.
LEMMA BelowIsAsked ==
  ASSUME NEW f \in DOMAIN Fields, Fields[f].lang \in Langs
  PROVE  \A a \in Below(f, Fields[f].lang) : Asked(f, a)
<1> DEFINE l == Fields[f].lang
<1>1. \A kind, id, at : \A a \in CountsOf(l, kind, id, at) : Asked(f, a)
  BY DEF CountsOf, Asked, Key
<1>2. \A b, at : \A a \in CountsBelowAuthor(l, b, at) : Asked(f, a)
  BY <1>1 DEF CountsBelowAuthor
<1>3. \A p, at : \A a \in CountsBelowPoem(l, p, at) : Asked(f, a)
  BY <1>1, <1>2 DEF CountsBelowPoem
<1> DEFINE es == UNION {Batches(f, l)[i] : i \in DOMAIN Batches(f, l)}
<1>4. CASE Fields[f].kind = "statistics"
  <2>1. Below(f, l) = UNION {CountsOf(l, e.key.kind, e.key.id, StatisticsPlace(e.key.kind)) : e \in es}
    BY <1>4 DEF Below
  <2>2. QED  BY <2>1, <1>1
<1>5. CASE Fields[f].kind \in {"dynasties", "poemTypes"}
  <2>1. Below(f, l) = UNION {CountsOf(l, e.key.kind, e.key.id, <<"[]">>) : e \in es}
    BY <1>5 DEF Below
  <2>2. QED  BY <2>1, <1>1
<1>6. CASE Fields[f].kind \in {"author", "authors"}
  <2>1. PICK at : Below(f, l) = UNION {CountsBelowAuthor(l, a, at) : a \in Rows(f, l)}
    BY <1>6 DEF Below
  <2>2. QED  BY <2>1, <1>2
<1>7. CASE Fields[f].kind \in {"poems", "author.poems", "poem"}
  <2>1. PICK at : Below(f, l) = UNION {CountsBelowPoem(l, p, at) : p \in Rows(f, l)}
    BY <1>7 DEF Below
  <2>2. QED  BY <2>1, <1>3
<1>8. QED  BY <1>4, <1>5, <1>6, <1>7, GraphCountsAssumption DEF Kinds

-----------------------------------------------------------------------------
(* The invariant. *)

LEMMA InitInv == Init => Inv
  BY DEF Init, Inv, Shapes, Spoken, Writing, Registry, Asking, PoemCountsAreTrue, WrongOnlyBesideStatistics

\* The fields of the operation are declared, and a field that runs speaks the
\* language it was asked in.
LEMMA LanguageIsAsked ==
  ASSUME Shapes, Spoken, NEW f \in operation
  PROVE  /\ f \in DOMAIN Fields /\ Fields[f].lang \in Langs
         /\ Started(f) => Language(f) = Fields[f].lang
         /\ f \in DOMAIN paths => paths[f] = Fields[f].lang
<1>1. f \in DOMAIN Fields /\ Fields[f].lang \in Langs
  BY GraphCountsAssumption DEF Shapes
<1>2. Fields[f].parent \in operation \cup {"root"}
  BY GraphCountsAssumption DEF Shapes
<1>3. Fields[f].parent # "root" => Fields[f].lang = Fields[Fields[f].parent].lang
  BY <1>1, GraphCountsAssumption
<1>4. QED  BY <1>1, <1>2, <1>3 DEF Spoken, Started, Nested, Parent, Language

LEMMA QueryInv ==
  ASSUME Inv, NEW f \in operation, Query(f)
  PROVE  Inv'
<1> USE DEF Inv
<1> DEFINE l == Fields[f].lang
           q == queries[f] + 1
<1>1. f \in DOMAIN Fields /\ l \in Langs /\ Language(f) = l
  BY LanguageIsAsked DEF Query
<1>2. q \in 1 .. Len(Batches(f, l)) /\ queries[f] \in Nat
  BY <1>1, BatchIsRight DEF Query, MoreQueries, Shapes
<1>3. /\ operation' = operation /\ status' = status /\ asks' = asks /\ registry' = registry /\ answers' = answers
      /\ queries' = [queries EXCEPT ![f] = q]
      /\ writes' = [writes EXCEPT ![f] = Batches(f, l)[q]]
      /\ writes[f] = {} /\ status[f] = "waiting"
      /\ paths' = [g \in DOMAIN paths \cup {f} |-> IF g = f THEN l ELSE paths[g]]
  BY <1>1 DEF Query, Started, Unwritten
<1>4. Shapes'
  <2>1. ASSUME Fields[f].kind = "statistics" PROVE q \in 0 .. 2
    <3>1. Len(Batches(f, l)) = 2
      BY <1>1, <2>1, SecondBatchReplaces
    <3>2. QED  BY <1>2, <3>1
  <2>2. queries' \in [operation -> Nat] /\ \A g \in operation : g # f => queries'[g] = queries[g]
    BY <1>2, <1>3 DEF Shapes
  <2>3. queries'[f] = q
    BY <1>3 DEF Shapes
  <2>4. writes' = [g \in operation |-> writes'[g]]
    BY <1>3 DEF Shapes
  <2>5. QED  BY <1>3, <2>1, <2>2, <2>3, <2>4 DEF Shapes
<1>5. Spoken'
  BY <1>3 DEF Spoken, Shapes
<1>6. Writing'
  <2>1. \A e \in Batches(f, l)[q] :
          /\ e.key.lang = l /\ WellKeyed(e.key) /\ PoemsRight(e)
          /\ AuthorsRight(e) \/ (Unfinished(e) /\ Fields[f].kind = "statistics" /\ q = 1)
    BY <1>1, <1>2, BatchIsRight
  <2>2. QED  BY <1>3, <2>1 DEF Writing, Shapes, WellKeyed, PoemsRight, AuthorsRight, Unfinished
<1>7. Registry'
  <2>1. SUFFICES ASSUME NEW k \in DOMAIN registry, NEW g \in operation, Pending(g, k),
                        k.kind = "dynasty", registry[k].authors = 0,
                        registry[k].authors # AuthorCount(k.lang, k.id)
                 PROVE  Pending(g, k)'
    BY <1>3 DEF Registry, AuthorsKnown
  <2>2. CASE g # f
    BY <1>3, <2>1, <2>2 DEF Pending, Replaces, Shapes, AuthorsRight
  <2>3. CASE g = f
    <3>1. Fields[f].kind = "statistics" /\ l = k.lang /\ k.id \in Dynasties /\ queries[f] = 1
      BY <1>3, <2>1, <2>3 DEF Pending, Replaces
    <3>2. PICK e \in Batches(f, l)[2] : e.key = Key(l, "dynasty", k.id) /\ AuthorsRight(e)
      BY <1>1, <2>1, <3>1, SecondBatchReplaces
    <3>3. e.key = k
      BY <2>1, <3>1, <3>2 DEF Registry, WellKeyed
    <3>4. queries'[f] = 2 /\ e \in writes'[f] /\ status'[f] = "waiting"
      BY <1>3, <3>1, <3>2 DEF Shapes
    <3>5. QED  BY <1>3, <2>3, <3>1, <3>2, <3>3, <3>4 DEF Pending, Replaces, AuthorsRight
  <2>4. QED  BY <2>2, <2>3
<1>8. Asking' /\ PoemCountsAreTrue' /\ WrongOnlyBesideStatistics'
  BY <1>3 DEF Asking, Asked, PoemCountsAreTrue, WrongOnlyBesideStatistics, Truth
<1>9. QED  BY <1>4, <1>5, <1>6, <1>7, <1>8

\* A resolver fails before it has anything to register, or without being about statistics.
LEMMA FailsInv ==
  ASSUME Inv, NEW f \in operation, Started(f),
         writes[f] = {} \/ Fields[f].kind # "statistics",
         status' = [status EXCEPT ![f] = "failed"],
         UNCHANGED <<operation, queries, writes, asks, paths, registry, answers>>
  PROVE  Inv'
<1> USE DEF Inv
<1>1. status[f] = "waiting"
  BY DEF Started
<1>2. Shapes' /\ Spoken'
  BY <1>1 DEF Shapes, Spoken
<1>3. Writing'
  BY <1>1 DEF Writing, Shapes, WellKeyed, PoemsRight, AuthorsRight, Unfinished
<1>4. Registry'
  <2>1. \A g \in operation, k \in DOMAIN registry : Pending(g, k) => Pending(g, k)'
    BY <1>1 DEF Pending, Replaces, Shapes, AuthorsRight
  <2>2. QED  BY <1>1, <2>1 DEF Registry, AuthorsKnown, WellKeyed
<1>5. Asking' /\ PoemCountsAreTrue' /\ WrongOnlyBesideStatistics'
  BY <1>1 DEF Asking, Asked, Shapes, PoemCountsAreTrue, WrongOnlyBesideStatistics, Truth
<1>6. QED  BY <1>2, <1>3, <1>4, <1>5

LEMMA QueryFailsInv ==
  ASSUME Inv, NEW f \in operation, QueryFails(f)
  PROVE  Inv'
  BY FailsInv DEF QueryFails, Unwritten

LEMMA PageRefusedInv ==
  ASSUME Inv, NEW f \in operation, PageRefused(f)
  PROVE  Inv'
<1>1. Fields[f].kind # "statistics"
  BY DEF PageRefused, PageFits, Paged
<1>2. QED  BY <1>1, FailsInv DEF PageRefused

\* The error of a relation is dropped: what is counted, written and answered stays.
LEMMA RelationFailsInv ==
  ASSUME Inv, NEW f \in operation, RelationFails(f)
  PROVE  Inv'
<1> USE DEF Inv, RelationFails
<1>1. Shapes' /\ Spoken'
  BY DEF Shapes, Spoken
<1>2. Writing'
  BY DEF Writing, WellKeyed, PoemsRight, AuthorsRight, Unfinished
<1>3. Registry'
  BY DEF Registry, AuthorsKnown, WellKeyed, Pending, Replaces, AuthorsRight
<1>4. Asking' /\ PoemCountsAreTrue' /\ WrongOnlyBesideStatistics'
  BY DEF Asking, Asked, PoemCountsAreTrue, WrongOnlyBesideStatistics, Truth
<1>5. QED  BY <1>1, <1>2, <1>3, <1>4

LEMMA CacheInv ==
  ASSUME Inv, NEW f \in operation, Cache(f)
  PROVE  Inv'
<1> USE DEF Inv
<1>1. PICK e \in writes[f] :
        /\ writes' = [writes EXCEPT ![f] = @ \ {e}]
        /\ registry' = Registered(e, [poems |-> e.poems, authors |-> e.authors])
        /\ UNCHANGED <<operation, status, queries, asks, paths, answers, faults>>
  BY DEF Cache
<1>2. \A g \in operation : writes'[g] = IF g = f THEN writes[f] \ {e} ELSE writes[g]
  BY <1>1 DEF Shapes
<1>3. Shapes' /\ Spoken'
  <2>1. writes' = [g \in operation |-> writes'[g]]
    BY <1>1 DEF Shapes
  <2>2. QED  BY <1>1, <2>1 DEF Shapes, Spoken
<1>4. Writing'
  BY <1>1, <1>2 DEF Writing, WellKeyed, PoemsRight, AuthorsRight, Unfinished
<1>5. Registry'
  <2>1. SUFFICES ASSUME NEW k \in DOMAIN registry'
                 PROVE  WellKeyed(k) /\ registry'[k].poems = PoemCount(k.lang, k.kind, k.id) /\ AuthorsKnown(k)'
    BY DEF Registry, WellKeyed
  <2>2. CASE k = e.key
    <3>1. registry'[k] = [poems |-> e.poems, authors |-> e.authors]
      BY <1>1, <2>1, <2>2 DEF Registered
    <3>2. WellKeyed(k) /\ PoemsRight(e) /\ k.lang = Fields[f].lang
      BY <2>2 DEF Writing
    <3>3. CASE AuthorsRight(e)
      BY <2>2, <3>1, <3>2, <3>3 DEF AuthorsRight, PoemsRight, AuthorsKnown
    <3>4. CASE Unfinished(e) /\ Fields[f].kind = "statistics" /\ status[f] = "waiting" /\ queries[f] = 1
      <4>1. Pending(f, k)'
        BY <1>1, <2>2, <3>2, <3>4 DEF Pending, Replaces, Unfinished
      <4>2. QED  BY <1>1, <2>2, <3>1, <3>2, <3>4, <4>1 DEF Unfinished, PoemsRight, AuthorsKnown
    <3>5. QED  BY <3>3, <3>4 DEF Writing
  <2>3. CASE k # e.key
    <3>1. k \in DOMAIN registry /\ registry'[k] = registry[k]
      BY <1>1, <2>1, <2>3 DEF Registered
    <3>2. \A g \in operation : Pending(g, k) => Pending(g, k)'
      BY <1>1, <1>2, <2>3 DEF Pending, Replaces, AuthorsRight
    <3>3. QED  BY <1>1, <3>1, <3>2 DEF Registry, AuthorsKnown
  <2>4. QED  BY <2>2, <2>3
<1>6. Asking' /\ PoemCountsAreTrue' /\ WrongOnlyBesideStatistics'
  BY <1>1 DEF Asking, Asked, PoemCountsAreTrue, WrongOnlyBesideStatistics, Truth
<1>7. QED  BY <1>3, <1>4, <1>5, <1>6

LEMMA ReturnInv ==
  ASSUME Inv, NEW f \in operation, Return(f)
  PROVE  Inv'
<1> USE DEF Inv
<1> DEFINE l == Fields[f].lang
<1>1. f \in DOMAIN Fields /\ l \in Langs /\ Language(f) = l
  BY LanguageIsAsked DEF Return
<1>2. queries[f] \in Nat /\ queries[f] >= Len(Batches(f, l)) /\ queries[f] > 0
  BY <1>1, BatchIsRight DEF Return, MoreQueries, Shapes
<1>3. f \in DOMAIN paths /\ paths[f] = l
  BY <1>2, LanguageIsAsked DEF Spoken
<1>4. /\ operation' = operation /\ queries' = queries /\ writes' = writes
      /\ paths' = paths /\ registry' = registry /\ answers' = answers
      /\ status' = [status EXCEPT ![f] = "resolved"]
      /\ asks' = [asks EXCEPT ![f] = Reached(f, l)]
      /\ writes[f] = {} /\ status[f] = "waiting"
  BY <1>3 DEF Return, Started, Unwritten
<1>5. Shapes' /\ Spoken'
  <2>1. asks' = [g \in operation |-> asks'[g]]
    BY <1>4 DEF Shapes
  <2>2. QED  BY <1>3, <1>4, <2>1 DEF Shapes, Spoken
<1>6. Writing'
  BY <1>4 DEF Writing, Shapes, WellKeyed, PoemsRight, AuthorsRight, Unfinished
<1>7. Registry'
  <2>1. \A k : ~ Pending(f, k)
    <3>1. SUFFICES ASSUME NEW k, Pending(f, k) PROVE FALSE
      OBVIOUS
    <3>2. Len(Batches(f, l)) = 2
      BY <1>1, <3>1, SecondBatchReplaces DEF Pending
    <3>3. QED  BY <1>2, <1>4, <3>1, <3>2 DEF Pending, Replaces
  <2>2. \A g \in operation, k \in DOMAIN registry : Pending(g, k) => Pending(g, k)'
    BY <1>4, <2>1 DEF Pending, Replaces, Shapes, AuthorsRight
  <2>3. QED  BY <1>4, <2>2 DEF Registry, AuthorsKnown, WellKeyed
<1>8. Asking'
  <2>1. \A a \in Reached(f, l) : Asked(f, a)
    BY <1>1, BelowIsAsked DEF Reached
  <2>2. QED  BY <1>4, <2>1 DEF Asking, Asked, Shapes
<1>9. PoemCountsAreTrue' /\ WrongOnlyBesideStatistics'
  BY <1>4 DEF PoemCountsAreTrue, WrongOnlyBesideStatistics, Truth
<1>10. QED  BY <1>5, <1>6, <1>7, <1>8, <1>9

\* A count field is answered: nothing but the answer and the outstanding ask changes.
LEMMA AnswerInv ==
  ASSUME Inv, NEW f \in operation, NEW a \in asks[f], NEW value, NEW queried,
         Answer(f, a, value, queried),
         UNCHANGED <<operation, status, queries, writes, paths, registry>>,
         a.count = "poems" => value = PoemCount(a.key.lang, a.key.kind, a.key.id),
         a.count = "authors" /\ value # AuthorCount(a.key.lang, a.key.id) =>
           value = 0 /\ \E g \in operation \ {f} : Fields[g].kind = "statistics" /\ Fields[g].lang = a.key.lang
  PROVE  Inv'
<1> USE DEF Inv
<1> DEFINE new == [field |-> f, key |-> a.key, count |-> a.count, at |-> a.at, value |-> value, queried |-> queried]
<1>1. answers' = answers \cup {new} /\ asks' = [asks EXCEPT ![f] = @ \ {a}]
  BY DEF Answer
<1>2. Shapes' /\ Spoken'
  <2>1. asks' = [g \in operation |-> asks'[g]]
    BY <1>1 DEF Shapes
  <2>2. QED  BY <2>1 DEF Shapes, Spoken
<1>3. Writing' /\ Registry'
  <2>1. Writing'
    BY DEF Writing, WellKeyed, PoemsRight, AuthorsRight, Unfinished
  <2>2. \A g \in operation, k \in DOMAIN registry : Pending(g, k) => Pending(g, k)'
    BY DEF Pending, Replaces, AuthorsRight
  <2>3. QED  BY <2>1, <2>2 DEF Registry, AuthorsKnown, WellKeyed
<1>4. Asking'
  BY <1>1 DEF Asking, Asked, Shapes
<1>5. a.key.lang = Fields[f].lang /\ a.count \in {"poems", "authors"}
  BY DEF Asking, Asked
<1>6. PoemCountsAreTrue'
  BY <1>1, <1>5 DEF PoemCountsAreTrue, Truth
<1>7. WrongOnlyBesideStatistics'
  <2>1. Truth(new) = IF a.count = "poems" THEN PoemCount(a.key.lang, a.key.kind, a.key.id)
                                          ELSE AuthorCount(a.key.lang, a.key.id)
    BY <1>5 DEF Truth
  <2>2. new.value # Truth(new) =>
          /\ new.count = "authors" /\ new.value = 0
          /\ \E g \in operation \ {new.field} : Fields[g].kind = "statistics" /\ Fields[g].lang = Fields[new.field].lang
    BY <1>5, <2>1
  <2>3. QED  BY <1>1, <2>2 DEF WrongOnlyBesideStatistics, Truth
<1>8. QED  BY <1>2, <1>3, <1>4, <1>6, <1>7

\* The registry is right or the field that will correct it has not returned.
LEMMA FromRegistryInv ==
  ASSUME Inv, NEW f \in operation, AnswerFromRegistry(f)
  PROVE  Inv'
<1>1. PICK a \in asks[f] :
        /\ a.key \in DOMAIN registry
        /\ Answer(f, a, registry[a.key][a.count], FALSE)
        /\ UNCHANGED <<operation, status, queries, writes, paths, registry, faults>>
  BY DEF AnswerFromRegistry, Known
<1>2. Asked(f, a) /\ status[f] = "resolved"
  BY DEF Inv, Asking
<1>3. /\ registry[a.key].poems = PoemCount(a.key.lang, a.key.kind, a.key.id)
      /\ AuthorsKnown(a.key)
  BY <1>1 DEF Inv, Registry
<1>4. a.count = "authors" /\ registry[a.key].authors # AuthorCount(a.key.lang, a.key.id) =>
        /\ registry[a.key].authors = 0
        /\ \E g \in operation \ {f} : Fields[g].kind = "statistics" /\ Fields[g].lang = a.key.lang
  BY <1>2, <1>3 DEF Asked, AuthorsKnown, Pending
<1>5. QED  BY <1>1, <1>3, <1>4, AnswerInv

LEMMA FromDatabaseInv ==
  ASSUME Inv, NEW f \in operation, AnswerFromDatabase(f)
  PROVE  Inv'
<1> DEFINE value(a) == IF a.count = "poems" THEN PoemCount(paths[f], a.key.kind, a.key.id)
                                            ELSE AuthorCount(paths[f], a.key.id)
<1>1. PICK a \in asks[f] :
        /\ Answer(f, a, value(a), TRUE)
        /\ UNCHANGED <<operation, status, queries, writes, paths, registry, faults>>
  BY DEF AnswerFromDatabase
<1>2. Asked(f, a) /\ status[f] = "resolved"
  BY DEF Inv, Asking
<1>3. paths[f] = a.key.lang
  BY <1>2 DEF Inv, Spoken, Asked
<1>4. /\ a.count = "poems" => value(a) = PoemCount(a.key.lang, a.key.kind, a.key.id)
      /\ a.count = "authors" => value(a) = AuthorCount(a.key.lang, a.key.id)
  BY <1>3
<1> HIDE DEF value
<1>5. QED  BY <1>1, <1>4, AnswerInv

LEMMA AnswerFailsInv ==
  ASSUME Inv, NEW f \in operation, AnswerFails(f)
  PROVE  Inv'
<1> USE DEF Inv
<1>1. PICK a \in asks[f] :
        /\ asks' = [asks EXCEPT ![f] = @ \ {a}]
        /\ UNCHANGED <<operation, status, queries, writes, paths, registry, answers>>
  BY DEF AnswerFails
<1>2. Shapes' /\ Spoken'
  <2>1. asks' = [g \in operation |-> asks'[g]]
    BY <1>1 DEF Shapes
  <2>2. QED  BY <1>1, <2>1 DEF Shapes, Spoken
<1>3. Writing'
  BY <1>1 DEF Writing, WellKeyed, PoemsRight, AuthorsRight, Unfinished
<1>4. Registry'
  BY <1>1 DEF Registry, AuthorsKnown, WellKeyed, Pending, Replaces, AuthorsRight
<1>5. Asking' /\ PoemCountsAreTrue' /\ WrongOnlyBesideStatistics'
  BY <1>1 DEF Asking, Asked, Shapes, PoemCountsAreTrue, WrongOnlyBesideStatistics, Truth
<1>6. QED  BY <1>2, <1>3, <1>4, <1>5

LEMMA StutterInv ==
  ASSUME Inv, UNCHANGED vars
  PROVE  Inv'
<1> USE DEF Inv, vars
<1>1. Shapes' /\ Spoken'
  BY DEF Shapes, Spoken
<1>2. Writing'
  BY DEF Writing, WellKeyed, PoemsRight, AuthorsRight, Unfinished
<1>3. Registry'
  BY DEF Registry, AuthorsKnown, WellKeyed, Pending, Replaces, AuthorsRight
<1>4. Asking' /\ PoemCountsAreTrue' /\ WrongOnlyBesideStatistics'
  BY DEF Asking, Asked, PoemCountsAreTrue, WrongOnlyBesideStatistics, Truth
<1>5. QED  BY <1>1, <1>2, <1>3, <1>4

-----------------------------------------------------------------------------
\* The invariant holds in every operation, for every catalogue and schedule: the
\* registry is right but for zeros that a pending statistics field will replace.
THEOREM InvariantHolds == Spec => []Inv
<1>1. Init => Inv
  BY InitInv
<1>2. Inv /\ [Next]_vars => Inv'
  <2>1. SUFFICES ASSUME Inv, [Next]_vars PROVE Inv'
    OBVIOUS
  <2>2. CASE UNCHANGED vars
    BY <2>1, <2>2, StutterInv
  <2>3. ASSUME NEW f \in operation, FieldStep(f) PROVE Inv'
    BY <2>1, <2>3, QueryInv, PageRefusedInv, QueryFailsInv, RelationFailsInv, CacheInv, ReturnInv, FromRegistryInv, FromDatabaseInv, AnswerFailsInv
       DEF FieldStep
  <2>4. QED  BY <2>1, <2>2, <2>3 DEF Next
<1>3. QED  BY <1>1, <1>2, PTL DEF Spec

\* Every poemCount is the number of poems in the language of its root field
\* (authorResolver, dynastyResolver and poetryTypeResolver PoemCount).
THEOREM PoemCountsCorrect == Spec => []PoemCountsAreTrue
  BY InvariantHolds, PTL DEF Inv

\* An authorCount is right, or it is zero and another field of the operation asks
\* for the statistics of the same language (dynastyResolver.AuthorCount).
THEOREM AuthorCountsCorrect == Spec => []WrongOnlyBesideStatistics
  BY InvariantHolds, PTL DEF Inv

-----------------------------------------------------------------------------
(* Types: every count is one of the catalogue's poems. *)

LEMMA CountBound ==
  ASSUME NEW l \in Langs, NEW S \in SUBSET Poems[l]
  PROVE  Cardinality(S) \in Count /\ \E n \in Nat : Count = 0 .. n
<1> DEFINE All == UNION {Poems[x] : x \in Langs}
<1>1. IsFiniteSet({Poems[x] : x \in Langs})
  <2> DEFINE table == [x \in Langs |-> Poems[x]]
  <2>1. table \in Surjection(Langs, {Poems[x] : x \in Langs})
    BY DEF Surjection
  <2>2. QED  BY <2>1, GraphCountsAssumption, FS_Surjection
<1>2. IsFiniteSet(All)
  <2>1. \A T \in {Poems[x] : x \in Langs} : IsFiniteSet(T)
    BY GraphCountsAssumption
  <2>2. QED  BY <1>1, <2>1, FS_UNION
<1>3. S \in SUBSET All
  OBVIOUS
<1>4. IsFiniteSet(S) /\ Cardinality(S) <= Cardinality(All)
  BY <1>2, <1>3, FS_Subset
<1>5. Cardinality(S) \in Nat /\ Cardinality(All) \in Nat
  BY <1>2, <1>4, FS_CardinalityType
<1> HIDE DEF All
<1>6. Cardinality(S) \in 0 .. Cardinality(All)
  BY <1>4, <1>5
<1>7. Count = 0 .. Cardinality(All)
  BY DEF Count, All
<1>8. QED  BY <1>5, <1>6, <1>7

LEMMA CountTypes ==
  ASSUME NEW l \in Langs, NEW kind, NEW id
  PROVE  PoemCount(l, kind, id) \in Count /\ AuthorCount(l, id) \in Count /\ 0 \in Count
<1>1. PoemsOf(l, kind, id) \in SUBSET Poems[l] /\ PoemsOf(l, "dynasty", id) \in SUBSET Poems[l]
  BY DEF PoemsOf
<1>2. PoemCount(l, kind, id) \in Count
  BY <1>1, CountBound DEF PoemCount
<1> DEFINE S == PoemsOf(l, "dynasty", id)
           T == {p.author : p \in S}
           author == [p \in S |-> p.author]
<1>3. IsFiniteSet(S)
  BY <1>1, FS_Subset, GraphCountsAssumption
<1>4. author \in Surjection(S, T)
  BY DEF Surjection
<1>5. IsFiniteSet(T) /\ Cardinality(T) <= Cardinality(S)
  BY <1>3, <1>4, FS_Surjection
<1>6. Cardinality(T) \in Nat /\ Cardinality(S) \in Count
  BY <1>1, <1>5, CountBound, FS_CardinalityType
<1> HIDE DEF S, T
<1>7. Cardinality(T) \in Count /\ 0 \in Count
  <2>1. PICK n \in Nat : Count = 0 .. n
    BY CountBound
  <2>2. QED  BY <1>5, <1>6, <2>1
<1>8. QED  BY <1>2, <1>7 DEF AuthorCount, S, T

Entries == [key : CountKeys, poems : Count, authors : Count]

LEMMA KeyTypes ==
  ASSUME NEW l \in Langs
  PROVE  /\ \A a \in Authors[l] : Key(l, "author", a.id) \in CountKeys /\ a.dynasty \in Dynasties
         /\ \A p \in Poems[l] : /\ AuthorOf(l, p.author) \in Authors[l] /\ AuthorOf(l, p.author).id = p.author
                                /\ p.dynasty \in Dynasties /\ p.type \in Types
         /\ \A d \in Dynasties : Key(l, "dynasty", d) \in CountKeys
         /\ \A t \in Types : Key(l, "type", t) \in CountKeys
<1>1. \A a \in Authors[l] : a.id \in {b.id : b \in UNION {Authors[x] : x \in Langs}}
  OBVIOUS
<1>2. \A a \in Authors[l] : a.dynasty \in Dynasties
  BY GraphCountsAssumption
<1>3. \A p \in Poems[l] : AuthorOf(l, p.author) \in Authors[l] /\ AuthorOf(l, p.author).id = p.author
  BY GraphCountsAssumption DEF AuthorOf
<1>4. QED  BY <1>1, <1>2, <1>3, GraphCountsAssumption DEF Key, CountKeys

LEMMA EntryTypes ==
  ASSUME NEW l \in Langs
  PROVE  /\ \A a \in Authors[l] : AuthorEntry(l, a.id) \in Entries
         /\ \A t \in Types : TypeEntry(l, t) \in Entries
         /\ \A d \in Dynasties : \A n \in Count : DynastyEntry(l, d, n) \in Entries
BY KeyTypes, CountTypes DEF AuthorEntry, TypeEntry, DynastyEntry, Entries

LEMMA RowTypes ==
  ASSUME NEW f \in DOMAIN Fields, NEW l \in Langs
  PROVE  /\ Fields[f].kind \in {"poem", "poems", "author.poems"} => Rows(f, l) \subseteq Poems[l]
         /\ Fields[f].kind \in {"author", "authors"} => Rows(f, l) \subseteq Authors[l]
BY DEF Rows

LEMMA BatchTypes ==
  ASSUME NEW f \in DOMAIN Fields, NEW l \in Langs
  PROVE  /\ Len(Batches(f, l)) \in 1 .. 4 /\ DOMAIN Batches(f, l) = 1 .. Len(Batches(f, l))
         /\ \A i \in 1 .. Len(Batches(f, l)) : Batches(f, l)[i] \subseteq Entries
<1>1. \A d : AuthorCount(l, d) \in Count /\ AuthorRows(l, d) \in Count /\ 0 \in Count
  BY CountTypes, RowsAreAuthors
<1> DEFINE B == Batches(f, l)
           Good == Len(B) \in 1 .. 4 /\ DOMAIN B = 1 .. Len(B) /\ \A i \in 1 .. Len(B) : B[i] \subseteq Entries
<1>2. CASE Fields[f].kind = "statistics"
  <2>1. B = Statistics(l)
    BY <1>2 DEF Batches
  <2>2. QED  BY <2>1, <1>1, EntryTypes DEF Statistics
<1>3. CASE Fields[f].kind = "dynasties"
  <2>1. B = << {DynastyEntry(l, d, AuthorCount(l, d)) : d \in Dynasties} >>
    BY <1>3 DEF Batches
  <2>2. QED  BY <2>1, <1>1, EntryTypes
<1>4. CASE Fields[f].kind = "poemTypes"
  <2>1. B = << {TypeEntry(l, t) : t \in Types} >>
    BY <1>4 DEF Batches
  <2>2. QED  BY <2>1, EntryTypes
<1>5. CASE Fields[f].kind = "authors"
  <2>1. B = AuthorPage(l, Rows(f, l)) /\ Rows(f, l) \subseteq Authors[l]
    BY <1>5, RowTypes DEF Batches
  <2>2. QED  BY <2>1, <1>1, EntryTypes, KeyTypes DEF AuthorPage
<1>6. CASE Fields[f].kind \in {"poems", "author.poems"}
  <2>1. B = PoemPage(l, Rows(f, l)) /\ Rows(f, l) \subseteq Poems[l]
    BY <1>6, RowTypes DEF Batches
  <2>2. \A p \in Rows(f, l) : AuthorEntry(l, p.author) \in Entries
    <3>1. ASSUME NEW p \in Rows(f, l) PROVE AuthorEntry(l, AuthorOf(l, p.author).id) \in Entries
      BY <2>1, EntryTypes, KeyTypes
    <3>2. QED  BY <2>1, <3>1, KeyTypes
  <2>3. \A p \in Rows(f, l) : DynastyEntry(l, p.dynasty, AuthorCount(l, p.dynasty)) \in Entries /\ TypeEntry(l, p.type) \in Entries
    BY <2>1, <1>1, EntryTypes, KeyTypes
  <2>4. QED  BY <2>1, <2>2, <2>3 DEF PoemPage
<1>7. CASE Fields[f].kind \in {"poem", "author"}
  <2>1. B = << {} >>
    BY <1>7 DEF Batches
  <2>2. QED  BY <2>1
<1>8. QED  BY <1>2, <1>3, <1>4, <1>5, <1>6, <1>7, GraphCountsAssumption DEF Kinds

LEMMA BelowTypes ==
  ASSUME NEW f \in DOMAIN Fields, NEW l \in Langs
  PROVE  Below(f, l) \subseteq CountFields
<1> DEFINE Place == Seq(PathSteps)
           es == UNION {Batches(f, l)[i] : i \in DOMAIN Batches(f, l)}
<1>1. \A kind, id : \A at \in Place : Key(l, kind, id) \in CountKeys => CountsOf(l, kind, id, at) \subseteq CountFields
  BY DEF CountsOf, CountFields
<1>2. ASSUME NEW at \in Place PROVE at \o <<"author">> \in Place /\ at \o <<"dynasty">> \in Place /\ at \o <<"type">> \in Place
  <2>1. <<"author">> \in Place /\ <<"dynasty">> \in Place /\ <<"type">> \in Place
    BY DEF PathSteps
  <2>2. \A w \in Place : at \o w \in Place
    OBVIOUS
  <2>3. QED  BY <2>1, <2>2
<1>3. /\ Row \in Place /\ << >> \in Place /\ <<"[]">> \in Place
      /\ \A kind : StatisticsPlace(kind) \in Place
  <2>1. <<"edges", "[]", "node">> \in Place /\ << >> \in Place /\ <<"[]">> \in Place
    BY DEF PathSteps
  <2>2. <<"poemsByDynasty", "[]", "dynasty">> \in Place /\ <<"poemsByType", "[]", "type">> \in Place
    BY DEF PathSteps
  <2>3. \A kind : StatisticsPlace(kind) \in Place
    BY <2>2 DEF StatisticsPlace
  <2>4. QED  BY <2>1, <2>3 DEF Row
<1> HIDE DEF Place
<1>4. \A b \in Authors[l] : \A at \in Place : CountsBelowAuthor(l, b, at) \subseteq CountFields
  BY <1>1, <1>2, KeyTypes DEF CountsBelowAuthor
<1>5. \A p \in Poems[l] : \A at \in Place : CountsBelowPoem(l, p, at) \subseteq CountFields
  BY <1>1, <1>2, <1>4, KeyTypes DEF CountsBelowPoem
<1>6. \A e \in es : Key(l, e.key.kind, e.key.id) \in CountKeys
  <2>1. ASSUME NEW i \in DOMAIN Batches(f, l), NEW e \in Batches(f, l)[i]
        PROVE  Key(l, e.key.kind, e.key.id) \in CountKeys
    <3>1. i \in 1 .. Len(Batches(f, l))
      BY BatchTypes
    <3>2. e \in Entries /\ e.key.lang = l /\ WellKeyed(e.key)
      BY <3>1, BatchTypes, BatchIsRight
    <3>3. QED  BY <3>2 DEF Entries, WellKeyed
  <2>2. QED  BY <2>1
<1>7. CASE Fields[f].kind = "statistics"
  <2>1. Below(f, l) = UNION {CountsOf(l, e.key.kind, e.key.id, StatisticsPlace(e.key.kind)) : e \in es}
    BY <1>7 DEF Below
  <2>2. QED  BY <2>1, <1>1, <1>3, <1>6
<1>8. CASE Fields[f].kind \in {"dynasties", "poemTypes"}
  <2>1. Below(f, l) = UNION {CountsOf(l, e.key.kind, e.key.id, <<"[]">>) : e \in es}
    BY <1>8 DEF Below
  <2>2. QED  BY <2>1, <1>1, <1>3, <1>6
<1>9. CASE Fields[f].kind \in {"author", "authors"}
  <2>1. PICK at \in Place : Below(f, l) = UNION {CountsBelowAuthor(l, a, at) : a \in Rows(f, l)}
    BY <1>3, <1>9 DEF Below
  <2>2. QED  BY <2>1, <1>4, <1>9, RowTypes
<1>10. CASE Fields[f].kind \in {"poems", "author.poems", "poem"}
  <2>1. PICK at \in Place : Below(f, l) = UNION {CountsBelowPoem(l, p, at) : p \in Rows(f, l)}
    BY <1>3, <1>10 DEF Below
  <2>2. QED  BY <2>1, <1>5, <1>10, RowTypes
<1>11. QED  BY <1>7, <1>8, <1>9, <1>10, GraphCountsAssumption DEF Kinds

LEMMA InitTypes == Init => TypeOK
<1> SUFFICES ASSUME Init PROVE TypeOK
  OBVIOUS
<1>1. MaxFaults \in Nat
  BY GraphCountsAssumption
<1>2. QED  BY <1>1 DEF Init, TypeOK

\* One field's step: the registry takes over what is written, and answers come from
\* the registry or from the database.
LEMMA StepTypes ==
  ASSUME Inv, TypeOK, NEW f \in operation, FieldStep(f)
  PROVE  TypeOK'
<1> DEFINE l == Fields[f].lang
           Answers == [field : operation, key : CountKeys, count : {"poems", "authors"}, at : Seq(PathSteps), value : Count, queried : BOOLEAN]
<1>1. /\ f \in DOMAIN Fields /\ l \in Langs
      /\ Started(f) => Language(f) = l
      /\ f \in DOMAIN paths => paths[f] = l
      /\ MaxFaults \in Nat
  BY LanguageIsAsked, GraphCountsAssumption DEF Inv
<1>2. CASE Query(f)
  <2> DEFINE q == queries[f] + 1
  <2> DEFINE n == Len(Batches(f, l))
  <2>0. n \in 1 .. 4 /\ \A i \in 1 .. n : Batches(f, l)[i] \subseteq Entries
    BY <1>1, BatchTypes
  <2>1. queries[f] \in 0 .. 4 /\ queries[f] < n
    BY <1>1, <1>2 DEF Query, MoreQueries, TypeOK
  <2> HIDE DEF n
  <2>2. q \in 0 .. 4 /\ Batches(f, l)[q] \subseteq Entries
    BY <2>0, <2>1
  <2>3. /\ queries' = [queries EXCEPT ![f] = q]
        /\ writes' = [writes EXCEPT ![f] = Batches(f, l)[q]]
        /\ paths' = [g \in DOMAIN paths \cup {f} |-> IF g = f THEN l ELSE paths[g]]
        /\ UNCHANGED <<operation, status, dropped, asks, registry, answers, faults>>
    BY <1>1, <1>2 DEF Query
  <2>4. queries' \in [operation -> 0 .. 4]
    BY <2>2, <2>3 DEF TypeOK
  <2>5. \A g \in operation : writes'[g] \subseteq Entries
    BY <2>2, <2>3 DEF TypeOK, Entries, Inv, Shapes
  <2>6. DOMAIN paths' \subseteq operation /\ paths' \in [DOMAIN paths' -> Langs]
    BY <1>1, <2>3 DEF TypeOK
  <2>7. QED  BY <2>3, <2>4, <2>5, <2>6 DEF TypeOK, Entries
<1>3. CASE PageRefused(f) \/ QueryFails(f)
  BY <1>1, <1>3 DEF PageRefused, QueryFails, TypeOK
<1>4. CASE Cache(f)
  <2>1. PICK e \in writes[f] :
          /\ writes' = [writes EXCEPT ![f] = @ \ {e}]
          /\ registry' = Registered(e, [poems |-> e.poems, authors |-> e.authors])
          /\ UNCHANGED <<operation, status, queries, dropped, asks, paths, answers, faults>>
    BY <1>4 DEF Cache
  <2>2. e.key \in CountKeys /\ e.poems \in Count /\ e.authors \in Count
    BY DEF TypeOK
  <2>3. DOMAIN registry' \subseteq CountKeys /\ registry' \in [DOMAIN registry' -> [poems : Count, authors : Count]]
    BY <2>1, <2>2 DEF Registered, TypeOK
  <2>4. \A g \in operation : writes'[g] \subseteq [key : CountKeys, poems : Count, authors : Count]
    BY <2>1 DEF TypeOK, Inv, Shapes
  <2>5. QED  BY <2>1, <2>3, <2>4 DEF TypeOK
<1>5. CASE Return(f)
  <2>1. f \in DOMAIN paths
    <3> DEFINE n == Len(Batches(f, l))
    <3>1. n \in 1 .. 4
      BY <1>1, BatchTypes
    <3>2. queries[f] \in 0 .. 4 /\ ~(queries[f] < n)
      BY <1>1, <1>5 DEF Return, MoreQueries, TypeOK
    <3> HIDE DEF n
    <3>3. queries[f] > 0
      BY <3>1, <3>2
    <3>4. QED  BY <3>3 DEF Inv, Spoken
  <2>2. Reached(f, paths[f]) \subseteq CountFields
    BY <1>1, <2>1, BelowTypes DEF Reached
  <2>3. asks' \in [operation -> SUBSET CountFields]
    BY <1>5, <2>2 DEF Return, TypeOK
  <2>4. QED  BY <1>5, <2>3 DEF Return, TypeOK
<1>6. ASSUME NEW a \in asks[f], NEW value \in Count, NEW queried \in BOOLEAN, Answer(f, a, value, queried),
             UNCHANGED <<operation, status, queries, dropped, writes, paths, registry, faults>>
      PROVE  TypeOK'
  <2>1. a \in CountFields
    BY DEF TypeOK
  <2>2. [field |-> f, key |-> a.key, count |-> a.count, at |-> a.at, value |-> value, queried |-> queried] \in Answers
    BY <2>1 DEF CountFields
  <2>3. answers' \subseteq Answers
    BY <1>6, <2>2 DEF Answer, TypeOK
  <2>4. asks' \in [operation -> SUBSET CountFields]
    BY <1>6 DEF Answer, TypeOK
  <2>5. QED  BY <1>6, <2>3, <2>4 DEF TypeOK
<1>7. CASE AnswerFromRegistry(f)
  <2>1. PICK a \in asks[f] :
          /\ Known(a.key)
          /\ Answer(f, a, registry[a.key][a.count], FALSE)
          /\ UNCHANGED <<operation, status, queries, dropped, writes, paths, registry, faults>>
    BY <1>7 DEF AnswerFromRegistry
  <2>2. a.count \in {"poems", "authors"} /\ registry[a.key] \in [poems : Count, authors : Count]
    BY <2>1 DEF Known, TypeOK, CountFields
  <2>3. registry[a.key][a.count] \in Count
    BY <2>2
  <2>4. QED  BY <1>6, <2>1, <2>3
<1>8. CASE AnswerFromDatabase(f)
  <2> DEFINE value(a) == IF a.count = "poems" THEN PoemCount(paths[f], a.key.kind, a.key.id) ELSE AuthorCount(paths[f], a.key.id)
  <2>1. PICK a \in asks[f] :
          /\ Answer(f, a, value(a), TRUE)
          /\ UNCHANGED <<operation, status, queries, dropped, writes, paths, registry, faults>>
    BY <1>8 DEF AnswerFromDatabase
  <2>2. paths[f] = l
    BY <1>1, <2>1 DEF Inv, Asking, Spoken
  <2>3. value(a) \in Count
    BY <1>1, <2>2, CountTypes
  <2> HIDE DEF value
  <2>4. QED  BY <1>6, <2>1, <2>3
<1>9. CASE AnswerFails(f)
  <2>1. asks' \in [operation -> SUBSET CountFields] /\ faults' \in 0 .. MaxFaults
    BY <1>1, <1>9 DEF AnswerFails, TypeOK
  <2>2. QED  BY <1>9, <2>1 DEF AnswerFails, TypeOK
<1>10. CASE RelationFails(f)
  <2>1. PICK r \in Relations(Fields[f].kind) : dropped' = [dropped EXCEPT ![f] = @ \cup {r}]
    BY <1>10 DEF RelationFails
  <2>2. DOMAIN dropped' = operation /\ \A g \in operation : dropped'[g] \subseteq Relations(Fields[g].kind)
    BY <2>1 DEF TypeOK
  <2>3. faults' \in 0 .. MaxFaults
    BY <1>1, <1>10 DEF RelationFails, TypeOK
  <2>4. QED  BY <1>10, <2>2, <2>3 DEF RelationFails, TypeOK
<1>11. QED  BY <1>2, <1>3, <1>4, <1>5, <1>7, <1>8, <1>9, <1>10 DEF FieldStep

\* Every variable keeps its type: nothing but counts of the catalogue's own poems,
\* authors, dynasties and types is ever registered, asked for or answered.
THEOREM TypeCorrect == Spec => []TypeOK
<1>1. Init => TypeOK
  BY InitTypes
<1>2. Inv /\ TypeOK /\ [Next]_vars => TypeOK'
  <2>1. ASSUME TypeOK, UNCHANGED vars PROVE TypeOK'
    BY <2>1 DEF TypeOK, vars
  <2>2. QED  BY <2>1, StepTypes DEF Next
<1>3. QED  BY <1>1, <1>2, InvariantHolds, PTL DEF Spec

-----------------------------------------------------------------------------
(* The response of one operation, for every limit beside all that.         *)
(*                                                                         *)
(* Admission and response leave the fields alone, so what is proved of     *)
(* them holds here.  A response is written only when nothing is left to    *)
(* do; a statistics field, which is never nested, has then returned, or    *)
(* its failure has taken the whole data with it, as the generated tables   *)
(* of the root object say.  With what is known of wrong author counts it   *)
(* follows that a delivered response contradicts every one it contains.    *)

\* A statistics field of an answered operation is in the response, or there is no data.
StatisticsDelivered ==
  verdict = "answered" =>
    \A f \in operation : Fields[f].kind = "statistics" => status[f] = "resolved" \/ DataLost

ResponseInv == Inv /\ StatisticsDelivered

-----------------------------------------------------------------------------
(* Where nulls go: the three tables of the generated code and the schema.  *)
(*                                                                         *)
(* A path leads from a type to a type if each of its steps is an item of   *)
(* the list before it or a field of the type it has come to.  Along such a *)
(* path the tables and the schema name the same types, and require the     *)
(* same steps.                                                             *)

Objects ==
  {"Query", "Poem", "Author", "Dynasty", "PoetryType", "PoemConnection", "PoemEdge",
   "AuthorConnection", "AuthorEdge", "PageInfo", "Statistics", "DynastyStats", "TypeStats"}

\* For every field of every object of the schema, the generated code calls the function
\* of the declared type, and counts its null as invalid if and only if it is declared
\* with "!".
LEMMA TablesAgree ==
  ASSUME NEW t \in Objects, NEW f \in DOMAIN SchemaOf(t)
  PROVE  /\ FieldType(t, f) = SchemaOf(t)[f].type
         /\ f \in Invalidating(t) <=> SchemaOf(t)[f].required
<1> USE DEF SchemaOf, FieldType, Invalidating, Opt, Req
<1>1. CASE t = "Query"
  BY <1>1 DEF QuerySchema, QueryPoemFields, QueryAuthorFields, QueryCountFields, QueryPoemObject, QueryObject
<1>2. CASE t = "Poem"
  BY <1>2 DEF PoemSchema, PoemFields, PoemObject
<1>3. CASE t = "Author"
  BY <1>3 DEF AuthorSchema, AuthorFields, AuthorObject
<1>4. CASE t = "Dynasty"
  BY <1>4 DEF DynastySchema, DynastyFields, DynastyObject
<1>5. CASE t = "PoetryType"
  BY <1>5 DEF PoetryTypeSchema, PoetryTypeFields, PoetryTypeObject
<1>6. CASE t = "PoemConnection"
  BY <1>6 DEF ConnectionSchema, PoemConnectionFields, PoemConnectionObject
<1>7. CASE t = "AuthorConnection"
  BY <1>7 DEF ConnectionSchema, AuthorConnectionFields, AuthorConnectionObject
<1>8. CASE t = "PoemEdge"
  BY <1>8 DEF EdgeSchema, PoemEdgeFields, PoemEdgeObject
<1>9. CASE t = "AuthorEdge"
  BY <1>9 DEF EdgeSchema, AuthorEdgeFields, AuthorEdgeObject
<1>10. CASE t = "PageInfo"
  BY <1>10 DEF PageInfoSchema, PageInfoFields, PageInfoObject
<1>11. CASE t = "Statistics"
  BY <1>11 DEF StatisticsSchema, StatisticsFields, StatisticsObject
<1>12. CASE t = "DynastyStats"
  BY <1>12 DEF ShareSchema, DynastyStatsFields, DynastyStatsObject
<1>13. CASE t = "TypeStats"
  BY <1>13 DEF ShareSchema, TypeStatsFields, TypeStatsObject
<1>14. QED
  BY <1>1, <1>2, <1>3, <1>4, <1>5, <1>6, <1>7, <1>8, <1>9, <1>10, <1>11, <1>12, <1>13 DEF Objects

Names == Kinds \cup PathSteps \cup {"poemCount", "authorCount"}
Paths == Seq(Names)

\* The types that a path passes, by the functions of the fields.
Passes(p, types) ==
  \A j \in 1 .. Len(p) :
    \/ p[j] = Item /\ types[j] = types[j - 1]
    \/ /\ p[j] # Item /\ types[j - 1] \in Objects /\ p[j] \in DOMAIN SchemaOf(types[j - 1])
       /\ types[j] = FieldType(types[j - 1], p[j])
Leads(t, p, u) == p \in Paths /\ \E types : Passes(p, types) /\ types[0] = t /\ types[Len(p)] = u

LEMMA SmallestNumber ==
  ASSUME NEW S, S \subseteq Nat, S # {}
  PROVE  \E n \in S : \A m \in S : n <= m
<1> DEFINE R == OpToRel(<, Nat)
<1>1. IsWellFoundedOn(R, Nat)
  BY NatLessThanWellFounded
<1>2. \A x, y \in Nat : <<y, x>> \in R <=> y < x
  BY DEF OpToRel
<1> HIDE DEF R
<1>3. PICK n \in S : \A m \in S : <<m, n>> \notin R
  BY <1>1, WFMin
<1>4. ASSUME NEW m \in S PROVE n <= m
  <2>1. n \in Nat /\ m \in Nat
    OBVIOUS
  <2>2. ~ (m < n)
    BY <1>2, <1>3, <2>1
  <2>3. QED  BY <2>1, <2>2
<1>5. QED  BY <1>4

\* Two functions that begin alike and go on alike are alike.
LEMMA SameAlong ==
  ASSUME NEW n \in Nat, NEW a, NEW b, a[0] = b[0],
         \A j \in 1 .. n : a[j - 1] = b[j - 1] => a[j] = b[j]
  PROVE  \A j \in 0 .. n : a[j] = b[j]
<1> DEFINE Differs == {j \in 0 .. n : a[j] # b[j]}
<1>1. SUFFICES ASSUME Differs # {} PROVE FALSE
  OBVIOUS
<1>2. PICK j \in Differs : \A m \in Differs : j <= m
  <2>1. Differs \subseteq Nat
    OBVIOUS
  <2> HIDE DEF Differs
  <2>2. QED  BY <1>1, <2>1, SmallestNumber
<1>3. j \in 1 .. n /\ j - 1 \in 0 .. n
  OBVIOUS
<1>4. a[j - 1] = b[j - 1]
  BY <1>2, <1>3
<1>5. QED  BY <1>3, <1>4

\* The function that TypeAlong chooses is the one that follows the path.
LEMMA TypesAlong ==
  ASSUME NEW p \in Paths, NEW types, Passes(p, types), types[0] = "Query", NEW i \in 0 .. Len(p)
  PROVE  /\ TypeAlong(FieldType, p, i) = types[i]
         /\ \A j \in 1 .. i : p[j] # Item => types[j - 1] \in Objects /\ p[j] \in DOMAIN SchemaOf(types[j - 1])
<1> DEFINE Follows(type) == type = [j \in 0 .. i |-> IF j = 0 THEN "Query" ELSE IF p[j] = Item THEN type[j - 1] ELSE FieldType(type[j - 1], p[j])]
           chosen == CHOOSE type : Follows(type)
           witness == [j \in 0 .. i |-> types[j]]
<1>1. Len(p) \in Nat /\ i \in Nat /\ i <= Len(p)
  BY DEF Paths
<1>2. ASSUME NEW j \in 0 .. i
      PROVE  witness[j] = IF j = 0 THEN "Query" ELSE IF p[j] = Item THEN witness[j - 1] ELSE FieldType(witness[j - 1], p[j])
  <2>1. CASE j = 0
    BY <2>1
  <2>2. CASE j # 0
    <3>1. j \in 1 .. Len(p) /\ j - 1 \in 0 .. i
      BY <1>1, <2>2
    <3>2. QED  BY <2>2, <3>1 DEF Passes
  <2>3. QED  BY <2>1, <2>2
<1>3. Follows(witness)
  BY <1>2
<1>4. Follows(chosen)
  <2> HIDE DEF Follows, witness
  <2>1. QED  BY <1>3
<1>5. chosen[0] = types[0] /\ \A j \in 1 .. i : chosen[j - 1] = types[j - 1] => chosen[j] = types[j]
  <2> HIDE DEF chosen
  <2>1. chosen[0] = "Query"
    BY <1>1, <1>4
  <2>2. ASSUME NEW j \in 1 .. i, chosen[j - 1] = types[j - 1] PROVE chosen[j] = types[j]
    <3>1. chosen[j] = IF p[j] = Item THEN chosen[j - 1] ELSE FieldType(chosen[j - 1], p[j])
      BY <1>1, <1>4
    <3>2. j \in 1 .. Len(p)
      BY <1>1
    <3>3. QED  BY <2>2, <3>1, <3>2 DEF Passes
  <2>3. QED  BY <2>1, <2>2
<1>6. chosen[i] = types[i]
  <2> HIDE DEF chosen
  <2>1. QED  BY <1>1, <1>5, SameAlong
<1>7. TypeAlong(FieldType, p, i) = IF i = 0 THEN "Query" ELSE chosen[i]
  BY Zenon DEF TypeAlong
<1>8. \A j \in 1 .. i : p[j] # Item => types[j - 1] \in Objects /\ p[j] \in DOMAIN SchemaOf(types[j - 1])
  BY <1>1 DEF Passes
<1> HIDE DEF chosen
<1>9. QED  BY <1>6, <1>7, <1>8

DeclaredType(t, f) == SchemaOf(t)[f].type

LEMMA DeclaredAlong ==
  ASSUME NEW p \in Paths, NEW types, Passes(p, types), types[0] = "Query", NEW i \in 0 .. Len(p)
  PROVE  TypeAlong(DeclaredType, p, i) = types[i]
<1> DEFINE Follows(type) == type = [j \in 0 .. i |-> IF j = 0 THEN "Query" ELSE IF p[j] = Item THEN type[j - 1] ELSE DeclaredType(type[j - 1], p[j])]
           chosen == CHOOSE type : Follows(type)
           witness == [j \in 0 .. i |-> types[j]]
<1>1. Len(p) \in Nat /\ i \in Nat /\ i <= Len(p)
  BY DEF Paths
<1>2. ASSUME NEW j \in 1 .. i
      PROVE  types[j] = IF p[j] = Item THEN types[j - 1] ELSE DeclaredType(types[j - 1], p[j])
  <2>1. j \in 1 .. Len(p)
    BY <1>1
  <2>2. CASE p[j] = Item
    BY <2>1, <2>2 DEF Passes
  <2>3. CASE p[j] # Item
    <3>1. /\ types[j - 1] \in Objects /\ p[j] \in DOMAIN SchemaOf(types[j - 1])
          /\ types[j] = FieldType(types[j - 1], p[j])
      BY <2>1, <2>3 DEF Passes
    <3>2. QED  BY <2>3, <3>1, TablesAgree DEF DeclaredType
  <2>4. QED  BY <2>2, <2>3
<1>3. ASSUME NEW j \in 0 .. i
      PROVE  witness[j] = IF j = 0 THEN "Query" ELSE IF p[j] = Item THEN witness[j - 1] ELSE DeclaredType(witness[j - 1], p[j])
  <2>1. CASE j = 0
    BY <2>1
  <2>2. CASE j # 0
    <3>1. j \in 1 .. i /\ j - 1 \in 0 .. i
      BY <1>1, <2>2
    <3>2. QED  BY <1>2, <2>2, <3>1
  <2>3. QED  BY <2>1, <2>2
<1>4. Follows(chosen)
  <2>1. Follows(witness)
    BY <1>3
  <2> HIDE DEF Follows, witness
  <2>2. QED  BY <2>1
<1> HIDE DEF chosen
<1>5. chosen[0] = types[0]
  BY <1>1, <1>4
<1>6. ASSUME NEW j \in 1 .. i, chosen[j - 1] = types[j - 1] PROVE chosen[j] = types[j]
  <2>1. chosen[j] = IF p[j] = Item THEN chosen[j - 1] ELSE DeclaredType(chosen[j - 1], p[j])
    BY <1>1, <1>4
  <2>2. QED  BY <1>2, <1>6, <2>1
<1>7. chosen[i] = types[i]
  BY <1>1, <1>5, <1>6, SameAlong
<1>8. TypeAlong(DeclaredType, p, i) = IF i = 0 THEN "Query" ELSE chosen[i]
  BY Zenon DEF TypeAlong, chosen
<1>9. QED  BY <1>7, <1>8

\* Along a path the code gives way to a null exactly where the schema requires a value.
LEMMA NullsAgree ==
  ASSUME NEW p, NEW u, Leads("Query", p, u)
  PROVE  NulledBy(p) = DeclaredNull(p)
<1>1. PICK types : Passes(p, types) /\ types[0] = "Query"
  BY DEF Leads
<1>2. p \in Paths /\ Len(p) \in Nat
  BY DEF Leads, Paths
<1>3. ASSUME NEW i \in 1 .. Len(p) PROVE GivesWay(p, i) <=> Required(p, i)
  <2>1. i - 1 \in 0 .. Len(p)
    BY <1>2
  <2>2. TypeAlong(FieldType, p, i - 1) = types[i - 1]
    BY <1>1, <1>2, <2>1, TypesAlong
  <2>3. TypeAlong(DeclaredType, p, i - 1) = types[i - 1]
    BY <1>1, <1>2, <2>1, DeclaredAlong
  <2>4. Required(p, i) <=> (p[i] = Item \/ SchemaOf(TypeAlong(DeclaredType, p, i - 1))[p[i]].required)
    BY Zenon DEF Required, DeclaredType
  <2>5. GivesWay(p, i) <=> (p[i] = Item \/ p[i] \in Invalidating(types[i - 1]))
    BY <2>2 DEF GivesWay, ListGivesWay
  <2>6. CASE p[i] = Item
    BY <2>4, <2>5, <2>6
  <2>7. CASE p[i] # Item
    <3>1. types[i - 1] \in Objects /\ p[i] \in DOMAIN SchemaOf(types[i - 1])
      BY <1>1, <2>7 DEF Passes
    <3>2. QED  BY <2>3, <2>4, <2>5, <2>7, <3>1, TablesAgree
  <2>8. QED  BY <2>6, <2>7
<1>4. Stop(p, GivesWay) = Stop(p, Required)
  <2> DEFINE ByCode(i) == (i > 0 => ~ GivesWay(p, i)) /\ \A j \in i + 1 .. Len(p) : GivesWay(p, j)
             BySchema(i) == (i > 0 => ~ Required(p, i)) /\ \A j \in i + 1 .. Len(p) : Required(p, j)
  <2>1. \A i \in 0 .. Len(p) : ByCode(i) <=> BySchema(i)
    BY <1>2, <1>3
  <2> HIDE DEF ByCode, BySchema
  <2>2. (CHOOSE i \in 0 .. Len(p) : ByCode(i)) = (CHOOSE i \in 0 .. Len(p) : BySchema(i))
    <3>1. {i \in 0 .. Len(p) : ByCode(i)} = {i \in 0 .. Len(p) : BySchema(i)}
      BY <2>1
    <3>2. QED  BY <2>1
  <2>3. QED  BY <2>2, Zenon DEF Stop, ByCode, BySchema
<1>5. QED  BY <1>4 DEF NulledBy, DeclaredNull

LEMMA LeadsNowhere == ASSUME NEW t PROVE Leads(t, << >>, t)
<1> DEFINE types == [j \in {0} |-> t]
<1>1. << >> \in Paths /\ Len(<< >>) = 0
  BY DEF Paths
<1>2. Passes(<< >>, types) /\ types[0] = t
  BY <1>1 DEF Passes
<1> HIDE DEF types
<1>3. QED  BY <1>1, <1>2 DEF Leads

LEMMA LeadsToField ==
  ASSUME NEW t \in Objects, NEW f \in Names, f # Item, f \in DOMAIN SchemaOf(t)
  PROVE  Leads(t, <<f>>, FieldType(t, f))
<1> DEFINE u == FieldType(t, f)
           types == [j \in 0 .. 1 |-> IF j = 0 THEN t ELSE u]
<1>1. <<f>> \in Paths /\ Len(<<f>>) = 1
  BY DEF Paths
<1> HIDE DEF u
<1>2. types[0] = t /\ types[1] = u
  OBVIOUS
<1> HIDE DEF types
<1>3. Passes(<<f>>, types)
  <2>1. \A j \in 1 .. 1 : j = 1 /\ <<f>>[j] = f /\ j - 1 = 0
    OBVIOUS
  <2>2. QED  BY <1>1, <1>2, <2>1 DEF Passes, u
<1>4. QED  BY <1>1, <1>2, <1>3 DEF Leads, u

LEMMA LeadsToItem == ASSUME NEW t PROVE Leads(t, <<"[]">>, t)
<1> DEFINE types == [j \in 0 .. 1 |-> t]
<1>1. <<"[]">> \in Paths /\ Len(<<"[]">>) = 1
  BY DEF Paths, Names, PathSteps
<1>2. types[0] = t /\ types[1] = t
  OBVIOUS
<1> HIDE DEF types
<1>3. Passes(<<"[]">>, types)
  <2>1. \A j \in 1 .. 1 : j = 1 /\ <<"[]">>[j] = "[]" /\ j - 1 = 0
    OBVIOUS
  <2>2. QED  BY <1>1, <1>2, <2>1 DEF Passes, Item
<1>4. QED  BY <1>1, <1>2, <1>3 DEF Leads

LEMMA LeadsOn ==
  ASSUME NEW p, NEW q, NEW t, NEW u, NEW v, Leads(t, p, u), Leads(u, q, v)
  PROVE  Leads(t, p \o q, v)
<1>1. PICK a : Passes(p, a) /\ a[0] = t /\ a[Len(p)] = u
  BY DEF Leads
<1>2. PICK b : Passes(q, b) /\ b[0] = u /\ b[Len(q)] = v
  BY DEF Leads
<1> DEFINE m == Len(p)
           n == Len(q)
           types == [j \in 0 .. m + n |-> IF j <= m THEN a[j] ELSE b[j - m]]
<1>3. /\ p \in Paths /\ q \in Paths /\ p \o q \in Paths
      /\ m \in Nat /\ n \in Nat /\ Len(p \o q) = m + n
      /\ \A j \in 1 .. m + n : (p \o q)[j] = IF j <= m THEN p[j] ELSE q[j - m]
  BY DEF Leads, Paths
<1> HIDE DEF m, n
<1>4. \A j \in 0 .. m + n : /\ j <= m => types[j] = a[j]
                            /\ j >= m => types[j] = b[j - m]
  BY <1>1, <1>2, <1>3 DEF m
<1> HIDE DEF types
<1>5. types[0] = t /\ types[m + n] = v
  BY <1>1, <1>2, <1>3, <1>4 DEF n
<1>6. Passes(p \o q, types)
  <2>1. SUFFICES ASSUME NEW j \in 1 .. m + n
                 PROVE  \/ (p \o q)[j] = Item /\ types[j] = types[j - 1]
                        \/ /\ (p \o q)[j] # Item /\ types[j - 1] \in Objects /\ (p \o q)[j] \in DOMAIN SchemaOf(types[j - 1])
                           /\ types[j] = FieldType(types[j - 1], (p \o q)[j])
    BY <1>3 DEF Passes
  <2>2. CASE j <= m
    <3>1. j \in 1 .. m /\ j \in 0 .. m + n /\ j - 1 \in 0 .. m + n /\ j - 1 <= m
      BY <1>3, <2>2
    <3>2. (p \o q)[j] = p[j] /\ types[j] = a[j] /\ types[j - 1] = a[j - 1]
      BY <1>3, <1>4, <2>2, <3>1
    <3>3. QED  BY <1>1, <3>1, <3>2 DEF Passes, m
  <2>3. CASE j > m
    <3>1. j - m \in 1 .. n /\ j \in 0 .. m + n /\ j - 1 \in 0 .. m + n /\ j - 1 >= m /\ (j - 1) - m = (j - m) - 1
      BY <1>3, <2>3
    <3>2. (p \o q)[j] = q[j - m]
      BY <1>3, <2>3
    <3>3. types[j] = b[j - m] /\ types[j - 1] = b[(j - 1) - m]
      BY <1>3, <1>4, <2>3, <3>1
    <3>4. QED  BY <1>2, <3>1, <3>2, <3>3 DEF Passes, n
  <2>4. QED  BY <1>3, <2>2, <2>3
<1>7. QED  BY <1>3, <1>5, <1>6 DEF Leads

\* The type of what a field of the model returns, and of an entity that is counted.
KindType(kind) == IF kind = "author.poems" THEN "PoemConnection" ELSE FieldType("Query", kind)
EntityType(kind) == CASE kind = "author" -> "Author" [] kind = "dynasty" -> "Dynasty" [] kind = "type" -> "PoetryType"

LEMMA KindTypes ==
  /\ KindType("statistics") = "Statistics" /\ KindType("dynasties") = "Dynasty" /\ KindType("poemTypes") = "PoetryType"
  /\ KindType("authors") = "AuthorConnection" /\ KindType("author") = "Author" /\ KindType("poem") = "Poem"
  /\ KindType("poems") = "PoemConnection" /\ KindType("author.poems") = "PoemConnection"
BY DEF KindType, FieldType, QueryPoemFields, QueryAuthorFields, QueryCountFields

LEMMA StepsLead ==
  /\ \A kind \in Kinds \ {"author.poems"} : Leads("Query", <<kind>>, KindType(kind))
  /\ Leads("Poem", <<"author">>, "Author") /\ Leads("Poem", <<"dynasty">>, "Dynasty") /\ Leads("Poem", <<"type">>, "PoetryType")
  /\ Leads("Author", <<"dynasty">>, "Dynasty") /\ Leads("Author", <<"poems">>, "PoemConnection")
  /\ Leads("Author", <<"poemCount">>, Leaf) /\ Leads("PoetryType", <<"poemCount">>, Leaf)
  /\ Leads("Dynasty", <<"poemCount">>, Leaf) /\ Leads("Dynasty", <<"authorCount">>, Leaf)
<1> USE DEF SchemaOf, FieldType, Objects, Item
<1>1. ASSUME NEW kind \in Kinds \ {"author.poems"} PROVE Leads("Query", <<kind>>, KindType(kind))
  <2>1. kind \in Names /\ kind # Item /\ kind \in DOMAIN SchemaOf("Query")
    BY DEF Names, Kinds, QuerySchema
  <2>2. Leads("Query", <<kind>>, FieldType("Query", kind))
    <3> HIDE DEF SchemaOf, FieldType, Item
    <3>1. QED  BY <2>1, LeadsToField
  <2>3. kind # "author.poems"
    OBVIOUS
  <2> HIDE DEF FieldType
  <2>4. QED  BY <2>2, <2>3 DEF KindType
<1>2. {"author", "dynasty", "type", "poems", "poemCount", "authorCount"} \subseteq Names
  BY DEF Names, Kinds, PathSteps
<1>3. /\ {"author", "dynasty", "type"} \subseteq DOMAIN SchemaOf("Poem")
      /\ FieldType("Poem", "author") = "Author" /\ FieldType("Poem", "dynasty") = "Dynasty" /\ FieldType("Poem", "type") = "PoetryType"
  BY DEF PoemSchema, PoemFields
<1>4. /\ {"dynasty", "poems", "poemCount"} \subseteq DOMAIN SchemaOf("Author")
      /\ FieldType("Author", "dynasty") = "Dynasty" /\ FieldType("Author", "poems") = "PoemConnection" /\ FieldType("Author", "poemCount") = Leaf
  BY DEF AuthorSchema, AuthorFields
<1>5. /\ {"poemCount", "authorCount"} \subseteq DOMAIN SchemaOf("Dynasty")
      /\ FieldType("Dynasty", "poemCount") = Leaf /\ FieldType("Dynasty", "authorCount") = Leaf
  BY DEF DynastySchema, DynastyFields
<1>6. "poemCount" \in DOMAIN SchemaOf("PoetryType") /\ FieldType("PoetryType", "poemCount") = Leaf
  BY DEF PoetryTypeSchema, PoetryTypeFields
<1>7. \A f \in {"author", "dynasty", "type", "poems", "poemCount", "authorCount"} : f # Item
  OBVIOUS
<1>8. {"Poem", "Author", "Dynasty", "PoetryType"} \subseteq Objects
  OBVIOUS
<1> HIDE DEF SchemaOf, FieldType, Objects, Item
<1>9. Leads("Poem", <<"author">>, "Author") /\ Leads("Poem", <<"dynasty">>, "Dynasty") /\ Leads("Poem", <<"type">>, "PoetryType")
  <2>1. \A f \in {"author", "dynasty", "type"} : Leads("Poem", <<f>>, FieldType("Poem", f))
    BY <1>2, <1>3, <1>7, <1>8, LeadsToField
  <2>2. QED  BY <1>3, <2>1
<1>10. Leads("Author", <<"dynasty">>, "Dynasty") /\ Leads("Author", <<"poems">>, "PoemConnection") /\ Leads("Author", <<"poemCount">>, Leaf)
  <2>1. \A f \in {"dynasty", "poems", "poemCount"} : Leads("Author", <<f>>, FieldType("Author", f))
    BY <1>2, <1>4, <1>7, <1>8, LeadsToField
  <2>2. QED  BY <1>4, <2>1
<1>11. Leads("Dynasty", <<"poemCount">>, Leaf) /\ Leads("Dynasty", <<"authorCount">>, Leaf)
  <2>1. \A f \in {"poemCount", "authorCount"} : Leads("Dynasty", <<f>>, FieldType("Dynasty", f))
    BY <1>2, <1>5, <1>7, <1>8, LeadsToField
  <2>2. QED  BY <1>5, <2>1
<1>12. Leads("PoetryType", <<"poemCount">>, Leaf)
  <2>1. Leads("PoetryType", <<"poemCount">>, FieldType("PoetryType", "poemCount"))
    BY <1>2, <1>6, <1>7, <1>8, LeadsToField
  <2>2. QED  BY <1>6, <2>1
<1>13. QED  BY <1>1, <1>9, <1>10, <1>11, <1>12

LEMMA Triple == ASSUME NEW S, NEW a \in S, NEW b \in S, NEW c \in S PROVE (<<a>> \o <<b>>) \o <<c>> = <<a,b,c>>
<1> DEFINE s == (<<a>> \o <<b>>) \o <<c>>
           t == <<a,b,c>>
<1>1. s \in Seq(S) /\ t \in Seq(S)
  OBVIOUS
<1>2. Len(s) = 3 /\ Len(t) = 3
  OBVIOUS
<1>3. s[1] = a /\ s[2] = b /\ s[3] = c
  OBVIOUS
<1>4. t[1] = a /\ t[2] = b /\ t[3] = c
  OBVIOUS
<1> HIDE DEF s, t
<1>5. \A i \in 1 .. 3 : s[i] = t[i]
  BY <1>3, <1>4
<1>6. Len(s) = Len(t) /\ \A i \in 1 .. Len(s) : s[i] = t[i]
  BY <1>2, <1>5
<1>7. s = t
  BY <1>1, <1>6, SeqEqual
<1>8. QED  BY <1>7 DEF s, t

\* The rows of a connection, and what the shares of the statistics are of.
LEMMA PlacesLead ==
  /\ Leads("PoemConnection", Row, "Poem") /\ Leads("AuthorConnection", Row, "Author")
  /\ Leads("Statistics", StatisticsPlace("dynasty"), "Dynasty") /\ Leads("Statistics", StatisticsPlace("type"), "PoetryType")
<1> DEFINE In(t, list, v, field, u) ==
             /\ t \in Objects /\ list \in Names /\ list # Item /\ list \in DOMAIN SchemaOf(t) /\ FieldType(t, list) = v
             /\ v \in Objects /\ field \in Names /\ field # Item /\ field \in DOMAIN SchemaOf(v) /\ FieldType(v, field) = u
<1>1. /\ In("PoemConnection", "edges", "PoemEdge", "node", "Poem")
      /\ In("AuthorConnection", "edges", "AuthorEdge", "node", "Author")
  BY DEF Objects, Names, PathSteps, Item, SchemaOf, FieldType, ConnectionSchema, EdgeSchema,
         PoemConnectionFields, PoemEdgeFields, AuthorConnectionFields, AuthorEdgeFields
<1>2. /\ In("Statistics", "poemsByDynasty", "DynastyStats", "dynasty", "Dynasty")
      /\ In("Statistics", "poemsByType", "TypeStats", "type", "PoetryType")
  BY DEF Objects, Names, PathSteps, Item, SchemaOf, FieldType, StatisticsSchema, ShareSchema,
         StatisticsFields, DynastyStatsFields, TypeStatsFields
<1>3. ASSUME NEW t, NEW list, NEW v, NEW field, NEW u, In(t, list, v, field, u)
      PROVE  Leads(t, <<list, "[]", field>>, u)
  <2>1. Leads(t, <<list>>, v) /\ Leads(v, <<field>>, u)
    BY <1>3, LeadsToField
  <2>2. Leads(t, (<<list>> \o <<"[]">>) \o <<field>>, u)
    BY <2>1, LeadsToItem, LeadsOn
  <2>3. (<<list>> \o <<"[]">>) \o <<field>> = <<list, "[]", field>>
    <3>1. list \in Names /\ "[]" \in Names /\ field \in Names
      BY <1>3 DEF Names, PathSteps
    <3>2. QED  BY <3>1, Triple
  <2>4. QED  BY <2>2, <2>3
<1> HIDE DEF In
<1>4. QED  BY <1>1, <1>2, <1>3 DEF Row, StatisticsPlace

\* Where counts are asked for below a field, its path leads on to a count.
Counted(t, a) == \E u : Leads(t, a.at, u) /\ Leads(u, <<CountName(a.count)>>, Leaf)

LEMMA EntriesOfKind ==
  ASSUME NEW f, NEW l, NEW i \in DOMAIN Batches(f, l), NEW e \in Batches(f, l)[i]
  PROVE  /\ Fields[f].kind = "statistics" => e.key.kind \in {"dynasty", "type"}
         /\ Fields[f].kind = "dynasties" => e.key.kind = "dynasty"
         /\ Fields[f].kind = "poemTypes" => e.key.kind = "type"
<1>1. \A d, n : DynastyEntry(l, d, n).key.kind = "dynasty"
  BY DEF DynastyEntry, Key
<1>2. \A t : TypeEntry(l, t).key.kind = "type"
  BY DEF TypeEntry, Key
<1>3. CASE Fields[f].kind = "statistics"
  <2>1. Batches(f, l) = Statistics(l)
    BY <1>3 DEF Batches
  <2>2. QED  BY <2>1, <1>1, <1>2, <1>3 DEF Statistics
<1>4. CASE Fields[f].kind = "dynasties"
  <2>1. Batches(f, l) = << {DynastyEntry(l, d, AuthorCount(l, d)) : d \in Dynasties} >>
    BY <1>4 DEF Batches
  <2>2. QED  BY <2>1, <1>1, <1>4
<1>5. CASE Fields[f].kind = "poemTypes"
  <2>1. Batches(f, l) = << {TypeEntry(l, t) : t \in Types} >>
    BY <1>5 DEF Batches
  <2>2. QED  BY <2>1, <1>2, <1>5
<1>6. QED  BY <1>3, <1>4, <1>5

LEMMA CountsLead ==
  ASSUME NEW t, NEW at, NEW l
  PROVE  /\ \A kind \in {"author", "dynasty", "type"} : \A id : Leads(t, at, EntityType(kind)) =>
              \A a \in CountsOf(l, kind, id, at) : Counted(t, a)
         /\ \A b : Leads(t, at, "Author") => \A a \in CountsBelowAuthor(l, b, at) : Counted(t, a)
         /\ \A p : Leads(t, at, "Poem") => \A a \in CountsBelowPoem(l, p, at) : Counted(t, a)
<1>1. /\ \A kind \in {"author", "dynasty", "type"} : Leads(EntityType(kind), <<"poemCount">>, Leaf)
      /\ Leads(EntityType("dynasty"), <<"authorCount">>, Leaf)
  BY StepsLead DEF EntityType
<1>2. ASSUME NEW kind \in {"author", "dynasty", "type"}, NEW id, NEW place, Leads(t, place, EntityType(kind)),
             NEW a \in CountsOf(l, kind, id, place)
      PROVE  Counted(t, a)
  <2>1. a.at = place /\ (a.count = "poems" \/ (a.count = "authors" /\ kind = "dynasty"))
    BY DEF CountsOf
  <2>2. Leads(EntityType(kind), <<CountName(a.count)>>, Leaf)
    BY <1>1, <2>1 DEF CountName
  <2>3. QED  BY <1>2, <2>1, <2>2 DEF Counted
<1>3. ASSUME NEW b, NEW place, Leads(t, place, "Author"), NEW a \in CountsBelowAuthor(l, b, place)
      PROVE  Counted(t, a)
  <2>1. Leads(t, place \o <<"dynasty">>, "Dynasty")
    BY <1>3, StepsLead, LeadsOn
  <2>2. Leads(t, place, EntityType("author")) /\ Leads(t, place \o <<"dynasty">>, EntityType("dynasty"))
    BY <1>3, <2>1 DEF EntityType
  <2>3. CASE a \in CountsOf(l, "author", b.id, place)
    BY <1>2, <2>2, <2>3
  <2>4. CASE a \in CountsOf(l, "dynasty", b.dynasty, place \o <<"dynasty">>)
    BY <1>2, <2>2, <2>4
  <2>5. QED  BY <1>3, <2>3, <2>4 DEF CountsBelowAuthor
<1>4. ASSUME NEW p, Leads(t, at, "Poem"), NEW a \in CountsBelowPoem(l, p, at)
      PROVE  Counted(t, a)
  <2>1. Leads(t, at \o <<"author">>, "Author") /\ Leads(t, at \o <<"dynasty">>, "Dynasty") /\ Leads(t, at \o <<"type">>, "PoetryType")
    BY <1>4, StepsLead, LeadsOn
  <2>2. Leads(t, at \o <<"dynasty">>, EntityType("dynasty")) /\ Leads(t, at \o <<"type">>, EntityType("type"))
    BY <2>1 DEF EntityType
  <2>3. CASE a \in CountsBelowAuthor(l, AuthorOf(l, p.author), at \o <<"author">>)
    BY <1>3, <2>1, <2>3
  <2>4. CASE a \in CountsOf(l, "dynasty", p.dynasty, at \o <<"dynasty">>)
    BY <1>2, <2>2, <2>4
  <2>5. CASE a \in CountsOf(l, "type", p.type, at \o <<"type">>)
    BY <1>2, <2>2, <2>5
  <2>6. QED  BY <1>4, <2>3, <2>4, <2>5 DEF CountsBelowPoem
<1>5. QED  BY <1>2, <1>3, <1>4

LEMMA BelowLeads ==
  ASSUME NEW f \in DOMAIN Fields, NEW l, NEW a \in Below(f, l)
  PROVE  Counted(KindType(Fields[f].kind), a)
<1> DEFINE k == Fields[f].kind
           es == UNION {Batches(f, l)[i] : i \in DOMAIN Batches(f, l)}
<1>1. CASE k = "statistics"
  <2>1. PICK e \in es : a \in CountsOf(l, e.key.kind, e.key.id, StatisticsPlace(e.key.kind))
    BY <1>1 DEF Below
  <2>2. e.key.kind \in {"dynasty", "type"}
    BY <1>1, <2>1, EntriesOfKind
  <2>3. Leads("Statistics", StatisticsPlace(e.key.kind), EntityType(e.key.kind))
    BY <2>2, PlacesLead DEF EntityType
  <2>4. QED  BY <1>1, <2>1, <2>2, <2>3, CountsLead, KindTypes
<1>2. CASE k \in {"dynasties", "poemTypes"}
  <2>1. PICK e \in es : a \in CountsOf(l, e.key.kind, e.key.id, <<"[]">>)
    BY <1>2 DEF Below
  <2>2. e.key.kind \in {"dynasty", "type"} /\ KindType(k) = EntityType(e.key.kind)
    BY <1>2, <2>1, EntriesOfKind, KindTypes DEF EntityType
  <2>3. Leads(KindType(k), <<"[]">>, EntityType(e.key.kind))
    BY <2>2, LeadsToItem
  <2>4. QED  BY <2>1, <2>2, <2>3, CountsLead
<1>3. CASE k = "author"
  <2>1. PICK b \in Rows(f, l) : a \in CountsBelowAuthor(l, b, << >>)
    BY <1>3 DEF Below
  <2>2. QED  BY <1>3, <2>1, LeadsNowhere, CountsLead, KindTypes
<1>4. CASE k = "authors"
  <2>1. PICK b \in Rows(f, l) : a \in CountsBelowAuthor(l, b, Row)
    BY <1>4 DEF Below
  <2>2. QED  BY <1>4, <2>1, PlacesLead, CountsLead, KindTypes
<1>5. CASE k = "poem"
  <2>1. PICK p \in Rows(f, l) : a \in CountsBelowPoem(l, p, << >>)
    BY <1>5 DEF Below
  <2>2. QED  BY <1>5, <2>1, LeadsNowhere, CountsLead, KindTypes
<1>6. CASE k \in {"poems", "author.poems"}
  <2>1. PICK p \in Rows(f, l) : a \in CountsBelowPoem(l, p, Row)
    BY <1>6 DEF Below
  <2>2. KindType(k) = "PoemConnection"
    BY <1>6, KindTypes
  <2>3. QED  BY <2>1, <2>2, PlacesLead, CountsLead
<1>7. QED  BY <1>1, <1>2, <1>3, <1>4, <1>5, <1>6, GraphCountsAssumption DEF Kinds

-----------------------------------------------------------------------------
(* The place of a field: no selection is below itself, so that what a      *)
(* field takes over from its parent is defined for every field.            *)

\* Nothing can go wrong first with a field whose parent is all right.
LEMMA ParentsFirst ==
  ASSUME operation \in Operations, NEW S, S \subseteq operation, S # {}
  PROVE  \E f \in S : f \in DOMAIN Fields /\ (Nested(f) => Parent(f) \in operation \ S)
<1>1. PICK f \in S : Fields[f].parent \notin S
  BY GraphCountsAssumption
<1>2. f \in DOMAIN Fields /\ Fields[f].parent \in operation \cup {"root"}
  BY GraphCountsAssumption
<1>3. QED  BY <1>1, <1>2 DEF Nested, Parent

Prolonged(h, g) ==
  IF Nested(g)
  THEN [field |-> h[Parent(g)].field, path |-> h[Parent(g)].path \o AuthorPlace(Parent(g)) \o <<"poems">>]
  ELSE [field |-> g, path |-> <<Fields[g].kind>>]

\* A part of the operation that has the parents of its fields, with their paths.
Begins(D, h) ==
  /\ D \subseteq operation
  /\ \A g \in D : (Nested(g) => Parent(g) \in D) /\ h[g] = Prolonged(h, g)

LEMMA PathsBegin ==
  ASSUME operation \in Operations
  PROVE  \A f \in operation : \E D, h : f \in D /\ Begins(D, h)
<1> DEFINE Without == {f \in operation : ~ \E D, h : f \in D /\ Begins(D, h)}
<1>1. SUFFICES ASSUME Without # {} PROVE FALSE
  OBVIOUS
<1>2. PICK f \in Without : Nested(f) => Parent(f) \in operation \ Without
  <2>1. Without \subseteq operation
    OBVIOUS
  <2> HIDE DEF Without
  <2>2. QED  BY <1>1, <2>1, ParentsFirst
<1>3. CASE ~ Nested(f)
  <2> DEFINE h == [g \in {f} |-> Prolonged(g, f)]
  <2>1. Begins({f}, h)
    BY <1>3 DEF Begins, Prolonged
  <2>2. QED  BY <2>1
<1>4. CASE Nested(f)
  <2>1. PICK D, h : Parent(f) \in D /\ Begins(D, h)
    BY <1>2, <1>4
  <2>2. f \notin D
    BY <2>1
  <2> DEFINE k == [g \in D \cup {f} |-> IF g = f THEN Prolonged(h, f) ELSE h[g]]
  <2>3. \A g \in D : k[g] = h[g]
    BY <2>2
  <2>4. k[f] = Prolonged(h, f)
    OBVIOUS
  <2> HIDE DEF k
  <2>5. ASSUME NEW g \in D PROVE k[g] = Prolonged(k, g) /\ (Nested(g) => Parent(g) \in D)
    BY <2>1, <2>3 DEF Begins, Prolonged
  <2>6. k[f] = Prolonged(k, f)
    BY <1>4, <2>1, <2>3, <2>4 DEF Prolonged
  <2>7. Begins(D \cup {f}, k)
    BY <2>1, <2>5, <2>6 DEF Begins
  <2>8. QED  BY <2>7
<1>5. QED  BY <1>3, <1>4

LEMMA PathsAgree ==
  ASSUME operation \in Operations, NEW D, NEW h, NEW E, NEW k, Begins(D, h), Begins(E, k)
  PROVE  \A f \in D \cap E : h[f] = k[f]
<1> DEFINE Differ == {f \in D \cap E : h[f] # k[f]}
<1>1. SUFFICES ASSUME Differ # {} PROVE FALSE
  OBVIOUS
<1>2. PICK f \in Differ : Nested(f) => Parent(f) \in operation \ Differ
  <2>1. Differ \subseteq operation
    BY DEF Begins
  <2> HIDE DEF Differ
  <2>2. QED  BY <1>1, <2>1, ParentsFirst
<1>3. Nested(f) => h[Parent(f)] = k[Parent(f)]
  BY <1>2 DEF Begins
<1>4. QED  BY <1>3 DEF Begins, Prolonged

LEMMA PathsExist ==
  ASSUME operation \in Operations
  PROVE  \E path : path = [g \in operation |-> Prolonged(path, g)]
<1> DEFINE Of(f) == CHOOSE h : \E D : f \in D /\ Begins(D, h)
           path == [g \in operation |-> Of(g)[g]]
<1>1. ASSUME NEW f \in operation PROVE \E D : f \in D /\ Begins(D, Of(f))
  <2>1. \E h : \E D : f \in D /\ Begins(D, h)
    BY PathsBegin
  <2>2. QED  BY <2>1, Zenon
<1> HIDE DEF Of
<1>2. \A f \in operation : path[f] = Of(f)[f]
  OBVIOUS
<1> HIDE DEF path
<1>3. ASSUME NEW f \in operation PROVE path[f] = Prolonged(path, f)
  <2>1. PICK D : f \in D /\ Begins(D, Of(f))
    BY <1>1
  <2>2. Of(f)[f] = Prolonged(Of(f), f)
    BY <2>1 DEF Begins
  <2>3. CASE ~ Nested(f)
    BY <1>2, <2>2, <2>3 DEF Prolonged
  <2>4. CASE Nested(f)
    <3>1. Parent(f) \in D /\ Parent(f) \in operation
      BY <2>1, <2>4 DEF Begins
    <3>2. PICK E : Parent(f) \in E /\ Begins(E, Of(Parent(f)))
      BY <1>1, <3>1
    <3>3. Of(Parent(f))[Parent(f)] = Of(f)[Parent(f)]
      BY <2>1, <3>1, <3>2, PathsAgree
    <3>4. path[Parent(f)] = Of(f)[Parent(f)]
      BY <1>2, <3>1, <3>3
    <3>5. QED  BY <1>2, <2>2, <2>4, <3>4 DEF Prolonged
  <2>5. QED  BY <2>3, <2>4
<1>4. path = [g \in operation |-> Prolonged(path, g)]
  <2>1. path = [g \in operation |-> path[g]]
    BY DEF path
  <2>2. QED  BY <1>3, <2>1
<1>5. QED  BY <1>4

\* A field is below its parent, and a root field is its own root.
LEMMA PlaceAlong ==
  ASSUME operation \in Operations, NEW f \in operation
  PROVE  /\ f \in DOMAIN Fields
         /\ ~ Nested(f) => RootOf(f) = f /\ PathOf(f) = <<Fields[f].kind>>
         /\ Nested(f) => /\ Parent(f) \in operation /\ RootOf(f) = RootOf(Parent(f))
                         /\ PathOf(f) = PathOf(Parent(f)) \o AuthorPlace(Parent(f)) \o <<"poems">>
<1> DEFINE place == CHOOSE place : place = [g \in operation |-> Prolonged(place, g)]
<1>1. place = [g \in operation |-> Prolonged(place, g)]
  <2>1. QED  BY PathsExist, Zenon
<1>2. \A g : PlaceOf(g) = place[g]
  BY Zenon DEF PlaceOf, Prolonged
<1> HIDE DEF place
<1>3. \A g \in operation : place[g] = Prolonged(place, g)
  BY <1>1
<1>4. f \in DOMAIN Fields /\ (Nested(f) => Parent(f) \in operation)
  BY GraphCountsAssumption DEF Nested, Parent
<1>5. \A g : RootOf(g) = place[g].field /\ PathOf(g) = place[g].path
  BY <1>2, Zenon DEF RootOf, PathOf
<1>6. CASE ~ Nested(f)
  <2>1. place[f] = [field |-> f, path |-> <<Fields[f].kind>>]
    BY <1>3, <1>6 DEF Prolonged
  <2>2. place[f].field = f /\ place[f].path = <<Fields[f].kind>>
    BY <2>1
  <2>3. QED  BY <1>4, <1>5, <1>6, <2>2, Zenon
<1>7. CASE Nested(f)
  <2> DEFINE above == place[Parent(f)]
             path == above.path \o AuthorPlace(Parent(f)) \o <<"poems">>
  <2>1. place[f] = [field |-> above.field, path |-> path]
    BY <1>3, <1>7 DEF Prolonged
  <2> HIDE DEF path
  <2>2. place[f].field = above.field /\ place[f].path = path
    BY <2>1
  <2>3. RootOf(f) = RootOf(Parent(f)) /\ PathOf(f) = path
    BY <1>5, <2>2, Zenon
  <2>4. path = PathOf(Parent(f)) \o AuthorPlace(Parent(f)) \o <<"poems">>
    BY <1>5, Zenon DEF path
  <2>5. QED  BY <1>4, <1>7, <2>3, <2>4
<1>8. QED  BY <1>4, <1>6, <1>7

\* Where poems are asked for there is an author.
LEMMA AuthorLeads ==
  ASSUME NEW g, Fields[g].kind \in {"author", "authors", "poem", "poems", "author.poems"}
  PROVE  Leads(KindType(Fields[g].kind), AuthorPlace(g), "Author")
<1> DEFINE k == Fields[g].kind
<1>1. CASE k = "author"
  BY <1>1, KindTypes, LeadsNowhere DEF AuthorPlace
<1>2. CASE k = "authors"
  BY <1>2, KindTypes, PlacesLead DEF AuthorPlace
<1>3. CASE k = "poem"
  BY <1>3, KindTypes, StepsLead DEF AuthorPlace
<1>4. CASE k \in {"poems", "author.poems"}
  <2>1. AuthorPlace(g) = Row \o <<"author">> /\ KindType(k) = "PoemConnection"
    BY <1>4, KindTypes DEF AuthorPlace
  <2>2. QED  BY <2>1, PlacesLead, StepsLead, LeadsOn
<1>5. QED  BY <1>1, <1>2, <1>3, <1>4

\* The path of a field leads from the query to what the field returns.
LEMMA PathLeads ==
  ASSUME operation \in Operations
  PROVE  \A f \in operation : Leads("Query", PathOf(f), KindType(Fields[f].kind))
<1> DEFINE Astray == {f \in operation : ~ Leads("Query", PathOf(f), KindType(Fields[f].kind))}
<1>4. SUFFICES ASSUME Astray # {} PROVE FALSE
  OBVIOUS
<1>5. PICK f \in Astray : f \in DOMAIN Fields /\ (Nested(f) => Parent(f) \in operation \ Astray)
  <2>1. Astray \subseteq operation
    OBVIOUS
  <2> HIDE DEF Astray
  <2>2. QED  BY <1>4, <2>1, ParentsFirst
<1>6. CASE ~ Nested(f)
  <2>1. PathOf(f) = <<Fields[f].kind>>
    BY <1>6, PlaceAlong
  <2>2. Fields[f].kind \in Kinds \ {"author.poems"}
    BY <1>5, <1>6, GraphCountsAssumption DEF Nested, Parent
  <2>3. QED  BY <2>1, <2>2, StepsLead
<1>7. CASE Nested(f)
  <2> DEFINE k == Fields[Parent(f)].kind
             before == PathOf(Parent(f))
  <2>1. Leads("Query", before, KindType(k))
    BY <1>5, <1>7
  <2>2. PathOf(f) = (before \o AuthorPlace(Parent(f))) \o <<"poems">>
    BY <1>7, PlaceAlong
  <2>3. KindType(Fields[f].kind) = "PoemConnection" /\ k \in {"author", "authors", "poem", "poems", "author.poems"}
    BY <1>5, <1>7, KindTypes, GraphCountsAssumption DEF Nested, Parent
  <2>4. Leads(KindType(k), AuthorPlace(Parent(f)), "Author")
    BY <2>3, AuthorLeads
  <2>5. Leads("Query", (before \o AuthorPlace(Parent(f))) \o <<"poems">>, "PoemConnection")
    BY <2>1, <2>4, StepsLead, LeadsOn
  <2>6. QED  BY <2>2, <2>3, <2>5
<1>8. QED  BY <1>6, <1>7

\* Every error is about a path of the schema.
LEMMA ErrorsLead ==
  ASSUME operation \in Operations, NEW e \in Errors
  PROVE  NulledBy(e.path) = DeclaredNull(e.path)
<1>1. ASSUME NEW f \in operation, e = [field |-> RootOf(f), path |-> PathOf(f)]
      PROVE  \E u : Leads("Query", e.path, u)
  BY <1>1, PathLeads
<1>2. ASSUME NEW f \in operation, NEW a \in FailedAsks(f),
             e = [field |-> RootOf(f), path |-> PathOf(f) \o a.at \o <<CountName(a.count)>>]
      PROVE  \E u : Leads("Query", e.path, u)
  <2>1. f \in DOMAIN Fields
    BY GraphCountsAssumption
  <2>2. a \in Below(f, paths[f])
    BY DEF FailedAsks, Reached
  <2>3. PICK u : Leads(KindType(Fields[f].kind), a.at, u) /\ Leads(u, <<CountName(a.count)>>, Leaf)
    BY <2>1, <2>2, BelowLeads DEF Counted
  <2>4. Leads("Query", PathOf(f) \o a.at, u)
    BY <2>3, PathLeads, LeadsOn
  <2>5. Leads("Query", (PathOf(f) \o a.at) \o <<CountName(a.count)>>, Leaf)
    BY <2>3, <2>4, LeadsOn
  <2>6. QED  BY <1>2, <2>5
<1>3. \E u : Leads("Query", e.path, u)
  BY <1>1, <1>2 DEF Errors
<1>4. QED  BY <1>3, NullsAgree

-----------------------------------------------------------------------------
(* Relations that could not be loaded. *)

Dropped == DOMAIN dropped = operation /\ \A f \in operation : dropped[f] \subseteq Relations(Fields[f].kind)

\* A relation of a poem or an author.
IsRelation(t, s) == (t = "Poem" /\ s \in {"author", "dynasty", "type"}) \/ (t = "Author" /\ s = "dynasty")

\* What a row lacks is a relation of it, or of its author.
LEMMA RelationsLead ==
  ASSUME NEW f \in DOMAIN Fields, dropped[f] \subseteq Relations(Fields[f].kind), NEW q \in LostPlaces(f)
  PROVE  \E r, t, s : q = r \o <<s>> /\ Leads(KindType(Fields[f].kind), r, t) /\ IsRelation(t, s)
<1> DEFINE k == Fields[f].kind
           row == RowPlace(k)
<1>1. PICK p \in UNION Relations(k) : q = row \o p
  BY DEF LostPlaces
<1>2. CASE k \in {"poems", "author.poems", "poem"}
  <2>1. Leads(KindType(k), row, "Poem")
    BY <1>2, KindTypes, PlacesLead, LeadsNowhere DEF RowPlace, Paged
  <2>2. p \in {<<"author">>, <<"dynasty">>, <<"type">>, <<"author", "dynasty">>}
    BY <1>2 DEF Relations
  <2>3. CASE p \in {<<"author">>, <<"dynasty">>, <<"type">>}
    <3>1. PICK s \in {"author", "dynasty", "type"} : p = <<s>>
      BY <2>3
    <3>2. QED  BY <1>1, <2>1, <3>1 DEF IsRelation
  <2>4. CASE p = <<"author", "dynasty">>
    <3>1. <<"author", "dynasty">> = <<"author">> \o <<"dynasty">>
      OBVIOUS
    <3>2. row \in Seq(Names) /\ <<"author">> \in Seq(Names) /\ <<"dynasty">> \in Seq(Names)
      BY <2>1, StepsLead DEF Leads, Paths
    <3>3. q = (row \o <<"author">>) \o <<"dynasty">>
      BY <1>1, <2>4, <3>1, <3>2, ConcatAssociative
    <3>4. Leads(KindType(k), row \o <<"author">>, "Author")
      BY <2>1, StepsLead, LeadsOn
    <3>5. QED  BY <3>3, <3>4 DEF IsRelation
  <2>5. QED  BY <2>2, <2>3, <2>4
<1>3. CASE k = "author"
  <2>1. Leads(KindType(k), row, "Author")
    BY <1>3, KindTypes, PlacesLead, LeadsNowhere DEF RowPlace, Paged
  <2>2. p = <<"dynasty">>
    BY <1>3 DEF Relations
  <2>3. QED  BY <1>1, <2>1, <2>2 DEF IsRelation
<1>4. CASE k \notin {"poems", "author.poems", "poem", "author"}
  BY <1>4 DEF Relations
<1>5. QED  BY <1>2, <1>3, <1>4

\* The null of a relation stays where it is.
LEMMA RelationMayBeNull ==
  ASSUME NEW r, NEW t, NEW s, Leads("Query", r, t), IsRelation(t, s)
  PROVE  NulledBy(r \o <<s>>) = r \o <<s>>
<1> DEFINE p == r \o <<s>>
           n == Len(r)
<1>1. Leads(t, <<s>>, FieldType(t, s)) /\ s # Item /\ s \notin Invalidating(t)
  <2>1. s # Item
    BY DEF IsRelation, Item
  <2>2. s \notin Invalidating(t)
    BY DEF IsRelation, Invalidating, PoemObject, AuthorObject
  <2>3. CASE t = "Poem"
    <3>1. FieldType(t, "author") = "Author" /\ FieldType(t, "dynasty") = "Dynasty" /\ FieldType(t, "type") = "PoetryType"
      BY <2>3 DEF FieldType, PoemFields
    <3>2. QED  BY <2>1, <2>2, <2>3, <3>1, StepsLead DEF IsRelation
  <2>4. CASE t = "Author"
    <3>1. FieldType(t, "dynasty") = "Dynasty"
      BY <2>4 DEF FieldType, AuthorFields
    <3>2. QED  BY <2>1, <2>2, <2>4, <3>1, StepsLead DEF IsRelation
  <2>5. QED  BY <2>3, <2>4 DEF IsRelation
<1>2. r \in Paths /\ <<s>> \in Paths /\ n \in Nat
  BY <1>1 DEF Leads, Paths
<1>3. p \in Paths /\ Len(p) = n + 1 /\ p[n + 1] = s
  BY <1>2, ConcatProperties DEF Paths
<1>4. TypeAlong(FieldType, p, n) = t
  <2>1. PICK a : Passes(r, a) /\ a[0] = "Query" /\ a[n] = t
    BY DEF Leads
  <2> DEFINE u == FieldType(t, s)
             types == [j \in 0 .. n + 1 |-> IF j <= n THEN a[j] ELSE u]
  <2>2. \A j \in 1 .. n : p[j] = r[j]
    BY <1>2, ConcatProperties DEF Paths
  <2>3. Passes(p, types)
    <3>1. PICK b : Passes(<<s>>, b) /\ b[0] = t /\ b[Len(<<s>>)] = u
      BY <1>1 DEF Leads
    <3>2. t \in Objects /\ s \in DOMAIN SchemaOf(t)
      BY <1>1, <3>1 DEF Passes
    <3> HIDE DEF u
    <3>3. \A j \in 0 .. n : types[j] = a[j]
      BY <1>2
    <3>4. types[n + 1] = u
      BY <1>2
    <3> HIDE DEF types, p, n
    <3>5. ASSUME NEW j \in 1 .. n + 1
          PROVE  \/ p[j] = Item /\ types[j] = types[j - 1]
                 \/ /\ p[j] # Item /\ types[j - 1] \in Objects /\ p[j] \in DOMAIN SchemaOf(types[j - 1])
                    /\ types[j] = FieldType(types[j - 1], p[j])
      <4>1. CASE j = n + 1
        <5>1. j - 1 = n /\ n \in 0 .. n
          BY <1>2, <4>1
        <5>2. p[j] = s /\ types[j] = u /\ types[j - 1] = t
          BY <1>3, <2>1, <3>3, <3>4, <4>1, <5>1
        <5>3. QED  BY <1>1, <3>2, <5>2 DEF u
      <4>2. CASE j # n + 1
        <5>1. j \in 1 .. n /\ j - 1 \in 0 .. n /\ j \in 0 .. n
          BY <1>2, <4>2
        <5>2. QED  BY <2>1, <2>2, <3>3, <5>1 DEF Passes, n
      <4>3. QED  BY <4>1, <4>2
    <3>6. QED  BY <1>3, <3>5 DEF Passes
  <2>4. types[0] = "Query" /\ types[n] = t
    BY <1>2, <2>1
  <2> HIDE DEF types, p, n
  <2>5. n \in 0 .. Len(p)
    BY <1>2, <1>3
  <2>6. QED  BY <1>3, <2>3, <2>4, <2>5, TypesAlong
<1> HIDE DEF p, n
<1>5. ~ GivesWay(p, Len(p))
  <2>1. Len(p) - 1 = n /\ p[Len(p)] = s
    BY <1>2, <1>3
  <2>2. QED  BY <1>1, <1>4, <2>1 DEF GivesWay, ListGivesWay
<1>6. Stop(p, GivesWay) = Len(p)
  <2> DEFINE Stops(i) == (i > 0 => ~ GivesWay(p, i)) /\ \A j \in i + 1 .. Len(p) : GivesWay(p, j)
  <2>1. Stops(Len(p)) /\ Len(p) \in 0 .. Len(p)
    BY <1>2, <1>3, <1>5
  <2>2. \A i \in 0 .. Len(p) : Stops(i) => i = Len(p)
    <3>1. SUFFICES ASSUME NEW i \in 0 .. Len(p), Stops(i), i # Len(p) PROVE FALSE
      OBVIOUS
    <3>2. Len(p) \in i + 1 .. Len(p)
      BY <1>2, <1>3, <3>1
    <3>3. QED  BY <1>5, <3>1, <3>2
  <2>3. Stop(p, GivesWay) = CHOOSE i \in 0 .. Len(p) : Stops(i)
    BY Zenon DEF Stop
  <2> HIDE DEF Stops
  <2>4. QED  BY <2>1, <2>2, <2>3
<1>7. SubSeq(p, 1, Len(p)) = p
  BY <1>3, SubSeqFull DEF Paths
<1>8. QED  BY <1>6, <1>7 DEF NulledBy, p

LEMMA LostStays ==
  ASSUME operation \in Operations, Dropped, NEW e \in LostRelations
  PROVE  NullOf(e) = e
<1>1. PICK f \in operation : \E q \in LostPlaces(f) : e = [field |-> RootOf(f), path |-> PathOf(f) \o q]
  BY DEF LostRelations
<1> PICK q \in LostPlaces(f) : e = [field |-> RootOf(f), path |-> PathOf(f) \o q]
  BY <1>1
<1>2. f \in DOMAIN Fields
  BY PlaceAlong
<1>3. PICK r, t, s : q = r \o <<s>> /\ Leads(KindType(Fields[f].kind), r, t) /\ IsRelation(t, s)
  BY <1>2, RelationsLead DEF Dropped
<1>4. Leads("Query", PathOf(f) \o r, t)
  BY <1>3, PathLeads, LeadsOn
<1>5. PathOf(f) \o q = (PathOf(f) \o r) \o <<s>>
  <2>1. PathOf(f) \in Seq(Names) /\ r \in Seq(Names) /\ <<s>> \in Seq(Names)
    BY <1>3, PathLeads DEF Leads, Paths, IsRelation, Names, PathSteps
  <2>2. QED  BY <1>3, <2>1, ConcatAssociative
<1>6. NulledBy(e.path) = e.path
  BY <1>1, <1>3, <1>4, <1>5, RelationMayBeNull
<1>7. QED  BY <1>1, <1>6 DEF NullOf

-----------------------------------------------------------------------------
(* What has no answer is below a null. *)

LEMMA PrefixIs ==
  ASSUME NEW p \in Paths, NEW q \in Paths
  PROVE  IsPrefix(p, q) <=> Len(p) <= Len(q) /\ \A i \in 1 .. Len(p) : p[i] = q[i]
<1> DEFINE n == Len(p)
<1>1. n \in Nat /\ Len(q) \in Nat
  BY DEF Paths
<1>2. SubSeq(p, 1, n) = p
  BY SubSeqFull DEF Paths
<1>3. ASSUME n <= Len(q)
      PROVE  SubSeq(q, 1, n) \in Paths /\ Len(SubSeq(q, 1, n)) = n /\ \A i \in 1 .. n : SubSeq(q, 1, n)[i] = q[i]
  <2>1. \A i \in 1 .. n : q[i] \in Names
    BY <1>1, <1>3 DEF Paths
  <2> HIDE DEF n
  <2>2. /\ SubSeq(q, 1, n) \in Seq(Names)
        /\ Len(SubSeq(q, 1, n)) = IF 1 <= n THEN n - 1 + 1 ELSE 0
        /\ \A i \in 1 .. n - 1 + 1 : SubSeq(q, 1, n)[i] = q[1 + i - 1]
    BY <1>1, <2>1, SubSeqProperties
  <2>3. QED  BY <1>1, <2>2 DEF Paths
<1> HIDE DEF n
<1>4. ASSUME IsPrefix(p, q) PROVE n <= Len(q) /\ \A i \in 1 .. n : p[i] = q[i]
  BY <1>2, <1>3, <1>4 DEF IsPrefix, n
<1>5. ASSUME n <= Len(q), \A i \in 1 .. n : p[i] = q[i] PROVE IsPrefix(p, q)
  <2>1. p = SubSeq(q, 1, n)
    BY <1>3, <1>5, SeqEqual DEF Paths, n
  <2>2. QED  BY <1>2, <1>5, <2>1 DEF IsPrefix, n
<1>6. QED  BY <1>4, <1>5 DEF n

LEMMA PrefixOfLonger ==
  ASSUME NEW p \in Paths, NEW q \in Paths, NEW r \in Paths, IsPrefix(p, q)
  PROVE  IsPrefix(p, q \o r) /\ IsPrefix(r \o p, r \o q) /\ q \o r \in Paths /\ r \o p \in Paths /\ r \o q \in Paths
<1>1. Len(p) \in Nat /\ Len(q) \in Nat /\ Len(r) \in Nat
  BY DEF Paths
<1>2. Len(p) <= Len(q) /\ \A i \in 1 .. Len(p) : p[i] = q[i]
  BY PrefixIs
<1>3. /\ q \o r \in Paths /\ Len(q \o r) = Len(q) + Len(r)
      /\ \A i \in 1 .. Len(q) + Len(r) : (q \o r)[i] = IF i <= Len(q) THEN q[i] ELSE r[i - Len(q)]
  BY ConcatProperties DEF Paths
<1>4. /\ r \o p \in Paths /\ Len(r \o p) = Len(r) + Len(p)
      /\ \A i \in 1 .. Len(r) + Len(p) : (r \o p)[i] = IF i <= Len(r) THEN r[i] ELSE p[i - Len(r)]
  BY ConcatProperties DEF Paths
<1>5. /\ r \o q \in Paths /\ Len(r \o q) = Len(r) + Len(q)
      /\ \A i \in 1 .. Len(r) + Len(q) : (r \o q)[i] = IF i <= Len(r) THEN r[i] ELSE q[i - Len(r)]
  BY ConcatProperties DEF Paths
<1>6. IsPrefix(p, q \o r)
  <2>1. Len(p) <= Len(q \o r) /\ \A i \in 1 .. Len(p) : p[i] = (q \o r)[i]
    BY <1>1, <1>2, <1>3
  <2>2. QED  BY <1>3, <2>1, PrefixIs
<1>7. IsPrefix(r \o p, r \o q)
  <2>1. Len(r \o p) <= Len(r \o q)
    BY <1>1, <1>2, <1>4, <1>5
  <2>2. ASSUME NEW i \in 1 .. Len(r \o p) PROVE (r \o p)[i] = (r \o q)[i]
    <3>1. i \in 1 .. Len(r) + Len(p) /\ i \in 1 .. Len(r) + Len(q)
      BY <1>1, <1>2, <1>4
    <3>2. CASE i <= Len(r)
      BY <1>4, <1>5, <3>1, <3>2
    <3>3. CASE ~ (i <= Len(r))
      <4>1. i - Len(r) \in 1 .. Len(p)
        BY <1>1, <3>1, <3>3
      <4>2. QED  BY <1>2, <1>4, <1>5, <3>1, <3>3, <4>1
    <3>4. QED  BY <3>2, <3>3
  <2>3. QED  BY <1>4, <1>5, <2>1, <2>2, PrefixIs
<1>8. QED  BY <1>3, <1>4, <1>5, <1>6, <1>7

LEMMA PrefixTransitive ==
  ASSUME NEW p \in Paths, NEW q \in Paths, NEW r \in Paths, IsPrefix(p, q), IsPrefix(q, r)
  PROVE  IsPrefix(p, r)
<1>1. Len(p) \in Nat /\ Len(q) \in Nat /\ Len(r) \in Nat
  BY DEF Paths
<1>2. /\ Len(p) <= Len(q) /\ \A i \in 1 .. Len(p) : p[i] = q[i]
      /\ Len(q) <= Len(r) /\ \A i \in 1 .. Len(q) : q[i] = r[i]
  BY PrefixIs
<1>3. Len(p) <= Len(r) /\ \A i \in 1 .. Len(p) : p[i] = r[i]
  BY <1>1, <1>2
<1>4. QED  BY <1>3, PrefixIs

LEMMA PrefixSelf == ASSUME NEW p \in Paths PROVE IsPrefix(p, p)
<1>1. Len(p) <= Len(p)
  BY DEF Paths
<1>2. QED  BY <1>1, PrefixIs

\* An error leaves a null at or above its path.
LEMMA NulledAbove ==
  ASSUME NEW p \in Paths
  PROVE  NulledBy(p) \in Paths /\ IsPrefix(NulledBy(p), p)
<1> DEFINE n == Len(p)
           Stops(i) == (i > 0 => ~ GivesWay(p, i)) /\ \A j \in i + 1 .. Len(p) : GivesWay(p, j)
           Passed == {i \in 0 .. n : \A j \in i + 1 .. n : GivesWay(p, j)}
<1>1. n \in Nat
  BY DEF Paths
<1>2. \E i \in 0 .. n : Stops(i)
  <2>1. n \in Passed
    BY <1>1
  <2>2. PICK i \in Passed : \A m \in Passed : i <= m
    <3>1. Passed \subseteq Nat /\ Passed # {}
      BY <2>1
    <3> HIDE DEF Passed
    <3>2. QED  BY <3>1, SmallestNumber
  <2>3. i > 0 => ~ GivesWay(p, i)
    <3>1. SUFFICES ASSUME i > 0, GivesWay(p, i) PROVE FALSE
      OBVIOUS
    <3>2. i - 1 \in 0 .. n /\ \A j \in (i - 1) + 1 .. n : j = i \/ j \in i + 1 .. n
      BY <1>1, <3>1
    <3>3. i - 1 \in Passed
      BY <3>1, <3>2
    <3>4. ~ (i <= i - 1)
      BY <1>1
    <3>5. QED  BY <2>2, <3>3, <3>4
  <2>4. QED  BY <2>3
<1> DEFINE k == Stop(p, GivesWay)
<1>3. k \in 0 .. n
  <2>1. k = CHOOSE i \in 0 .. n : Stops(i)
    BY Zenon DEF Stop
  <2> HIDE DEF Stops, k
  <2>2. QED  BY <1>2, <2>1
<1> HIDE DEF k, Stops, Passed
<1>4. /\ SubSeq(p, 1, k) \in Seq(Names)
      /\ Len(SubSeq(p, 1, k)) = IF 1 <= k THEN k - 1 + 1 ELSE 0
      /\ \A i \in 1 .. k - 1 + 1 : SubSeq(p, 1, k)[i] = p[1 + i - 1]
  <2>1. \A i \in 1 .. k : p[i] \in Names
    BY <1>1, <1>3 DEF Paths
  <2>2. QED  BY <1>1, <1>3, <2>1, SubSeqProperties
<1>5. Len(SubSeq(p, 1, k)) = k /\ \A i \in 1 .. k : SubSeq(p, 1, k)[i] = p[i]
  BY <1>1, <1>3, <1>4
<1>6. NulledBy(p) = SubSeq(p, 1, k)
  BY DEF NulledBy, k
<1> DEFINE q == SubSeq(p, 1, k)
<1>7. q \in Paths
  BY <1>4 DEF Paths
<1> HIDE DEF q
<1>8. Len(q) = k /\ \A i \in 1 .. k : q[i] = p[i]
  BY <1>5 DEF q
<1>9. IsPrefix(q, p)
  BY <1>1, <1>3, <1>7, <1>8, PrefixIs
<1>10. QED  BY <1>6, <1>7, <1>9 DEF q

\* A null at or above a path of a root field, once the response is written.
NullAbove(root, p) == \E n \in nulls' : n.field = root /\ n.path \in Paths /\ IsPrefix(n.path, p)

LEMMA ErrorAbove ==
  ASSUME Respond, NEW e \in Errors, e.path \in Paths
  PROVE  NullAbove(e.field, e.path)
<1>1. NullOf(e) \in nulls' /\ NullOf(e).field = e.field /\ NullOf(e).path = NulledBy(e.path)
  BY DEF Respond, NullOf
<1>2. QED  BY <1>1, NulledAbove DEF NullAbove

LEMMA LostAbove ==
  ASSUME Shapes, Dropped, Respond, NEW f \in operation, status[f] = "resolved",
         NEW q \in LostPlaces(f), NEW w \in Wanted(f), IsPrefix(q, w)
  PROVE  NullAbove(RootOf(f), PathOf(f) \o q) /\ q \in Paths
<1>1. operation \in Operations
  BY DEF Shapes
<1> DEFINE e == [field |-> RootOf(f), path |-> PathOf(f) \o q]
<1>2. e \in LostRelations
  <2> DEFINE Lacking(g) == {x \in LostPlaces(g) : \E y \in Wanted(g) : IsPrefix(x, y)}
             All(g) == {[field |-> RootOf(g), path |-> PathOf(g) \o x] : x \in Lacking(g)}
  <2>1. LostRelations = UNION {All(g) : g \in {h \in operation : status[h] = "resolved"}}
    BY DEF LostRelations
  <2>2. q \in Lacking(f)
    OBVIOUS
  <2> HIDE DEF Lacking
  <2>3. e \in All(f)
    BY <2>2
  <2> HIDE DEF All
  <2>4. QED  BY <2>1, <2>3
<1>3. NullOf(e) = e
  BY <1>1, <1>2, LostStays
<1>4. e \in nulls'
  BY <1>2, <1>3 DEF Respond
<1>5. q \in Paths /\ PathOf(f) \in Paths /\ PathOf(f) \o q \in Paths
  <2>1. PICK r, t, s : q = r \o <<s>> /\ Leads(KindType(Fields[f].kind), r, t) /\ IsRelation(t, s)
    <3>1. f \in DOMAIN Fields /\ dropped[f] \subseteq Relations(Fields[f].kind)
      BY <1>1, PlaceAlong DEF Dropped
    <3>2. QED  BY <3>1, RelationsLead
  <2>2. r \in Paths /\ <<s>> \in Paths
    BY <2>1 DEF Leads, Paths, IsRelation, Names, PathSteps
  <2>3. PathOf(f) \in Paths
    BY <1>1, PathLeads DEF Leads
  <2>4. QED  BY <2>1, <2>2, <2>3, ConcatProperties DEF Paths
<1>6. IsPrefix(PathOf(f) \o q, PathOf(f) \o q)
  BY <1>5, PrefixSelf
<1>7. QED  BY <1>4, <1>5, <1>6 DEF NullAbove

\* A field that was not resolved failed, or is below one that was not resolved, or
\* below an author who is lost.
LEMMA UnstartedBelowNull ==
  ASSUME Shapes, Dropped, Respond
  PROVE  \A f \in operation : status[f] # "resolved" => NullAbove(RootOf(f), PathOf(f))
<1> DEFINE Bare == {f \in operation : status[f] # "resolved" /\ ~ NullAbove(RootOf(f), PathOf(f))}
<1>1. SUFFICES ASSUME Bare # {} PROVE FALSE
  OBVIOUS
<1>2. operation \in Operations
  BY DEF Shapes
<1>3. PICK f \in Bare : f \in DOMAIN Fields /\ (Nested(f) => Parent(f) \in operation \ Bare)
  <2>1. Bare \subseteq operation
    OBVIOUS
  <2> HIDE DEF Bare
  <2>2. QED  BY <1>1, <1>2, <2>1, ParentsFirst
<1>4. f \in operation /\ status[f] # "resolved" /\ ~ NullAbove(RootOf(f), PathOf(f)) /\ status[f] \in {"waiting", "resolved", "failed"}
  BY <1>3 DEF Shapes
<1>5. PathOf(f) \in Paths
  BY <1>2, <1>4, PathLeads DEF Leads
<1>6. status[f] # "failed"
  <2>1. SUFFICES ASSUME status[f] = "failed" PROVE FALSE
    OBVIOUS
  <2> DEFINE e == [field |-> RootOf(f), path |-> PathOf(f)]
  <2>2. e \in Errors
    BY <1>4, <2>1 DEF Errors
  <2>3. QED  BY <1>4, <1>5, <2>2, ErrorAbove
<1> DEFINE p == Parent(f)
           author == AuthorPlace(p)
<1>7. Nested(f) /\ (status[p] # "resolved" \/ ~ AuthorFound(p)) /\ p \in operation \ Bare
  BY <1>3, <1>4, <1>6 DEF Respond, Idle, Started
<1>8. RootOf(f) = RootOf(p) /\ PathOf(f) = (PathOf(p) \o author) \o <<"poems">>
  BY <1>2, <1>4, <1>7, PlaceAlong
<1>9. Fields[p].kind \in {"author", "authors", "poem", "poems", "author.poems"} /\ p \in DOMAIN Fields
  BY <1>2, <1>3, <1>7, PlaceAlong, GraphCountsAssumption DEF Nested, Parent
<1>10. PathOf(p) \in Paths /\ author \in Paths /\ <<"poems">> \in Paths
  BY <1>2, <1>7, <1>9, PathLeads, AuthorLeads, StepsLead DEF Leads
<1>11. NullAbove(RootOf(p), PathOf(p) \o author)
  <2>1. CASE status[p] # "resolved"
    <3>1. PICK n \in nulls' : n.field = RootOf(p) /\ n.path \in Paths /\ IsPrefix(n.path, PathOf(p))
      BY <1>7, <2>1 DEF NullAbove
    <3>2. IsPrefix(n.path, PathOf(p) \o author)
      BY <1>10, <3>1, PrefixOfLonger
    <3>3. QED  BY <3>1, <3>2 DEF NullAbove
  <2>2. CASE status[p] = "resolved"
    <3>1. {<<"author">>} \in dropped[p] /\ dropped[p] \subseteq Relations(Fields[p].kind)
      BY <1>7, <2>2 DEF AuthorFound, Dropped
    <3>2. author \in LostPlaces(p)
      <4>1. <<"author">> \in UNION dropped[p]
        BY <3>1
      <4>2. RowPlace(Fields[p].kind) \o <<"author">> \in LostPlaces(p)
        BY <4>1 DEF LostPlaces
      <4>3. Fields[p].kind \in {"poem", "poems", "author.poems"}
        <5>1. {<<"author">>} \in Relations(Fields[p].kind)
          BY <3>1
        <5>2. CASE Fields[p].kind = "author"
          <6>1. <<"author">> = <<"dynasty">>
            BY <5>1, <5>2 DEF Relations
          <6>2. QED  BY <6>1
        <5>3. CASE Fields[p].kind = "authors"
          BY <5>1, <5>3 DEF Relations
        <5>4. QED  BY <1>9, <5>2, <5>3
      <4>4. CASE Fields[p].kind = "poem"
        <5>1. RowPlace(Fields[p].kind) \o <<"author">> = <<"author">>
          BY <4>4 DEF RowPlace, Paged
        <5>2. QED  BY <4>2, <4>4, <5>1 DEF AuthorPlace
      <4>5. CASE Fields[p].kind \in {"poems", "author.poems"}
        BY <4>2, <4>5 DEF RowPlace, Paged, AuthorPlace
      <4>6. QED  BY <4>3, <4>4, <4>5
    <3>3. author \in Wanted(p)
      <4>1. f \in NestedIn(operation, p)
        BY <1>4 DEF NestedIn
      <4>2. QED  BY <4>1 DEF Wanted
    <3>4. IsPrefix(author, author)
      BY <1>10, PrefixSelf
    <3>5. QED  BY <1>7, <2>2, <3>2, <3>3, <3>4, LostAbove
  <2>3. QED  BY <2>1, <2>2
<1>12. PICK n \in nulls' : n.field = RootOf(p) /\ n.path \in Paths /\ IsPrefix(n.path, PathOf(p) \o author)
  BY <1>11 DEF NullAbove
<1>13. PathOf(p) \o author \in Paths
  BY <1>10, ConcatProperties DEF Paths
<1>14. IsPrefix(n.path, PathOf(f))
  BY <1>8, <1>10, <1>12, <1>13, PrefixOfLonger
<1>15. QED  BY <1>4, <1>8, <1>12, <1>14 DEF NullAbove

\* A count that was not answered is below a relation that is lost, or its query failed.
LEMMA CountBelowNull ==
  ASSUME Shapes, Dropped, Respond, NEW f \in operation, status[f] = "resolved", NEW b \in Below(f, paths[f]),
         Fields[f].deep,
         ~ \E c \in answers : c.field = f /\ c.key = b.key /\ c.count = b.count /\ c.at = b.at
  PROVE  NullAbove(RootOf(f), PathOf(f) \o b.at \o <<CountName(b.count)>>)
<1> DEFINE path == PathOf(f)
           name == <<CountName(b.count)>>
<1>1. operation \in Operations /\ asks[f] = {}
  BY DEF Shapes, Respond, Idle
<1>2. path \in Paths /\ b.at \in Paths /\ name \in Paths /\ path \o b.at \in Paths /\ (path \o b.at) \o name \in Paths
  <2>1. path \in Paths
    BY <1>1, PathLeads DEF Leads
  <2>2. b.at \in Paths /\ name \in Paths
    BY <1>1, PlaceAlong, BelowLeads DEF Counted, Leads
  <2> HIDE DEF path, name
  <2>3. path \o b.at \in Paths
    BY <2>1, <2>2, ConcatProperties DEF Paths
  <2>4. QED  BY <2>1, <2>2, <2>3, ConcatProperties DEF Paths
<1>3. CASE BelowLost(f, b.at)
  <2>1. PICK q \in LostPlaces(f) : IsPrefix(q, b.at)
    BY <1>3, Zenon DEF BelowLost
  <2>2. b.at \in Wanted(f)
    BY DEF Wanted
  <2>3. NullAbove(RootOf(f), path \o q) /\ q \in Paths
    BY <2>1, <2>2, LostAbove
  <2>4. PICK n \in nulls' : n.field = RootOf(f) /\ n.path \in Paths /\ IsPrefix(n.path, path \o q)
    BY <2>3 DEF NullAbove
  <2>5. IsPrefix(path \o q, path \o b.at) /\ path \o q \in Paths
    BY <1>2, <2>1, <2>3, PrefixOfLonger
  <2> HIDE DEF path, name
  <2>6. IsPrefix(n.path, path \o b.at)
    BY <1>2, <2>4, <2>5, PrefixTransitive
  <2>7. IsPrefix(n.path, (path \o b.at) \o name)
    BY <1>2, <2>4, <2>6, PrefixOfLonger
  <2>8. QED  BY <2>4, <2>7 DEF NullAbove, path, name
<1>4. CASE ~ BelowLost(f, b.at)
  <2> DEFINE e == [field |-> RootOf(f), path |-> (path \o b.at) \o name]
  <2>1. b \in FailedAsks(f)
    BY <1>1, <1>4 DEF FailedAsks, Reached
  <2>2. e \in Errors
    <3> DEFINE Of(g) == {[field |-> RootOf(g), path |-> PathOf(g) \o a.at \o <<CountName(a.count)>>] : a \in FailedAsks(g)}
    <3>1. UNION {Of(g) : g \in operation} \subseteq Errors
      BY DEF Errors
    <3>2. e \in Of(f)
      BY <2>1
    <3> HIDE DEF Of, e
    <3>3. QED  BY <3>1, <3>2
  <2>3. QED  BY <1>2, <2>2, ErrorAbove
<1>5. QED  BY <1>3, <1>4

-----------------------------------------------------------------------------
(* The null that a failed statistics field leaves. *)

LEMMA RootOfTypes == ASSUME NEW p PROVE TypeAlong(FieldType, p, 0) = "Query"
  BY DEF TypeAlong

\* The root object cannot contain the null of its statistics field.
LEMMA StatisticsGivesWay == GivesWay(<<"statistics">>, 1)
<1>1. TypeAlong(FieldType, <<"statistics">>, 1 - 1) = "Query"
  BY RootOfTypes
<1>2. "statistics" \in Invalidating("Query")
  BY DEF Invalidating, QueryObject
<1>3. QED  BY <1>1, <1>2 DEF GivesWay

LEMMA StatisticsNull == NulledBy(<<"statistics">>) = << >>
<1> DEFINE p == <<"statistics">>
           Stops(i) == (i > 0 => ~ GivesWay(p, i)) /\ \A j \in i + 1 .. Len(p) : GivesWay(p, j)
<1>1. Len(p) = 1 /\ 0 .. Len(p) = {0, 1}
  OBVIOUS
<1>2. Stops(0) /\ ~ Stops(1)
  BY <1>1, StatisticsGivesWay
<1>3. (CHOOSE i \in 0 .. Len(p) : Stops(i)) = 0
  <2> HIDE DEF Stops
  <2>1. QED  BY <1>1, <1>2
<1>4. Stop(p, GivesWay) = 0
  BY <1>3 DEF Stop
<1>5. QED  BY <1>4 DEF NulledBy

-----------------------------------------------------------------------------
(* The invariant. *)

LEMMA StatisticsIsRoot ==
  ASSUME operation \in Operations, NEW f \in operation, Fields[f].kind = "statistics"
  PROVE  ~ Nested(f)
<1>1. f \in DOMAIN Fields
  BY GraphCountsAssumption
<1>2. QED  BY <1>1, GraphCountsAssumption DEF Nested, Parent

\* When the response is written, a statistics field that was not resolved has failed,
\* and its error leaves no data.
LEMMA RespondDelivers ==
  ASSUME Shapes, Respond
  PROVE  StatisticsDelivered'
<1>1. SUFFICES ASSUME NEW f \in operation, Fields[f].kind = "statistics", status[f] # "resolved"
               PROVE  DataLost'
  BY DEF StatisticsDelivered, Respond, vars
<1>2. ~ Nested(f)
  BY <1>1, StatisticsIsRoot DEF Shapes
<1>3. status[f] = "failed"
  <2>1. status[f] \in {"waiting", "resolved", "failed"}
    BY DEF Shapes
  <2>2. QED  BY <1>1, <1>2, <2>1 DEF Respond, Idle, Started
<1> DEFINE e == [field |-> RootOf(f), path |-> PathOf(f)]
<1>4. e \in Errors
  BY <1>3 DEF Errors
<1>5. e.path = <<"statistics">>
  BY <1>1, <1>2, PlaceAlong DEF Shapes
<1>6. NullOf(e).path = << >>
  BY <1>5, StatisticsNull DEF NullOf
<1>7. NullOf(e) \in nulls'
  BY <1>4 DEF Respond
<1>8. QED  BY <1>6, <1>7 DEF DataLost

LEMMA ResponseNextInv ==
  ASSUME ResponseInv, [ResponseNext]_allVars
  PROVE  [Next]_vars /\ StatisticsDelivered'
<1> USE DEF ResponseInv
<1>1. Shapes
  BY DEF Inv
<1>2. CASE Respond
  BY <1>1, <1>2, RespondDelivers DEF Respond
<1>3. CASE Admit \/ Refuse
  BY <1>3 DEF Admit, Refuse, StatisticsDelivered
<1>4. ASSUME NEW f \in operation, Resolve(f)
      PROVE  [Next]_vars /\ StatisticsDelivered'
  BY <1>4 DEF Resolve, Next, StatisticsDelivered
<1>5. CASE Sent \/ UNCHANGED allVars
  BY <1>5 DEF Sent, allVars, vars, StatisticsDelivered, DataLost
<1>6. QED  BY <1>2, <1>3, <1>4, <1>5 DEF ResponseNext, ResponseStep

-----------------------------------------------------------------------------
(* The nulls of a response. *)

\* The errors are those of the fields, which the response does not change, and so are
\* the lost relations and what has no answer.
LEMMA ErrorsStay ==
  ASSUME UNCHANGED vars
  PROVE  Errors' = Errors /\ LostRelations' = LostRelations /\ Unanswered' = Unanswered
<1>1. /\ operation' = operation /\ status' = status /\ asks' = asks /\ paths' = paths /\ answers' = answers
      /\ dropped' = dropped
  BY DEF vars
<1>2. ASSUME NEW f PROVE RootOf(f)' = RootOf(f) /\ PathOf(f)' = PathOf(f)
  BY <1>1 DEF RootOf, PathOf, PlaceOf
<1>3. ASSUME NEW f PROVE LostPlaces(f)' = LostPlaces(f) /\ \A at : BelowLost(f, at)' <=> BelowLost(f, at)
  BY <1>1 DEF LostPlaces, BelowLost
<1>4. ASSUME NEW f PROVE FailedAsks(f)' = FailedAsks(f)
  BY <1>1 DEF FailedAsks, Reached, BelowLost, LostPlaces
<1>5. ASSUME NEW f PROVE Wanted(f)' = Wanted(f)
  BY <1>1 DEF Wanted
<1> DEFINE Own(f) == [field |-> RootOf(f), path |-> PathOf(f)]
           OfCount(f, a) == [field |-> RootOf(f), path |-> PathOf(f) \o a.at \o <<CountName(a.count)>>]
           OfRelation(f, q) == [field |-> RootOf(f), path |-> PathOf(f) \o q]
           Failed == {g \in operation : status[g] = "failed"}
           Unresolved == {g \in operation : status[g] # "resolved"}
           Resolved == {g \in operation : status[g] = "resolved"}
           Absent(f) == {p \in LostPlaces(f) : \E w \in Wanted(f) : IsPrefix(p, w)}
           Unheard(f) == {a \in Below(f, paths[f]) : Fields[f].deep
                            /\ ~ \E c \in answers : c.field = f /\ c.key = a.key /\ c.count = a.count /\ c.at = a.at}
<1>6. /\ \A f : Own(f)' = Own(f)
      /\ \A f, a : OfCount(f, a)' = OfCount(f, a)
      /\ \A f, q : OfRelation(f, q)' = OfRelation(f, q)
  BY <1>2
<1>7. Failed' = Failed /\ Unresolved' = Unresolved /\ Resolved' = Resolved
  BY <1>1
<1>8. \A f : Absent(f)' = Absent(f) /\ Unheard(f)' = Unheard(f)
  BY <1>1, <1>3, <1>5
<1>9. /\ Errors = {Own(f) : f \in Failed} \cup UNION {{OfCount(f, a) : a \in FailedAsks(f)} : f \in operation}
      /\ Errors' = {Own(f)' : f \in Failed'} \cup UNION {{OfCount(f, a)' : a \in FailedAsks(f)'} : f \in operation'}
  BY DEF Errors
<1>10. /\ LostRelations = UNION {{OfRelation(f, q) : q \in Absent(f)} : f \in Resolved}
       /\ LostRelations' = UNION {{OfRelation(f, q)' : q \in Absent(f)'} : f \in Resolved'}
  BY DEF LostRelations
<1>11. /\ Unanswered = {Own(f) : f \in Unresolved} \cup UNION {{OfCount(f, a) : a \in Unheard(f)} : f \in Resolved}
       /\ Unanswered' = {Own(f)' : f \in Unresolved'} \cup UNION {{OfCount(f, a)' : a \in Unheard(f)'} : f \in Resolved'}
  BY DEF Unanswered
<1> HIDE DEF Own, OfCount, OfRelation, Failed, Unresolved, Resolved, Absent, Unheard
<1>12. Errors' = Errors
  BY <1>1, <1>4, <1>6, <1>7, <1>9
<1>13. LostRelations' = LostRelations
  BY <1>6, <1>7, <1>8, <1>10
<1>14. Unanswered' = Unanswered
  BY <1>6, <1>7, <1>8, <1>11
<1>15. QED  BY <1>12, <1>13, <1>14

\* What holds of the nulls once an operation is answered.
NullsExplained(all) ==
  /\ all = {[field |-> e.field, path |-> DeclaredNull(e.path)] : e \in Errors} \cup LostRelations
  /\ \A u \in Unanswered : \E n \in all : n.field = u.field /\ IsPrefix(n.path, u.path)

LEMMA RespondNulls ==
  ASSUME Shapes, Dropped, Respond
  PROVE  NullsExplained(nulls')
<1>1. operation \in Operations
  BY DEF Shapes
<1>2. \A e \in Errors : NullOf(e) = [field |-> e.field, path |-> DeclaredNull(e.path)]
  BY <1>1, ErrorsLead DEF NullOf
<1>3. \A e \in LostRelations : NullOf(e) = e
  BY <1>1, LostStays
<1>4. nulls' = {NullOf(e) : e \in Errors} \cup {NullOf(e) : e \in LostRelations}
  BY DEF Respond
<1>5. nulls' = {[field |-> e.field, path |-> DeclaredNull(e.path)] : e \in Errors} \cup LostRelations
  BY <1>2, <1>3, <1>4
<1>6. ASSUME NEW u \in Unanswered PROVE \E n \in nulls' : n.field = u.field /\ IsPrefix(n.path, u.path)
  <2>1. CASE \E f \in operation : status[f] # "resolved" /\ u = [field |-> RootOf(f), path |-> PathOf(f)]
    BY <2>1, UnstartedBelowNull DEF NullAbove
  <2>2. ASSUME NEW f \in operation, status[f] = "resolved", NEW b \in Below(f, paths[f]), Fields[f].deep,
               ~ \E c \in answers : c.field = f /\ c.key = b.key /\ c.count = b.count /\ c.at = b.at,
               u = [field |-> RootOf(f), path |-> PathOf(f) \o b.at \o <<CountName(b.count)>>]
        PROVE  \E n \in nulls' : n.field = u.field /\ IsPrefix(n.path, u.path)
    BY <2>2, CountBelowNull DEF NullAbove
  <2> DEFINE Unheard(f) == {a \in Below(f, paths[f]) : Fields[f].deep
                              /\ ~ \E c \in answers : c.field = f /\ c.key = a.key /\ c.count = a.count /\ c.at = a.at}
             Of(f) == {[field |-> RootOf(f), path |-> PathOf(f) \o b.at \o <<CountName(b.count)>>] : b \in Unheard(f)}
             Unstarted == {[field |-> RootOf(f), path |-> PathOf(f)] : f \in {g \in operation : status[g] # "resolved"}}
  <2>3. Unanswered = Unstarted \cup UNION {Of(f) : f \in {g \in operation : status[g] = "resolved"}}
    BY DEF Unanswered
  <2>4. CASE u \in Unstarted
    BY <2>1, <2>4
  <2>5. CASE u \notin Unstarted
    <3> HIDE DEF Of, Unstarted
    <3>1. PICK f \in operation : status[f] = "resolved" /\ u \in Of(f)
      BY <2>3, <2>5
    <3>2. PICK b \in Unheard(f) : u = [field |-> RootOf(f), path |-> PathOf(f) \o b.at \o <<CountName(b.count)>>]
      BY <3>1 DEF Of
    <3>3. QED  BY <2>2, <3>1, <3>2
  <2>6. QED  BY <2>4, <2>5
<1>7. QED  BY <1>5, <1>6 DEF NullsExplained

LEMMA ResponseNextNulls ==
  ASSUME Shapes, Dropped, ErrorsStayInPlace, [ResponseNext]_allVars
  PROVE  ErrorsStayInPlace'
<1>1. CASE Respond
  <2>1. NullsExplained(nulls') /\ UNCHANGED vars
    BY <1>1, RespondNulls DEF Respond
  <2>2. QED  BY <2>1, ErrorsStay DEF NullsExplained, ErrorsStayInPlace
<1>2. CASE Admit \/ Refuse
  BY <1>2 DEF Admit, Refuse, ErrorsStayInPlace
<1>3. ASSUME NEW f \in operation, Resolve(f) PROVE ErrorsStayInPlace'
  BY <1>3 DEF Resolve, ErrorsStayInPlace
<1>4. CASE UNCHANGED allVars
  <2>1. Errors' = Errors /\ LostRelations' = LostRelations /\ Unanswered' = Unanswered /\ verdict' = verdict /\ nulls' = nulls
    BY <1>4, ErrorsStay DEF allVars
  <2>2. QED  BY <2>1 DEF ErrorsStayInPlace
<1>5. QED  BY <1>1, <1>2, <1>3, <1>4 DEF ResponseNext, ResponseStep, Sent

-----------------------------------------------------------------------------
\* Every response of the server is one of the fields' executions: admission and
\* response add nothing to them (generated.go, Exec).
THEOREM ResponseImplementsGraphCounts == ResponseSpec => Spec
<1>1. OperationAsked => Init
  BY DEF OperationAsked
<1>2. [ResponseNext]_allVars => [Next]_vars
  BY DEF ResponseNext, ResponseStep, Admit, Refuse, Resolve, Respond, Sent, Next, allVars, vars
<1>3. QED  BY <1>1, <1>2, PTL DEF ResponseSpec, Spec

\* In every state of an operation its statistics are delivered, or there is no data,
\* once it is answered (generated.go, _Query).
THEOREM ResponseInvariant == ResponseSpec => []ResponseInv
<1>1. OperationAsked => StatisticsDelivered
  BY DEF OperationAsked, StatisticsDelivered
<1>2. ResponseInv /\ [ResponseNext]_allVars => StatisticsDelivered'
  BY ResponseNextInv
<1>3. QED  BY <1>1, <1>2, ResponseImplementsGraphCounts, InvariantHolds, PTL DEF ResponseSpec, ResponseInv

\* Every poemCount of a response is the number of poems in the language of its root
\* field (authorResolver, dynastyResolver and poetryTypeResolver PoemCount).
THEOREM AnsweredPoemCountsCorrect == ResponseSpec => []PoemCountsAreTrue
  BY ResponseImplementsGraphCounts, PoemCountsCorrect, PTL

\* The types hold while an operation is admitted and its response is written.
THEOREM AnsweredTypeCorrect == ResponseSpec => []TypeOK
  BY ResponseImplementsGraphCounts, TypeCorrect, PTL

\* A response with data that has a wrong authorCount has the statistics that
\* contradict it (queryResolver.Statistics, _Query).
THEOREM WrongCountContradicted == ResponseSpec => []WrongCountIsContradicted
<1>1. ResponseInv => WrongCountIsContradicted
  BY DEF ResponseInv, Inv, StatisticsDelivered, WrongOnlyBesideStatistics, WrongCountIsContradicted
<1>2. QED  BY <1>1, ResponseInvariant, PTL

\* A response is null at the closest field above each error that schema.graphqls declares
\* nullable, which is what the generated marshalling does with every error (generated.go,
\* Invalids and graphql.Null), and at the relations whose errors were dropped
\* (repository_poems.go:46, 109), but nowhere else; and nothing that was asked for is
\* missing unless it is at or below one of these nulls.
THEOREM NullsStayInPlace == ResponseSpec => []ErrorsStayInPlace
<1>1. OperationAsked => ErrorsStayInPlace
  BY DEF OperationAsked, ErrorsStayInPlace
<1>2. Inv /\ TypeOK /\ ErrorsStayInPlace /\ [ResponseNext]_allVars => ErrorsStayInPlace'
  BY ResponseNextNulls DEF Inv, TypeOK, Dropped
<1>3. QED  BY <1>1, <1>2, ResponseImplementsGraphCounts, InvariantHolds, TypeCorrect, PTL DEF ResponseSpec

-----------------------------------------------------------------------------
(* Sums and counts over finite sets.  An induction on a set is an argument   *)
(* about a smallest, or a largest, of its subsets.                           *)

\* A set of subsets of a finite set has one that contains no other.
LEMMA SmallestSubset ==
  ASSUME NEW U, IsFiniteSet(U), NEW C, C \subseteq SUBSET U, C # {}
  PROVE  \E s \in C : \A t \in C : t \subseteq s => t = s
<1> DEFINE R == StrictSubsetOrdering(U)
<1>1. IsWellFoundedOn(R, FiniteSubsetsOf(U))
  BY FS_StrictSubsetOrderingWellFounded
<1>2. C \subseteq FiniteSubsetsOf(U)
  BY FS_Subset DEF FiniteSubsetsOf
<1>3. \A s, t \in C : t \subseteq s /\ t # s => <<t, s>> \in R
  BY DEF StrictSubsetOrdering
<1> HIDE DEF R
<1>4. PICK s \in C : \A t \in C : <<t, s>> \notin R
  BY <1>1, <1>2, WFMin
<1>5. QED  BY <1>3, <1>4

\* A set of subsets of a finite set has one that no other contains.
LEMMA LargestSubset ==
  ASSUME NEW U, IsFiniteSet(U), NEW C, C \subseteq SUBSET U, C # {}
  PROVE  \E s \in C : \A t \in C : s \subseteq t => t = s
<1> DEFINE D == {U \ s : s \in C}
<1>1. D \subseteq SUBSET U /\ D # {}
  <2>1. PICK s : s \in C
    OBVIOUS
  <2>2. U \ s \in D
    BY <2>1
  <2>3. D \subseteq SUBSET U
    OBVIOUS
  <2> HIDE DEF D
  <2>4. QED  BY <2>2, <2>3
<1> HIDE DEF D
<1>2. PICK d \in D : \A e \in D : e \subseteq d => e = d
  BY <1>1, SmallestSubset
<1>3. PICK s \in C : d = U \ s
  BY DEF D
<1>4. ASSUME NEW t \in C, s \subseteq t PROVE t = s
  <2>1. U \ t \in D /\ U \ t \subseteq d
    BY <1>3, <1>4 DEF D
  <2>2. QED  BY <1>2, <1>3, <2>1
<1>5. QED  BY <1>4

\* A finite set of numbers has a largest one.
LEMMA LargestNumber ==
  ASSUME NEW S, IsFiniteSet(S), S \subseteq Nat, S # {}
  PROVE  Max(S) \in S /\ \A x \in S : x <= Max(S)
<1> DEFINE Good == {s \in SUBSET S : s # {} => \E x \in s : \A y \in s : x >= y}
<1>1. PICK s \in Good : \A t \in Good : s \subseteq t => t = s
  <2>1. Good \subseteq SUBSET S
    OBVIOUS
  <2>2. {} \in Good
    OBVIOUS
  <2> HIDE DEF Good
  <2>3. Good # {}
    BY <2>2
  <2>4. IsFiniteSet(S)
    OBVIOUS
  <2>5. QED  BY ONLY <2>1, <2>3, <2>4, LargestSubset
<1>2. s = S
  <2>1. SUFFICES ASSUME NEW x \in S \ s PROVE FALSE
    OBVIOUS
  <2>2. s \cup {x} \in Good
    <3>1. CASE s = {}
      BY <3>1
    <3>2. CASE s # {}
      <4>1. PICK m \in s : \A y \in s : m >= y
        BY <3>2
      <4>2. m \in Nat /\ x \in Nat /\ \A y \in s : y \in Nat
        OBVIOUS
      <4>3. CASE x >= m
        <5>1. \A y \in s \cup {x} : x >= y
          BY <4>1, <4>2, <4>3
        <5>2. QED  BY <5>1
      <4>4. CASE ~ (x >= m)
        <5>1. \A y \in s \cup {x} : m >= y
          BY <4>1, <4>2, <4>4
        <5>2. QED  BY <5>1
      <4>5. QED  BY <4>3, <4>4
    <3>3. QED  BY <3>1, <3>2
  <2>3. QED  BY <1>1, <2>2
<1>3. \E x \in S : \A y \in S : x >= y
  BY <1>2
<1>4. Max(S) \in S /\ \A y \in S : Max(S) >= y
  BY <1>3, Zenon DEF Max
<1>5. QED  BY <1>4

\* The element that a sum takes out of a set first.
First(s) == CHOOSE x \in s : TRUE
Added(h, iter, s) == IF s = {} THEN 0 ELSE h[First(s)] + iter[s \ {First(s)}]

\* Some subsets, with what the sum makes of each of them on its way.
Sums(h, D, iter) ==
  \A s \in D : (s # {} => s \ {First(s)} \in D) /\ iter[s] = Added(h, iter, s)

\* What is taken out is there.
LEMMA FirstIn == \A s : s # {} => First(s) \in s
  BY DEF First

\* The sum of a finite set has a way: that of the set without its first element, and one step.
LEMMA SumsBegin ==
  ASSUME NEW h, NEW S, IsFiniteSet(S)
  PROVE  \A s \in SUBSET S : \E iter : \E D \in SUBSET SUBSET S : s \in D /\ Sums(h, D, iter)
<1> DEFINE Without == {s \in SUBSET S : ~ \E iter : \E D \in SUBSET SUBSET S : s \in D /\ Sums(h, D, iter)}
<1>1. SUFFICES ASSUME Without # {} PROVE FALSE
  OBVIOUS
<1>2. PICK s \in Without : \A t \in Without : t \subseteq s => t = s
  <2>1. Without \subseteq SUBSET S
    OBVIOUS
  <2> HIDE DEF Without
  <2>2. QED  BY <1>1, <2>1, SmallestSubset
<1>3. CASE s = {}
  <2> DEFINE iter == [t \in {{}} |-> 0]
  <2>1. iter[{}] = 0
    OBVIOUS
  <2> HIDE DEF iter
  <2>2. Sums(h, {{}}, iter)
    BY <2>1 DEF Sums, Added
  <2>3. QED  BY <1>3, <2>2
<1>4. CASE s # {}
  <2> DEFINE rest == s \ {First(s)}
  <2>0. rest \in SUBSET S /\ rest \notin Without
    BY <1>2, <1>4, FirstIn
  <2>1. PICK iter, D : D \in SUBSET SUBSET S /\ rest \in D /\ Sums(h, D, iter)
    BY <2>0
  <2>2. s \notin D
    BY <2>1
  <2> DEFINE k == [t \in D \cup {s} |-> IF t = s THEN Added(h, iter, s) ELSE iter[t]]
  <2>3. \A t \in D : k[t] = iter[t]
    BY <2>2
  <2>4. k[s] = Added(h, iter, s)
    OBVIOUS
  <2> HIDE DEF k
  <2>5. ASSUME NEW t \in D PROVE k[t] = Added(h, k, t) /\ (t # {} => t \ {First(t)} \in D)
    BY <2>1, <2>3 DEF Sums, Added
  <2>6. k[s] = Added(h, k, s)
    BY <1>4, <2>1, <2>3, <2>4 DEF Added
  <2>7. Sums(h, D \cup {s}, k)
    BY <2>1, <2>5, <2>6 DEF Sums
  <2>8. s \in D \cup {s} /\ D \cup {s} \in SUBSET SUBSET S
    BY <2>1
  <2>9. \E i : \E E \in SUBSET SUBSET S : s \in E /\ Sums(h, E, i)
    BY <2>7, <2>8, Zenon
  <2>10. QED  BY <2>9
<1>5. QED  BY <1>3, <1>4

\* Two ways make the same of a set that is on both.
LEMMA SumsAgree ==
  ASSUME NEW h, NEW S, IsFiniteSet(S), NEW D \in SUBSET SUBSET S, NEW E, NEW i, NEW k, Sums(h, D, i), Sums(h, E, k)
  PROVE  \A s \in D \cap E : i[s] = k[s]
<1> DEFINE Differ == {s \in D \cap E : i[s] # k[s]}
<1>1. SUFFICES ASSUME Differ # {} PROVE FALSE
  OBVIOUS
<1>2. PICK s \in Differ : \A t \in Differ : t \subseteq s => t = s
  <2>1. Differ \subseteq SUBSET S
    OBVIOUS
  <2> HIDE DEF Differ
  <2>2. QED  BY <1>1, <2>1, SmallestSubset
<1>3. s # {} => i[s \ {First(s)}] = k[s \ {First(s)}]
  BY <1>2, FirstIn DEF Sums
<1>4. QED  BY <1>2, <1>3 DEF Sums, Added

\* The function by which a sum is defined is there.
LEMMA SumsExist ==
  ASSUME NEW h, NEW S, IsFiniteSet(S)
  PROVE  \E iter : iter = [s \in SUBSET S |-> Added(h, iter, s)]
<1> DEFINE Has(s, i) == \E D \in SUBSET SUBSET S : s \in D /\ Sums(h, D, i)
           Of(s) == CHOOSE i : Has(s, i)
           iter == [s \in SUBSET S |-> Of(s)[s]]
<1>1. ASSUME NEW s \in SUBSET S PROVE Has(s, Of(s))
  <2>1. \E i : Has(s, i)
    BY SumsBegin
  <2>2. QED  BY <2>1, Zenon
<1> HIDE DEF Of
<1>2. \A s \in SUBSET S : iter[s] = Of(s)[s]
  OBVIOUS
<1> HIDE DEF iter
<1>3. ASSUME NEW s \in SUBSET S PROVE iter[s] = Added(h, iter, s)
  <2>1. PICK D \in SUBSET SUBSET S : s \in D /\ Sums(h, D, Of(s))
    BY <1>1
  <2>2. Of(s)[s] = Added(h, Of(s), s)
    BY <2>1 DEF Sums
  <2>3. CASE s = {}
    BY <1>2, <2>2, <2>3 DEF Added
  <2>4. CASE s # {}
    <3> DEFINE rest == s \ {First(s)}
    <3>1. rest \in D /\ rest \in SUBSET S
      BY <2>1, <2>4 DEF Sums
    <3>2. PICK E \in SUBSET SUBSET S : rest \in E /\ Sums(h, E, Of(rest))
      BY <1>1, <3>1
    <3> HIDE DEF rest
    <3>3. Of(rest)[rest] = Of(s)[rest]
      BY <2>1, <3>1, <3>2, SumsAgree
    <3>4. iter[rest] = Of(s)[rest]
      BY <1>2, <3>1, <3>3
    <3>5. QED  BY <1>2, <2>2, <2>4, <3>4 DEF Added, rest
  <2>5. QED  BY <2>3, <2>4
<1>4. iter = [s \in SUBSET S |-> Added(h, iter, s)]
  <2>1. iter = [s \in SUBSET S |-> iter[s]]
    BY DEF iter
  <2>2. QED  BY <1>3, <2>1
<1>5. QED  BY <1>4

Iter(h, S) == CHOOSE iter : iter = [s \in SUBSET S |-> Added(h, iter, s)]

LEMMA SumIsIter == \A h, S : SumFunctionOnSet(h, S) = Iter(h, S)[S]
  BY Zenon DEF SumFunctionOnSet, FoldFunctionOnSet, MapThenFoldSet, Added, First, Iter

\* The whole of the function is such a way.
LEMMA IterSums ==
  ASSUME NEW h, NEW S, IsFiniteSet(S)
  PROVE  Sums(h, SUBSET S, Iter(h, S))
<1> DEFINE iter == Iter(h, S)
<1>1. iter = [s \in SUBSET S |-> Added(h, iter, s)]
  BY SumsExist, Zenon DEF Iter
<1> HIDE DEF iter
<1>2. \A s \in SUBSET S : iter[s] = Added(h, iter, s)
  BY <1>1
<1>3. QED  BY <1>2 DEF Sums, iter

\* The sum of a set is what any larger one would make of it on its way.
LEMMA SumIn ==
  ASSUME NEW h, NEW U, IsFiniteSet(U), NEW S \in SUBSET U
  PROVE  SumFunctionOnSet(h, S) = Iter(h, U)[S]
<1>1. IsFiniteSet(S)
  BY FS_Subset
<1>2. Sums(h, SUBSET S, Iter(h, S)) /\ Sums(h, SUBSET U, Iter(h, U))
  BY <1>1, IterSums
<1>3. Iter(h, S)[S] = Iter(h, U)[S]
  BY <1>1, <1>2, SumsAgree
<1>4. QED  BY <1>3, SumIsIter

\* A sum is its first element and the sum of the rest.
LEMMA SumFirst ==
  ASSUME NEW h, NEW S, IsFiniteSet(S)
  PROVE  SumFunctionOnSet(h, S) = IF S = {} THEN 0 ELSE h[First(S)] + SumFunctionOnSet(h, S \ {First(S)})
<1>1. Iter(h, S)[S] = Added(h, Iter(h, S), S)
  BY IterSums DEF Sums
<1>2. SumFunctionOnSet(h, S) = Iter(h, S)[S] /\ SumFunctionOnSet(h, S \ {First(S)}) = Iter(h, S)[S \ {First(S)}]
  BY SumIn
<1>3. QED  BY <1>1, <1>2 DEF Added

\* The sum of nothing, and of natural numbers.
LEMMA SumEmpty == \A h : SumFunctionOnSet(h, {}) = 0
  BY SumFirst, FS_EmptySet

LEMMA SumType ==
  ASSUME NEW h, NEW S, IsFiniteSet(S), \A x \in S : h[x] \in Nat
  PROVE  SumFunctionOnSet(h, S) \in Nat
<1> DEFINE Bad == {s \in SUBSET S : SumFunctionOnSet(h, s) \notin Nat}
<1>1. SUFFICES ASSUME Bad # {} PROVE FALSE
  OBVIOUS
<1>2. PICK s \in Bad : \A t \in Bad : t \subseteq s => t = s
  <2>1. Bad \subseteq SUBSET S
    OBVIOUS
  <2> HIDE DEF Bad
  <2>2. QED  BY <1>1, <2>1, SmallestSubset
<1>3. IsFiniteSet(s)
  BY FS_Subset
<1>4. CASE s = {}
  BY <1>4, SumEmpty
<1>5. CASE s # {}
  <2>1. First(s) \in s /\ s \ {First(s)} \notin Bad
    BY <1>2, <1>5, FirstIn
  <2>2. QED  BY <1>3, <1>5, <2>1, SumFirst
<1>6. QED  BY <1>4, <1>5

\* The order in which a sum is taken does not matter.
LEMMA SumWithout ==
  ASSUME NEW h, NEW S, IsFiniteSet(S), \A x \in S : h[x] \in Nat
  PROVE  \A x \in S : SumFunctionOnSet(h, S) = h[x] + SumFunctionOnSet(h, S \ {x})
<1> DEFINE Sum(s) == SumFunctionOnSet(h, s)
           Bad == {s \in SUBSET S : \E x \in s : Sum(s) # h[x] + Sum(s \ {x})}
<1>1. SUFFICES ASSUME Bad # {} PROVE FALSE
  OBVIOUS
<1>2. PICK s \in Bad : \A t \in Bad : t \subseteq s => t = s
  <2>1. Bad \subseteq SUBSET S
    OBVIOUS
  <2> HIDE DEF Bad
  <2>2. QED  BY <1>1, <2>1, SmallestSubset
<1>3. PICK x \in s : Sum(s) # h[x] + Sum(s \ {x})
  OBVIOUS
<1> DEFINE y == First(s)
           r == s \ {x, y}
<1>4. y \in s /\ Sum(s) = h[y] + Sum(s \ {y})
  <2>1. IsFiniteSet(s)
    BY FS_Subset
  <2>2. QED  BY <1>3, <2>1, FirstIn, SumFirst
<1>5. x # y
  BY <1>3, <1>4
<1> HIDE DEF y
<1>6. Sum(s \ {y}) = h[x] + Sum(r)
  <2>1. s \ {y} \notin Bad /\ x \in s \ {y} /\ s \ {y} \in SUBSET S
    BY <1>2, <1>4, <1>5
  <2>2. (s \ {y}) \ {x} = r
    OBVIOUS
  <2>3. QED  BY <2>1, <2>2
<1>7. Sum(s \ {x}) = h[y] + Sum(r)
  <2>1. s \ {x} \notin Bad /\ y \in s \ {x} /\ s \ {x} \in SUBSET S
    BY <1>2, <1>4, <1>5
  <2>2. (s \ {x}) \ {y} = r
    OBVIOUS
  <2>3. QED  BY <2>1, <2>2
<1>8. h[x] \in Nat /\ h[y] \in Nat /\ Sum(r) \in Nat
  <2>1. IsFiniteSet(r) /\ r \subseteq S
    BY FS_Subset
  <2> HIDE DEF r
  <2>2. QED  BY <1>4, <2>1, SumType
<1>9. QED  BY <1>3, <1>4, <1>6, <1>7, <1>8

\* One element more adds its value.
LEMMA SumWith ==
  ASSUME NEW h, NEW S, IsFiniteSet(S), NEW x, x \notin S, \A y \in S \cup {x} : h[y] \in Nat
  PROVE  SumFunctionOnSet(h, S \cup {x}) = SumFunctionOnSet(h, S) + h[x]
<1>1. IsFiniteSet(S \cup {x}) /\ (S \cup {x}) \ {x} = S
  BY FS_AddElement
<1>2. SumFunctionOnSet(h, S) \in Nat
  BY SumType
<1>3. SumFunctionOnSet(h, S \cup {x}) = h[x] + SumFunctionOnSet(h, S)
  <2>1. x \in S \cup {x}
    OBVIOUS
  <2>2. SumFunctionOnSet(h, S \cup {x}) = h[x] + SumFunctionOnSet(h, (S \cup {x}) \ {x})
    BY <1>1, <2>1, SumWithout
  <2>3. QED  BY <1>1, <2>2
<1>4. QED  BY <1>2, <1>3

\* Two sums add up, element by element.
LEMMA SumPlus ==
  ASSUME NEW S, IsFiniteSet(S), NEW g, NEW h, NEW k,
         \A x \in S : g[x] \in Nat /\ h[x] \in Nat /\ k[x] = g[x] + h[x]
  PROVE  SumFunctionOnSet(k, S) = SumFunctionOnSet(g, S) + SumFunctionOnSet(h, S)
<1> DEFINE Good == {s \in SUBSET S : SumFunctionOnSet(k, s) = SumFunctionOnSet(g, s) + SumFunctionOnSet(h, s)}
<1>1. PICK s \in Good : \A t \in Good : s \subseteq t => t = s
  <2>1. Good \subseteq SUBSET S /\ {} \in Good
    BY SumEmpty
  <2> HIDE DEF Good
  <2>2. QED  BY <2>1, LargestSubset
<1>2. SUFFICES ASSUME NEW x \in S \ s PROVE FALSE
  <2>1. s = S => SumFunctionOnSet(k, S) = SumFunctionOnSet(g, S) + SumFunctionOnSet(h, S)
    BY Zenon
  <2>2. s \in SUBSET S
    OBVIOUS
  <2>3. QED  BY <2>1, <2>2
<1>3. IsFiniteSet(s) /\ s \subseteq S
  BY FS_Subset
<1>4. /\ SumFunctionOnSet(k, s \cup {x}) = SumFunctionOnSet(k, s) + k[x]
      /\ SumFunctionOnSet(g, s \cup {x}) = SumFunctionOnSet(g, s) + g[x]
      /\ SumFunctionOnSet(h, s \cup {x}) = SumFunctionOnSet(h, s) + h[x]
  <2>1. \A y \in s \cup {x} : g[y] \in Nat /\ h[y] \in Nat /\ k[y] \in Nat
    BY <1>3
  <2>2. QED  BY <1>3, <2>1, SumWith
<1>5. SumFunctionOnSet(g, s) \in Nat /\ SumFunctionOnSet(h, s) \in Nat
  BY <1>3, SumType
<1>6. s \cup {x} \in Good
  BY <1>3, <1>4, <1>5
<1>7. QED  BY <1>1, <1>6

\* Larger terms have a larger sum.
LEMMA SumMonotone ==
  ASSUME NEW S, IsFiniteSet(S), NEW g, NEW h, \A x \in S : g[x] \in Nat /\ h[x] \in Nat /\ g[x] <= h[x]
  PROVE  SumFunctionOnSet(g, S) <= SumFunctionOnSet(h, S)
<1> DEFINE d == [x \in S |-> h[x] - g[x]]
<1>1. \A x \in S : d[x] \in Nat /\ h[x] = g[x] + d[x]
  OBVIOUS
<1> HIDE DEF d
<1>2. SumFunctionOnSet(h, S) = SumFunctionOnSet(g, S) + SumFunctionOnSet(d, S)
  BY <1>1, SumPlus
<1>3. SumFunctionOnSet(g, S) \in Nat /\ SumFunctionOnSet(d, S) \in Nat
  BY <1>1, SumType
<1>4. QED  BY <1>2, <1>3

\* Only the values on the set matter.
LEMMA SumSame ==
  ASSUME NEW S, IsFiniteSet(S), NEW g, NEW h, \A x \in S : g[x] \in Nat /\ h[x] = g[x]
  PROVE  SumFunctionOnSet(g, S) = SumFunctionOnSet(h, S)
<1>1. SumFunctionOnSet(g, S) <= SumFunctionOnSet(h, S) /\ SumFunctionOnSet(h, S) <= SumFunctionOnSet(g, S)
  BY SumMonotone
<1>2. SumFunctionOnSet(g, S) \in Nat /\ SumFunctionOnSet(h, S) \in Nat
  BY SumType
<1>3. QED  BY <1>1, <1>2

\* Every sum with one element more in some place is larger.
LEMMA SumGrows ==
  ASSUME NEW S, IsFiniteSet(S), NEW g, NEW h, \A x \in S : g[x] \in Nat /\ h[x] \in Nat /\ g[x] <= h[x],
         NEW y \in S, h[y] = g[y] + 1
  PROVE  SumFunctionOnSet(g, S) + 1 <= SumFunctionOnSet(h, S)
<1>1. IsFiniteSet(S \ {y})
  BY FS_Subset
<1>2. SumFunctionOnSet(g, S \ {y}) <= SumFunctionOnSet(h, S \ {y})
  BY <1>1, SumMonotone
<1>3. /\ SumFunctionOnSet(g, S) = g[y] + SumFunctionOnSet(g, S \ {y})
      /\ SumFunctionOnSet(h, S) = h[y] + SumFunctionOnSet(h, S \ {y})
  BY SumWithout
<1>4. SumFunctionOnSet(g, S \ {y}) \in Nat /\ SumFunctionOnSet(h, S \ {y}) \in Nat
  BY <1>1, SumType
<1>5. QED  BY <1>2, <1>3, <1>4

\* The sum of two sets without a common element.
LEMMA SumUnion ==
  ASSUME NEW h, NEW S, NEW T, IsFiniteSet(S), IsFiniteSet(T), S \cap T = {}, \A x \in S \cup T : h[x] \in Nat
  PROVE  SumFunctionOnSet(h, S \cup T) = SumFunctionOnSet(h, S) + SumFunctionOnSet(h, T)
<1> DEFINE Good == {t \in SUBSET T : SumFunctionOnSet(h, S \cup t) = SumFunctionOnSet(h, S) + SumFunctionOnSet(h, t)}
<1>0. SumFunctionOnSet(h, S) \in Nat
  BY SumType
<1>1. PICK t \in Good : \A u \in Good : t \subseteq u => u = t
  <2>0. S \cup {} = S
    OBVIOUS
  <2>1. Good \subseteq SUBSET T /\ {} \in Good
    BY <1>0, <2>0, SumEmpty
  <2> HIDE DEF Good
  <2>2. QED  BY <2>1, LargestSubset
<1>2. SUFFICES ASSUME NEW x \in T \ t PROVE FALSE
  <2>1. t = T => SumFunctionOnSet(h, S \cup T) = SumFunctionOnSet(h, S) + SumFunctionOnSet(h, T)
    BY Zenon
  <2>2. t \in SUBSET T
    OBVIOUS
  <2>3. QED  BY <2>1, <2>2
<1>3. IsFiniteSet(t) /\ t \subseteq T /\ IsFiniteSet(S \cup t) /\ x \notin S \cup t
  <2>1. IsFiniteSet(t)
    BY FS_Subset
  <2>2. QED  BY <2>1, FS_Union
<1>4. /\ SumFunctionOnSet(h, (S \cup t) \cup {x}) = SumFunctionOnSet(h, S \cup t) + h[x]
      /\ SumFunctionOnSet(h, t \cup {x}) = SumFunctionOnSet(h, t) + h[x]
  <2>1. \A y \in (S \cup t) \cup {x} : h[y] \in Nat
    BY <1>3
  <2>2. QED  BY <1>3, <2>1, SumWith
<1>5. SumFunctionOnSet(h, t) \in Nat /\ h[x] \in Nat
  BY <1>3, SumType
<1>6. t \cup {x} \in Good
  <2>1. (S \cup t) \cup {x} = S \cup (t \cup {x})
    OBVIOUS
  <2>2. QED  BY <1>0, <1>3, <1>4, <1>5, <2>1
<1>7. QED  BY <1>1, <1>6

\* A sum of terms that are no larger than m.
LEMMA SumBound ==
  ASSUME NEW S, IsFiniteSet(S), NEW h, NEW m \in Nat, \A x \in S : h[x] \in Nat /\ h[x] <= m
  PROVE  SumFunctionOnSet(h, S) <= Cardinality(S) * m
<1> DEFINE Good == {s \in SUBSET S : SumFunctionOnSet(h, s) <= Cardinality(s) * m}
<1>1. PICK s \in Good : \A t \in Good : s \subseteq t => t = s
  <2>1. Good \subseteq SUBSET S /\ {} \in Good
    BY SumEmpty, FS_EmptySet
  <2> HIDE DEF Good
  <2>2. QED  BY <2>1, LargestSubset
<1>2. SUFFICES ASSUME NEW x \in S \ s PROVE FALSE
  <2>1. s = S => SumFunctionOnSet(h, S) <= Cardinality(S) * m
    BY Zenon
  <2>2. s \in SUBSET S
    OBVIOUS
  <2>3. QED  BY <2>1, <2>2
<1>3. IsFiniteSet(s) /\ s \subseteq S
  BY FS_Subset
<1>4. SumFunctionOnSet(h, s \cup {x}) = SumFunctionOnSet(h, s) + h[x]
  <2>1. \A y \in s \cup {x} : h[y] \in Nat
    BY <1>3
  <2>2. QED  BY <1>3, <2>1, SumWith
<1>5. SumFunctionOnSet(h, s) \in Nat
  BY <1>3, SumType
<1>6. Cardinality(s) \in Nat /\ Cardinality(s \cup {x}) = Cardinality(s) + 1
  BY <1>3, FS_CardinalityType, FS_AddElement
<1>7. (Cardinality(s) + 1) * m = Cardinality(s) * m + m
  BY <1>6
<1>8. s \cup {x} \in Good
  <2>1. SumFunctionOnSet(h, s) <= Cardinality(s) * m /\ Cardinality(s) * m \in Nat
    BY <1>6
  <2>2. QED  BY <1>3, <1>4, <1>5, <1>6, <1>7, <2>1
<1>9. QED  BY <1>1, <1>8

\* A factor of all is a factor of the sum.
LEMMA SumScaled ==
  ASSUME NEW S, IsFiniteSet(S), NEW k \in Nat, NEW g, NEW h, \A x \in S : g[x] \in Nat /\ h[x] = k * g[x]
  PROVE  SumFunctionOnSet(h, S) = k * SumFunctionOnSet(g, S)
<1> DEFINE Good == {s \in SUBSET S : SumFunctionOnSet(h, s) = k * SumFunctionOnSet(g, s)}
<1>1. PICK s \in Good : \A t \in Good : s \subseteq t => t = s
  <2>1. Good \subseteq SUBSET S /\ {} \in Good
    BY SumEmpty
  <2> HIDE DEF Good
  <2>2. QED  BY <2>1, LargestSubset
<1>2. SUFFICES ASSUME NEW x \in S \ s PROVE FALSE
  <2>1. s = S => SumFunctionOnSet(h, S) = k * SumFunctionOnSet(g, S)
    BY Zenon
  <2>2. s \in SUBSET S
    OBVIOUS
  <2>3. QED  BY <2>1, <2>2
<1>3. IsFiniteSet(s) /\ s \subseteq S
  BY FS_Subset
<1>4. \A y \in s \cup {x} : g[y] \in Nat /\ h[y] = k * g[y] /\ h[y] \in Nat
  BY <1>3
<1>5. /\ SumFunctionOnSet(h, s \cup {x}) = SumFunctionOnSet(h, s) + h[x]
      /\ SumFunctionOnSet(g, s \cup {x}) = SumFunctionOnSet(g, s) + g[x]
  BY <1>3, <1>4, SumWith
<1>6. SumFunctionOnSet(g, s) \in Nat
  BY <1>3, <1>4, SumType
<1>7. g[x] \in Nat /\ h[x] = k * g[x]
  BY <1>4
<1>8. \A m, n \in Nat : k * (m + n) = k * m + k * n
  OBVIOUS
<1>9. s \cup {x} \in Good
  <2>1. SumFunctionOnSet(h, s) = k * SumFunctionOnSet(g, s)
    OBVIOUS
  <2>2. k * (SumFunctionOnSet(g, s) + g[x]) = k * SumFunctionOnSet(g, s) + k * g[x]
    BY <1>6, <1>7, <1>8
  <2>3. QED  BY <1>3, <1>5, <1>7, <2>1, <2>2
<1>10. QED  BY <1>1, <1>9

\* The sum of a set that is divided into parts is the sum of the sums of its parts.
LEMMA SumOfParts ==
  ASSUME NEW S, IsFiniteSet(S), NEW P, NEW h, NEW sums,
         \A f \in S : IsFiniteSet(P[f]) /\ sums[f] = SumFunctionOnSet(h, P[f]) /\ \A x \in P[f] : h[x] \in Nat,
         \A f, g \in S : f # g => P[f] \cap P[g] = {}
  PROVE  /\ IsFiniteSet(UNION {P[f] : f \in S})
         /\ SumFunctionOnSet(h, UNION {P[f] : f \in S}) = SumFunctionOnSet(sums, S)
<1> DEFINE All(s) == UNION {P[f] : f \in s}
           Good == {s \in SUBSET S : IsFiniteSet(All(s)) /\ SumFunctionOnSet(h, All(s)) = SumFunctionOnSet(sums, s)}
<1>1. PICK s \in Good : \A t \in Good : s \subseteq t => t = s
  <2>1. All({}) = {}
    OBVIOUS
  <2>2. {} \in Good
    BY <2>1, SumEmpty, FS_EmptySet
  <2>3. Good \subseteq SUBSET S /\ Good # {}
    BY <2>2
  <2> HIDE DEF Good
  <2>4. QED  BY <2>3, LargestSubset
<1>2. s \in SUBSET S /\ IsFiniteSet(All(s)) /\ SumFunctionOnSet(h, All(s)) = SumFunctionOnSet(sums, s)
  OBVIOUS
<1>3. SUFFICES ASSUME NEW f \in S \ s PROVE FALSE
  <2>1. s = S
    BY <1>2, <1>3
  <2>2. QED  BY <1>2, <2>1, Zenon
<1>4. IsFiniteSet(s)
  BY <1>2, FS_Subset
<1>5. All(s \cup {f}) = All(s) \cup P[f] /\ All(s) \cap P[f] = {}
  <2>1. All(s \cup {f}) = All(s) \cup P[f]
    OBVIOUS
  <2>2. \A g \in s : P[g] \cap P[f] = {}
    BY <1>2, <1>3
  <2>3. QED  BY <2>1, <2>2
<1>6. \A x \in All(s) \cup P[f] : h[x] \in Nat
  BY <1>2
<1>7. \A g \in S : sums[g] \in Nat
  BY SumType
<1> HIDE DEF All
<1>8. SumFunctionOnSet(h, All(s) \cup P[f]) = SumFunctionOnSet(h, All(s)) + SumFunctionOnSet(h, P[f])
  BY <1>2, <1>5, <1>6, SumUnion
<1>9. SumFunctionOnSet(sums, s \cup {f}) = SumFunctionOnSet(sums, s) + sums[f]
  <2>1. f \notin s /\ \A g \in s \cup {f} : sums[g] \in Nat
    BY <1>2, <1>3, <1>7
  <2>2. QED  BY <1>4, <2>1, SumWith
<1>10. IsFiniteSet(All(s) \cup P[f])
  BY <1>2, <1>3, FS_Union
<1>11. s \cup {f} \in Good
  <2>1. sums[f] = SumFunctionOnSet(h, P[f])
    BY <1>3
  <2>2. s \cup {f} \in SUBSET S
    BY <1>2, <1>3
  <2>3. QED  BY <1>2, <1>5, <1>8, <1>9, <1>10, <2>1, <2>2
<1>12. QED  BY <1>1, <1>3, <1>11

\* Counting unions.
LEMMA PairCount ==
  ASSUME NEW x, NEW y
  PROVE  /\ IsFiniteSet({x}) /\ Cardinality({x}) = 1
         /\ IsFiniteSet({x, y}) /\ Cardinality({x, y}) = IF x = y THEN 1 ELSE 2
<1>1. IsFiniteSet({x}) /\ Cardinality({x}) = 1
  BY FS_Singleton
<1>2. {x, y} = {x} \cup {y}
  OBVIOUS
<1>3. IsFiniteSet({x} \cup {y}) /\ Cardinality({x} \cup {y}) = IF x = y THEN 1 ELSE 2
  <2>1. y \in {x} <=> x = y
    OBVIOUS
  <2>2. QED  BY <1>1, <2>1, FS_AddElement
<1>4. QED  BY <1>1, <1>2, <1>3

\* A union has at most the elements of both sets, and all of them if they have none in common.
LEMMA UnionCount ==
  ASSUME NEW S, NEW T, IsFiniteSet(S), IsFiniteSet(T)
  PROVE  /\ IsFiniteSet(S \cup T)
         /\ Cardinality(S) \in Nat /\ Cardinality(T) \in Nat /\ Cardinality(S \cup T) \in Nat
         /\ Cardinality(S \cup T) <= Cardinality(S) + Cardinality(T)
         /\ S \cap T = {} => Cardinality(S \cup T) = Cardinality(S) + Cardinality(T)
<1>1. /\ IsFiniteSet(S \cup T)
      /\ Cardinality(S \cup T) = Cardinality(S) + Cardinality(T) - Cardinality(S \cap T)
  BY FS_Union
<1>2. IsFiniteSet(S \cap T)
  BY FS_Intersection
<1>3. Cardinality(S) \in Nat /\ Cardinality(T) \in Nat /\ Cardinality(S \cap T) \in Nat /\ Cardinality(S \cup T) \in Nat
  BY <1>1, <1>2, FS_CardinalityType
<1>4. S \cap T = {} => Cardinality(S \cap T) = 0
  BY FS_EmptySet
<1>5. QED  BY <1>1, <1>3, <1>4

\* The union of sets of at most k elements.
LEMMA UNIONCount ==
  ASSUME NEW R, IsFiniteSet(R), NEW k \in Nat, NEW G,
         \A r \in R : IsFiniteSet(G[r]) /\ Cardinality(G[r]) <= k
  PROVE  IsFiniteSet(UNION {G[r] : r \in R}) /\ Cardinality(UNION {G[r] : r \in R}) <= Cardinality(R) * k
<1> DEFINE All(s) == UNION {G[r] : r \in s}
           Good == {s \in SUBSET R : IsFiniteSet(All(s)) /\ Cardinality(All(s)) <= Cardinality(s) * k}
<1>1. PICK s \in Good : \A t \in Good : s \subseteq t => t = s
  <2>1. Good \subseteq SUBSET R
    OBVIOUS
  <2>2. {} \in Good
    <3>1. All({}) = {}
      OBVIOUS
    <3>2. QED  BY <3>1, FS_EmptySet
  <2> HIDE DEF Good
  <2>3. Good # {}
    BY <2>2
  <2>4. QED  BY <2>1, <2>3, LargestSubset
<1>2. s \in SUBSET R /\ IsFiniteSet(All(s)) /\ Cardinality(All(s)) <= Cardinality(s) * k
  OBVIOUS
<1>3. SUFFICES ASSUME NEW r \in R \ s PROVE FALSE
  <2>1. s = R => IsFiniteSet(All(R)) /\ Cardinality(All(R)) <= Cardinality(R) * k
    BY <1>2, Zenon
  <2> HIDE DEF Good
  <2>2. QED  BY <1>2, <2>1
<1>4. IsFiniteSet(s)
  BY <1>2, FS_Subset
<1>5. Cardinality(s) \in Nat /\ Cardinality(s \cup {r}) = Cardinality(s) + 1
  BY <1>3, <1>4, FS_CardinalityType, FS_AddElement
<1>6. All(s \cup {r}) = All(s) \cup G[r]
  OBVIOUS
<1>7. IsFiniteSet(G[r]) /\ Cardinality(G[r]) <= k
  BY <1>3
<1> HIDE DEF All
<1>8. IsFiniteSet(All(s \cup {r})) /\ Cardinality(All(s \cup {r})) <= Cardinality(s) * k + k
  <2>1. /\ IsFiniteSet(All(s) \cup G[r]) /\ Cardinality(All(s) \cup G[r]) <= Cardinality(All(s)) + Cardinality(G[r])
        /\ Cardinality(All(s)) \in Nat /\ Cardinality(G[r]) \in Nat /\ Cardinality(All(s) \cup G[r]) \in Nat
    BY <1>2, <1>7, UnionCount
  <2>2. Cardinality(s) * k \in Nat
    BY <1>5
  <2>3. Cardinality(All(s) \cup G[r]) <= Cardinality(s) * k + k
    BY <1>2, <1>7, <2>1, <2>2
  <2>4. QED  BY <1>6, <2>1, <2>3
<1>9. (Cardinality(s) + 1) * k = Cardinality(s) * k + k
  BY <1>5
<1>10. s \cup {r} \in Good
  BY <1>2, <1>3, <1>5, <1>8, <1>9
<1>11. QED  BY <1>1, <1>3, <1>10

LEMMA ProductGrows ==
  ASSUME NEW a \in Nat, NEW b \in Nat, NEW k \in Nat, a <= b
  PROVE  a * k <= b * k /\ k * a <= k * b /\ a * k \in Nat /\ b * k \in Nat
<1> DEFINE d == b - a
<1>1. d \in Nat /\ b = a + d
  OBVIOUS
<1>2. \A x, y, z \in Nat : (x + y) * z = x * z + y * z /\ x * z \in Nat /\ x * z = z * x
  OBVIOUS
<1> HIDE DEF d
<1>3. b * k = a * k + d * k /\ a * k \in Nat /\ d * k \in Nat /\ b * k = k * b /\ a * k = k * a
  BY <1>1, <1>2
<1>4. QED  BY <1>3

\* A set that is divided into parts has as many elements as they have together.
LEMMA CountOfParts ==
  ASSUME NEW S, IsFiniteSet(S), NEW P, NEW counts,
         \A f \in S : IsFiniteSet(P[f]) /\ counts[f] = Cardinality(P[f])
  PROVE  Cardinality(UNION {P[f] : f \in S}) <= SumFunctionOnSet(counts, S)
<1> DEFINE All(s) == UNION {P[f] : f \in s}
           Good == {s \in SUBSET S : IsFiniteSet(All(s)) /\ Cardinality(All(s)) <= SumFunctionOnSet(counts, s)}
<1>1. PICK s \in Good : \A t \in Good : s \subseteq t => t = s
  <2>1. All({}) = {}
    OBVIOUS
  <2>2. {} \in Good
    BY <2>1, SumEmpty, FS_EmptySet
  <2>3. Good \subseteq SUBSET S /\ Good # {}
    BY <2>2
  <2> HIDE DEF Good
  <2>4. QED  BY <2>3, LargestSubset
<1>2. s \in SUBSET S /\ IsFiniteSet(All(s)) /\ Cardinality(All(s)) <= SumFunctionOnSet(counts, s)
  OBVIOUS
<1>3. SUFFICES ASSUME NEW f \in S \ s PROVE FALSE
  <2>1. s = S
    BY <1>2, <1>3
  <2>2. QED  BY <1>2, <2>1, Zenon
<1>4. IsFiniteSet(s) /\ f \notin s /\ f \in S
  BY <1>2, <1>3, FS_Subset
<1>5. All(s \cup {f}) = All(s) \cup P[f]
  OBVIOUS
<1>6. \A g \in S : counts[g] \in Nat
  BY FS_CardinalityType
<1> HIDE DEF All
<1>7. SumFunctionOnSet(counts, s \cup {f}) = SumFunctionOnSet(counts, s) + counts[f] /\ SumFunctionOnSet(counts, s) \in Nat
  <2>1. \A g \in s \cup {f} : counts[g] \in Nat
    BY <1>2, <1>4, <1>6
  <2>2. QED  BY <1>4, <2>1, SumWith, SumType
<1>8. IsFiniteSet(All(s) \cup P[f]) /\ Cardinality(All(s) \cup P[f]) <= SumFunctionOnSet(counts, s) + counts[f]
  <2>1. /\ IsFiniteSet(All(s) \cup P[f]) /\ Cardinality(All(s) \cup P[f]) \in Nat
        /\ Cardinality(All(s)) \in Nat /\ Cardinality(P[f]) \in Nat
        /\ Cardinality(All(s) \cup P[f]) <= Cardinality(All(s)) + Cardinality(P[f])
    BY <1>2, <1>4, UnionCount
  <2>2. counts[f] = Cardinality(P[f])
    BY <1>4
  <2>3. QED  BY <1>2, <1>7, <2>1, <2>2
<1>9. s \cup {f} \in Good
  BY <1>2, <1>4, <1>5, <1>7, <1>8
<1>10. QED  BY <1>1, <1>4, <1>9

-----------------------------------------------------------------------------
(* The price of an operation.  The price of a field needs those of the       *)
(* fields nested below it, and every operation ends.                         *)

\* Every part of an operation has a field below which it has nothing.
LEMMA ChildrenFirst ==
  ASSUME NEW o \in Operations, NEW S, S \subseteq o, S # {}
  PROVE  \E f \in S : NestedIn(o, f) \cap S = {}
<1>1. SUFFICES ASSUME \A f \in S : \E g \in S : Parent(g) = f PROVE FALSE
  BY DEF NestedIn
<1> DEFINE child == [f \in S |-> CHOOSE g \in S : Parent(g) = f]
<1>2. \A f \in S : child[f] \in S /\ Parent(child[f]) = f
  BY <1>1
<1>3. child \in [S -> S]
  BY <1>2
<1> HIDE DEF child
<1>4. child \in Injection(S, S)
  BY <1>2, <1>3 DEF Injection, IsInjective
<1>5. IsFiniteSet(S)
  BY ResponseAssumption, FS_Subset
<1>6. child \in Surjection(S, S)
  BY <1>4, <1>5, FS_Injection
<1>7. \A g \in S : Parent(g) \in S
  BY <1>2, <1>6 DEF Surjection
<1>8. QED  BY <1>7, GraphCountsAssumption DEF Parent

Priced(o, h, f) == FieldCost(f, UnpricedCost(Selected(o, f)) + NestedCost(o, f, h))

\* A part of an operation that has what is nested below its fields, with their prices.
Ends(o, D, h) ==
  /\ D \subseteq o
  /\ \A f \in D : NestedIn(o, f) \subseteq D /\ h[f] = Priced(o, h, f)

LEMMA PricedSame ==
  ASSUME NEW o, NEW h, NEW k, NEW f, \A g \in NestedIn(o, f) : h[g] = k[g]
  PROVE  Priced(o, h, f) = Priced(o, k, f)
<1> DEFINE dearest(c) == [a \in Aliases(o, f) |-> Max({c[g] : g \in Under(o, f, a)})]
<1>1. ASSUME NEW a PROVE {h[g] : g \in Under(o, f, a)} = {k[g] : g \in Under(o, f, a)}
  BY DEF Under
<1>2. dearest(h) = dearest(k)
  BY <1>1
<1>3. NestedCost(o, f, h) = NestedCost(o, f, k)
  BY <1>2, Zenon DEF NestedCost
<1>4. QED  BY <1>3, Zenon DEF Priced

\* Two parts of an operation that have what is nested below them agree on its prices.
LEMMA CostsAgree ==
  ASSUME NEW o \in Operations, NEW D, NEW h, NEW E, NEW k, Ends(o, D, h), Ends(o, E, k)
  PROVE  \A f \in D \cap E : h[f] = k[f]
<1> DEFINE Differ == {f \in D \cap E : h[f] # k[f]}
<1>1. SUFFICES ASSUME Differ # {} PROVE FALSE
  OBVIOUS
<1>2. PICK f \in Differ : NestedIn(o, f) \cap Differ = {}
  <2>1. Differ \subseteq o
    BY DEF Ends
  <2> HIDE DEF Differ
  <2>2. QED  BY <1>1, <2>1, ChildrenFirst
<1>3. \A g \in NestedIn(o, f) : h[g] = k[g]
  BY <1>2 DEF Ends
<1>4. QED  BY <1>2, <1>3, PricedSame DEF Ends

\* The function by which a price is defined is there.
LEMMA CostsExist ==
  ASSUME NEW o \in Operations
  PROVE  \E cost : cost = [f \in o |-> Priced(o, cost, f)]
<1> DEFINE Has(f, h) == \E D : f \in D /\ Ends(o, D, h)
           Of(f) == CHOOSE h : Has(f, h)
           All == {f \in o : \E h : Has(f, h)}
           cost == [f \in All |-> Of(f)[f]]
<1>1. ASSUME NEW f \in All PROVE Has(f, Of(f))
  <2>1. \E h : Has(f, h)
    OBVIOUS
  <2>2. QED  BY <2>1, Zenon
<1>2. ASSUME NEW f \in All PROVE NestedIn(o, f) \subseteq All
  <2>1. PICK h, D : f \in D /\ Ends(o, D, h)
    OBVIOUS
  <2>2. QED  BY <2>1 DEF Ends
<1>3. \A f \in All : cost[f] = Of(f)[f]
  OBVIOUS
<1>4. All \subseteq o
  OBVIOUS
<1>5. \A f \in o : \A h : Has(f, h) => f \in All
  OBVIOUS
<1> HIDE DEF Of, All, cost
<1>6. ASSUME NEW f \in All PROVE cost[f] = Priced(o, cost, f)
  <2>1. PICK D : f \in D /\ Ends(o, D, Of(f))
    BY <1>1
  <2>2. Of(f)[f] = Priced(o, Of(f), f)
    BY <2>1 DEF Ends
  <2>3. ASSUME NEW g \in NestedIn(o, f) PROVE Of(f)[g] = cost[g]
    <3>1. g \in D /\ g \in All
      BY <1>2, <2>1 DEF Ends
    <3>2. PICK E : g \in E /\ Ends(o, E, Of(g))
      BY <1>1, <3>1
    <3>3. Of(g)[g] = Of(f)[g]
      BY <2>1, <3>1, <3>2, CostsAgree
    <3>4. QED  BY <1>3, <3>1, <3>3
  <2>4. QED  BY <1>3, <2>2, <2>3, PricedSame
<1>7. All = o
  <2>1. SUFFICES ASSUME o \ All # {} PROVE FALSE
    BY <1>4
  <2>2. PICK f \in o \ All : NestedIn(o, f) \cap (o \ All) = {}
    BY <2>1, ChildrenFirst
  <2>3. NestedIn(o, f) \subseteq All
    BY <2>2 DEF NestedIn
  <2> DEFINE h == [g \in All \cup {f} |-> IF g = f THEN Priced(o, cost, f) ELSE cost[g]]
  <2>4. h[f] = Priced(o, cost, f) /\ \A g \in All : h[g] = cost[g]
    OBVIOUS
  <2> HIDE DEF h
  <2>5. h[f] = Priced(o, h, f)
    BY <2>3, <2>4, PricedSame
  <2>6. ASSUME NEW g \in All PROVE h[g] = Priced(o, h, g)
    BY <1>2, <1>6, <2>4, PricedSame
  <2>7. Ends(o, All \cup {f}, h)
    BY <1>2, <1>4, <2>3, <2>5, <2>6 DEF Ends
  <2>8. Has(f, h)
    BY <2>7
  <2>9. QED  BY <1>5, <2>8
<1>8. cost = [f \in o |-> Priced(o, cost, f)]
  <2>1. cost = [f \in o |-> cost[f]]
    BY <1>7 DEF cost
  <2>2. QED  BY <1>6, <1>7, <2>1
<1>9. QED  BY <1>8

\* The price of a field is what the code computes from the prices below it.
LEMMA CostIsPriced ==
  ASSUME NEW o \in Operations
  PROVE  \A f \in o : Cost(o)[f] = Priced(o, Cost(o), f)
<1> DEFINE cost == CHOOSE cost : cost = [f \in o |-> Priced(o, cost, f)]
<1>1. cost = [f \in o |-> Priced(o, cost, f)]
  BY CostsExist, Zenon
<1>2. Cost(o) = cost
  BY Zenon DEF Cost, Priced
<1> HIDE DEF cost
<1>3. \A f \in o : cost[f] = Priced(o, cost, f)
  BY <1>1
<1>4. QED  BY <1>2, <1>3

-----------------------------------------------------------------------------
(* What is selected below a field costs no less than the counts of one row.  *)

Words == Names \cup {"id"}
Selectable == Seq(Words)

\* The fields on the way to what is selected, without the items of lists.
Steps(p) == {SubSeq(p, 1, i) : i \in 1 .. Len(p)}

LEMMA StepsOf ==
  ASSUME NEW p \in Selectable
  PROVE  IsFiniteSet(Steps(p)) /\ (Len(p) > 0 => p \in Steps(p))
<1>1. Len(p) \in Nat
  BY DEF Selectable
<1>2. IsFiniteSet(1 .. Len(p))
  BY <1>1, FS_Interval
<1> DEFINE cut == [i \in 1 .. Len(p) |-> SubSeq(p, 1, i)]
<1>3. cut \in Surjection(1 .. Len(p), Steps(p))
  BY DEF Surjection, Steps
<1>4. IsFiniteSet(Steps(p))
  BY <1>2, <1>3, FS_Surjection
<1>5. SubSeq(p, 1, Len(p)) = p
  <2> DEFINE q == SubSeq(p, 1, Len(p))
  <2>1. q \in Selectable /\ Len(q) = Len(p) /\ \A i \in 1 .. Len(p) : q[i] = p[i]
    BY <1>1 DEF Selectable
  <2> HIDE DEF q
  <2>2. q = p
    BY <2>1, SeqEqual DEF Selectable
  <2>3. QED  BY <2>2 DEF q
<1>6. Len(p) > 0 => p \in Steps(p)
  <2>1. Len(p) > 0 => Len(p) \in 1 .. Len(p)
    BY <1>1
  <2>2. QED  BY <1>5, <2>1 DEF Steps
<1>7. QED  BY <1>4, <1>6

\* What is selected costs at least one for every count in it.
LEMMA UnpricedAtLeast ==
  ASSUME NEW selection \in SUBSET Selectable, IsFiniteSet(selection),
         NEW T \in SUBSET selection, \A p \in T : Len(p) > 0 /\ p[Len(p)] # Item
  PROVE  UnpricedCost(selection) \in Nat /\ Cardinality(T) \in Nat /\ Cardinality(T) <= UnpricedCost(selection)
<1> DEFINE all == UNION {Steps(p) : p \in selection}
           priced == {q \in all : q[Len(q)] # Item}
<1>1. IsFiniteSet(all)
  <2> DEFINE ways == [p \in selection |-> Steps(p)]
  <2>1. ways \in Surjection(selection, {Steps(p) : p \in selection})
    BY DEF Surjection
  <2>2. IsFiniteSet({Steps(p) : p \in selection})
    BY <2>1, FS_Surjection
  <2>3. \A S \in {Steps(p) : p \in selection} : IsFiniteSet(S)
    BY StepsOf
  <2>4. QED  BY <2>2, <2>3, FS_UNION
<1>2. IsFiniteSet(priced)
  BY <1>1, FS_Subset
<1>3. T \subseteq priced
  BY StepsOf
<1>4. UnpricedCost(selection) = Cardinality(priced)
  BY Zenon DEF UnpricedCost, Steps
<1> HIDE DEF priced
<1>5. Cardinality(T) \in Nat /\ Cardinality(T) <= Cardinality(priced) /\ Cardinality(priced) \in Nat
  <2>1. IsFiniteSet(T)
    BY <1>2, <1>3, FS_Subset
  <2>2. QED  BY <1>2, <1>3, <2>1, FS_Subset, FS_CardinalityType
<1>6. QED  BY <1>4, <1>5

\* A path continued by another.
LEMMA Behind ==
  ASSUME NEW p \in Selectable, NEW w \in Selectable, Len(w) > 0
  PROVE  /\ p \o w \in Selectable /\ Len(p \o w) = Len(p) + Len(w)
         /\ (p \o w)[Len(p) + 1] = w[1] /\ (p \o w)[Len(p \o w)] = w[Len(w)]
         /\ \A i \in 1 .. Len(p) : (p \o w)[i] = p[i]
<1>1. Len(p) \in Nat /\ Len(w) \in Nat
  BY DEF Selectable
<1>2. /\ p \o w \in Selectable /\ Len(p \o w) = Len(p) + Len(w)
      /\ \A i \in 1 .. Len(p) + Len(w) : (p \o w)[i] = IF i <= Len(p) THEN p[i] ELSE w[i - Len(p)]
  BY DEF Selectable
<1>3. (p \o w)[Len(p) + 1] = w[(Len(p) + 1) - Len(p)] /\ (p \o w)[Len(p) + Len(w)] = w[(Len(p) + Len(w)) - Len(p)]
  BY <1>1, <1>2
<1>4. (Len(p) + 1) - Len(p) = 1 /\ (Len(p) + Len(w)) - Len(p) = Len(w)
  BY <1>1
<1>5. \A i \in 1 .. Len(p) : (p \o w)[i] = p[i]
  BY <1>1, <1>2
<1>6. QED  BY <1>1, <1>2, <1>3, <1>4, <1>5

LEMMA One == ASSUME NEW s \in Words PROVE <<s>> \in Selectable /\ Len(<<s>>) = 1 /\ <<s>>[1] = s
  BY DEF Selectable
LEMMA Two ==
  ASSUME NEW s \in Words, NEW t \in Words
  PROVE  <<s, t>> \in Selectable /\ Len(<<s, t>>) = 2 /\ <<s, t>>[1] = s /\ <<s, t>>[2] = t
  BY DEF Selectable
LEMMA SelectedWords == {"poemCount", "authorCount", "author", "dynasty", "type", "id"} \subseteq Words
  BY DEF Words, Names, PathSteps

\* Every path ends in a field.
Named(T) == \A p \in T : Len(p) > 0 /\ p[Len(p)] # Item
Fits(T, n) == T \in SUBSET Selectable /\ IsFiniteSet(T) /\ Named(T) /\ Cardinality(T) = n

\* The counts of a dynasty, of an author and of a poem are two, three and six.
LEMMA DynastyCountsFit ==
  ASSUME NEW at \in Selectable
  PROVE  Fits(DynastyCounts(at), 2) /\ \A p \in DynastyCounts(at) : Len(p) = Len(at) + 2 /\ p[Len(at) + 1] = "dynasty"
                                                                     /\ \A i \in 1 .. Len(at) : p[i] = at[i]
<1> DEFINE v == <<"dynasty", "poemCount">>
           w == <<"dynasty", "authorCount">>
           p == at \o v
           q == at \o w
<1>1. /\ v \in Selectable /\ Len(v) = 2 /\ v[1] = "dynasty" /\ v[2] = "poemCount"
      /\ w \in Selectable /\ Len(w) = 2 /\ w[1] = "dynasty" /\ w[2] = "authorCount"
  BY Two, SelectedWords
<1> HIDE DEF v, w
<1>2. /\ p \in Selectable /\ Len(p) = Len(at) + 2 /\ p[Len(p)] = "poemCount" /\ p[Len(at) + 1] = "dynasty"
      /\ \A i \in 1 .. Len(at) : p[i] = at[i]
  <2>1. Len(v) > 0
    BY <1>1
  <2>2. /\ p \in Selectable /\ Len(p) = Len(at) + Len(v)
        /\ p[Len(at) + 1] = v[1] /\ p[Len(p)] = v[Len(v)]
        /\ \A i \in 1 .. Len(at) : p[i] = at[i]
    BY <1>1, <2>1, Behind, Zenon
  <2> HIDE DEF p
  <2>3. QED  BY <1>1, <2>2
<1>3. /\ q \in Selectable /\ Len(q) = Len(at) + 2 /\ q[Len(q)] = "authorCount" /\ q[Len(at) + 1] = "dynasty"
      /\ \A i \in 1 .. Len(at) : q[i] = at[i]
  <2>1. Len(w) > 0
    BY <1>1
  <2>2. /\ q \in Selectable /\ Len(q) = Len(at) + Len(w)
        /\ q[Len(at) + 1] = w[1] /\ q[Len(q)] = w[Len(w)]
        /\ \A i \in 1 .. Len(at) : q[i] = at[i]
    BY <1>1, <2>1, Behind, Zenon
  <2> HIDE DEF q
  <2>3. QED  BY <1>1, <2>2
<1>4. DynastyCounts(at) = {p, q}
  BY DEF DynastyCounts, v, w
<1> HIDE DEF p, q
<1>5. Len(at) \in Nat /\ p # q
  BY <1>2, <1>3 DEF Selectable
<1>6. IsFiniteSet({p, q}) /\ Cardinality({p, q}) = 2
  BY <1>5, PairCount
<1>7. QED  BY <1>2, <1>3, <1>4, <1>5, <1>6 DEF Fits, Named, Item

LEMMA AuthorCountsFit ==
  ASSUME NEW at \in Selectable
  PROVE  Fits(AuthorCounts(at), 3) /\ \A p \in AuthorCounts(at) : \A i \in 1 .. Len(at) : p[i] = at[i]
<1> DEFINE w == <<"poemCount">>
           p == at \o w
<1>0. w \in Selectable /\ Len(w) = 1 /\ w[1] = "poemCount"
  BY One, SelectedWords
<1> HIDE DEF w
<1>1. /\ p \in Selectable /\ Len(p) = Len(at) + 1 /\ p[Len(p)] = "poemCount"
      /\ \A i \in 1 .. Len(at) : p[i] = at[i]
  <2>1. Len(w) > 0
    BY <1>0
  <2>2. p \in Selectable /\ Len(p) = Len(at) + Len(w) /\ p[Len(p)] = w[Len(w)] /\ \A i \in 1 .. Len(at) : p[i] = at[i]
    BY <1>0, <2>1, Behind, Zenon
  <2> HIDE DEF p
  <2>3. QED  BY <1>0, <2>2
<1>2. AuthorCounts(at) = {p} \cup DynastyCounts(at)
  BY DEF AuthorCounts, w
<1> HIDE DEF p
<1>3. Len(at) \in Nat
  BY DEF Selectable
<1>4. p \notin DynastyCounts(at)
  BY <1>1, <1>3, DynastyCountsFit
<1>5. IsFiniteSet({p} \cup DynastyCounts(at)) /\ Cardinality({p} \cup DynastyCounts(at)) = 3
  <2>1. IsFiniteSet({p}) /\ Cardinality({p}) = 1
    BY PairCount
  <2>2. IsFiniteSet(DynastyCounts(at)) /\ Cardinality(DynastyCounts(at)) = 2
    BY DynastyCountsFit DEF Fits
  <2>3. {p} \cap DynastyCounts(at) = {}
    BY <1>4
  <2>4. QED  BY ONLY <2>1, <2>2, <2>3, UnionCount
<1>6. QED  BY <1>1, <1>2, <1>3, <1>5, DynastyCountsFit DEF Fits, Named, Item

LEMMA PoemCountsFit ==
  ASSUME NEW at \in Selectable
  PROVE  Fits(PoemCounts(at), 6)
<1> DEFINE v == <<"author">>
           w == <<"type", "poemCount">>
           below == at \o v
           p == at \o w
           A == AuthorCounts(below)
           D == DynastyCounts(at)
<1>1. Len(at) \in Nat
  BY DEF Selectable
<1>2. /\ v \in Selectable /\ Len(v) = 1 /\ v[1] = "author"
      /\ w \in Selectable /\ Len(w) = 2 /\ w[1] = "type" /\ w[2] = "poemCount"
  BY One, Two, SelectedWords
<1> HIDE DEF v, w
<1>3. Len(v) > 0 /\ Len(w) > 0
  BY <1>2
<1>4. below \in Selectable /\ Len(below) = Len(at) + 1 /\ below[Len(at) + 1] = "author"
  <2>1. below \in Selectable /\ Len(below) = Len(at) + Len(v) /\ below[Len(at) + 1] = v[1]
    BY <1>2, <1>3, Behind, Zenon
  <2> HIDE DEF below
  <2>2. QED  BY <1>2, <2>1
<1>5. p \in Selectable /\ Len(p) = Len(at) + 2 /\ p[Len(p)] = "poemCount" /\ p[Len(at) + 1] = "type"
  <2>1. p \in Selectable /\ Len(p) = Len(at) + Len(w) /\ p[Len(at) + 1] = w[1] /\ p[Len(p)] = w[Len(w)]
    BY <1>2, <1>3, Behind, Zenon
  <2> HIDE DEF p
  <2>2. QED  BY <1>2, <2>1
<1>6. PoemCounts(at) = (A \cup D) \cup {p}
  BY DEF PoemCounts, v, w
<1>7. Fits(A, 3) /\ \A q \in A : q[Len(at) + 1] = "author"
  <2>1. Fits(A, 3) /\ \A q \in A : \A i \in 1 .. Len(below) : q[i] = below[i]
    BY <1>4, AuthorCountsFit
  <2>2. Len(at) + 1 \in 1 .. Len(below)
    BY <1>1, <1>4
  <2>3. QED  BY <1>4, <2>1, <2>2
<1>8. Fits(D, 2) /\ \A q \in D : q[Len(at) + 1] = "dynasty"
  BY DynastyCountsFit
<1> HIDE DEF below, p, A, D
<1>9. A \cap D = {} /\ (A \cup D) \cap {p} = {}
  BY <1>5, <1>7, <1>8
<1>10. IsFiniteSet(A \cup D) /\ Cardinality(A \cup D) = 5
  BY <1>7, <1>8, <1>9, UnionCount DEF Fits
<1>11. IsFiniteSet((A \cup D) \cup {p}) /\ Cardinality((A \cup D) \cup {p}) = 6
  <2>1. IsFiniteSet({p}) /\ Cardinality({p}) = 1
    BY PairCount
  <2>2. QED  BY ONLY <1>9, <1>10, <2>1, UnionCount
<1>12. QED  BY <1>1, <1>5, <1>6, <1>7, <1>8, <1>11 DEF Fits, Named, Item

\* Where rows and authors are in a selection.
LEMMA PlacesSelectable ==
  /\ << >> \in Selectable /\ Row \in Selectable
  /\ \A f : AuthorPlace(f) \in Selectable
<1>1. << >> \in Selectable /\ <<"edges", "[]", "node">> \in Selectable
  BY DEF Selectable, Words, Names, PathSteps
<1>2. Row \in Selectable
  BY <1>1 DEF Row
<1>3. <<"author">> \in Selectable /\ Len(<<"author">>) > 0
  BY One, SelectedWords
<1>4. Row \o <<"author">> \in Selectable
  BY <1>2, <1>3, Behind, Zenon
<1>5. QED  BY <1>1, <1>2, <1>3, <1>4 DEF AuthorPlace

\* The selection of every kind of field, and how many counts it has for one row.
RowCounts(kind) ==
  CASE kind \in {"poem", "poems", "author.poems"} -> 6
    [] kind \in {"author", "authors"} -> 3
    [] OTHER -> 0

\* A path to a count ends in a field.
LEMMA FieldNamed ==
  ASSUME NEW p \in Selectable, Len(p) > 0, p[Len(p)] \in {"poemCount", "authorCount"}
  PROVE  {p} \in SUBSET Selectable /\ Named({p})
<1>1. \A q \in {p} : Len(q) > 0 /\ q[Len(q)] # Item
  BY DEF Item
<1>2. QED  BY <1>1 DEF Named

\* The selection of a kind has the counts of one row, at least.
LEMMA SelectionFits ==
  ASSUME NEW kind \in Kinds
  PROVE  \E n \in Nat : Fits(Selection(kind), n) /\ n >= RowCounts(kind)
<1>1. CASE kind = "statistics"
  <2> DEFINE at == <<"poemsByDynasty", "[]">>
             p == <<"poemsByType", "[]", "type", "poemCount">>
  <2>1. at \in Selectable /\ p \in Selectable /\ Len(p) > 0 /\ p[Len(p)] = "poemCount"
    BY DEF Selectable, Words, Names, PathSteps
  <2>2. Selection(kind) = DynastyCounts(at) \cup {p}
    BY <1>1 DEF Selection, Item
  <2> HIDE DEF at, p
  <2>3. Fits(DynastyCounts(at), 2)
    BY <2>1, DynastyCountsFit
  <2>4. IsFiniteSet({p})
    BY PairCount
  <2>5. IsFiniteSet(DynastyCounts(at) \cup {p}) /\ Cardinality(DynastyCounts(at) \cup {p}) \in Nat
    BY <2>3, <2>4, UnionCount DEF Fits
  <2>6. RowCounts(kind) = 0
    BY <1>1 DEF RowCounts
  <2>7. {p} \in SUBSET Selectable /\ Named({p})
    BY <2>1, FieldNamed
  <2>8. DynastyCounts(at) \in SUBSET Selectable /\ Named(DynastyCounts(at))
    BY <2>3 DEF Fits
  <2>9. DynastyCounts(at) \cup {p} \in SUBSET Selectable /\ Named(DynastyCounts(at) \cup {p})
    BY <2>7, <2>8 DEF Named
  <2>10. QED  BY <2>2, <2>5, <2>6, <2>9 DEF Fits
<1>2. CASE kind = "dynasties"
  <2> DEFINE p == <<"[]", "poemCount">>
             q == <<"[]", "authorCount">>
  <2>1. p \in Selectable /\ Len(p) > 0 /\ p[Len(p)] = "poemCount" /\ q \in Selectable /\ Len(q) > 0 /\ q[Len(q)] = "authorCount"
    BY Two DEF Words, Names, PathSteps
  <2>2. Selection(kind) = {p, q}
    BY <1>2 DEF Selection, Item
  <2> HIDE DEF p, q
  <2>3. IsFiniteSet({p, q}) /\ Cardinality({p, q}) \in Nat
    BY PairCount, FS_CardinalityType
  <2>4. RowCounts(kind) = 0
    BY <1>2 DEF RowCounts
  <2>5. {p, q} \in SUBSET Selectable /\ Named({p, q})
    <3>1. {p} \in SUBSET Selectable /\ Named({p}) /\ {q} \in SUBSET Selectable /\ Named({q})
      BY <2>1, FieldNamed
    <3>2. QED  BY <3>1 DEF Named
  <2>6. QED  BY <2>2, <2>3, <2>4, <2>5 DEF Fits
<1>3. CASE kind = "poemTypes"
  <2> DEFINE p == <<"[]", "poemCount">>
  <2>1. p \in Selectable /\ Len(p) > 0 /\ p[Len(p)] = "poemCount"
    BY Two DEF Words, Names, PathSteps
  <2>2. Selection(kind) = {p}
    BY <1>3 DEF Selection, Item
  <2> HIDE DEF p
  <2>3. IsFiniteSet({p}) /\ Cardinality({p}) \in Nat
    BY PairCount, FS_CardinalityType
  <2>4. RowCounts(kind) = 0
    BY <1>3 DEF RowCounts
  <2>5. {p} \in SUBSET Selectable /\ Named({p})
    BY <2>1, FieldNamed
  <2>6. QED  BY <2>2, <2>3, <2>4, <2>5 DEF Fits
<1>4. CASE kind \in {"author", "authors"}
  <2>1. \E at \in Selectable : Selection(kind) = AuthorCounts(at)
    BY <1>4, PlacesSelectable DEF Selection
  <2>2. RowCounts(kind) = 3
    BY <1>4 DEF RowCounts
  <2>3. QED  BY <2>1, <2>2, AuthorCountsFit
<1>5. CASE kind \in {"poem", "poems", "author.poems"}
  <2>1. \E at \in Selectable : Selection(kind) = PoemCounts(at)
    BY <1>5, PlacesSelectable DEF Selection
  <2>2. RowCounts(kind) = 6
    BY <1>5 DEF RowCounts
  <2>3. QED  BY <2>1, <2>2, PoemCountsFit
<1>6. QED  BY <1>1, <1>2, <1>3, <1>4, <1>5 DEF Kinds

\* What is selected below a field costs at least the counts of one row.
LEMMA SelectedCost ==
  ASSUME NEW o \in Operations, NEW f \in o
  PROVE  /\ UnpricedCost(Selected(o, f)) \in Nat
         /\ Fields[f].deep => UnpricedCost(Selected(o, f)) >= RowCounts(Fields[f].kind)
<1> DEFINE kind == Fields[f].kind
           deeper == IF Fields[f].deep THEN Selection(kind) ELSE {}
           rest == IF NestedIn(o, f) # {} THEN {AuthorPlace(f)} ELSE IF Fields[f].deep THEN {} ELSE {<<"id">>}
<1>1. kind \in Kinds
  BY GraphCountsAssumption
<1>2. PICK n \in Nat : Fits(Selection(kind), n) /\ n >= RowCounts(kind)
  BY <1>1, SelectionFits
<1>3. Selected(o, f) = deeper \cup rest
  BY DEF Selected
<1>4. deeper \in SUBSET Selectable /\ IsFiniteSet(deeper) /\ Named(deeper)
  BY <1>2, FS_EmptySet DEF Fits, Named
<1>5. rest \in SUBSET Selectable /\ IsFiniteSet(rest)
  <2>1. <<"id">> \in Selectable
    BY One, SelectedWords
  <2>2. IsFiniteSet({AuthorPlace(f)}) /\ IsFiniteSet({<<"id">>})
    BY PairCount
  <2>3. QED  BY <2>1, <2>2, PlacesSelectable, FS_EmptySet
<1>6. Fields[f].deep => Cardinality(deeper) = n
  BY <1>2 DEF Fits
<1> HIDE DEF deeper, rest
<1>7. deeper \cup rest \in SUBSET Selectable /\ IsFiniteSet(deeper \cup rest) /\ deeper \in SUBSET (deeper \cup rest)
  BY <1>4, <1>5, FS_Union
<1>8. UnpricedCost(deeper \cup rest) \in Nat /\ Cardinality(deeper) \in Nat /\ Cardinality(deeper) <= UnpricedCost(deeper \cup rest)
  BY <1>4, <1>7, UnpricedAtLeast DEF Named
<1>9. RowCounts(kind) \in Nat
  BY DEF RowCounts
<1>10. QED  BY <1>2, <1>3, <1>6, <1>8, <1>9

\* Prices are natural numbers.
LEMMA PageCostType ==
  ASSUME NEW size \in Int, NEW child \in Nat
  PROVE  PageCost(size, child) \in Nat
<1> DEFINE rows == IF size < 1 THEN 1 ELSE IF size > MaxPageSize THEN MaxPageSize ELSE size
<1>1. rows \in Nat
  BY GraphCountsAssumption
<1>2. PageCost(size, child) = 1 + child * rows
  BY DEF PageCost
<1> HIDE DEF rows
<1>3. child * rows \in Nat
  BY <1>1
<1>4. QED  BY <1>2, <1>3

LEMMA FieldCostType ==
  ASSUME NEW f \in DOMAIN Fields, NEW child \in Nat
  PROVE  FieldCost(f, child) \in Nat
<1>1. Fields[f].size \in Int
  BY GraphCountsAssumption
<1>2. PageCost(Fields[f].size, child) \in Nat
  BY <1>1, PageCostType
<1>3. QED  BY <1>2, ResponseAssumption DEF FieldCost, AuthorPoemsCost, QueryCost

\* The dearest instance under an alias.
DearestUnder(o, f, a) == Max({Cost(o)[g] : g \in Under(o, f, a)})

\* It is no cheaper than any other.
LEMMA DearestOf ==
  ASSUME NEW o \in Operations, NEW f \in o, NEW a \in Aliases(o, f), \A g \in NestedIn(o, f) : Cost(o)[g] \in Nat
  PROVE  /\ IsFiniteSet(Under(o, f, a)) /\ Under(o, f, a) \subseteq NestedIn(o, f)
         /\ DearestUnder(o, f, a) \in Nat /\ \A g \in Under(o, f, a) : Cost(o)[g] <= DearestUnder(o, f, a)
<1> DEFINE N == Under(o, f, a)
           costs == {Cost(o)[g] : g \in N}
           price == [g \in N |-> Cost(o)[g]]
<1>1. IsFiniteSet(N) /\ N \subseteq NestedIn(o, f) /\ N # {}
  <2>1. N \in SUBSET o /\ N \subseteq NestedIn(o, f)
    BY DEF NestedIn, Under
  <2>2. N # {}
    BY DEF Aliases, Under
  <2>3. QED  BY <2>1, <2>2, ResponseAssumption, FS_Subset
<1>2. price \in Surjection(N, costs)
  BY DEF Surjection
<1>3. IsFiniteSet(costs)
  BY <1>1, <1>2, FS_Surjection
<1>4. costs \subseteq Nat /\ costs # {}
  BY <1>1
<1>5. Max(costs) \in costs /\ \A x \in costs : x <= Max(costs)
  BY ONLY <1>3, <1>4, LargestNumber
<1>6. DearestUnder(o, f, a) = Max(costs)
  BY DEF DearestUnder
<1>7. QED  BY <1>1, <1>4, <1>5, <1>6

\* What is nested below a field, alias by alias: the price of an alias is asked for once,
\* and there is an instance of it for each row at most.
LEMMA NestedPaid ==
  ASSUME NEW o \in Operations, NEW f \in o, \A g \in NestedIn(o, f) : Cost(o)[g] \in Nat
  PROVE  LET below == SumFunctionOnSet(Cost(o), NestedIn(o, f))
         IN  /\ NestedCost(o, f, Cost(o)) \in Nat /\ below \in Nat
             /\ below <= Cardinality(Fields[f].rows) * NestedCost(o, f, Cost(o))
<1> DEFINE A == Aliases(o, f)
           R == Cardinality(Fields[f].rows)
           dearest == [a \in A |-> DearestUnder(o, f, a)]
           rows == [a \in A |-> R * DearestUnder(o, f, a)]
           part == [a \in A |-> Under(o, f, a)]
           sums == [a \in A |-> SumFunctionOnSet(Cost(o), Under(o, f, a))]
<1>1. IsFiniteSet(NestedIn(o, f)) /\ IsFiniteSet(A)
  <2>1. NestedIn(o, f) \subseteq o /\ IsFiniteSet(o)
    BY ResponseAssumption DEF NestedIn
  <2>2. IsFiniteSet(NestedIn(o, f))
    BY <2>1, FS_Subset
  <2> DEFINE name == [g \in NestedIn(o, f) |-> Fields[g].alias]
  <2>3. name \in Surjection(NestedIn(o, f), A)
    BY DEF Aliases, Surjection
  <2>4. QED  BY <2>2, <2>3, FS_Surjection
<1>2. R \in Nat
  BY GraphCountsAssumption, ResponseAssumption, FS_CardinalityType
<1>3. NestedCost(o, f, Cost(o)) = SumFunctionOnSet(dearest, A)
  <2>1. NestedCost(o, f, Cost(o)) = SumFunction(dearest)
    BY Zenon DEF NestedCost, DearestUnder
  <2>2. DOMAIN dearest = A
    OBVIOUS
  <2>3. QED  BY <2>1, <2>2, Zenon DEF SumFunction
<1>4. ASSUME NEW a \in A
      PROVE  /\ IsFiniteSet(part[a]) /\ sums[a] = SumFunctionOnSet(Cost(o), part[a]) /\ \A x \in part[a] : Cost(o)[x] \in Nat
             /\ dearest[a] \in Nat /\ rows[a] = R * dearest[a] /\ rows[a] \in Nat /\ sums[a] \in Nat /\ sums[a] <= rows[a]
  <2> DEFINE U == Under(o, f, a)
             d == DearestUnder(o, f, a)
             k == Cardinality(U)
  <2>1. IsFiniteSet(U) /\ d \in Nat /\ \A x \in U : Cost(o)[x] \in Nat /\ Cost(o)[x] <= d
    BY DearestOf
  <2>2. k \in Nat /\ k <= R
    <3>1. U = {g \in o : Fields[g].parent = f /\ Fields[g].alias = a}
      BY DEF Under, NestedIn, Parent
    <3>2. a \in {Fields[g].alias : g \in o}
      BY DEF Aliases, NestedIn
    <3>3. QED  BY <2>1, <3>1, <3>2, ResponseAssumption, FS_CardinalityType
  <2>3. part[a] = U /\ sums[a] = SumFunctionOnSet(Cost(o), U) /\ dearest[a] = d /\ rows[a] = R * d
    OBVIOUS
  <2> HIDE DEF part, sums, dearest, rows, U, d, R
  <2>4. SumFunctionOnSet(Cost(o), U) \in Nat /\ SumFunctionOnSet(Cost(o), U) <= k * d
    BY <2>1, SumType, SumBound
  <2> HIDE DEF k
  <2>5. k * d <= R * d /\ k * d \in Nat /\ R * d \in Nat
    BY <1>2, <2>1, <2>2, ProductGrows
  <2>6. QED  BY <2>1, <2>3, <2>4, <2>5
<1>5. UNION {part[a] : a \in A} = NestedIn(o, f)
  <2>1. \A g \in NestedIn(o, f) : Fields[g].alias \in A /\ g \in Under(o, f, Fields[g].alias)
    BY DEF Aliases, Under
  <2>2. \A a : Under(o, f, a) \subseteq NestedIn(o, f)
    BY DEF Under
  <2>3. \A a \in A : part[a] = Under(o, f, a)
    OBVIOUS
  <2> HIDE DEF A, part
  <2>4. QED  BY <2>1, <2>2, <2>3
<1>6. \A a, b \in A : a # b => part[a] \cap part[b] = {}
  BY DEF Under
<1> HIDE DEF A, R, dearest, rows, part, sums
<1>7. SumFunctionOnSet(Cost(o), NestedIn(o, f)) = SumFunctionOnSet(sums, A)
  <2>1. \A a \in A : IsFiniteSet(part[a]) /\ sums[a] = SumFunctionOnSet(Cost(o), part[a]) /\ \A x \in part[a] : Cost(o)[x] \in Nat
    BY <1>4
  <2>2. SumFunctionOnSet(Cost(o), UNION {part[a] : a \in A}) = SumFunctionOnSet(sums, A)
    BY <1>1, <1>6, <2>1, SumOfParts
  <2>3. QED  BY <1>5, <2>2
<1>8. SumFunctionOnSet(sums, A) <= SumFunctionOnSet(rows, A)
  BY <1>1, <1>4, SumMonotone
<1>9. SumFunctionOnSet(rows, A) = R * SumFunctionOnSet(dearest, A)
  BY <1>1, <1>2, <1>4, SumScaled
<1>10. SumFunctionOnSet(sums, A) \in Nat /\ SumFunctionOnSet(dearest, A) \in Nat
  BY <1>1, <1>4, SumType
<1>11. QED  BY <1>3, <1>7, <1>8, <1>9, <1>10 DEF R

\* Every field of an operation has a price, from those of what is nested below it.
LEMMA CostType ==
  ASSUME NEW o \in Operations
  PROVE  \A f \in o : /\ Cost(o)[f] \in Nat
                      /\ Cost(o)[f] = FieldCost(f, UnpricedCost(Selected(o, f)) + NestedCost(o, f, Cost(o)))
                      /\ \A g \in NestedIn(o, f) : Cost(o)[g] \in Nat
<1>1. \A f \in o : Cost(o)[f] = FieldCost(f, UnpricedCost(Selected(o, f)) + NestedCost(o, f, Cost(o)))
  BY CostIsPriced DEF Priced
<1>2. ASSUME NEW f \in o, \A g \in NestedIn(o, f) : Cost(o)[g] \in Nat PROVE Cost(o)[f] \in Nat
  <2>1. f \in DOMAIN Fields
    BY GraphCountsAssumption
  <2>2. UnpricedCost(Selected(o, f)) + NestedCost(o, f, Cost(o)) \in Nat
    <3>1. NestedCost(o, f, Cost(o)) \in Nat
      BY <1>2, NestedPaid
    <3>2. QED  BY <3>1, SelectedCost
  <2>3. QED  BY <1>1, <2>1, <2>2, FieldCostType
<1> DEFINE Bad == {f \in o : Cost(o)[f] \notin Nat}
<1>3. Bad = {}
  <2>1. SUFFICES ASSUME Bad # {} PROVE FALSE
    OBVIOUS
  <2>2. PICK f \in Bad : NestedIn(o, f) \cap Bad = {}
    <3>1. Bad \subseteq o
      OBVIOUS
    <3> HIDE DEF Bad
    <3>2. QED  BY <2>1, <3>1, ChildrenFirst
  <2>3. \A g \in NestedIn(o, f) : Cost(o)[g] \in Nat
    BY <2>2 DEF NestedIn
  <2>4. QED  BY <1>2, <2>2, <2>3
<1>4. \A f \in o : Cost(o)[f] \in Nat
  BY <1>3
<1>5. \A f \in o : \A g \in NestedIn(o, f) : Cost(o)[g] \in Nat
  BY <1>4 DEF NestedIn
<1>6. QED  BY <1>1, <1>4, <1>5

-----------------------------------------------------------------------------
(* The statements of one field are paid by its price and the prices of what  *)
(* is nested below it, but for the eight of a page.                          *)

\* The counts of a row: two of a dynasty, otherwise one.
LEMMA CountsOfRow ==
  ASSUME NEW l, NEW id, NEW at, NEW kind
  PROVE  /\ IsFiniteSet(CountsOf(l, kind, id, at))
         /\ Cardinality(CountsOf(l, kind, id, at)) \in Nat
         /\ Cardinality(CountsOf(l, kind, id, at)) <= IF kind = "dynasty" THEN 2 ELSE 1
<1> DEFINE ask(c) == [key |-> Key(l, kind, id), count |-> c, at |-> at]
<1>1. CountsOf(l, kind, id, at) = IF kind = "dynasty" THEN {ask("poems"), ask("authors")} ELSE {ask("poems")}
  BY DEF CountsOf
<1> HIDE DEF ask
<1>2. IsFiniteSet({ask("poems")}) /\ Cardinality({ask("poems")}) = 1
  BY PairCount
<1>3. IsFiniteSet({ask("poems"), ask("authors")}) /\ Cardinality({ask("poems"), ask("authors")}) \in {1, 2}
  BY PairCount
<1>4. QED  BY <1>1, <1>2, <1>3

\* An author row has three counts at most, a poem six.
LEMMA CountsOfAuthor ==
  ASSUME NEW l, NEW a, NEW at
  PROVE  LET C == CountsBelowAuthor(l, a, at)
         IN  IsFiniteSet(C) /\ Cardinality(C) \in Nat /\ Cardinality(C) <= 3
<1> DEFINE A == CountsOf(l, "author", a.id, at)
           D == CountsOf(l, "dynasty", a.dynasty, at \o <<"dynasty">>)
<1>1. IsFiniteSet(A) /\ Cardinality(A) \in Nat /\ Cardinality(A) <= 1
  BY CountsOfRow
<1>2. IsFiniteSet(D) /\ Cardinality(D) \in Nat /\ Cardinality(D) <= 2
  BY CountsOfRow
<1>3. CountsBelowAuthor(l, a, at) = A \cup D
  BY DEF CountsBelowAuthor
<1> HIDE DEF A, D
<1>4. QED  BY ONLY <1>1, <1>2, <1>3, UnionCount

LEMMA CountsOfPoem ==
  ASSUME NEW l, NEW p, NEW at
  PROVE  LET C == CountsBelowPoem(l, p, at)
         IN  IsFiniteSet(C) /\ Cardinality(C) \in Nat /\ Cardinality(C) <= 6
<1> DEFINE A == CountsBelowAuthor(l, AuthorOf(l, p.author), at \o <<"author">>)
           D == CountsOf(l, "dynasty", p.dynasty, at \o <<"dynasty">>)
           T == CountsOf(l, "type", p.type, at \o <<"type">>)
<1>1. IsFiniteSet(A) /\ Cardinality(A) \in Nat /\ Cardinality(A) <= 3
  BY CountsOfAuthor
<1>2. IsFiniteSet(D) /\ Cardinality(D) \in Nat /\ Cardinality(D) <= 2
  BY CountsOfRow
<1>3. IsFiniteSet(T) /\ Cardinality(T) \in Nat /\ Cardinality(T) <= 1
  BY CountsOfRow
<1>4. CountsBelowPoem(l, p, at) = (A \cup D) \cup T
  BY DEF CountsBelowPoem
<1> HIDE DEF A, D, T
<1>5. IsFiniteSet(A \cup D) /\ Cardinality(A \cup D) \in Nat /\ Cardinality(A \cup D) <= 5
  BY ONLY <1>1, <1>2, UnionCount
<1>6. QED  BY ONLY <1>3, <1>4, <1>5, UnionCount

\* A field is about no more rows than it declares: they have primary keys.
LEMMA RowsFit ==
  ASSUME NEW f \in DOMAIN Fields, NEW l \in Langs
  PROVE  IsFiniteSet(Rows(f, l)) /\ Cardinality(Rows(f, l)) \in Nat /\ Cardinality(Rows(f, l)) <= Cardinality(Fields[f].rows)
<1> DEFINE R == Rows(f, l)
           ids == [r \in R |-> r.id]
<1>1. \A r, s \in R : r.id = s.id => r = s
  BY ResponseAssumption DEF Rows
<1>2. \A r \in R : r.id \in Fields[f].rows
  BY DEF Rows
<1>3. ids \in [R -> Fields[f].rows]
  BY <1>2
<1> HIDE DEF R
<1>4. ids \in Injection(R, Fields[f].rows)
  BY <1>1, <1>3 DEF Injection, IsInjective
<1>5. IsFiniteSet(Fields[f].rows)
  BY ResponseAssumption
<1> HIDE DEF ids
<1>6. IsFiniteSet(R) /\ Cardinality(R) <= Cardinality(Fields[f].rows)
  BY <1>4, <1>5, FS_Injection
<1>7. QED  BY <1>6, FS_CardinalityType DEF R

\* The counts below a field that has rows.
LEMMA BelowCount ==
  ASSUME NEW f \in DOMAIN Fields, NEW l \in Langs,
         Fields[f].kind \in {"author", "authors", "poem", "poems", "author.poems"}
  PROVE  /\ IsFiniteSet(Below(f, l)) /\ Cardinality(Below(f, l)) \in Nat
         /\ Cardinality(Below(f, l)) <= Cardinality(Fields[f].rows) * RowCounts(Fields[f].kind)
<1> DEFINE R == Rows(f, l)
           k == RowCounts(Fields[f].kind)
<1>1. PICK G : Below(f, l) = UNION {G[r] : r \in R} /\ \A r \in R : IsFiniteSet(G[r]) /\ Cardinality(G[r]) <= k
  <2>1. CASE Fields[f].kind \in {"author", "authors"}
    <3>1. PICK at : Below(f, l) = UNION {CountsBelowAuthor(l, a, at) : a \in R}
      BY <2>1 DEF Below
    <3>2. k = 3
      BY <2>1 DEF RowCounts
    <3> DEFINE G == [a \in R |-> CountsBelowAuthor(l, a, at)]
    <3> HIDE DEF R, k
    <3>3. Below(f, l) = UNION {G[r] : r \in R}
      BY <3>1
    <3>4. \A r \in R : IsFiniteSet(G[r]) /\ Cardinality(G[r]) <= k
      BY <3>2, CountsOfAuthor
    <3> HIDE DEF G
    <3>5. QED  BY <3>3, <3>4
  <2>2. CASE Fields[f].kind \in {"poem", "poems", "author.poems"}
    <3>1. PICK at : Below(f, l) = UNION {CountsBelowPoem(l, p, at) : p \in R}
      BY <2>2 DEF Below
    <3>2. k = 6
      BY <2>2 DEF RowCounts
    <3> DEFINE G == [p \in R |-> CountsBelowPoem(l, p, at)]
    <3> HIDE DEF R, k
    <3>3. Below(f, l) = UNION {G[r] : r \in R}
      BY <3>1
    <3>4. \A r \in R : IsFiniteSet(G[r]) /\ Cardinality(G[r]) <= k
      BY <3>2, CountsOfPoem
    <3> HIDE DEF G
    <3>5. QED  BY <3>3, <3>4
  <2>3. QED  BY <2>1, <2>2
<1>2. k \in Nat /\ IsFiniteSet(R) /\ Cardinality(R) \in Nat /\ Cardinality(R) <= Cardinality(Fields[f].rows)
  BY RowsFit DEF RowCounts
<1>3. Cardinality(Fields[f].rows) \in Nat
  BY ResponseAssumption, FS_CardinalityType
<1> HIDE DEF R, k
<1>4. IsFiniteSet(Below(f, l)) /\ Cardinality(Below(f, l)) <= Cardinality(R) * k
  <2> DEFINE all == UNION {G[r] : r \in R}
  <2>1. IsFiniteSet(all) /\ Cardinality(all) <= Cardinality(R) * k
    BY ONLY <1>1, <1>2, UNIONCount
  <2>2. Below(f, l) = all
    BY <1>1
  <2> HIDE DEF all
  <2>3. QED  BY ONLY <2>1, <2>2
<1>5. Cardinality(R) * k <= Cardinality(Fields[f].rows) * k /\ Cardinality(R) * k \in Nat /\ Cardinality(Fields[f].rows) * k \in Nat
  BY <1>2, <1>3, ProductGrows
<1>6. Cardinality(Below(f, l)) \in Nat
  BY <1>4, FS_CardinalityType
<1>7. QED  BY <1>4, <1>5, <1>6 DEF k

\* A resolver makes eight statements at most: the five and three of a page of poems are
\* the most, and the seven of a random poem.
LEMMA FieldStatements ==
  ASSUME NEW f \in DOMAIN Fields, NEW l \in Langs
  PROVE  /\ FirstStatements(Fields[f].kind) \in 1 .. 7
         /\ FirstStatements(Fields[f].kind) + Len(Batches(f, l)) - 1 \in 1 .. 8
<1> DEFINE k == Fields[f].kind
           n == Len(Batches(f, l))
<1>1. /\ k = "statistics" => n = 2
      /\ k \in {"dynasties", "poemTypes"} => n = 1
      /\ k = "authors" => n = 2
      /\ k \in {"poems", "author.poems"} => n = 4
      /\ k \in {"poem", "author"} => n = 1
  BY DEF Batches, Statistics, AuthorPage, PoemPage
<1>2. k \in Kinds
  BY GraphCountsAssumption
<1> HIDE DEF n, k
<1>3. FirstStatements(k) \in 1 .. 7 /\ FirstStatements(k) + n - 1 \in 1 .. 8
  BY <1>1, <1>2 DEF FirstStatements, Kinds
<1>4. QED  BY <1>3 DEF n, k

\* What rows and nested fields cost each is covered by the rows that were priced.
LEMMA RowsAndBelow ==
  ASSUME NEW R \in Nat, NEW C \in Nat, NEW U \in Nat, NEW M \in Nat, NEW W \in Nat, R <= W, C <= U
  PROVE  R * C + R * M <= (U + M) * W /\ R * C \in Nat /\ R * M \in Nat /\ (U + M) * W \in Nat
<1>1. R * C <= W * C /\ W * C <= W * U /\ R * C \in Nat /\ W * C \in Nat /\ W * U \in Nat
  BY ProductGrows
<1>2. R * M <= W * M /\ R * M \in Nat /\ W * M \in Nat
  BY ProductGrows
<1>3. \A x, y, z \in Nat : (x + y) * z = z * x + z * y
  OBVIOUS
<1>4. (U + M) * W = W * U + W * M
  BY <1>3
<1>5. QED  BY <1>1, <1>2, <1>4

\* How many counts a row asks for.
RowAsks(f) == IF Fields[f].deep THEN RowCounts(Fields[f].kind) ELSE 0

\* A field has at most as many rows as its page.
LEMMA RowsOf ==
  ASSUME NEW o \in Operations, NEW f \in o
  PROVE  LET R == Cardinality(Fields[f].rows) IN R \in Nat /\ R <= RowLimit(f)
<1>1. f \in DOMAIN Fields
  BY GraphCountsAssumption
<1>2. QED  BY <1>1, ResponseAssumption, FS_CardinalityType

\* The price of a field pays for its statements, those of the counts of its rows, and
\* the prices of the fields nested below it: a page is priced at its rows times what
\* is selected below, and the charge for a nested page covers the page itself.
LEMMA FieldPays ==
  ASSUME NEW o \in Operations, NEW f \in o, NEW own \in Nat,
         own <= 8 + Cardinality(Fields[f].rows) * RowAsks(f)
  PROVE  own + SumFunctionOnSet(Cost(o), NestedIn(o, f)) <= Cost(o)[f] + (IF Nested(f) THEN 0 ELSE 8)
<1> DEFINE R == Cardinality(Fields[f].rows)
           C == RowAsks(f)
           U == UnpricedCost(Selected(o, f))
           M == NestedCost(o, f, Cost(o))
           below == SumFunctionOnSet(Cost(o), NestedIn(o, f))
           size == Fields[f].size
           clamp == IF size < 1 THEN 1 ELSE IF size > MaxPageSize THEN MaxPageSize ELSE size
           W == IF Fields[f].kind \in Paged THEN clamp ELSE 1
<1>1. f \in DOMAIN Fields /\ Fields[f].kind \in Kinds /\ size \in Int /\ MaxPageSize \in Nat
  BY GraphCountsAssumption
<1>2. R \in Nat /\ R <= RowLimit(f)
  BY RowsOf
<1>3. U \in Nat /\ C \in Nat /\ C <= U
  BY SelectedCost DEF RowAsks, RowCounts
<1>4. M \in Nat /\ Cost(o)[f] = FieldCost(f, U + M)
  BY CostType, NestedPaid
<1>5. below \in Nat /\ below <= R * M
  BY CostType, NestedPaid
<1>6. R <= W /\ W \in Nat
  BY <1>1, <1>2 DEF RowLimit, Paged
<1>7. Cost(o)[f] = 1 + (U + M) * W + (IF Nested(f) THEN NestedAuthorPoemsIOCost ELSE 0)
  <2>1. Nested(f) <=> Fields[f].kind = "author.poems"
    BY <1>1, GraphCountsAssumption DEF Nested, Parent
  <2>2. Nested(f) => Fields[f].kind \in Paged
    BY <2>1 DEF Paged
  <2>3. U + M \in Nat
    BY <1>3, <1>4
  <2>4. \A child \in Nat : PageCost(size, child) = 1 + child * clamp /\ child * clamp \in Nat /\ child * 1 = child
    BY <1>1 DEF PageCost
  <2> DEFINE child == U + M
  <2>5. FieldCost(f, child) = IF Nested(f) THEN NestedAuthorPoemsIOCost + PageCost(size, child)
                              ELSE IF Fields[f].kind \in Paged THEN PageCost(size, child) ELSE 1 + child
    BY DEF FieldCost, AuthorPoemsCost, QueryCost
  <2>6. NestedAuthorPoemsIOCost \in Nat
    BY ResponseAssumption
  <2> HIDE DEF child, clamp
  <2>7. child \in Nat /\ PageCost(size, child) = 1 + child * clamp /\ child * clamp \in Nat /\ child * 1 = child
    BY <2>3, <2>4 DEF child
  <2>8. FieldCost(f, child) = 1 + child * W + (IF Nested(f) THEN NestedAuthorPoemsIOCost ELSE 0)
    <3>1. CASE Nested(f)
      BY <2>2, <2>5, <2>6, <2>7, <3>1
    <3>2. CASE ~ Nested(f) /\ Fields[f].kind \in Paged
      BY <2>5, <2>7, <3>2
    <3>3. CASE ~ Nested(f) /\ Fields[f].kind \notin Paged
      BY <2>5, <2>7, <3>3
    <3>4. QED  BY <3>1, <3>2, <3>3
  <2>9. QED  BY <1>4, <2>8 DEF child
<1> HIDE DEF R, C, U, M, W, below
<1>8. R * C + R * M <= (U + M) * W /\ R * C \in Nat /\ R * M \in Nat /\ (U + M) * W \in Nat
  BY <1>2, <1>3, <1>4, <1>6, RowsAndBelow
<1>9. own <= 8 + R * C
  BY DEF R, C
<1>10. NestedAuthorPoemsIOCost \in Nat /\ NestedAuthorPoemsIOCost >= 7
  BY ResponseAssumption
<1>11. own + below <= Cost(o)[f] + (IF Nested(f) THEN 0 ELSE 8)
  <2> DEFINE rc == R * C
             nm == R * M
             uw == (U + M) * W
  <2>1. rc + nm <= uw /\ rc \in Nat /\ nm \in Nat /\ uw \in Nat
    BY <1>8
  <2>2. own <= 8 + rc /\ below <= nm /\ below \in Nat /\ Cost(o)[f] = 1 + uw + (IF Nested(f) THEN NestedAuthorPoemsIOCost ELSE 0)
    BY <1>5, <1>7, <1>9
  <2> HIDE DEF rc, nm, uw
  <2>3. QED  BY <1>10, <2>1, <2>2
<1>12. QED  BY <1>11 DEF below

\* No field is its own root: the first of all fields of an operation has none above it.
LEMMA NoFieldIsRoot ==
  ASSUME NEW o \in Operations
  PROVE  "root" \notin o
<1>1. SUFFICES ASSUME "root" \in o PROVE FALSE
  OBVIOUS
<1>2. o # {} /\ \A f \in o : Fields[f].parent \in o
  BY <1>1, GraphCountsAssumption
<1>3. \E f \in o : Fields[f].parent \notin o
  BY <1>2, GraphCountsAssumption
<1>4. QED  BY <1>2, <1>3

\* The fields that have no other above them.
RootsOf(o) == {f \in o : ~ Nested(f)}

\* So the fields of an operation are paid by the prices of its roots: every other
\* price is paid by the field above, once.
LEMMA OperationPays ==
  ASSUME NEW o \in Operations, NEW own,
         \A f \in o : own[f] \in Nat /\ own[f] <= 8 + Cardinality(Fields[f].rows) * RowAsks(f)
  PROVE  SumFunctionOnSet(own, o) <= SumFunctionOnSet(Cost(o), RootsOf(o)) + 8 * Cardinality(RootsOf(o))
<1> DEFINE nested == {f \in o : Nested(f)}
           part == [f \in o |-> NestedIn(o, f)]
           kids == [f \in o |-> SumFunctionOnSet(Cost(o), NestedIn(o, f))]
           spare == [f \in o |-> IF Nested(f) THEN 0 ELSE 8]
           all == [f \in o |-> own[f] + kids[f]]
           paid == [f \in o |-> Cost(o)[f] + spare[f]]
           Sum(h, s) == SumFunctionOnSet(h, s)
<1>1. IsFiniteSet(o) /\ IsFiniteSet(RootsOf(o)) /\ IsFiniteSet(nested)
  <2>1. IsFiniteSet(o) /\ RootsOf(o) \subseteq o /\ nested \subseteq o
    BY ResponseAssumption DEF RootsOf
  <2>2. QED  BY <2>1, FS_Subset
<1>2. o = RootsOf(o) \cup nested /\ RootsOf(o) \cap nested = {}
  BY DEF RootsOf
<1>3. \A f \in o : Cost(o)[f] \in Nat
  BY CostType
<1>4. \A f \in o : IsFiniteSet(NestedIn(o, f)) /\ NestedIn(o, f) \subseteq o /\ kids[f] \in Nat
  <2>1. \A f \in o : IsFiniteSet(NestedIn(o, f)) /\ NestedIn(o, f) \subseteq o
    BY <1>1, FS_Subset DEF NestedIn
  <2>2. QED  BY <1>3, <2>1, SumType
<1>5. Sum(kids, o) = Sum(Cost(o), nested)
  <2>1. UNION {part[f] : f \in o} = nested
    <3>1. \A g \in o : Nested(g) => Parent(g) \in o
      BY GraphCountsAssumption DEF Nested, Parent
    <3>2. "root" \notin o
      BY NoFieldIsRoot
    <3>3. QED  BY <3>1, <3>2 DEF NestedIn, Nested
  <2>2. \A f \in o : IsFiniteSet(part[f]) /\ kids[f] = Sum(Cost(o), part[f]) /\ \A x \in part[f] : Cost(o)[x] \in Nat
    BY <1>3, <1>4
  <2>3. \A f, g \in o : f # g => part[f] \cap part[g] = {}
    BY DEF NestedIn
  <2> HIDE DEF part, kids
  <2>4. Sum(Cost(o), UNION {part[f] : f \in o}) = Sum(kids, o)
    BY <1>1, <2>2, <2>3, SumOfParts
  <2>5. QED  BY <2>1, <2>4
<1>6. \A f \in o : all[f] \in Nat /\ paid[f] \in Nat /\ all[f] <= paid[f] /\ spare[f] \in Nat
  BY <1>3, <1>4, FieldPays
<1> HIDE DEF kids
<1>7. Sum(all, o) <= Sum(paid, o)
  <2> HIDE DEF all, paid
  <2>1. QED  BY <1>1, <1>6, SumMonotone
<1>8. Sum(all, o) = Sum(own, o) + Sum(kids, o)
  <2>1. \A f \in o : own[f] \in Nat /\ kids[f] \in Nat /\ all[f] = own[f] + kids[f]
    BY <1>4
  <2> HIDE DEF all
  <2>2. QED  BY <1>1, <2>1, SumPlus
<1>9. Sum(paid, o) = Sum(Cost(o), o) + Sum(spare, o)
  <2>1. \A f \in o : Cost(o)[f] \in Nat /\ spare[f] \in Nat /\ paid[f] = Cost(o)[f] + spare[f]
    BY <1>3, <1>6
  <2> HIDE DEF paid, spare
  <2>2. QED  BY <1>1, <2>1, SumPlus
<1>10. Sum(Cost(o), o) = Sum(Cost(o), RootsOf(o)) + Sum(Cost(o), nested)
  <2>1. \A f \in RootsOf(o) \cup nested : Cost(o)[f] \in Nat
    BY <1>2, <1>3
  <2>2. Sum(Cost(o), RootsOf(o) \cup nested) = Sum(Cost(o), RootsOf(o)) + Sum(Cost(o), nested)
    BY <1>1, <1>2, <2>1, SumUnion
  <2>3. QED  BY <1>2, <2>2
<1>11. Sum(spare, o) <= 8 * Cardinality(RootsOf(o))
  <2>1. \A f \in RootsOf(o) : spare[f] \in Nat /\ spare[f] <= 8
    BY DEF RootsOf
  <2>2. \A f \in nested : spare[f] \in Nat /\ spare[f] <= 0
    OBVIOUS
  <2> HIDE DEF spare, nested
  <2>3. Sum(spare, RootsOf(o)) <= Cardinality(RootsOf(o)) * 8 /\ Sum(spare, nested) <= Cardinality(nested) * 0
    BY <1>1, <2>1, <2>2, SumBound
  <2>4. Sum(spare, RootsOf(o) \cup nested) = Sum(spare, RootsOf(o)) + Sum(spare, nested)
    <3>1. \A f \in RootsOf(o) \cup nested : spare[f] \in Nat
      BY <2>1, <2>2
    <3>2. QED  BY <1>1, <1>2, <3>1, SumUnion
  <2>5. Sum(spare, RootsOf(o)) \in Nat /\ Sum(spare, nested) \in Nat
    BY <1>1, <2>1, <2>2, SumType
  <2>6. Cardinality(nested) \in Nat /\ Cardinality(RootsOf(o)) \in Nat
    BY <1>1, FS_CardinalityType
  <2>7. Cardinality(nested) * 0 = 0 /\ Cardinality(RootsOf(o)) * 8 = 8 * Cardinality(RootsOf(o))
    BY <2>6
  <2>8. Sum(spare, o) = Sum(spare, RootsOf(o)) + Sum(spare, nested)
    BY <1>2, <2>4
  <2> HIDE DEF Sum
  <2>9. QED  BY <2>3, <2>5, <2>6, <2>7, <2>8
<1>12. /\ Sum(own, o) \in Nat /\ Sum(Cost(o), nested) \in Nat /\ Sum(Cost(o), RootsOf(o)) \in Nat /\ Sum(spare, o) \in Nat
  <2>1. \A f \in RootsOf(o) \cup nested : Cost(o)[f] \in Nat
    BY <1>2, <1>3
  <2>2. \A f \in o : spare[f] \in Nat
    OBVIOUS
  <2> HIDE DEF spare, nested
  <2>3. QED  BY <1>1, <2>1, <2>2, SumType
<1>13. 8 * Cardinality(RootsOf(o)) \in Nat
  BY <1>1, FS_CardinalityType
<1> HIDE DEF all, paid, spare, nested
<1>14. QED  BY <1>5, <1>7, <1>8, <1>9, <1>10, <1>11, <1>12, <1>13

-----------------------------------------------------------------------------
(* The work that was done.                                                   *)

\* A field that puts into the registry all that it lists.
Lists(f) == Fields[f].kind \in {"statistics", "dynasties", "poemTypes"}

BatchesOf(f) == Batches(f, Fields[f].lang)
BelowOf(f) == Reached(f, Fields[f].lang)
AskOf(b) == [key |-> b.key, count |-> b.count, at |-> b.at]

\* How far a resolver is: what failed left a query to be made.
Progress ==
  \A f \in operation :
    /\ queries[f] <= Len(BatchesOf(f))
    /\ status[f] = "failed" /\ PageFits(f) => queries[f] < Len(BatchesOf(f))
    /\ status[f] = "resolved" => queries[f] = Len(BatchesOf(f)) /\ writes[f] = {}

\* Only relations of rows that were read are passed over.
PassedOver ==
  /\ DOMAIN dropped = operation
  /\ \A f \in operation : dropped[f] \subseteq Relations(Fields[f].kind) /\ (dropped[f] # {} => queries[f] > 0)

\* What a query learned is on its way to the registry or there.
Stored ==
  \A f \in operation : \A i \in 1 .. queries[f] : \A e \in BatchesOf(f)[i] : e \in writes[f] \/ Known(e.key)

\* A count is asked for where the schema has it and the rows have what it is below,
\* when the field is resolved, and answered once.
Open == \A f \in operation : asks[f] \subseteq (IF status[f] = "resolved" THEN BelowOf(f) ELSE {})
Once ==
  /\ IsFiniteSet(answers)
  /\ \A b \in answers :
       /\ b.field \in operation /\ status[b.field] = "resolved"
       /\ AskOf(b) \in BelowOf(b.field) \ asks[b.field]
  /\ \A b, c \in answers : b.field = c.field /\ AskOf(b) = AskOf(c) => b = c

\* The counts that were asked for and not answered.
Missing(f) ==
  IF status[f] = "resolved"
  THEN {a \in BelowOf(f) \ asks[f] : ~ \E b \in answers : b.field = f /\ AskOf(b) = a}
  ELSE {}
Prefetched ==
  \A f \in operation : Lists(f) => Missing(f) = {} /\ ~ \E b \in answers : b.field = f /\ b.queried

\* Every fault is a field that failed, a count that is missing or a relation passed over.
Failure(f) == IF status[f] = "failed" /\ PageFits(f) THEN 1 ELSE 0
Owing == [f \in operation |-> (Failure(f) + Cardinality(dropped[f])) + Cardinality(Missing(f))]
Faulted == faults <= SumFunctionOnSet(Owing, operation)

WorkInv == Progress /\ PassedOver /\ Stored /\ Open /\ Once /\ Prefetched /\ Faulted

\* A count is asked for by its key, its kind and its place.
LEMMA BelowShape ==
  ASSUME NEW f \in DOMAIN Fields, NEW l \in Langs
  PROVE  \A a \in Reached(f, l) : a \in Below(f, l) /\ a = AskOf(a) /\ Fields[f].deep
  BY BelowTypes DEF CountFields, AskOf, Reached

\* What is reached below a field depends on its own relations only.
LEMMA ReachedStands ==
  ASSUME NEW f, dropped'[f] = dropped[f]
  PROVE  BelowOf(f)' = BelowOf(f)
  BY DEF BelowOf, Reached, BelowLost, LostPlaces

\* The relations of a row are fewer than the statements that read and load it.
LEMMA RelationsFit ==
  ASSUME NEW kind \in Kinds, NEW D, D \subseteq Relations(kind)
  PROVE  IsFiniteSet(D) /\ Cardinality(D) \in Nat /\ Cardinality(D) <= FirstStatements(kind) - 1
<1> DEFINE R == Relations(kind)
<1>1. IsFiniteSet(R) /\ Cardinality(R) \in Nat /\ Cardinality(R) <= FirstStatements(kind) - 1 /\ FirstStatements(kind) \in Nat
  <2>1. CASE kind \in {"poems", "author.poems"}
    <3> DEFINE a == {<<"author">>}
               b == {<<"author", "dynasty">>, <<"dynasty">>}
               c == {<<"type">>}
    <3>1. R = {a, b} \cup {c} /\ FirstStatements(kind) = 5
      BY <2>1 DEF Relations, FirstStatements
    <3> HIDE DEF a, b, c, R
    <3>2. /\ IsFiniteSet({a, b}) /\ Cardinality({a, b}) \in {1, 2}
          /\ IsFiniteSet({c}) /\ Cardinality({c}) = 1
      BY ONLY PairCount
    <3>3. /\ IsFiniteSet({a, b} \cup {c}) /\ Cardinality({a, b} \cup {c}) \in Nat
          /\ Cardinality({a, b} \cup {c}) <= Cardinality({a, b}) + Cardinality({c})
      BY ONLY <3>2, UnionCount
    <3>4. QED  BY ONLY <3>1, <3>2, <3>3
  <2>2. CASE kind = "poem"
    <3> DEFINE a == {<<"author">>}
               b == {<<"author", "dynasty">>}
               c == {<<"dynasty">>}
               d == {<<"type">>}
    <3>1. R = {a, b} \cup {c, d} /\ FirstStatements(kind) = 7
      BY <2>2 DEF Relations, FirstStatements
    <3> HIDE DEF a, b, c, d, R
    <3>2. /\ IsFiniteSet({a, b}) /\ Cardinality({a, b}) \in {1, 2}
          /\ IsFiniteSet({c, d}) /\ Cardinality({c, d}) \in {1, 2}
      BY ONLY PairCount
    <3>3. /\ IsFiniteSet({a, b} \cup {c, d}) /\ Cardinality({a, b} \cup {c, d}) \in Nat
          /\ Cardinality({a, b} \cup {c, d}) <= Cardinality({a, b}) + Cardinality({c, d})
      BY ONLY <3>2, UnionCount
    <3> DEFINE all == {a, b} \cup {c, d}
    <3>4. IsFiniteSet(all) /\ Cardinality(all) \in Nat /\ Cardinality(all) <= 4
      BY ONLY <3>2, <3>3
    <3>5. R = all
      BY <3>1
    <3> HIDE DEF all
    <3>6. QED  BY ONLY <3>1, <3>4, <3>5
  <2>3. CASE kind = "author"
    <3> DEFINE a == {<<"dynasty">>}
    <3>1. R = {a} /\ FirstStatements(kind) = 2
      BY <2>3 DEF Relations, FirstStatements
    <3> HIDE DEF a, R
    <3>2. IsFiniteSet({a}) /\ Cardinality({a}) = 1
      BY ONLY PairCount
    <3>3. QED  BY <3>1, <3>2
  <2>4. CASE kind \in {"statistics", "dynasties", "poemTypes", "authors"}
    <3>1. R = {} /\ FirstStatements(kind) \in {1, 3, 5}
      BY <2>4 DEF Relations, FirstStatements
    <3>2. QED  BY <3>1, FS_EmptySet
  <2>5. QED  BY <2>1, <2>2, <2>3, <2>4 DEF Kinds
<1>2. IsFiniteSet(D) /\ Cardinality(D) <= Cardinality(R) /\ Cardinality(D) \in Nat
  BY <1>1, FS_Subset, FS_CardinalityType
<1> HIDE DEF R
<1>3. QED  BY <1>1, <1>2

\* What can be asked below a field that lists is about what it lists.
LEMMA ListedBelow ==
  ASSUME NEW f \in DOMAIN Fields, NEW l \in Langs, Lists(f), NEW a \in Below(f, l)
  PROVE  \E i \in 1 .. Len(Batches(f, l)) : \E e \in Batches(f, l)[i] : e.key = a.key
<1> DEFINE entries == UNION {Batches(f, l)[i] : i \in DOMAIN Batches(f, l)}
<1>1. PICK e \in entries : a.key = Key(l, e.key.kind, e.key.id)
  <2>1. \A kind, id, at : \A x \in CountsOf(l, kind, id, at) : x.key = Key(l, kind, id)
    BY DEF CountsOf
  <2>2. \E at : \E e \in entries : a \in CountsOf(l, e.key.kind, e.key.id, at)
    <3>1. CASE Fields[f].kind = "statistics"
      <4>1. Below(f, l) = UNION {CountsOf(l, e.key.kind, e.key.id, StatisticsPlace(e.key.kind)) : e \in entries}
        BY <3>1 DEF Below
      <4>2. QED  BY <4>1
    <3>2. CASE Fields[f].kind \in {"dynasties", "poemTypes"}
      <4>1. Below(f, l) = UNION {CountsOf(l, e.key.kind, e.key.id, <<"[]">>) : e \in entries}
        BY <3>2 DEF Below
      <4>2. QED  BY <4>1
    <3>3. QED  BY <3>1, <3>2 DEF Lists
  <2> HIDE DEF entries
  <2>3. QED  BY <2>1, <2>2
<1>2. PICK i \in 1 .. Len(Batches(f, l)) : e \in Batches(f, l)[i]
  BY BatchTypes
<1>3. e.key.lang = l /\ WellKeyed(e.key)
  BY <1>2, BatchIsRight
<1>4. e.key = a.key
  BY <1>1, <1>3 DEF WellKeyed
<1>5. QED  BY <1>2, <1>4

\* Below a field that lists and is resolved, every count is in the registry.
LEMMA ListedKnown ==
  ASSUME Inv, Progress, Stored, NEW f \in operation, Lists(f), status[f] = "resolved", NEW a \in BelowOf(f)
  PROVE  Known(a.key)
<1>1. f \in DOMAIN Fields /\ Fields[f].lang \in Langs
  BY LanguageIsAsked DEF Inv
<1>2. PICK i \in 1 .. Len(BatchesOf(f)) : \E e \in BatchesOf(f)[i] : e.key = a.key
  BY <1>1, BelowShape, ListedBelow DEF BelowOf, BatchesOf
<1>3. i \in 1 .. queries[f] /\ writes[f] = {}
  BY <1>2 DEF Progress
<1>4. QED  BY <1>2, <1>3 DEF Stored

\* A count is missing below finitely many rows, or none is.
LEMMA OwingType ==
  ASSUME Inv, PassedOver, Open, Once, Prefetched, NEW f \in operation
  PROVE  /\ IsFiniteSet(Missing(f)) /\ Cardinality(Missing(f)) \in Nat /\ Failure(f) \in {0, 1}
         /\ IsFiniteSet(dropped[f]) /\ Cardinality(dropped[f]) \in Nat
         /\ Cardinality(dropped[f]) <= FirstStatements(Fields[f].kind) - 1
         /\ Owing[f] = (Failure(f) + Cardinality(dropped[f])) + Cardinality(Missing(f)) /\ Owing[f] \in Nat
<1>1. f \in DOMAIN Fields /\ Fields[f].lang \in Langs /\ Fields[f].kind \in Kinds
  BY LanguageIsAsked, GraphCountsAssumption DEF Inv
<1>2. IsFiniteSet(Missing(f))
  <2>1. CASE Lists(f)
    BY <2>1, FS_EmptySet DEF Prefetched
  <2>2. CASE ~ Lists(f)
    <3>1. IsFiniteSet(Below(f, Fields[f].lang))
      BY <1>1, <2>2, BelowCount DEF Kinds, Lists
    <3>2. Missing(f) \subseteq Below(f, Fields[f].lang)
      BY DEF Missing, BelowOf, Reached
    <3>3. QED  BY <3>1, <3>2, FS_Subset
  <2>3. QED  BY <2>1, <2>2
<1>3. Cardinality(Missing(f)) \in Nat /\ Failure(f) \in {0, 1}
  BY <1>2, FS_CardinalityType DEF Failure
<1>4. Owing[f] = (Failure(f) + Cardinality(dropped[f])) + Cardinality(Missing(f))
  BY DEF Owing
<1>5. /\ IsFiniteSet(dropped[f]) /\ Cardinality(dropped[f]) \in Nat
      /\ Cardinality(dropped[f]) <= FirstStatements(Fields[f].kind) - 1
  BY <1>1, RelationsFit DEF PassedOver
<1>6. QED  BY <1>2, <1>3, <1>4, <1>5

\* An operation that has not begun.
LEMMA WorkInit == ASSUME Init PROVE WorkInv
<1>1. operation \in Operations /\ \A f \in operation : f \in DOMAIN Fields /\ Fields[f].lang \in Langs
  BY GraphCountsAssumption DEF Init
<1>2. \A f \in operation : status[f] = "waiting" /\ queries[f] = 0 /\ asks[f] = {} /\ writes[f] = {} /\ dropped[f] = {}
  BY DEF Init
<1>3. answers = {} /\ faults = 0
  BY DEF Init
<1>4. Progress
  <2>1. \A f \in operation : Len(BatchesOf(f)) \in Nat
    BY <1>1, BatchIsRight DEF BatchesOf
  <2>2. QED  BY <1>2, <2>1 DEF Progress
<1>5. Stored
  BY <1>2 DEF Stored
<1>6. Open /\ Once
  BY <1>2, <1>3, FS_EmptySet DEF Open, Once
<1>7. \A f \in operation : Missing(f) = {}
  BY <1>2 DEF Missing
<1>8. Prefetched
  BY <1>3, <1>7 DEF Prefetched
<1>9. Faulted
  <2>1. \A f \in operation : Owing[f] = 0
    BY <1>2, <1>7, FS_EmptySet DEF Owing, Failure
  <2>2. IsFiniteSet(operation)
    BY <1>1, ResponseAssumption
  <2>3. SumFunctionOnSet(Owing, operation) \in Nat
    BY <2>1, <2>2, SumType
  <2>4. QED  BY <1>3, <2>3 DEF Faulted
<1>10. PassedOver
  BY <1>2 DEF PassedOver, Init
<1>11. QED  BY <1>4, <1>5, <1>6, <1>8, <1>9, <1>10 DEF WorkInv

\* What the invariant of the counts says of a field that runs.
LEMMA Declared ==
  ASSUME Inv, NEW f \in operation
  PROVE  /\ f \in DOMAIN Fields /\ Fields[f].lang \in Langs
         /\ operation \in Operations /\ IsFiniteSet(operation)
         /\ Started(f) => Language(f) = Fields[f].lang /\ Batches(f, Language(f)) = BatchesOf(f)
         /\ Len(BatchesOf(f)) \in Nat \ {0} /\ queries[f] \in Nat
         /\ f \in DOMAIN paths => paths[f] = Fields[f].lang
<1>1. f \in DOMAIN Fields /\ Fields[f].lang \in Langs /\ (Started(f) => Language(f) = Fields[f].lang)
        /\ (f \in DOMAIN paths => paths[f] = Fields[f].lang)
  BY LanguageIsAsked DEF Inv
<1>2. operation \in Operations /\ IsFiniteSet(operation) /\ queries[f] \in Nat
  BY ResponseAssumption DEF Inv, Shapes
<1>3. Len(BatchesOf(f)) \in Nat \ {0}
  BY <1>1, BatchIsRight DEF BatchesOf
<1>4. QED  BY <1>1, <1>2, <1>3 DEF BatchesOf

\* What is answered stays as it is while nothing returns or answers.
LEMMA AnswersStand ==
  ASSUME WorkInv, operation' = operation, asks' = asks, answers' = answers,
         \A g \in operation : status'[g] = "resolved" <=> status[g] = "resolved",
         \A g \in operation : status[g] = "resolved" => dropped'[g] = dropped[g]
  PROVE  Open' /\ Once' /\ Prefetched' /\ \A g \in operation : Missing(g)' = Missing(g)
<1> USE DEF WorkInv
<1>0. \A g \in operation : status[g] = "resolved" => BelowOf(g)' = BelowOf(g)
  BY ReachedStands
<1>1. Open'
  BY <1>0 DEF Open
<1>2. Once'
  BY <1>0 DEF Once, AskOf
<1>3. \A g \in operation : Missing(g)' = Missing(g)
  BY <1>0 DEF Missing, AskOf
<1>4. Prefetched'
  BY <1>3 DEF Prefetched, Lists
<1>5. QED  BY <1>1, <1>2, <1>3, <1>4

\* No fault and nothing missing anew.
LEMMA FaultsStand ==
  ASSUME Inv, WorkInv, operation' = operation, faults' = faults,
         \A g \in operation : Failure(g)' = Failure(g) /\ Missing(g)' = Missing(g) /\ dropped'[g] = dropped[g]
  PROVE  Faulted'
<1>1. \A g \in operation : Owing[g] \in Nat /\ Owing'[g] = Owing[g]
  BY OwingType DEF Owing, WorkInv
<1>2. operation \in Operations
  BY DEF Inv, Shapes
<1>3. IsFiniteSet(operation)
  BY <1>2, ResponseAssumption
<1>4. SumFunctionOnSet(Owing, operation) = SumFunctionOnSet(Owing', operation)
  BY <1>1, <1>3, SumSame
<1>5. QED  BY <1>4 DEF Faulted, WorkInv

\* One field more that owes one more.
LEMMA FaultsGrow ==
  ASSUME Inv, WorkInv, operation' = operation, faults' = faults + 1, faults \in Nat,
         NEW f \in operation, Owing'[f] = Owing[f] + 1,
         \A g \in operation \ {f} : Owing'[g] = Owing[g]
  PROVE  Faulted'
<1>1. \A g \in operation : Owing[g] \in Nat /\ Owing'[g] \in Nat /\ Owing[g] <= Owing'[g]
  <2>1. \A g \in operation : Owing[g] \in Nat
    BY OwingType DEF WorkInv
  <2>2. QED  BY <2>1
<1>2. operation \in Operations
  BY DEF Inv, Shapes
<1>3. IsFiniteSet(operation)
  BY <1>2, ResponseAssumption
<1>4. SumFunctionOnSet(Owing, operation) + 1 <= SumFunctionOnSet(Owing', operation)
  BY <1>1, <1>3, SumGrows
<1>5. SumFunctionOnSet(Owing, operation) \in Nat /\ SumFunctionOnSet(Owing', operation) \in Nat
  BY <1>1, <1>3, SumType
<1>6. QED  BY <1>4, <1>5 DEF Faulted, WorkInv

\* A query brings its batch on its way.
LEMMA QueryWork ==
  ASSUME Inv, WorkInv, NEW f \in operation, Query(f)
  PROVE  WorkInv'
<1>1. /\ operation' = operation /\ status' = status /\ asks' = asks /\ registry' = registry
      /\ answers' = answers /\ faults' = faults /\ dropped' = dropped
      /\ queries' = [queries EXCEPT ![f] = @ + 1]
      /\ writes' = [writes EXCEPT ![f] = BatchesOf(f)[queries[f] + 1]]
      /\ status[f] = "waiting" /\ writes[f] = {} /\ queries[f] < Len(BatchesOf(f))
  BY Declared DEF Query, Unwritten, MoreQueries, Started
<1>2. \A g \in operation : /\ queries'[g] = IF g = f THEN queries[f] + 1 ELSE queries[g]
                           /\ writes'[g] = IF g = f THEN BatchesOf(f)[queries[f] + 1] ELSE writes[g]
  BY <1>1 DEF Inv, Shapes
<1>3. \A g \in operation : queries[g] \in Nat /\ Len(BatchesOf(g)) \in Nat
  BY Declared
<1>4. Progress'
  BY <1>1, <1>2, <1>3 DEF Progress, WorkInv, BatchesOf, PageFits
<1>5. Stored'
  <2>1. SUFFICES ASSUME NEW g \in operation, NEW i \in 1 .. queries'[g], NEW e \in BatchesOf(g)[i]
                 PROVE  e \in writes'[g] \/ Known(e.key)
    BY <1>1 DEF Stored, BatchesOf, Known
  <2>2. CASE g # f
    BY <1>2, <2>1, <2>2 DEF Stored, WorkInv
  <2>3. CASE g = f /\ i = queries[f] + 1
    BY <1>2, <2>1, <2>3
  <2>4. CASE g = f /\ i # queries[f] + 1
    <3>1. i \in 1 .. queries[f]
      BY <1>2, <1>3, <2>1, <2>4
    <3>2. QED  BY <1>1, <2>1, <2>4, <3>1 DEF Stored, WorkInv
  <2>5. QED  BY <2>2, <2>3, <2>4
<1>6. Open' /\ Once' /\ Prefetched' /\ \A g \in operation : Missing(g)' = Missing(g)
  BY <1>1, AnswersStand
<1>7. \A g \in operation : Failure(g)' = Failure(g)
  BY <1>1 DEF Failure, PageFits
<1>8. Faulted'
  BY <1>1, <1>6, <1>7, FaultsStand
<1>9. PassedOver'
  BY <1>1, <1>2, <1>3 DEF PassedOver, WorkInv
<1>10. QED  BY <1>4, <1>5, <1>6, <1>8, <1>9 DEF WorkInv

\* What is put into the registry stays there.
LEMMA CacheWork ==
  ASSUME Inv, WorkInv, NEW f \in operation, Cache(f)
  PROVE  WorkInv'
<1>1. PICK e \in writes[f] :
        /\ writes' = [writes EXCEPT ![f] = @ \ {e}]
        /\ registry' = Registered(e, [poems |-> e.poems, authors |-> e.authors])
        /\ UNCHANGED <<operation, status, queries, dropped, asks, paths, answers, faults>>
  BY DEF Cache
<1>2. \A g \in operation : writes'[g] = IF g = f THEN writes[f] \ {e} ELSE writes[g]
  BY <1>1 DEF Inv, Shapes
<1>3. DOMAIN registry' = DOMAIN registry \cup {e.key}
  BY <1>1 DEF Registered
<1>4. Progress'
  BY <1>1, <1>2 DEF Progress, WorkInv, BatchesOf, PageFits
<1>5. Stored'
  <2>1. SUFFICES ASSUME NEW g \in operation, NEW i \in 1 .. queries[g], NEW x \in BatchesOf(g)[i]
                 PROVE  x \in writes'[g] \/ x.key \in DOMAIN registry'
    BY <1>1 DEF Stored, BatchesOf, Known
  <2>2. x \in writes[g] \/ x.key \in DOMAIN registry
    BY <2>1 DEF Stored, WorkInv, Known
  <2>3. QED  BY <1>2, <1>3, <2>2
<1>6. Open' /\ Once' /\ Prefetched' /\ \A g \in operation : Missing(g)' = Missing(g)
  BY <1>1, AnswersStand
<1>7. \A g \in operation : Failure(g)' = Failure(g)
  BY <1>1 DEF Failure, PageFits
<1>8. Faulted'
  BY <1>1, <1>6, <1>7, FaultsStand
<1>9. PassedOver'
  BY <1>1 DEF PassedOver, WorkInv
<1>10. QED  BY <1>4, <1>5, <1>6, <1>8, <1>9 DEF WorkInv

\* A relation is passed over before its field is resolved, and is one fault.
LEMMA RelationFailsWork ==
  ASSUME Inv, WorkInv, faults \in Nat, NEW f \in operation, RelationFails(f)
  PROVE  WorkInv'
<1>1. PICK r \in Relations(Fields[f].kind) \ dropped[f] : dropped' = [dropped EXCEPT ![f] = @ \cup {r}]
  BY DEF RelationFails
<1>2. /\ status[f] = "waiting" /\ queries[f] = 1 /\ faults' = faults + 1
      /\ UNCHANGED <<operation, status, queries, writes, asks, paths, registry, answers>>
  BY DEF RelationFails, Started
<1>3. \A g \in operation : dropped'[g] = IF g = f THEN dropped[f] \cup {r} ELSE dropped[g]
  BY <1>1 DEF PassedOver, WorkInv
<1>4. PassedOver'
  <2>1. DOMAIN dropped' = DOMAIN dropped
    BY <1>1
  <2>2. QED  BY <1>1, <1>2, <1>3, <2>1 DEF PassedOver, WorkInv
<1>5. Progress' /\ Stored'
  BY <1>2 DEF Progress, Stored, WorkInv, BatchesOf, PageFits, Known
<1>6. Open' /\ Once' /\ Prefetched' /\ \A g \in operation : Missing(g)' = Missing(g)
  BY <1>2, <1>3, AnswersStand
<1>7. \A g \in operation : Failure(g)' = Failure(g)
  BY <1>2 DEF Failure, PageFits
<1>8. \A g \in operation : /\ Owing[g] = (Failure(g) + Cardinality(dropped[g])) + Cardinality(Missing(g))
                           /\ Owing'[g] = (Failure(g)' + Cardinality(dropped'[g])) + Cardinality(Missing(g)')
  BY <1>2 DEF Owing
<1>9. Owing'[f] = Owing[f] + 1 /\ \A g \in operation \ {f} : Owing'[g] = Owing[g]
  <2>1. /\ IsFiniteSet(dropped[f]) /\ Cardinality(dropped[f]) \in Nat /\ Failure(f) \in {0, 1}
        /\ Cardinality(Missing(f)) \in Nat
    BY OwingType DEF WorkInv
  <2>2. Cardinality(dropped[f] \cup {r}) = Cardinality(dropped[f]) + 1
    BY <1>1, <2>1, FS_AddElement
  <2>3. Owing'[f] = (Failure(f) + (Cardinality(dropped[f]) + 1)) + Cardinality(Missing(f))
    BY <1>3, <1>6, <1>7, <1>8, <2>2
  <2>4. Owing'[f] = Owing[f] + 1
    BY <1>8, <2>1, <2>3
  <2>5. QED  BY <1>3, <1>6, <1>7, <1>8, <2>4
<1>10. Faulted'
  BY <1>2, <1>9, FaultsGrow
<1>11. QED  BY <1>4, <1>5, <1>6, <1>10 DEF WorkInv

\* A field fails: a refused page made no query, and another had one to make.
LEMMA EndsWork ==
  ASSUME Inv, WorkInv, NEW f \in operation, Started(f), status' = [status EXCEPT ![f] = "failed"],
         PageFits(f) => MoreQueries(f),
         UNCHANGED <<operation, queries, dropped, writes, asks, paths, registry, answers>>
  PROVE  /\ Progress' /\ PassedOver' /\ Stored' /\ Open' /\ Once' /\ Prefetched'
         /\ \A g \in operation : Missing(g)' = Missing(g) /\ (g # f => Failure(g)' = Failure(g))
         /\ Failure(f) = 0 /\ Failure(f)' = IF PageFits(f) THEN 1 ELSE 0
<1>1. status[f] = "waiting" /\ \A g \in operation : status'[g] = IF g = f THEN "failed" ELSE status[g]
  BY DEF Started, Inv, Shapes
<1>2. PageFits(f) => queries[f] < Len(BatchesOf(f))
  BY Declared DEF MoreQueries
<1>3. Progress'
  BY <1>1, <1>2 DEF Progress, WorkInv, BatchesOf, PageFits
<1>4. Stored'
  BY DEF Stored, WorkInv, BatchesOf, Known
<1>5. Open' /\ Once' /\ Prefetched' /\ \A g \in operation : Missing(g)' = Missing(g)
  BY <1>1, AnswersStand
<1>6. \A g \in operation : g # f => Failure(g)' = Failure(g)
  BY <1>1 DEF Failure, PageFits
<1>7. Failure(f) = 0 /\ Failure(f)' = IF PageFits(f) THEN 1 ELSE 0
  BY <1>1 DEF Failure, PageFits
<1>8. PassedOver'
  BY DEF PassedOver, WorkInv
<1>9. QED  BY <1>3, <1>4, <1>5, <1>6, <1>7, <1>8

\* A refused page is no fault of the database.
LEMMA PageRefusedWork ==
  ASSUME Inv, WorkInv, NEW f \in operation, PageRefused(f)
  PROVE  WorkInv'
<1>1. /\ Progress' /\ PassedOver' /\ Stored' /\ Open' /\ Once' /\ Prefetched'
      /\ \A g \in operation : Missing(g)' = Missing(g) /\ Failure(g)' = Failure(g)
  BY EndsWork DEF PageRefused
<1>2. Faulted'
  BY <1>1, FaultsStand DEF PageRefused
<1>3. QED  BY <1>1, <1>2 DEF WorkInv

\* A failing query is the one fault of its field, which makes no other.
LEMMA QueryFailsWork ==
  ASSUME Inv, WorkInv, faults \in Nat, NEW f \in operation, QueryFails(f)
  PROVE  WorkInv'
<1>1. /\ Progress' /\ PassedOver' /\ Stored' /\ Open' /\ Once' /\ Prefetched'
      /\ \A g \in operation : Missing(g)' = Missing(g) /\ (g # f => Failure(g)' = Failure(g))
      /\ Failure(f) = 0 /\ Failure(f)' = 1
  BY EndsWork DEF QueryFails
<1>2. operation' = operation /\ faults' = faults + 1 /\ dropped' = dropped
  BY DEF QueryFails
<1>3. \A g \in operation : /\ Owing[g] = (Failure(g) + Cardinality(dropped[g])) + Cardinality(Missing(g))
                           /\ Owing'[g] = (Failure(g)' + Cardinality(dropped[g])) + Cardinality(Missing(g)')
  BY <1>2 DEF Owing
<1>4. Owing'[f] = Owing[f] + 1 /\ \A g \in operation \ {f} : Owing'[g] = Owing[g]
  <2>1. Cardinality(Missing(f)) \in Nat /\ Cardinality(dropped[f]) \in Nat
    BY OwingType DEF WorkInv
  <2>2. QED  BY <1>1, <1>3, <2>1
<1>5. Faulted'
  BY <1>2, <1>4, FaultsGrow
<1>6. QED  BY <1>1, <1>5 DEF WorkInv

\* A resolver returns when its batches are in the registry, and all below it is open.
LEMMA ReturnWork ==
  ASSUME Inv, WorkInv, NEW f \in operation, Return(f)
  PROVE  WorkInv'
<1>1. /\ operation' = operation /\ queries' = queries /\ writes' = writes /\ registry' = registry
      /\ answers' = answers /\ faults' = faults /\ dropped' = dropped
      /\ status' = [status EXCEPT ![f] = "resolved"]
      /\ status[f] = "waiting" /\ writes[f] = {} /\ queries[f] >= Len(BatchesOf(f))
      /\ asks' = [asks EXCEPT ![f] = Reached(f, paths[f])]
  BY Declared DEF Return, Unwritten, MoreQueries, Started
<1>2. queries[f] = Len(BatchesOf(f)) /\ paths[f] = Fields[f].lang
  <2>1. queries[f] = Len(BatchesOf(f))
    BY <1>1, Declared DEF Progress, WorkInv
  <2>2. queries[f] > 0
    BY <2>1, Declared
  <2>3. QED  BY <2>1, <2>2, Declared DEF Inv, Spoken
<1>3. \A g \in operation : /\ status'[g] = IF g = f THEN "resolved" ELSE status[g]
                           /\ asks'[g] = IF g = f THEN BelowOf(f) ELSE asks[g]
                           /\ BelowOf(g)' = BelowOf(g)
  BY <1>1, <1>2, ReachedStands DEF Inv, Shapes, BelowOf
<1>4. \A b \in answers : b.field \in operation /\ b.field # f
  BY <1>1 DEF Once, WorkInv
<1>5. Progress'
  BY <1>1, <1>2, <1>3 DEF Progress, WorkInv, BatchesOf, PageFits
<1>6. Stored'
  BY <1>1 DEF Stored, WorkInv, BatchesOf, Known
<1>7. Open'
  BY <1>1, <1>3 DEF Open, WorkInv
<1>8. Once'
  BY <1>1, <1>3, <1>4 DEF Once, WorkInv, AskOf
<1>9. \A g \in operation : Missing(g)' = Missing(g)
  BY <1>1, <1>3 DEF Missing, AskOf
<1>10. Prefetched'
  BY <1>1, <1>9 DEF Prefetched, WorkInv, Lists
<1>11. \A g \in operation : Failure(g)' = Failure(g)
  BY <1>1, <1>3 DEF Failure, PageFits
<1>12. Faulted'
  BY <1>1, <1>9, <1>11, FaultsStand
<1>13. PassedOver'
  BY <1>1 DEF PassedOver, WorkInv
<1>14. QED  BY <1>5, <1>6, <1>7, <1>8, <1>10, <1>12, <1>13 DEF WorkInv

\* A count that is answered is no longer asked for, and never missing.
LEMMA AnswerWork ==
  ASSUME Inv, WorkInv, NEW f \in operation, NEW a \in asks[f], NEW value, NEW queried,
         Answer(f, a, value, queried), queried => ~ Known(a.key),
         UNCHANGED <<operation, status, queries, dropped, writes, paths, registry, faults>>
  PROVE  WorkInv'
<1> DEFINE new == [field |-> f, key |-> a.key, count |-> a.count, at |-> a.at, value |-> value, queried |-> queried]
<1>1. answers' = answers \cup {new} /\ \A g \in operation : asks'[g] = IF g = f THEN asks[f] \ {a} ELSE asks[g]
  BY DEF Answer, Inv, Shapes
<1>2. status[f] = "resolved" /\ a \in BelowOf(f) /\ \A g \in operation : BelowOf(g)' = BelowOf(g)
  BY ReachedStands DEF Open, WorkInv
<1>3. new.field = f /\ AskOf(new) = a /\ new.queried = queried
  BY <1>2, Declared, BelowShape DEF BelowOf, AskOf
<1>4. ~ \E b \in answers : b.field = f /\ AskOf(b) = a
  BY DEF Once, WorkInv
<1> HIDE DEF new
<1>5. Progress' /\ PassedOver' /\ Stored'
  BY DEF Progress, PassedOver, Stored, WorkInv, BatchesOf, PageFits, Known
<1>6. Open'
  BY <1>1, <1>2 DEF Open, WorkInv
<1>7. Once'
  <2>1. IsFiniteSet(answers')
    BY <1>1, FS_AddElement DEF Once, WorkInv
  <2>2. \A b \in answers' : /\ b.field \in operation /\ status[b.field] = "resolved"
                            /\ AskOf(b) \in BelowOf(b.field) \ asks'[b.field]
    BY <1>1, <1>2, <1>3 DEF Once, WorkInv
  <2>3. \A b, c \in answers' : b.field = c.field /\ AskOf(b) = AskOf(c) => b = c
    BY <1>1, <1>3, <1>4 DEF Once, WorkInv
  <2>4. QED  BY <1>2, <2>1, <2>2, <2>3 DEF Once, AskOf
<1>8. ASSUME NEW g \in operation PROVE Missing(g)' = Missing(g)
  <2> DEFINE Un(x) == ~ \E b \in answers : b.field = g /\ AskOf(b) = x
             UnNext(x) == ~ \E b \in answers' : b.field = g /\ AskOf(b) = x
  <2>1. Missing(g) = IF status[g] = "resolved" THEN {x \in BelowOf(g) \ asks[g] : Un(x)} ELSE {}
    BY DEF Missing
  <2>2. Missing(g)' = IF status[g] = "resolved" THEN {x \in BelowOf(g) \ asks'[g] : UnNext(x)} ELSE {}
    BY <1>2 DEF Missing, AskOf
  <2>3. \A x : UnNext(x) <=> Un(x) /\ ~ (g = f /\ x = a)
    BY <1>1, <1>3
  <2> HIDE DEF Un, UnNext
  <2>4. \A x \in BelowOf(g) : x \notin asks'[g] /\ UnNext(x) <=> x \notin asks[g] /\ Un(x)
    BY <1>1, <2>3
  <2>5. QED  BY <2>1, <2>2, <2>4
<1>9. Prefetched'
  <2>1. Lists(f) => ~ queried
    BY <1>2, ListedKnown DEF WorkInv
  <2>2. QED  BY <1>1, <1>3, <1>8, <2>1 DEF Prefetched, WorkInv, Lists
<1>10. \A g \in operation : Failure(g)' = Failure(g)
  BY DEF Failure, PageFits
<1>11. Faulted'
  BY <1>8, <1>10, FaultsStand
<1>12. QED  BY <1>5, <1>6, <1>7, <1>9, <1>11 DEF WorkInv

\* A count that fails is missing, and none of a field that lists can.
LEMMA AnswerFailsWork ==
  ASSUME Inv, WorkInv, faults \in Nat, NEW f \in operation, AnswerFails(f)
  PROVE  WorkInv'
<1>1. PICK a \in asks[f] :
        /\ ~ Known(a.key) /\ faults' = faults + 1
        /\ asks' = [asks EXCEPT ![f] = @ \ {a}]
        /\ UNCHANGED <<operation, status, queries, dropped, writes, paths, registry, answers>>
  BY DEF AnswerFails
<1>2. \A g \in operation : asks'[g] = IF g = f THEN asks[f] \ {a} ELSE asks[g]
  BY <1>1 DEF Inv, Shapes
<1>3. status[f] = "resolved" /\ a \in BelowOf(f) /\ \A g \in operation : BelowOf(g)' = BelowOf(g)
  BY <1>1, ReachedStands DEF Open, WorkInv
<1>4. ~ Lists(f)
  BY <1>1, <1>3, ListedKnown DEF WorkInv
<1>5. ~ \E b \in answers : b.field = f /\ AskOf(b) = a
  BY DEF Once, WorkInv
<1>6. Progress' /\ PassedOver' /\ Stored'
  BY <1>1 DEF Progress, PassedOver, Stored, WorkInv, BatchesOf, PageFits, Known
<1>7. Open'
  BY <1>1, <1>2, <1>3 DEF Open, WorkInv
<1>8. Once'
  BY <1>1, <1>2, <1>3 DEF Once, WorkInv, AskOf
<1>9. \A g \in operation \ {f} : Missing(g)' = Missing(g)
  BY <1>1, <1>2, <1>3 DEF Missing, AskOf
<1>10. Missing(f)' = Missing(f) \cup {a} /\ a \notin Missing(f)
  <2>1. Missing(f)' = {x \in BelowOf(f) \ asks'[f] : ~ \E b \in answers : b.field = f /\ AskOf(b) = x}
    BY <1>1, <1>3 DEF Missing, AskOf
  <2>2. Missing(f) = {x \in BelowOf(f) \ asks[f] : ~ \E b \in answers : b.field = f /\ AskOf(b) = x}
    BY <1>3 DEF Missing
  <2>3. QED  BY <1>2, <1>3, <1>5, <2>1, <2>2
<1>11. Prefetched'
  BY <1>1, <1>4, <1>9 DEF Prefetched, WorkInv, Lists
<1>12. \A g \in operation : Failure(g)' = Failure(g)
  BY <1>1 DEF Failure, PageFits
<1>13. \A g \in operation : /\ Owing[g] = (Failure(g) + Cardinality(dropped[g])) + Cardinality(Missing(g))
                            /\ Owing'[g] = (Failure(g)' + Cardinality(dropped[g])) + Cardinality(Missing(g)')
  BY <1>1 DEF Owing
<1>14. Owing'[f] = Owing[f] + 1 /\ \A g \in operation \ {f} : Owing'[g] = Owing[g]
  <2>1. /\ IsFiniteSet(Missing(f)) /\ Cardinality(Missing(f)) \in Nat /\ Failure(f) \in {0, 1}
        /\ Cardinality(dropped[f]) \in Nat
    BY OwingType DEF WorkInv
  <2>2. Cardinality(Missing(f)') = Cardinality(Missing(f)) + 1
    BY <1>10, <2>1, FS_AddElement
  <2>3. QED  BY <1>9, <1>12, <1>13, <2>1, <2>2
<1>15. Faulted'
  BY <1>1, <1>14, FaultsGrow
<1>16. QED  BY <1>6, <1>7, <1>8, <1>11, <1>15 DEF WorkInv

\* Every step keeps the account.
LEMMA NextWork ==
  ASSUME Inv, TypeOK, WorkInv, [Next]_vars
  PROVE  WorkInv'
<1>1. faults \in Nat
  BY GraphCountsAssumption DEF TypeOK
<1>2. ASSUME NEW f \in operation, FieldStep(f) PROVE WorkInv'
  <2>1. CASE Query(f)
    BY <2>1, QueryWork
  <2>2. CASE PageRefused(f)
    BY <2>2, PageRefusedWork
  <2>3. CASE QueryFails(f)
    BY <1>1, <2>3, QueryFailsWork
  <2>4. CASE Cache(f)
    BY <2>4, CacheWork
  <2>5. CASE Return(f)
    BY <2>5, ReturnWork
  <2>6. CASE AnswerFromRegistry(f)
    BY <2>6, AnswerWork DEF AnswerFromRegistry
  <2>7. CASE AnswerFromDatabase(f)
    BY <2>7, AnswerWork DEF AnswerFromDatabase
  <2>8. CASE AnswerFails(f)
    BY <1>1, <2>8, AnswerFailsWork
  <2>9. CASE RelationFails(f)
    BY <1>1, <2>9, RelationFailsWork
  <2>10. QED  BY <1>2, <2>1, <2>2, <2>3, <2>4, <2>5, <2>6, <2>7, <2>8, <2>9 DEF FieldStep
<1>3. CASE UNCHANGED vars
  <2>1. operation' = operation /\ status' = status /\ asks' = asks /\ answers' = answers /\ queries' = queries
          /\ writes' = writes /\ registry' = registry /\ faults' = faults /\ dropped' = dropped
    BY <1>3 DEF vars
  <2>2. Progress' /\ PassedOver' /\ Stored'
    BY <2>1 DEF Progress, PassedOver, Stored, WorkInv, BatchesOf, PageFits, Known
  <2>3. Open' /\ Once' /\ Prefetched' /\ \A g \in operation : Missing(g)' = Missing(g)
    BY <2>1, AnswersStand
  <2>4. \A g \in operation : Failure(g)' = Failure(g)
    BY <2>1 DEF Failure, PageFits
  <2>5. QED  BY <2>1, <2>2, <2>3, <2>4, FaultsStand DEF WorkInv
<1>4. QED  BY <1>2, <1>3 DEF Next

\* The count fields below a field for which the database was asked.
Queried(f) == {b \in answers : b.field = f /\ b.queried}
QueriedCount == [f \in operation |-> Cardinality(Queried(f))]
OwnWork == [f \in operation |-> Spent(f) + (Owing[f] + QueriedCount[f])]

\* Every count below a field is answered, missing or open, and there are no more of
\* them than its rows have.
LEMMA CountsFit ==
  ASSUME Inv, WorkInv, NEW f \in operation
  PROVE  LET m == Cardinality(Missing(f))
             q == Cardinality(Queried(f))
         IN  m \in Nat /\ q \in Nat /\ m + q <= Cardinality(Fields[f].rows) * RowAsks(f) /\ IsFiniteSet(Queried(f))
<1> DEFINE R == Cardinality(Fields[f].rows)
           N == R * RowAsks(f)
<1>1. f \in DOMAIN Fields /\ Fields[f].lang \in Langs /\ Fields[f].kind \in Kinds
  BY Declared, GraphCountsAssumption
<1>2. IsFiniteSet(Missing(f)) /\ Cardinality(Missing(f)) \in Nat
  BY OwingType DEF WorkInv
<1>3. IsFiniteSet(Queried(f)) /\ Cardinality(Queried(f)) \in Nat
  <2>1. Queried(f) \subseteq answers
    BY DEF Queried
  <2>2. QED  BY <2>1, FS_Subset, FS_CardinalityType DEF WorkInv, Once
<1>4. R \in Nat /\ RowAsks(f) \in Nat /\ N \in Nat
  <2>1. R \in Nat
    BY <1>1, ResponseAssumption, FS_CardinalityType
  <2>2. RowAsks(f) \in Nat
    BY DEF RowAsks, RowCounts
  <2> HIDE DEF R
  <2>3. QED  BY <2>1, <2>2
<1>5. CASE Missing(f) = {} /\ Queried(f) = {}
  <2> HIDE DEF N
  <2>1. QED  BY <1>2, <1>3, <1>4, <1>5, FS_EmptySet DEF N
<1>6. CASE Missing(f) # {} \/ Queried(f) # {}
  <2>1. ~ Lists(f) /\ Fields[f].deep
    <3>1. BelowOf(f) # {}
      BY <1>6 DEF Queried, Missing, WorkInv, Once
    <3>2. QED  BY <1>6, <3>1 DEF Queried, WorkInv, Prefetched, BelowOf, Reached
  <2> DEFINE B == BelowOf(f)
             rest == B \ Missing(f)
             ask == [b \in Queried(f) |-> AskOf(b)]
  <2>2. IsFiniteSet(B) /\ Cardinality(B) \in Nat /\ Cardinality(B) <= N
    <3>1. B \subseteq Below(f, Fields[f].lang)
      BY DEF BelowOf, Reached
    <3>2. LET A == Below(f, Fields[f].lang) IN IsFiniteSet(A) /\ Cardinality(A) \in Nat /\ Cardinality(A) <= N
      BY <1>1, <2>1, BelowCount DEF Kinds, Lists, RowAsks
    <3> HIDE DEF B, N
    <3>3. IsFiniteSet(B) /\ Cardinality(B) <= Cardinality(Below(f, Fields[f].lang))
      BY <3>1, <3>2, FS_Subset
    <3>4. QED  BY <1>4, <3>2, <3>3, FS_CardinalityType
  <2>3. Missing(f) \subseteq B
    BY DEF Missing
  <2>4. \A b \in Queried(f) : AskOf(b) \in rest
    BY DEF Queried, Missing, WorkInv, Once
  <2>5. \A b, c \in Queried(f) : AskOf(b) = AskOf(c) => b = c
    BY DEF Queried, WorkInv, Once
  <2> HIDE DEF N, B
  <2>6. IsFiniteSet(rest) /\ rest \cup Missing(f) = B /\ rest \cap Missing(f) = {}
    BY <2>2, <2>3, FS_Subset
  <2> HIDE DEF rest
  <2>7. ask \in Injection(Queried(f), rest)
    BY <2>4, <2>5 DEF Injection, IsInjective
  <2>8. Cardinality(Queried(f)) <= Cardinality(rest)
    BY <2>6, <2>7, FS_Injection
  <2>9. Cardinality(B) = Cardinality(rest) + Cardinality(Missing(f)) /\ Cardinality(rest) \in Nat
    BY <1>2, <2>6, UnionCount
  <2>10. Cardinality(Missing(f)) + Cardinality(Queried(f)) <= N
    BY <1>2, <1>3, <1>4, <2>2, <2>8, <2>9
  <2>11. QED  BY <1>2, <1>3, <2>10 DEF N
<1>7. QED  BY <1>5, <1>6

\* The statements, failures and counts of one field.
LEMMA OwnWorkFits ==
  ASSUME Inv, WorkInv, NEW f \in operation
  PROVE  /\ Spent(f) \in Nat /\ Owing[f] \in Nat /\ QueriedCount[f] \in Nat
         /\ OwnWork[f] = Spent(f) + (Owing[f] + QueriedCount[f])
         /\ OwnWork[f] \in Nat /\ OwnWork[f] <= 8 + Cardinality(Fields[f].rows) * RowAsks(f)
<1> DEFINE n == Len(BatchesOf(f))
           first == FirstStatements(Fields[f].kind)
           N == Cardinality(Fields[f].rows) * RowAsks(f)
           m == Cardinality(Missing(f))
           q == Cardinality(Queried(f))
           d == Cardinality(dropped[f])
<1>1. f \in DOMAIN Fields /\ Fields[f].lang \in Langs /\ n \in Nat /\ queries[f] \in Nat
  BY Declared
<1>2. first \in 1 .. 7 /\ first + n - 1 \in 1 .. 8
  BY <1>1, FieldStatements DEF BatchesOf
<1>3. /\ queries[f] <= n
      /\ status[f] = "failed" /\ PageFits(f) => queries[f] < n
  BY DEF WorkInv, Progress
<1>4. m \in Nat /\ q \in Nat /\ m + q <= N
  BY CountsFit
<1>5. N \in Nat
  <2>1. Cardinality(Fields[f].rows) \in Nat /\ RowAsks(f) \in Nat
    BY <1>1, ResponseAssumption, FS_CardinalityType DEF RowAsks, RowCounts
  <2>2. QED  BY <2>1
<1>6. Owing[f] = (Failure(f) + d) + m /\ QueriedCount[f] = q /\ OwnWork[f] = Spent(f) + (Owing[f] + QueriedCount[f])
  BY DEF Owing, QueriedCount, OwnWork
<1>7. d \in Nat /\ d <= first - 1 /\ (queries[f] = 0 => d = 0)
  <2>1. d \in Nat /\ d <= first - 1
    BY OwingType DEF WorkInv
  <2>2. queries[f] = 0 => dropped[f] = {}
    BY <1>1 DEF WorkInv, PassedOver
  <2>3. QED  BY <2>1, <2>2, FS_EmptySet
<1>8. Spent(f) \in Nat /\ Failure(f) \in {0, 1} /\ Spent(f) + (Failure(f) + d) <= 8
  <2> HIDE DEF n, first, d
  <2>1. CASE status[f] = "failed" /\ PageFits(f)
    <3>1. Spent(f) = first + queries[f] - 1 - d /\ Failure(f) = 1
      BY <2>1 DEF Spent, Begun, Failure, first, d
    <3>2. QED  BY <1>1, <1>2, <1>3, <1>7, <2>1, <3>1
  <2>2. CASE ~ (status[f] = "failed" /\ PageFits(f))
    <3>1. Spent(f) = (IF queries[f] > 0 THEN first + queries[f] - 1 - d ELSE 0) /\ Failure(f) = 0
      BY <2>2 DEF Spent, Begun, Failure, first, d
    <3>2. CASE queries[f] > 0
      BY <1>1, <1>2, <1>3, <1>7, <3>1, <3>2
    <3>3. CASE queries[f] = 0
      BY <1>7, <3>1, <3>3
    <3>4. QED  BY <1>1, <3>2, <3>3
  <2>3. QED  BY <2>1, <2>2
<1> HIDE DEF n, first, N, m, q, d
<1>9. OwnWork[f] \in Nat /\ OwnWork[f] <= 8 + N /\ Owing[f] \in Nat
  BY <1>4, <1>5, <1>6, <1>7, <1>8
<1>10. QED  BY <1>4, <1>6, <1>8, <1>9 DEF N

\* The statements are those of the fields, each with its counts and its failures.
LEMMA StatementsAreOwn ==
  ASSUME Inv, WorkInv, faults \in Nat
  PROVE  Statements \in Nat /\ Statements <= SumFunctionOnSet(OwnWork, operation)
<1> DEFINE spent == [f \in operation |-> Spent(f)]
           other == [f \in operation |-> Owing[f] + QueriedCount[f]]
           queried == {a \in answers : a.queried}
           part == [f \in operation |-> Queried(f)]
           Sum(h) == SumFunctionOnSet(h, operation)
<1>1. IsFiniteSet(operation)
  BY ResponseAssumption DEF Inv, Shapes
<1>2. \A f \in operation : /\ spent[f] \in Nat /\ Owing[f] \in Nat /\ QueriedCount[f] \in Nat
                           /\ other[f] = Owing[f] + QueriedCount[f] /\ other[f] \in Nat /\ OwnWork[f] = spent[f] + other[f]
  BY OwnWorkFits
<1>3. Cardinality(queried) \in Nat /\ Cardinality(queried) <= Sum(QueriedCount)
  <2>1. UNION {part[f] : f \in operation} = queried
    BY DEF Queried, WorkInv, Once
  <2>2. \A f \in operation : IsFiniteSet(part[f]) /\ QueriedCount[f] = Cardinality(part[f])
    BY CountsFit DEF QueriedCount
  <2>3. IsFiniteSet(queried)
    BY FS_Subset DEF WorkInv, Once
  <2> HIDE DEF part, queried
  <2>4. Cardinality(UNION {part[f] : f \in operation}) <= Sum(QueriedCount)
    BY <1>1, <2>2, CountOfParts
  <2>5. QED  BY <2>1, <2>3, <2>4, FS_CardinalityType
<1>4. faults <= Sum(Owing)
  BY DEF WorkInv, Faulted
<1>5. Statements = Sum(spent) + Cardinality(queried) + faults
  BY DEF Statements, SumFunction
<1> HIDE DEF spent, other, queried
<1>6. Sum(other) = Sum(Owing) + Sum(QueriedCount) /\ Sum(OwnWork) = Sum(spent) + Sum(other)
  BY <1>1, <1>2, SumPlus
<1>7. Sum(spent) \in Nat /\ Sum(Owing) \in Nat /\ Sum(QueriedCount) \in Nat
  BY <1>1, <1>2, SumType
<1> HIDE DEF Sum
<1>8. Statements \in Nat /\ Statements <= Sum(OwnWork)
  BY <1>3, <1>4, <1>5, <1>6, <1>7
<1>9. QED  BY <1>8 DEF Sum

\* What all of them did is paid by the price of the operation.
LEMMA WorkPaid ==
  ASSUME Inv, TypeOK, WorkInv
  PROVE  Statements <= Complexity + 8 * Cardinality(Roots)
<1>1. operation \in Operations /\ faults \in Nat
  BY GraphCountsAssumption DEF TypeOK
<1>2. Statements \in Nat /\ Statements <= SumFunctionOnSet(OwnWork, operation)
  BY <1>1, StatementsAreOwn
<1>3. \A f \in operation : OwnWork[f] \in Nat /\ OwnWork[f] <= 8 + Cardinality(Fields[f].rows) * RowAsks(f)
  BY OwnWorkFits
<1>4. Roots = RootsOf(operation) /\ Complexity = SumFunctionOnSet(Cost(operation), RootsOf(operation))
  BY Zenon DEF Roots, RootsOf, Complexity
<1>5. SumFunctionOnSet(OwnWork, operation) <= Complexity + 8 * Cardinality(Roots)
  BY <1>1, <1>3, <1>4, OperationPays
<1>6. SumFunctionOnSet(OwnWork, operation) \in Nat
  BY <1>1, <1>3, ResponseAssumption, SumType
<1>7. Complexity \in Nat /\ 8 * Cardinality(Roots) \in Nat
  <2>1. IsFiniteSet(Roots) /\ \A f \in Roots : Cost(operation)[f] \in Nat
    BY <1>1, CostType, ResponseAssumption, FS_Subset DEF Roots
  <2>2. Complexity \in Nat
    BY <2>1, SumType DEF Complexity
  <2>3. QED  BY <2>1, <2>2, FS_CardinalityType
<1>8. QED  BY <1>2, <1>5, <1>6, <1>7

\* In every reachable state the counts that are open, answered or missing are those the
\* schema has below the rows, and every fault is on the account of one field.
THEOREM WorkInvariant == Spec => []WorkInv
<1>1. Init => WorkInv
  BY WorkInit
<1>2. Inv /\ TypeOK /\ WorkInv /\ [Next]_vars => WorkInv'
  BY NextWork
<1>3. QED  BY <1>1, <1>2, InvariantHolds, TypeCorrect, PTL DEF Spec

\* An operation that is answered made no more statements than it was priced at, but for
\* the eight of each root page: neither rows nor nested pages can make the work outgrow
\* the price (complexity.go:14 and 45, prefetch.go:81).
THEOREM WorkPriced == ResponseSpec => []WorkIsPriced
<1>1. Inv /\ TypeOK /\ WorkInv => WorkIsPriced
  BY WorkPaid DEF WorkIsPriced
<1>2. QED  BY <1>1, ResponseImplementsGraphCounts, InvariantHolds, TypeCorrect, WorkInvariant, PTL

-----------------------------------------------------------------------------
\* An operation makes no statement before it is admitted, and is admitted within the limit.
Unworked ==
  /\ answers = {} /\ faults = 0
  /\ \A f \in operation : status[f] = "waiting" /\ queries[f] = 0
LimitInv ==
  /\ verdict \in {"asked", "refused", "admitted", "answered"}
  /\ verdict \in {"asked", "refused"} => Unworked
  /\ verdict \in {"admitted", "answered"} => Complexity <= ComplexityLimit

\* What has not begun made no statement.
LEMMA UnworkedCosts ==
  ASSUME Unworked, operation \in Operations
  PROVE  Statements = 0
<1> DEFINE spent == [f \in operation |-> Spent(f)]
<1>1. IsFiniteSet(operation)
  BY ResponseAssumption
<1>2. \A f \in operation : spent[f] = 0
  BY DEF Unworked, Spent, Begun
<1>3. Statements = SumFunctionOnSet(spent, operation) + Cardinality({a \in answers : a.queried}) + faults
  BY DEF Statements, SumFunction
<1> HIDE DEF spent
<1>4. SumFunctionOnSet(spent, operation) <= Cardinality(operation) * 0 /\ SumFunctionOnSet(spent, operation) \in Nat
  BY <1>1, <1>2, SumBound, SumType
<1>5. Cardinality(operation) * 0 = 0
  BY <1>1, FS_CardinalityType
<1>6. Cardinality({a \in answers : a.queried}) = 0 /\ faults = 0
  <2>1. {a \in answers : a.queried} = {} /\ faults = 0
    BY DEF Unworked
  <2>2. QED  BY <2>1, FS_EmptySet
<1>7. QED  BY <1>3, <1>4, <1>5, <1>6

\* An operation is priced once, before its first query.
LEMMA NextLimit ==
  ASSUME LimitInv, Shapes, [ResponseNext]_allVars
  PROVE  LimitInv'
<1>1. CASE Admit
  BY <1>1 DEF Admit, LimitInv, Complexity, Roots, vars
<1>2. CASE Refuse
  BY <1>2 DEF Refuse, LimitInv, Unworked, vars
<1>3. CASE Respond
  BY <1>3 DEF Respond, LimitInv, Complexity, Roots, vars
<1>4. ASSUME NEW f \in operation, Resolve(f) PROVE LimitInv'
  <2>1. operation' = operation
    BY <1>4 DEF Resolve, FieldStep, Query, PageRefused, QueryFails, RelationFails, Cache, Return, AnswerFromRegistry, AnswerFromDatabase, AnswerFails
  <2>2. QED  BY <1>4, <2>1 DEF Resolve, LimitInv, Complexity, Roots
<1>5. CASE UNCHANGED allVars
  BY <1>5 DEF allVars, vars, LimitInv, Unworked, Complexity, Roots
<1>6. QED  BY <1>1, <1>2, <1>3, <1>4, <1>5 DEF ResponseNext, ResponseStep, Sent

\* The configured limit bounds the work of every operation (complexity.go:14).
WorkIsLimited == Statements <= ComplexityLimit + 8 * Cardinality(Roots)

\* Whatever is asked for, at every moment the statements made for an operation are within
\* the limit of the configuration, but for the eight of each root page: one above the
\* limit makes none.
THEOREM WorkLimited == ResponseSpec => []WorkIsLimited
<1>1. OperationAsked => LimitInv
  BY DEF OperationAsked, Init, LimitInv, Unworked
<1>2. Inv /\ LimitInv /\ [ResponseNext]_allVars => LimitInv'
  BY NextLimit DEF Inv
<1>3. ASSUME Inv, TypeOK, WorkInv, LimitInv PROVE WorkIsLimited
  <2>1. operation \in Operations
    BY <1>3 DEF TypeOK
  <2>2. IsFiniteSet(Roots) /\ \A f \in Roots : Cost(operation)[f] \in Nat
    BY <2>1, CostType, ResponseAssumption, FS_Subset DEF Roots
  <2>3. 8 * Cardinality(Roots) \in Nat /\ Complexity \in Nat /\ ComplexityLimit \in Nat /\ Statements \in Nat
    <3>1. Complexity \in Nat
      BY <2>2, SumType DEF Complexity
    <3>2. faults \in Nat
      BY <1>3, GraphCountsAssumption DEF TypeOK
    <3>3. QED  BY <1>3, <2>2, <3>1, <3>2, StatementsAreOwn, FS_CardinalityType, ResponseAssumption
  <2>4. CASE verdict \in {"asked", "refused"}
    BY <1>3, <2>1, <2>3, <2>4, UnworkedCosts DEF LimitInv, WorkIsLimited
  <2>5. CASE verdict \in {"admitted", "answered"}
    BY <1>3, <2>3, <2>5, WorkPaid DEF LimitInv, WorkIsLimited
  <2>6. QED  BY <1>3, <2>4, <2>5 DEF LimitInv
<1>4. QED  BY <1>1, <1>2, <1>3, ResponseImplementsGraphCounts, InvariantHolds, TypeCorrect, WorkInvariant, PTL DEF ResponseSpec
=============================================================================
