--------------------------- MODULE MigrationProofs ---------------------------
(***************************************************************************)
(* Migrations of every database, stopped and repeated in every way, with   *)
(* every write in between.                                                 *)
(*                                                                         *)
(* The argument: what a Migrate has passed is there when it goes on, since *)
(* nothing that is wanted is ever removed.  A poem that the index lacks is *)
(* one of before, and its language has no index yet, or a Migrate is about *)
(* to fill it, or has stopped when it was.                                 *)
(***************************************************************************)
EXTENDS Migration, TLAPS

\* The labels at which a statement's work need not be there yet.
FromAuthors == {"dynasties", "inspectAuthors", "authors"}
FromPoems == FromAuthors \cup {"types", "poems"}
FromColumns == FromPoems \cup {"canonical_id", "canonical_fingerprint"}
FromIdentity == FromColumns \cup {"dropUnique", "canonicalIndex"}
FromIndex == FromIdentity \cup {"sources", "countIndex", "fts"}
FromTriggers == FromIndex \cup {"ai", "ad", "au"}
FromRows == FromTriggers \cup {"backfill", "dynastyRows", "typeRows"}

\* What the language that is migrated has at a label.
HasTables(S) ==
  /\ pc \notin {"dynasties"} => "dynasties" \in S
  /\ pc \notin FromAuthors => "authors" \in S
  /\ pc \notin FromAuthors \ {"authors"} => "legacyAuthors" \notin S
  /\ pc \notin FromAuthors \cup {"types"} => "types" \in S
  /\ pc \notin FromPoems => "poems" \in S
  /\ pc \notin FromPoems \cup {"canonical_id"} => "canonical_id" \in S
  /\ pc \notin FromColumns => "canonical_fingerprint" \in S
  /\ pc \notin FromColumns \cup {"dropUnique"} => "unique" \notin S
  /\ pc \notin FromIdentity => "canonicalIndex" \in S
  /\ pc \notin FromIdentity \cup {"sources"} => "sources" \in S
HasIndex(S) ==
  /\ pc \notin FromIndex => "fts" \in S
  /\ pc \notin FromIndex \cup {"ai"} => "ai" \in S
  /\ pc \notin FromIndex \cup {"ai", "ad"} => "ad" \in S
  /\ pc \notin FromTriggers => "au" \in S
  /\ pc \notin FromTriggers \cup {"backfill", "dynastyRows"} => "dynastyRows" \in S
  /\ pc = "fts" => (existed <=> "fts" \in S)

Running == pc \in FromRows
Full(S) == Wanted \subseteq S /\ S \cap Legacy = {}

Progress ==
  /\ Running => HasTables(schema[lang]) /\ HasIndex(schema[lang])
  /\ Running /\ lang = "Hant" => Full(schema["Hans"])
  /\ pc \in {"version", "ready"} => Complete
  /\ Running \/ pc \in {"rejections", "version", "ready"} => "metadata" \in shared
  /\ Running \/ pc \in {"version", "ready"} => "rejections" \in shared
  /\ pc = "ready" => "version" \in shared
  /\ pc \in {"metadata", "rejections"} => lang = "Hans"
  /\ pc \in {"fts", "ai", "ad", "au", "backfill"} /\ "version" \in shared => existed

\* A poem that the index lacks.
Lacking ==
  \A l \in Languages : \A i \in DOMAIN poems[l] \ DOMAIN index[l] :
    /\ i \in DOMAIN old[l] /\ poems[l][i] = old[l][i]
    /\ \/ "fts" \notin schema[l]
       \/ l = lang /\ Unfilled
       \/ l \in torn

Inv == TypeOK /\ Progress /\ VersionMeansComplete /\ NothingStale /\ Lacking

-----------------------------------------------------------------------------
LEMMA InitInv == Init => Inv
<1>1. SUFFICES ASSUME Init PROVE Inv
  OBVIOUS
<1>2. PICK d \in Databases : schema = d.schema /\ poems = d.poems
  BY <1>1 DEF Init
<1>3. /\ d.schema \in [Languages -> SUBSET ({"poems"} \cup Legacy)]
      /\ d.poems = [l \in Languages |-> d.poems[l]]
      /\ \A l \in Languages :
           /\ DOMAIN d.poems[l] \subseteq Ids
           /\ d.poems[l] \in [DOMAIN d.poems[l] -> [text : Texts, canonical : {NoIdentity}]]
  BY MigrationAssumption
<1>4. TypeOK
  <2>1. schema \in [Languages -> SUBSET (Wanted \cup Legacy)]
    BY <1>1, <1>2, <1>3 DEF Wanted
  <2>2. \A l \in Languages :
          /\ DOMAIN poems[l] \subseteq Ids /\ poems[l] \in [DOMAIN poems[l] -> Row]
          /\ DOMAIN index[l] \subseteq Ids /\ index[l] \in [DOMAIN index[l] -> Texts]
    <3>1. SUFFICES ASSUME NEW l \in Languages
                   PROVE  /\ DOMAIN poems[l] \subseteq Ids /\ poems[l] \in [DOMAIN poems[l] -> Row]
                          /\ DOMAIN index[l] \subseteq Ids /\ index[l] \in [DOMAIN index[l] -> Texts]
      OBVIOUS
    <3>2. [text : Texts, canonical : {NoIdentity}] \subseteq Row
      BY DEF Row
    <3>3. poems[l] \in [DOMAIN poems[l] -> [text : Texts, canonical : {NoIdentity}]]
      BY <1>2, <1>3
    <3>4. index[l] = [i \in {} |-> "none"]
      BY <1>1 DEF Init
    <3>5. DOMAIN index[l] = {} /\ index[l] \in [{} -> Texts]
      BY <3>4
    <3>6. QED  BY <1>2, <1>3, <3>2, <3>3, <3>5
  <2>3. /\ shared \subseteq Shared /\ pc \in Labels /\ lang \in Languages
        /\ existed \in BOOLEAN /\ torn \subseteq Languages
    BY <1>1 DEF Init, Labels, Languages
  <2>4. stops \in 0 .. MaxStops /\ writes \in 0 .. MaxWrites
    BY <1>1, MigrationAssumption DEF Init
  <2>5. poems = [l \in Languages |-> poems[l]] /\ index = [l \in Languages |-> index[l]]
    BY <1>1, <1>2, <1>3 DEF Init
  <2>6. QED  BY <2>1, <2>2, <2>3, <2>4, <2>5 DEF TypeOK
<1>5. Progress /\ VersionMeansComplete
  BY <1>1 DEF Init, Progress, VersionMeansComplete, Running, FromRows, FromTriggers, FromIndex,
              FromIdentity, FromColumns, FromPoems, FromAuthors
<1>6. NothingStale
  BY <1>1 DEF Init, NothingStale
<1>7. Lacking
  BY <1>1, <1>2, <1>3 DEF Init, Lacking, Legacy
<1>8. QED  BY <1>4, <1>5, <1>6, <1>7 DEF Inv

-----------------------------------------------------------------------------
(* Statements that touch neither the poems nor the index. *)

\* Such a statement keeps the poems and the index in step.
LEMMA SameRows ==
  ASSUME NothingStale, UNCHANGED <<poems, index>>
  PROVE  NothingStale'
BY DEF NothingStale

\* It leaves every poem that is lacking accounted for, if it creates no index and is
\* not the one that ends a fill.
LEMMA SameLacking ==
  ASSUME Lacking, UNCHANGED <<poems, index, old, torn>>,
         \A l \in Languages : "fts" \in schema'[l] => "fts" \in schema[l],
         Unfilled => Unfilled' /\ lang' = lang
  PROVE  Lacking'
BY DEF Lacking

LEMMA BeginInv == Inv /\ Begin => Inv'
<1>1. SUFFICES ASSUME Inv, Begin PROVE Inv'
  OBVIOUS
<1>2. TypeOK'
  BY <1>1 DEF Inv, Begin, TypeOK, rest, Labels, Languages
<1>3. Progress'
  BY <1>1 DEF Begin, rest, Progress, Running, FromRows, FromTriggers, FromIndex,
              FromIdentity, FromColumns, FromPoems, FromAuthors
<1>4. VersionMeansComplete'
  BY <1>1 DEF Inv, Begin, rest, VersionMeansComplete, Complete
<1>5. NothingStale' /\ Lacking'
  BY <1>1, SameRows, SameLacking DEF Inv, Begin, rest, Unfilled
<1>6. QED  BY <1>2, <1>3, <1>4, <1>5 DEF Inv

LEMMA CreateSharedInv == Inv /\ CreateShared => Inv'
<1>1. SUFFICES ASSUME Inv, CreateShared PROVE Inv'
  OBVIOUS
<1>2. TypeOK'
  BY <1>1 DEF Inv, CreateShared, TypeOK, Labels, Shared
<1>3. Progress'
  BY <1>1 DEF Inv, CreateShared, Progress, Complete, Running, HasTables, HasIndex, FromRows,
              FromTriggers, FromIndex, FromIdentity, FromColumns, FromPoems, FromAuthors
<1>4. VersionMeansComplete'
  BY <1>1 DEF Inv, CreateShared, VersionMeansComplete, Complete, Progress, Shared,
              Running, FromRows, FromTriggers, FromIndex, FromIdentity, FromColumns, FromPoems
<1>5. NothingStale' /\ Lacking'
  BY <1>1, SameRows, SameLacking DEF Inv, CreateShared, Unfilled
<1>6. QED  BY <1>2, <1>3, <1>4, <1>5 DEF Inv

LEMMA InspectAuthorsInv == Inv /\ InspectAuthors => Inv'
<1>1. SUFFICES ASSUME Inv, InspectAuthors PROVE Inv'
  OBVIOUS
<1>2. TypeOK'
  BY <1>1 DEF Inv, InspectAuthors, TypeOK, rest, Labels
<1>3. Progress'
  BY <1>1 DEF Inv, InspectAuthors, rest, Progress, Running, HasTables, HasIndex, FromRows,
              FromTriggers, FromIndex, FromIdentity, FromColumns, FromPoems, FromAuthors
<1>4. VersionMeansComplete'
  BY <1>1 DEF Inv, InspectAuthors, rest, VersionMeansComplete, Complete
<1>5. NothingStale' /\ Lacking'
  BY <1>1, SameRows, SameLacking DEF Inv, InspectAuthors, rest, Unfilled
<1>6. QED  BY <1>2, <1>3, <1>4, <1>5 DEF Inv

-----------------------------------------------------------------------------
(* Statements that create what is missing. *)

\* What such a statement keeps whichever it is.
LEMMA CreateInv ==
  ASSUME Inv, NEW what \in SUBSET Wanted, NEW then \in Labels, Create(what, then)
  PROVE  TypeOK' /\ VersionMeansComplete' /\ NothingStale'
<1>1. TypeOK'
  BY DEF Inv, TypeOK, Create, rest
<1>2. Wanted \cap Legacy = {}
  BY DEF Wanted, Legacy, Columns, Triggers
<1>3. VersionMeansComplete'
  BY <1>2 DEF Inv, TypeOK, Create, rest, VersionMeansComplete, Complete
<1>4. NothingStale'
  BY SameRows DEF Inv, Create, rest
<1>5. QED  BY <1>1, <1>3, <1>4

LEMMA CreateTablesInv == Inv /\ CreateTables => Inv'
<1>1. SUFFICES ASSUME Inv, CreateTables PROVE Inv'
  OBVIOUS
<1>2. TypeOK' /\ VersionMeansComplete' /\ NothingStale'
  <2>1. PICK what \in SUBSET Wanted, then \in Labels : Create(what, then)
    BY <1>1 DEF CreateTables, CreatePoems, Wanted, Columns, Labels
  <2>2. QED  BY <1>1, <2>1, CreateInv
<1>3. Lacking'
  BY <1>1, SameLacking DEF Inv, TypeOK, CreateTables, CreatePoems, Create, rest, Columns, Unfilled
<1>4. schema \in [Languages -> SUBSET (Wanted \cup Legacy)] /\ lang \in Languages
  BY <1>1 DEF Inv, TypeOK
<1>5. Progress'
  <2>1. CASE pc = "dynasties" /\ Create({pc}, "inspectAuthors")
    BY <1>1, <1>4, <2>1 DEF Inv, Create, rest, Progress, Running, HasTables, HasIndex, Full, FromRows,
              FromTriggers, FromIndex, FromIdentity, FromColumns, FromPoems, FromAuthors
  <2>2. CASE pc = "authors" /\ Create({pc}, "types")
    BY <1>1, <1>4, <2>2 DEF Inv, Create, rest, Progress, Running, HasTables, HasIndex, Full, FromRows,
              FromTriggers, FromIndex, FromIdentity, FromColumns, FromPoems, FromAuthors
  <2>3. CASE pc = "types" /\ Create({pc}, "poems")
    BY <1>1, <1>4, <2>3 DEF Inv, Create, rest, Progress, Running, HasTables, HasIndex, Full, FromRows,
              FromTriggers, FromIndex, FromIdentity, FromColumns, FromPoems, FromAuthors
  <2>4. CASE CreatePoems
    BY <1>1, <1>4, <2>4 DEF Inv, CreatePoems, Columns, Create, rest, Progress, Running, HasTables, HasIndex, Full, FromRows,
              FromTriggers, FromIndex, FromIdentity, FromColumns, FromPoems, FromAuthors
  <2>5. CASE pc = "canonical_id" /\ Create({pc}, "canonical_fingerprint")
    BY <1>1, <1>4, <2>5 DEF Inv, Create, rest, Progress, Running, HasTables, HasIndex, Full, FromRows,
              FromTriggers, FromIndex, FromIdentity, FromColumns, FromPoems, FromAuthors
  <2>6. CASE pc = "canonical_fingerprint" /\ Create({pc}, "dropUnique")
    BY <1>1, <1>4, <2>6 DEF Inv, Create, rest, Progress, Running, HasTables, HasIndex, Full, FromRows,
              FromTriggers, FromIndex, FromIdentity, FromColumns, FromPoems, FromAuthors
  <2>7. CASE pc = "canonicalIndex" /\ Create({pc}, "sources")
    BY <1>1, <1>4, <2>7 DEF Inv, Create, rest, Progress, Running, HasTables, HasIndex, Full, FromRows,
              FromTriggers, FromIndex, FromIdentity, FromColumns, FromPoems, FromAuthors
  <2>8. CASE pc = "sources" /\ Create({pc}, "countIndex")
    BY <1>1, <1>4, <2>8 DEF Inv, Create, rest, Progress, Running, HasTables, HasIndex, Full, FromRows,
              FromTriggers, FromIndex, FromIdentity, FromColumns, FromPoems, FromAuthors
  <2>9. QED
    BY <1>1, <2>1, <2>2, <2>3, <2>4, <2>5, <2>6, <2>7, <2>8 DEF CreateTables
<1>6. QED  BY <1>2, <1>3, <1>5 DEF Inv

LEMMA DropUniqueInv == Inv /\ DropUnique => Inv'
<1>1. SUFFICES ASSUME Inv, DropUnique PROVE Inv'
  OBVIOUS
<1>2. schema \in [Languages -> SUBSET (Wanted \cup Legacy)] /\ lang \in Languages
  BY <1>1 DEF Inv, TypeOK
<1>3. TypeOK'
  BY <1>1, <1>2 DEF Inv, DropUnique, TypeOK, rest, Labels
<1>4. Progress'
  BY <1>1, <1>2 DEF Inv, DropUnique, rest, Progress, Running, HasTables, HasIndex, Full, FromRows,
              FromTriggers, FromIndex, FromIdentity, FromColumns, FromPoems, FromAuthors
<1>5. VersionMeansComplete'
  BY <1>1, <1>2 DEF Inv, DropUnique, rest, VersionMeansComplete, Complete, Wanted, Columns, Triggers
<1>6. NothingStale' /\ Lacking'
  BY <1>1, <1>2, SameRows, SameLacking DEF Inv, DropUnique, rest, Unfilled
<1>7. QED  BY <1>3, <1>4, <1>5, <1>6 DEF Inv

-----------------------------------------------------------------------------
(* The index. *)

LEMMA CountIndexInv == Inv /\ CountIndex => Inv'
<1>1. SUFFICES ASSUME Inv, CountIndex PROVE Inv'
  OBVIOUS
<1>2. TypeOK'
  BY <1>1 DEF Inv, CountIndex, TypeOK, rest, Labels
<1>3. Progress'
  <2>1. "version" \in shared => "fts" \in schema[lang]
    BY <1>1 DEF Inv, TypeOK, VersionMeansComplete, Complete, Wanted
  <2>2. QED
    BY <1>1, <2>1 DEF Inv, CountIndex, rest, Progress, Complete, Running, HasTables, HasIndex, Full, FromRows,
              FromTriggers, FromIndex, FromIdentity, FromColumns, FromPoems, FromAuthors
<1>4. VersionMeansComplete'
  BY <1>1 DEF Inv, CountIndex, rest, VersionMeansComplete, Complete
<1>5. NothingStale' /\ Lacking'
  BY <1>1, SameRows, SameLacking DEF Inv, CountIndex, rest, Unfilled
<1>6. QED  BY <1>2, <1>3, <1>4, <1>5 DEF Inv

LEMMA CreateIndexInv == Inv /\ CreateIndex => Inv'
<1>1. SUFFICES ASSUME Inv, CreateIndex PROVE Inv'
  OBVIOUS
<1>2. schema \in [Languages -> SUBSET (Wanted \cup Legacy)] /\ lang \in Languages
  BY <1>1 DEF Inv, TypeOK
<1>3. TypeOK' /\ VersionMeansComplete' /\ NothingStale'
  <2>1. PICK what \in SUBSET Wanted, then \in Labels : Create(what, then)
    BY <1>1 DEF CreateIndex, Wanted, Triggers, Labels
  <2>2. QED  BY <1>1, <2>1, CreateInv
<1>4. CASE pc = "fts" /\ Create({pc}, "ai")
  <2>1. Progress'
    BY <1>1, <1>2, <1>4 DEF Inv, Create, rest, Progress, Running, HasTables, HasIndex, Full, FromRows,
              FromTriggers, FromIndex, FromIdentity, FromColumns, FromPoems, FromAuthors
  <2>2. existed <=> "fts" \in schema[lang]
    BY <1>1, <1>4 DEF Inv, Progress, Running, HasTables, HasIndex, Full, FromRows,
              FromTriggers, FromIndex, FromIdentity, FromColumns, FromPoems, FromAuthors
  <2>3. Lacking'
    BY <1>1, <1>2, <1>4, <2>2 DEF Inv, Lacking, Create, rest, Unfilled
  <2>4. QED  BY <1>3, <2>1, <2>3 DEF Inv
<1>5. CASE pc = "ai" /\ Create({pc}, "ad")
  <2>1. Progress'
    BY <1>1, <1>2, <1>5 DEF Inv, Create, rest, Progress, Running, HasTables, HasIndex, Full, FromRows,
              FromTriggers, FromIndex, FromIdentity, FromColumns, FromPoems, FromAuthors
  <2>2. Lacking'
    BY <1>1, <1>2, <1>5, SameLacking DEF Inv, Create, rest, Unfilled
  <2>3. QED  BY <1>3, <2>1, <2>2 DEF Inv
<1>6. CASE pc = "ad" /\ Create({pc}, "au")
  <2>1. Progress'
    BY <1>1, <1>2, <1>6 DEF Inv, Create, rest, Progress, Running, HasTables, HasIndex, Full, FromRows,
              FromTriggers, FromIndex, FromIdentity, FromColumns, FromPoems, FromAuthors
  <2>2. Lacking'
    BY <1>1, <1>2, <1>6, SameLacking DEF Inv, Create, rest, Unfilled
  <2>3. QED  BY <1>3, <2>1, <2>2 DEF Inv
<1>7. CASE pc = "au" /\ Create({pc}, "backfill")
  <2>1. Progress'
    BY <1>1, <1>2, <1>7 DEF Inv, Create, rest, Progress, Running, HasTables, HasIndex, Full, FromRows,
              FromTriggers, FromIndex, FromIdentity, FromColumns, FromPoems, FromAuthors
  <2>2. Lacking'
    BY <1>1, <1>2, <1>7, SameLacking DEF Inv, Create, rest, Unfilled
  <2>3. QED  BY <1>3, <2>1, <2>2 DEF Inv
<1>8. QED  BY <1>1, <1>4, <1>5, <1>6, <1>7 DEF CreateIndex

\* A fill that is left out leaves no poem to it.
LEMMA BackfillInv == Inv /\ Backfill => Inv'
<1>1. SUFFICES ASSUME Inv, Backfill PROVE Inv'
  OBVIOUS
<1>2. /\ schema \in [Languages -> SUBSET (Wanted \cup Legacy)] /\ lang \in Languages
      /\ index = [l \in Languages |-> index[l]]
      /\ DOMAIN index[lang] \subseteq Ids /\ DOMAIN poems[lang] \subseteq Ids
      /\ index[lang] \in [DOMAIN index[lang] -> Texts]
      /\ poems[lang] \in [DOMAIN poems[lang] -> Row]
  BY <1>1 DEF Inv, TypeOK
<1>3. Progress' /\ VersionMeansComplete'
  <2>1. Progress'
    BY <1>1 DEF Inv, Backfill, rest, Progress, Running, HasTables, HasIndex, Full, FromRows,
              FromTriggers, FromIndex, FromIdentity, FromColumns, FromPoems, FromAuthors
  <2>2. VersionMeansComplete'
    BY <1>1 DEF Inv, Backfill, rest, VersionMeansComplete, Complete
  <2>3. QED  BY <2>1, <2>2
<1>4. CASE existed
  <2>1. TypeOK'
    BY <1>1, <1>4 DEF Inv, Backfill, TypeOK, rest, Labels
  <2>2. NothingStale' /\ Lacking'
    BY <1>1, <1>4, SameRows, SameLacking DEF Inv, Backfill, rest, Unfilled
  <2>3. QED  BY <1>3, <2>1, <2>2 DEF Inv
<1>5. CASE ~existed
  <2> DEFINE full == With(lang, DOMAIN poems[lang], poems[lang])
  <2>1. index' = [index EXCEPT ![lang] = full] /\ UNCHANGED <<poems, schema, old, torn, lang>>
    BY <1>1, <1>5 DEF Backfill, rest
  <2>2. /\ DOMAIN full = DOMAIN index[lang] \cup DOMAIN poems[lang]
        /\ \A i \in DOMAIN poems[lang] : full[i] = poems[lang][i].text
        /\ \A i \in DOMAIN index[lang] \ DOMAIN poems[lang] : full[i] = index[lang][i]
    BY DEF With
  <2>3. \A l \in Languages : index'[l] = IF l = lang THEN full ELSE index[l]
    BY <1>2, <2>1
  <2>4. TypeOK'
    <3>1. full \in [DOMAIN full -> Texts] /\ DOMAIN full \subseteq Ids
      BY <1>2, <2>2 DEF With, Row
    <3>2. index' = [l \in Languages |-> index'[l]]
      BY <1>2, <2>1
    <3> HIDE DEF full
    <3>3. QED  BY <1>1, <2>3, <3>1, <3>2 DEF Inv, TypeOK, Backfill, rest, Labels
  <2> HIDE DEF full
  <2>5. NothingStale'
    BY <1>1, <2>1, <2>2, <2>3 DEF Inv, NothingStale
  <2>6. Lacking'
    BY <1>1, <1>2, <2>1, <2>2, <2>3 DEF Inv, Lacking, Unfilled
  <2>7. QED  BY <1>3, <2>4, <2>5, <2>6 DEF Inv
<1>6. QED  BY <1>4, <1>5

LEMMA SeedInv == Inv /\ Seed => Inv'
<1>1. SUFFICES ASSUME Inv, Seed PROVE Inv'
  OBVIOUS
<1>2. schema \in [Languages -> SUBSET (Wanted \cup Legacy)] /\ lang \in Languages
  BY <1>1 DEF Inv, TypeOK
<1>3. CASE pc = "dynastyRows" /\ Create({pc}, "typeRows")
  <2>1. {pc} \in SUBSET Wanted /\ "typeRows" \in Labels
    BY <1>3 DEF Wanted, Labels
  <2>2. Progress'
    BY <1>1, <1>2, <1>3 DEF Inv, Create, rest, Progress, Running, HasTables, HasIndex, Full, FromRows,
              FromTriggers, FromIndex, FromIdentity, FromColumns, FromPoems, FromAuthors
  <2>3. Lacking'
    BY <1>1, <1>2, <1>3, SameLacking DEF Inv, Create, rest, Unfilled
  <2>4. QED  BY <1>1, <1>3, <2>1, <2>2, <2>3, CreateInv DEF Inv
<1>4. CASE pc = "typeRows" /\ lang = "Hant" /\ Create({pc}, "version")
  <2>1. {pc} \in SUBSET Wanted /\ "version" \in Labels
    BY <1>4 DEF Wanted, Labels
  <2>2. Full(schema'["Hans"]) /\ Full(schema'["Hant"])
    BY <1>1, <1>2, <1>4 DEF Inv, Create, Progress, Running, HasTables, HasIndex, Full, FromRows,
              FromTriggers, FromIndex, FromIdentity, FromColumns, FromPoems, FromAuthors, Wanted, Legacy, Columns, Triggers, Languages
  <2>3. Progress'
    BY <1>1, <1>4, <2>2 DEF Inv, Create, rest, Progress, Running, HasTables, HasIndex, Full, FromRows,
              FromTriggers, FromIndex, FromIdentity, FromColumns, FromPoems, FromAuthors, Complete, Languages
  <2>4. Lacking'
    BY <1>1, <1>2, <1>4, SameLacking DEF Inv, Create, rest, Unfilled
  <2>5. QED  BY <1>1, <1>4, <2>1, <2>3, <2>4, CreateInv DEF Inv
<1>5. CASE /\ pc = "typeRows" /\ lang = "Hans" /\ pc' = "dynasties" /\ lang' = "Hant"
           /\ schema' = [schema EXCEPT ![lang] = @ \cup {pc}]
           /\ UNCHANGED <<poems, index, existed, rest>>
  <2>1. TypeOK'
    BY <1>1, <1>2, <1>5 DEF Inv, TypeOK, rest, Labels, Wanted, Languages
  <2>2. Full(schema'["Hans"])
    BY <1>1, <1>2, <1>5 DEF Inv, Progress, Running, HasTables, HasIndex, Full, FromRows,
              FromTriggers, FromIndex, FromIdentity, FromColumns, FromPoems, FromAuthors, Wanted, Legacy, Columns, Triggers
  <2>3. Progress'
    BY <1>1, <1>5, <2>2 DEF Inv, rest, Progress, Running, HasTables, HasIndex, Full, FromRows,
              FromTriggers, FromIndex, FromIdentity, FromColumns, FromPoems, FromAuthors
  <2>4. VersionMeansComplete'
    BY <1>1, <1>2, <1>5 DEF Inv, rest, VersionMeansComplete, Complete, Legacy
  <2>5. NothingStale' /\ Lacking'
    BY <1>1, <1>2, <1>5, SameRows, SameLacking DEF Inv, rest, Unfilled
  <2>6. QED  BY <2>1, <2>3, <2>4, <2>5 DEF Inv
<1>6. QED  BY <1>1, <1>3, <1>4, <1>5 DEF Seed

-----------------------------------------------------------------------------
(* Writes, which find all triggers. *)

\* A write leaves the progress of Migrate alone.
LEMMA WriteKeeps ==
  ASSUME Inv, pc = "ready", UNCHANGED Written
  PROVE  /\ Progress' /\ VersionMeansComplete'
         /\ pc' = "ready" /\ lang' = lang /\ old' = old /\ torn' = torn /\ schema' = schema
         /\ \A l \in Languages : Triggers \cup {"fts"} \subseteq schema[l]
<1>1. Progress'
  BY DEF Inv, Written, Progress, Complete, Running, HasTables, HasIndex, Full, FromRows,
              FromTriggers, FromIndex, FromIdentity, FromColumns, FromPoems, FromAuthors
<1>2. VersionMeansComplete'
  BY DEF Inv, Written, VersionMeansComplete, Complete
<1>3. \A l \in Languages : Triggers \cup {"fts"} \subseteq schema[l]
  BY DEF Inv, Progress, Complete, Wanted
<1>4. QED  BY <1>1, <1>2, <1>3 DEF Written

\* A write of the rows with some numbers, with what the triggers make of the index.
RowsTyped ==
  /\ poems = [m \in Languages |-> poems[m]]
  /\ \A m \in Languages : DOMAIN poems[m] \subseteq Ids /\ poems[m] \in [DOMAIN poems[m] -> Row]
OthersKept(l, ids) ==
  \A m \in Languages :
    /\ DOMAIN poems[m] \subseteq DOMAIN poems'[m]
    /\ \A i \in DOMAIN poems'[m] :
         m # l \/ i \notin ids => i \in DOMAIN poems[m] /\ poems'[m][i] = poems[m][i]
IndexedWrite(l, ids, rows) ==
  /\ pc = "ready" /\ CountWrite /\ UNCHANGED Written
  /\ index' = [index EXCEPT ![l] = With(l, ids, rows)]
  /\ RowsTyped' /\ OthersKept(l, ids)

LEMMA Indexed ==
  ASSUME Inv, NEW l \in Languages, NEW ids, NEW rows, IndexedWrite(l, ids, rows),
         ids \subseteq Ids, ids \subseteq DOMAIN poems'[l],
         \A i \in ids : rows[i].text = poems'[l][i].text /\ rows[i].text \in Texts
  PROVE  Inv'
<1> DEFINE new == With(l, ids, rows)
<1>1. /\ index = [m \in Languages |-> index[m]]
      /\ \A m \in Languages : DOMAIN index[m] \subseteq Ids /\ index[m] \in [DOMAIN index[m] -> Texts]
  BY DEF Inv, TypeOK
<1>2. /\ DOMAIN new = DOMAIN index[l] \cup ids
      /\ \A i \in ids : new[i] = rows[i].text
      /\ \A i \in DOMAIN index[l] \ ids : new[i] = index[l][i]
  BY DEF With
<1>3. new \in [DOMAIN new -> Texts] /\ DOMAIN new \subseteq Ids
  BY <1>1, <1>2 DEF With
<1> HIDE DEF new
<1>4. /\ \A m \in Languages : index'[m] = IF m = l THEN new ELSE index[m]
      /\ index' = [m \in Languages |-> index'[m]]
  BY <1>1 DEF new, IndexedWrite
<1>5. TypeOK'
  <2>1. writes' \in 0 .. MaxWrites
    BY MigrationAssumption DEF Inv, TypeOK, CountWrite, IndexedWrite
  <2>2. QED  BY <1>1, <1>3, <1>4, <2>1 DEF Inv, TypeOK, Written, IndexedWrite, RowsTyped
<1>6. NothingStale'
  BY <1>2, <1>4 DEF Inv, NothingStale, IndexedWrite, OthersKept
<1>7. Lacking'
  BY <1>2, <1>4, WriteKeeps DEF Inv, Lacking, Unfilled, IndexedWrite, OthersKept
<1>8. QED  BY <1>5, <1>6, <1>7, WriteKeeps DEF Inv, IndexedWrite

LEMMA InsertInv ==
  ASSUME Inv, NEW l \in Languages, NEW i \in Ids, NEW row \in Row, Insert(l, i, row)
  PROVE  Inv'
<1> DEFINE rows == [j \in {i} |-> row]
           more == [j \in DOMAIN poems[l] \cup {i} |-> IF j = i THEN row ELSE poems[l][j]]
<1>1. /\ pc = "ready" /\ CountWrite /\ UNCHANGED Written
      /\ poems' = [poems EXCEPT ![l] = [j \in DOMAIN @ \cup {i} |-> IF j = i THEN row ELSE @[j]]]
  BY DEF Insert
<1>2. "ai" \in schema[l]
  BY <1>1, WriteKeeps DEF Triggers
<1>3. index' = [index EXCEPT ![l] = With(l, {i}, rows)]
  BY <1>2 DEF Insert, OnInsert, Inv, TypeOK
<1>4. /\ poems = [m \in Languages |-> poems[m]]
      /\ \A m \in Languages : DOMAIN poems[m] \subseteq Ids /\ poems[m] \in [DOMAIN poems[m] -> Row]
  BY DEF Inv, TypeOK
<1>5. \A m \in Languages : poems'[m] = IF m = l THEN more ELSE poems[m]
  BY <1>1, <1>4
<1>6. poems' = [m \in Languages |-> poems'[m]]
  BY <1>1, <1>4
<1>7. \A m \in Languages : DOMAIN poems'[m] \subseteq Ids /\ poems'[m] \in [DOMAIN poems'[m] -> Row]
  <2>1. DOMAIN more \subseteq Ids /\ more \in [DOMAIN more -> Row]
    BY <1>4
  <2>2. QED  BY <1>4, <1>5, <2>1
<1>8. OthersKept(l, {i})
  BY <1>5 DEF OthersKept
<1>9. /\ {i} \subseteq DOMAIN poems'[l] /\ poems'[l][i] = row /\ row.text \in Texts
      /\ rows[i] = row
  BY <1>5 DEF Row
<1>10. IndexedWrite(l, {i}, rows)
  BY <1>1, <1>3, <1>6, <1>7, <1>8 DEF IndexedWrite, RowsTyped
<1> HIDE DEF rows, more
<1>11. QED  BY <1>9, <1>10, Indexed

LEMMA NormalizeTimestampsInv ==
  ASSUME Inv, NEW l \in Languages, NormalizeTimestamps(l)
  PROVE  Inv'
<1>1. pc = "ready" /\ CountWrite /\ UNCHANGED Written /\ poems' = poems
  BY DEF NormalizeTimestamps
<1>2. "au" \in schema[l]
  BY <1>1, WriteKeeps DEF Triggers
<1>3. index' = [index EXCEPT ![l] = With(l, DOMAIN poems[l], poems[l])]
  BY <1>2 DEF NormalizeTimestamps, OnUpdate
<1>4. /\ poems = [m \in Languages |-> poems[m]]
      /\ \A m \in Languages : DOMAIN poems[m] \subseteq Ids /\ poems[m] \in [DOMAIN poems[m] -> Row]
  BY DEF Inv, TypeOK
<1>5. \A i \in DOMAIN poems[l] : poems[l][i].text \in Texts
  BY <1>4 DEF Row
<1>6. IndexedWrite(l, DOMAIN poems[l], poems[l])
  BY <1>1, <1>3, <1>4 DEF IndexedWrite, RowsTyped, OthersKept
<1>7. QED  BY <1>1, <1>4, <1>5, <1>6, Indexed

LEMMA UpdateInv ==
  ASSUME Inv, NEW l \in Languages, NEW i \in Ids, NEW t \in Texts, Update(l, i, t)
  PROVE  Inv'
<1> DEFINE row == [poems[l][i] EXCEPT !.text = t]
           rows == [j \in {i} |-> row]
<1>1. /\ pc = "ready" /\ CountWrite /\ UNCHANGED Written /\ i \in DOMAIN poems[l]
      /\ poems' = [poems EXCEPT ![l][i].text = t]
  BY DEF Update
<1>2. "au" \in schema[l]
  BY <1>1, WriteKeeps DEF Triggers
<1>3. index' = [index EXCEPT ![l] = With(l, {i}, rows)] /\ rows[i] = row
  BY <1>2 DEF Update, OnUpdate
<1>4. /\ poems = [m \in Languages |-> poems[m]]
      /\ \A m \in Languages : DOMAIN poems[m] \subseteq Ids /\ poems[m] \in [DOMAIN poems[m] -> Row]
  BY DEF Inv, TypeOK
<1>5. row \in Row /\ row.text = t
  BY <1>1, <1>4 DEF Row
<1>6. \A m \in Languages : poems'[m] = IF m = l THEN [poems[l] EXCEPT ![i] = row] ELSE poems[m]
  BY <1>1, <1>4
<1> HIDE DEF row, rows
<1>7. poems' = [m \in Languages |-> poems'[m]]
  BY <1>1, <1>4
<1>8. \A m \in Languages : DOMAIN poems'[m] \subseteq Ids /\ poems'[m] \in [DOMAIN poems'[m] -> Row]
  BY <1>4, <1>5, <1>6
<1>9. OthersKept(l, {i})
  BY <1>4, <1>6 DEF OthersKept
<1>10. {i} \subseteq DOMAIN poems'[l] /\ poems'[l][i] = row
  BY <1>1, <1>4, <1>6
<1>11. IndexedWrite(l, {i}, rows)
  BY <1>1, <1>3, <1>7, <1>8, <1>9 DEF IndexedWrite, RowsTyped
<1>12. QED  BY <1>3, <1>5, <1>10, <1>11, Indexed

LEMMA DeleteInv ==
  ASSUME Inv, NEW l \in Languages, NEW i \in Ids, Delete(l, i)
  PROVE  Inv'
<1>1. /\ pc = "ready" /\ CountWrite /\ UNCHANGED Written
      /\ poems' = [poems EXCEPT ![l] = [j \in DOMAIN @ \ {i} |-> @[j]]]
  BY DEF Delete
<1>2. "ad" \in schema[l]
  BY <1>1, WriteKeeps DEF Triggers
<1>3. /\ poems = [m \in Languages |-> poems[m]] /\ index = [m \in Languages |-> index[m]]
      /\ \A m \in Languages : DOMAIN poems[m] \subseteq Ids /\ poems[m] \in [DOMAIN poems[m] -> Row]
      /\ \A m \in Languages : DOMAIN index[m] \subseteq Ids /\ index[m] \in [DOMAIN index[m] -> Texts]
  BY DEF Inv, TypeOK
<1>4. /\ \A m \in Languages : poems'[m] =
           IF m = l THEN [j \in DOMAIN poems[l] \ {i} |-> poems[l][j]] ELSE poems[m]
      /\ poems' = [m \in Languages |-> poems'[m]]
  BY <1>1, <1>3
<1>5. /\ \A m \in Languages : index'[m] =
           IF m = l THEN [j \in DOMAIN index[l] \ {i} |-> index[l][j]] ELSE index[m]
      /\ index' = [m \in Languages |-> index'[m]]
  BY <1>2, <1>3 DEF Delete, OnDelete
<1>6. TypeOK'
  <2>1. writes' \in 0 .. MaxWrites
    BY <1>1, MigrationAssumption DEF Inv, TypeOK, CountWrite
  <2>2. \A m \in Languages :
          /\ DOMAIN poems'[m] \subseteq Ids /\ poems'[m] \in [DOMAIN poems'[m] -> Row]
          /\ DOMAIN index'[m] \subseteq Ids /\ index'[m] \in [DOMAIN index'[m] -> Texts]
    BY <1>3, <1>4, <1>5
  <2>3. QED  BY <1>1, <1>4, <1>5, <2>1, <2>2 DEF Inv, TypeOK, Written
<1>7. NothingStale'
  BY <1>4, <1>5 DEF Inv, NothingStale
<1>8. Lacking'
  <2>1. \A m \in Languages : \A j \in DOMAIN poems'[m] \ DOMAIN index'[m] :
          j \in DOMAIN poems[m] \ DOMAIN index[m] /\ poems'[m][j] = poems[m][j]
    BY <1>4, <1>5
  <2>2. ~Unfilled /\ old' = old /\ torn' = torn /\ schema' = schema
    BY <1>1, WriteKeeps DEF Unfilled
  <2>3. QED  BY <2>1, <2>2 DEF Inv, Lacking
<1>9. QED  BY <1>1, <1>6, <1>7, <1>8, WriteKeeps DEF Inv

-----------------------------------------------------------------------------
LEMMA CloseInv == Inv /\ Close => Inv'
<1>1. SUFFICES ASSUME Inv, Close PROVE Inv'
  OBVIOUS
<1>2. TypeOK'
  BY <1>1 DEF Inv, Close, TypeOK, rest, Labels
<1>3. Progress'
  BY <1>1 DEF Close, Progress, Running, HasTables, HasIndex, Full, FromRows,
              FromTriggers, FromIndex, FromIdentity, FromColumns, FromPoems, FromAuthors
<1>4. VersionMeansComplete'
  BY <1>1 DEF Inv, Close, rest, VersionMeansComplete, Complete
<1>5. NothingStale' /\ Lacking'
  BY <1>1, SameRows, SameLacking DEF Inv, Close, rest, Unfilled
<1>6. QED  BY <1>2, <1>3, <1>4, <1>5 DEF Inv

LEMMA StopInv == Inv /\ Stop => Inv'
<1>1. SUFFICES ASSUME Inv, Stop PROVE Inv'
  OBVIOUS
<1>2. TypeOK'
  BY <1>1, MigrationAssumption DEF Inv, Stop, TypeOK, Labels
<1>3. Progress'
  BY <1>1 DEF Stop, Progress, Running, HasTables, HasIndex, Full, FromRows,
              FromTriggers, FromIndex, FromIdentity, FromColumns, FromPoems, FromAuthors
<1>4. VersionMeansComplete'
  BY <1>1 DEF Inv, Stop, VersionMeansComplete, Complete
<1>5. NothingStale'
  BY <1>1, SameRows DEF Inv, Stop
<1>6. Lacking'
  BY <1>1 DEF Inv, Stop, Lacking
<1>7. QED  BY <1>2, <1>3, <1>4, <1>5, <1>6 DEF Inv

LEMMA StutterInv == Inv /\ UNCHANGED vars => Inv'
<1>1. SUFFICES ASSUME Inv, UNCHANGED vars PROVE Inv'
  OBVIOUS
<1>2. TypeOK' /\ VersionMeansComplete'
  BY <1>1 DEF Inv, vars, TypeOK, VersionMeansComplete, Complete
<1>3. Progress'
  BY <1>1 DEF Inv, vars, Progress, Complete, Running, HasTables, HasIndex, Full, FromRows,
              FromTriggers, FromIndex, FromIdentity, FromColumns, FromPoems, FromAuthors
<1>4. NothingStale' /\ Lacking'
  BY <1>1, SameRows, SameLacking DEF Inv, vars, Unfilled
<1>5. QED  BY <1>2, <1>3, <1>4 DEF Inv

LEMMA NextInv == Inv /\ [Next]_vars => Inv'
<1>1. SUFFICES ASSUME Inv, [Next]_vars PROVE Inv'
  OBVIOUS
<1>2. CASE MigrateStep
  BY <1>1, <1>2, BeginInv, CreateSharedInv, InspectAuthorsInv, CreateTablesInv, DropUniqueInv,
     CountIndexInv, CreateIndexInv, BackfillInv, SeedInv DEF MigrateStep
<1>3. CASE WriteStep
  BY <1>1, <1>3, InsertInv, NormalizeTimestampsInv, UpdateInv, DeleteInv DEF WriteStep
<1>4. CASE Close \/ Stop \/ UNCHANGED vars
  BY <1>1, <1>4, CloseInv, StopInv, StutterInv
<1>5. QED  BY <1>1, <1>2, <1>3, <1>4 DEF Next

THEOREM InvariantHolds == Spec => []Inv
BY InitInv, NextInv, PTL DEF Spec

-----------------------------------------------------------------------------
\* No step leaves the states that the module describes.
THEOREM TypeCorrect == Spec => []TypeOK
BY InvariantHolds, PTL DEF Inv

\* A search never finds a poem by a text that it does not have (migrate.go:364).
THEOREM IndexIsNotStale == Spec => []NothingStale
BY InvariantHolds, PTL DEF Inv

\* A recorded version means complete tables in both languages (migrate.go:156).
THEOREM VersionIsHonest == Spec => []VersionMeansComplete
BY InvariantHolds, PTL DEF Inv

\* The index lacks only old poems of a language whose one-time fill was cut off
\* (migrate.go:433).
THEOREM OnlyAStoppedFillIsMissing == Spec => []MissingOnlyAfterStop
<1>1. Inv => MissingOnlyAfterStop
  BY DEF Inv, Progress, Complete, Wanted, Lacking, Unfilled, MissingOnlyAfterStop
<1>2. QED  BY <1>1, InvariantHolds, PTL

\* No statement of a repeated Migrate changes anything (migrate_v2_test.go:39).
THEOREM RepeatIsIdle == Spec => RepeatChangesNothing
<1>1. ASSUME Inv, MigrateStep, "version" \in shared
      PROVE  UNCHANGED <<schema, shared, poems, index>>
  <2>1. /\ Complete /\ Shared \subseteq shared
        /\ schema \in [Languages -> SUBSET (Wanted \cup Legacy)] /\ lang \in Languages
    BY <1>1 DEF Inv, VersionMeansComplete, TypeOK
  <2>2. \A what \in SUBSET Wanted : [schema EXCEPT ![lang] = @ \cup what] = schema
    BY <2>1 DEF Complete
  <2>3. CASE Begin \/ InspectAuthors \/ CountIndex
    BY <2>3 DEF Begin, InspectAuthors, CountIndex, rest
  <2>4. CASE CreateShared
    BY <2>1, <2>4 DEF CreateShared, Shared
  <2>5. CASE CreateTables \/ CreateIndex
    BY <2>2, <2>5 DEF CreateTables, CreatePoems, CreateIndex, Create, rest, Wanted, Columns, Triggers
  <2>6. CASE DropUnique
    BY <2>1, <2>6 DEF DropUnique, rest, Complete, Legacy
  <2>7. CASE Seed
    BY <2>2, <2>7 DEF Seed, Create, rest, Wanted
  <2>8. CASE Backfill
    BY <1>1, <2>8 DEF Backfill, rest, Inv, Progress
  <2>9. QED  BY <1>1, <2>3, <2>4, <2>5, <2>6, <2>7, <2>8 DEF MigrateStep
<1>2. QED  BY <1>1, InvariantHolds, PTL DEF Spec, RepeatChangesNothing
=============================================================================
