------------------------------ MODULE Migration ------------------------------
(***************************************************************************)
(* internal/database/migrate.go: Migrate brings a database file to the     *)
(* current schema, one statement after the other, each committed when it   *)
(* returns.  It is meant to be repeated: on an empty file, on one that an  *)
(* older version of the program wrote, and on one that an earlier Migrate  *)
(* has finished or has left half way.                                      *)
(*                                                                         *)
(* The full-text index is a table of its own.  Triggers keep it up to date *)
(* with the poems, and it is filled once, with the poems that were there   *)
(* before the triggers, by the Migrate that finds no index.                *)
(*                                                                         *)
(* A power loss may undo the last commits, which leaves what a kill would  *)
(* have left a few statements earlier, so Stop stands for both, and for a  *)
(* failing statement, whose error ends Migrate.                            *)
(***************************************************************************)
EXTENDS Integers

CONSTANTS Ids, Texts,    \* poem rows: their numbers and what of them is indexed
          Canonicals,    \* canonical identities; rows of an older version have none
          Databases,     \* what Migrate may find: [schema, poems]
          MaxStops,      \* bound: runs that stop half way
          MaxWrites      \* bound: writes to the poems

NoIdentity == "NULL"
Languages == {"Hans", "Hant"}
Columns == {"canonical_id", "canonical_fingerprint"}
Triggers == {"ai", "ad", "au"}

\* What the schema of a language has when it is complete.
Wanted ==
  {"dynasties", "authors", "types", "poems", "canonicalIndex", "sources", "fts",
   "dynastyRows", "typeRows"} \cup Columns \cup Triggers

\* An author table without governed identity, and the uniqueness of version 1.
Legacy == {"legacyAuthors", "unique"}
Shared == {"metadata", "rejections", "version"}

Row == [text : Texts, canonical : Canonicals \cup {NoIdentity}]

\* Nobody but this code makes an index or claims the current version.
ASSUME MigrationAssumption ==
  /\ NoIdentity \notin Canonicals
  /\ {MaxStops, MaxWrites} \subseteq Nat
  /\ \A d \in Databases :
       /\ d.schema \in [Languages -> SUBSET ({"poems"} \cup Legacy)]
       /\ d.poems = [l \in Languages |-> d.poems[l]]
       /\ \A l \in Languages :
            /\ DOMAIN d.poems[l] \subseteq Ids
            /\ d.poems[l] \in [DOMAIN d.poems[l] -> [text : Texts, canonical : {NoIdentity}]]
            /\ "poems" \notin d.schema[l] => DOMAIN d.poems[l] = {}

VARIABLES schema,    \* of each language, what its tables have
          shared,    \* the tables of both, and the recorded version
          poems,     \* of each language, the poem rows
          index,     \* of each language, the texts in the index
          old,       \* the poem rows of before the first Migrate
          pc, lang,  \* the next statement, and the language it is for
          existed,   \* Migrate's existingCount, as a truth value
          torn,      \* languages with a Migrate that stopped after it made the index
                     \* and before it filled it
          stops, writes

vars == <<schema, shared, poems, index, old, pc, lang, existed, torn, stops, writes>>
rest == <<shared, old, torn, stops, writes>>

Labels == {"off", "metadata", "rejections", "dynasties", "inspectAuthors", "authors", "types",
           "poems", "canonical_id", "canonical_fingerprint", "dropUnique", "canonicalIndex",
           "sources", "countIndex", "fts", "ai", "ad", "au", "backfill",
           "dynastyRows", "typeRows", "version", "ready"}

TypeOK ==
  /\ schema \in [Languages -> SUBSET (Wanted \cup Legacy)]
  /\ shared \subseteq Shared
  /\ poems = [l \in Languages |-> poems[l]] /\ index = [l \in Languages |-> index[l]]
  /\ \A l \in Languages :
       /\ DOMAIN poems[l] \subseteq Ids /\ poems[l] \in [DOMAIN poems[l] -> Row]
       /\ DOMAIN index[l] \subseteq Ids /\ index[l] \in [DOMAIN index[l] -> Texts]
  /\ pc \in Labels
  /\ lang \in Languages
  /\ existed \in BOOLEAN
  /\ torn \subseteq Languages
  /\ stops \in 0 .. MaxStops
  /\ writes \in 0 .. MaxWrites

Init ==
  /\ \E d \in Databases : schema = d.schema /\ poems = d.poems
  /\ old = poems
  /\ shared = {}
  /\ index = [l \in Languages |-> [i \in {} |-> "none"]]
  /\ pc = "off" /\ lang = "Hans" /\ existed = FALSE
  /\ torn = {} /\ stops = 0 /\ writes = 0

-----------------------------------------------------------------------------
(* Migrate. *)

\* A program opens the database and calls Migrate.
Begin ==
  /\ pc = "off" /\ pc' = "metadata" /\ lang' = "Hans"
  /\ UNCHANGED <<schema, poems, index, existed, rest>>

\* A statement for both languages.
CreateShared ==
  /\ \/ pc = "metadata" /\ pc' = "rejections"
     \/ pc = "rejections" /\ pc' = "dynasties"
     \/ pc = "version" /\ pc' = "ready"
  /\ shared' = shared \cup {pc}
  /\ UNCHANGED <<schema, poems, index, old, lang, existed, torn, stops, writes>>

\* A statement that makes what is missing and changes nothing else.
Create(what, then) ==
  /\ pc' = then
  /\ schema' = [schema EXCEPT ![lang] = @ \cup what]
  /\ UNCHANGED <<poems, index, lang, existed, rest>>

\* An author table without canonical identity is refused.
InspectAuthors ==
  /\ pc = "inspectAuthors"
  /\ pc' = IF "legacyAuthors" \in schema[lang] THEN "off" ELSE "authors"
  /\ UNCHANGED <<schema, poems, index, lang, existed, rest>>

\* A table that is made anew instead of only where there is none.
CreatePoemsAnew ==
  /\ pc = "poems" /\ pc' = "canonical_id"
  /\ schema' = [schema EXCEPT ![lang] = @ \cup {"poems"} \cup Columns]
  /\ poems' = [poems EXCEPT ![lang] = [i \in {} |-> "none"]]
  /\ UNCHANGED <<index, lang, existed, rest>>

\* A new table of poems has the columns of version 2; an old one gets them next.
CreatePoems ==
  /\ pc = "poems"
  /\ Create(IF "poems" \in schema[lang] THEN {} ELSE {"poems"} \cup Columns, "canonical_id")

DropUnique ==
  /\ pc = "dropUnique" /\ pc' = "canonicalIndex"
  /\ schema' = [schema EXCEPT ![lang] = @ \ {"unique"}]
  /\ UNCHANGED <<poems, index, lang, existed, rest>>

CreateTables ==
  \/ pc = "dynasties" /\ Create({pc}, "inspectAuthors")
  \/ pc = "authors" /\ Create({pc}, "types")
  \/ pc = "types" /\ Create({pc}, "poems")
  \/ CreatePoems
  \/ pc = "canonical_id" /\ Create({pc}, "canonical_fingerprint")
  \/ pc = "canonical_fingerprint" /\ Create({pc}, "dropUnique")
  \/ pc = "canonicalIndex" /\ Create({pc}, "sources")
  \/ pc = "sources" /\ Create({pc}, "countIndex")

\* A look for the index after it has been created.
CountIndexTooLate ==
  /\ pc = "countIndex" /\ pc' = "fts"
  /\ existed' = TRUE
  /\ UNCHANGED <<schema, poems, index, lang, rest>>

CountIndex ==
  /\ pc = "countIndex" /\ pc' = "fts"
  /\ existed' = ("fts" \in schema[lang])
  /\ UNCHANGED <<schema, poems, index, lang, rest>>

CreateIndex ==
  \/ pc = "fts" /\ Create({pc}, "ai")
  \/ pc = "ai" /\ Create({pc}, "ad")
  \/ pc = "ad" /\ Create({pc}, "au")
  \/ pc = "au" /\ Create({pc}, "backfill")

\* The texts of some poems, which the index has from now on beside what it had.
With(l, ids, rows) ==
  [i \in DOMAIN index[l] \cup ids |-> IF i \in ids THEN rows[i].text ELSE index[l][i]]

\* An index that is filled by every Migrate: a row that is there is an error.
BackfillAlways ==
  /\ pc = "backfill"
  /\ IF DOMAIN index[lang] \cap DOMAIN poems[lang] = {}
     THEN pc' = "dynastyRows" /\ index' = [index EXCEPT ![lang] = With(lang, DOMAIN poems[lang], poems[lang])]
     ELSE pc' = "off" /\ UNCHANGED index
  /\ UNCHANGED <<schema, poems, lang, existed, rest>>

\* The one-time fill, by the Migrate that found no index.
Backfill ==
  /\ pc = "backfill" /\ pc' = "dynastyRows"
  /\ index' = IF existed THEN index
                         ELSE [index EXCEPT ![lang] = With(lang, DOMAIN poems[lang], poems[lang])]
  /\ UNCHANGED <<schema, poems, lang, existed, rest>>

\* Seeding that leaves the traditional tables out.
SeedOneLanguage ==
  \/ pc = "dynastyRows" /\ Create({pc}, "typeRows")
  \/ pc = "typeRows" /\ Create({pc}, "version")

\* The initial rows, and on to the traditional tables.
Seed ==
  \/ pc = "dynastyRows" /\ Create({pc}, "typeRows")
  \/ pc = "typeRows" /\ lang = "Hant" /\ Create({pc}, "version")
  \/ /\ pc = "typeRows" /\ lang = "Hans"
     /\ pc' = "dynasties" /\ lang' = "Hant"
     /\ schema' = [schema EXCEPT ![lang] = @ \cup {pc}]
     /\ UNCHANGED <<poems, index, existed, rest>>

-----------------------------------------------------------------------------
(* Writers, after a Migrate that returned nil. *)

\* Triggers.  FTS5 refuses a row whose number it has.
OnInsert(l, i, row) == [index EXCEPT ![l] = IF "ai" \in schema[l] THEN With(l, {i}, [j \in {i} |-> row]) ELSE @]
OnDeleteNothing(l, i) == index
OnDelete(l, i) ==
  [index EXCEPT ![l] = IF "ad" \in schema[l] THEN [j \in DOMAIN @ \ {i} |-> @[j]] ELSE @]
OnUpdate(l, rows) == [index EXCEPT ![l] = IF "au" \in schema[l] THEN With(l, DOMAIN rows, rows) ELSE @]

CountWrite == writes < MaxWrites /\ writes' = writes + 1

Written == <<schema, shared, old, pc, lang, existed, torn, stops>>

\* An insert, where no row has the number or the identity (otherwise it does nothing).
Insert(l, i, row) ==
  /\ pc = "ready" /\ CountWrite
  /\ i \notin DOMAIN poems[l] /\ i \notin DOMAIN index[l]
  /\ row.canonical # NoIdentity => \A j \in DOMAIN poems[l] : poems[l][j].canonical # row.canonical
  /\ poems' = [poems EXCEPT ![l] = [j \in DOMAIN @ \cup {i} |-> IF j = i THEN row ELSE @[j]]]
  /\ index' = OnInsert(l, i, row)
  /\ UNCHANGED Written

\* The processor sets the timestamps of all rows.
NormalizeTimestamps(l) ==
  /\ pc = "ready" /\ CountWrite
  /\ index' = OnUpdate(l, poems[l])
  /\ UNCHANGED <<poems, Written>>

\* An upsert (UpsertPoem) of a number that is there; of another one it is an insert.
Update(l, i, t) ==
  /\ pc = "ready" /\ CountWrite
  /\ i \in DOMAIN poems[l]
  /\ poems' = [poems EXCEPT ![l][i].text = t]
  /\ index' = OnUpdate(l, [j \in {i} |-> [poems[l][i] EXCEPT !.text = t]])
  /\ UNCHANGED Written

Delete(l, i) ==
  /\ pc = "ready" /\ CountWrite
  /\ i \in DOMAIN poems[l]
  /\ poems' = [poems EXCEPT ![l] = [j \in DOMAIN @ \ {i} |-> @[j]]]
  /\ index' = OnDelete(l, i)
  /\ UNCHANGED Written

Close ==
  /\ pc = "ready" /\ pc' = "off"
  /\ UNCHANGED <<schema, poems, index, lang, existed, rest>>

-----------------------------------------------------------------------------
\* The index is there and not filled, by the Migrate that made it.
Unfilled == pc \in {"ai", "ad", "au", "backfill"} /\ ~existed

\* The program is killed, the machine loses power, or a statement fails.
Stop ==
  /\ pc # "off" /\ stops < MaxStops
  /\ pc' = "off" /\ stops' = stops + 1
  /\ torn' = IF Unfilled THEN torn \cup {lang} ELSE torn
  /\ UNCHANGED <<schema, shared, poems, index, old, lang, existed, writes>>

MigrateStep ==
  \/ Begin \/ CreateShared \/ InspectAuthors \/ CreateTables \/ DropUnique
  \/ CountIndex \/ CreateIndex \/ Backfill \/ Seed

WriteStep ==
  \E l \in Languages :
    \/ NormalizeTimestamps(l)
    \/ \E i \in Ids : \/ \E row \in Row : Insert(l, i, row)
                      \/ \E t \in Texts : Update(l, i, t)
                      \/ Delete(l, i)

Next == MigrateStep \/ WriteStep \/ Close \/ Stop

Spec == Init /\ [][Next]_vars

\* A running Migrate goes on, and somebody runs one that has stopped again.
FairSpec == Spec /\ WF_vars(MigrateStep)

-----------------------------------------------------------------------------
(* Properties. *)

\* In no state, half way through a migration included, does a search find a poem
\* by a text it does not have (comment at migrate.go:364: triggers keep the index
\* in step with every insert, update and delete).
NothingStale ==
  \A l \in Languages : \A i \in DOMAIN index[l] :
    i \in DOMAIN poems[l] /\ index[l][i] = poems[l][i].text

\* The index of a migrated database lacks no poem but one of before the first
\* migration that nobody has written since, and that only if a Migrate stopped
\* between making the index and filling it: every later one leaves the fill out
\* (migrate.go:433, "a table that was there is up to date", comment at 427).
MissingOnlyAfterStop ==
  pc = "ready" =>
    \A l \in Languages : \A i \in DOMAIN poems[l] \ DOMAIN index[l] :
      l \in torn /\ i \in DOMAIN old[l] /\ poems[l][i] = old[l][i]

Complete == \A l \in Languages : Wanted \subseteq schema[l] /\ schema[l] \cap Legacy = {}

\* The schema version is recorded only for a database whose tables of both
\* languages have everything of it, however often Migrate was stopped before.
VersionMeansComplete == "version" \in shared => Complete /\ Shared \subseteq shared

\* "v2 migration must be safe to repeat" (migrate_v2_test.go:39): no statement of a
\* later Migrate changes a schema, a poem or the index.
RepeatChangesNothing ==
  [][MigrateStep /\ "version" \in shared => UNCHANGED <<schema, shared, poems, index>>]_vars

\* Wherever Migrate was stopped, running it again succeeds in the end, unless the
\* database is one that it refuses.
MigrationSucceeds ==
  (\A l \in Languages : "legacyAuthors" \notin schema[l]) => <>(pc = "ready")
=============================================================================
