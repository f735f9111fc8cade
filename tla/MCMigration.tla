----------------------------- MODULE MCMigration -----------------------------
(***************************************************************************)
(* Migrations for TLC: an empty file, databases of version 1 with a poem   *)
(* in both languages or in one, and one with ungoverned authors, which is  *)
(* refused half way.                                                       *)
(***************************************************************************)
EXTENDS Migration

NoRows == [i \in {} |-> "none"]
OneRow == [i \in {1} |-> [text |-> "a", canonical |-> NoIdentity]]
Database(s, p, t, q) == [schema |-> [Hans |-> s, Hant |-> t], poems |-> [Hans |-> p, Hant |-> q]]

Version1 == {"poems", "unique"}
Found ==
  {Database({}, NoRows, {}, NoRows),
   Database(Version1, OneRow, Version1, OneRow),
   Database(Version1, NoRows, {"poems"}, OneRow),
   Database(Version1, OneRow, {"legacyAuthors"}, NoRows)}
=============================================================================
