------------------------------ MODULE Release ------------------------------
(***************************************************************************)
(* From the files of the corpus to the answers of the API: the command     *)
(* loads a tree and builds a catalogue (Sources), a server opens it, and   *)
(* clients read it page by page (Browse).  The tree may be built again     *)
(* while they do, and the server replaced by one of the new catalogue.     *)
(*                                                                         *)
(* What happens between the loader and the open catalogue is that of       *)
(* Pipeline, OutputPair and Startup, taken here as a single step.          *)
(***************************************************************************)
EXTENDS Browse, Sources

CONSTANT MaxBuilds     \* bound: builds of the tree

\* Every record has an author with a row: what neither the file nor its data set gives
\* an author is by the anonymous one (pipeline.go:187), a person like the others.
ASSUME ReleaseAssumption ==
  /\ MaxBuilds \in Nat
  /\ \A t \in Trees : \A f \in LoadedFiles(t) : \A r \in ToSet(t[f[1]].files[f[2]].records) :
       (IF r.author = "" THEN t[f[1]].author ELSE r.author) \in DOMAIN People

VARIABLE builds        \* the builds that have been started

Published == rows # <<>>

ReleaseInit == BrowseInit /\ LoaderInit /\ builds = 1

\* The command runs, beside the server if there is one.
Build == LoaderNext /\ UNCHANGED <<browsing, builds>>

\* The workers hand over the records in any order; a conflict leaves what there was.
Publish ==
  /\ stage = "ready"
  /\ \E order \in SetToSeqs(ToSet(accepted)) :
       IF Conflict(order) THEN stage' = "conflict" /\ UNCHANGED browsing
       ELSE stage' = "published" /\ Open(Prepared(order))
  /\ UNCHANGED <<tree, keys, paths, poems, decisions, accepted, rejections, report, faulted, builds>>

\* The same tree is built again, by a new process.
BuildAgain ==
  /\ Published /\ stage \in {"published", "failed"}
  /\ builds < MaxBuilds /\ builds' = builds + 1
  /\ Anew
  /\ UNCHANGED browsing

\* A client reads once there is a server.
Read == Published /\ Step /\ UNCHANGED <<building, builds>>

ReleaseNext == Build \/ Publish \/ BuildAgain \/ Read

ReleaseSpec == ReleaseInit /\ [][ReleaseNext]_<<building, browsing, builds>>

-----------------------------------------------------------------------------
(* Properties. *)

\* A tree has one catalogue: whoever builds it again, with the files and the workers
\* in another order, does not move a row of those that clients are reading (comment
\* at repository_poems.go:175).
CatalogueIsReproducible == [][Published => rows' = rows]_rows
=============================================================================
