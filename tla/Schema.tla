------------------------------- MODULE Schema --------------------------------
(***************************************************************************)
(* internal/graph/generated: the schema and the code generated from it.    *)
(*                                                                         *)
(* The server's promise to its clients is the schema: a field declared     *)
(* with "!" is never null, and an error makes null the closest field above *)
(* it that may be.  The generated code keeps it in three places, which are *)
(* tables here: the function of a field says what is marshalled below it,  *)
(* the function of an object counts the nulls it cannot contain, and the   *)
(* function of a list gives way to a null element.  @defer, __typename and *)
(* introspection are left out.                                             *)
(***************************************************************************)
EXTENDS Integers, Sequences

Leaf == "leaf"         \* the type of a scalar
Item == "[]"           \* in a path: an element of the list before it

-----------------------------------------------------------------------------
(* The schema, as it is published to clients. *)

Opt(t) == [type |-> t, required |-> FALSE]
Req(t) == [type |-> t, required |-> TRUE]

QuerySchema ==
  [ poem |-> Opt("Poem"), poems |-> Req("PoemConnection"), searchPoems |-> Req("PoemConnection"),
    randomPoem |-> Opt("Poem"), author |-> Opt("Author"), authors |-> Req("AuthorConnection"),
    dynasties |-> Req("Dynasty"), poemTypes |-> Req("PoetryType"), statistics |-> Req("Statistics") ]

PoemSchema ==
  [ id |-> Req(Leaf), title |-> Req(Leaf), content |-> Req(Leaf),
    author |-> Opt("Author"), dynasty |-> Opt("Dynasty"), type |-> Opt("PoetryType") ]

AuthorSchema ==
  [ id |-> Req(Leaf), name |-> Req(Leaf), dynasty |-> Opt("Dynasty"),
    poems |-> Req("PoemConnection"), poemCount |-> Req(Leaf) ]

DynastySchema ==
  [ id |-> Req(Leaf), name |-> Req(Leaf), nameEn |-> Opt(Leaf), startYear |-> Opt(Leaf), endYear |-> Opt(Leaf),
    poemCount |-> Req(Leaf), authorCount |-> Req(Leaf) ]

PoetryTypeSchema ==
  [ id |-> Req(Leaf), name |-> Req(Leaf), category |-> Req(Leaf), lines |-> Opt(Leaf), charsPerLine |-> Opt(Leaf),
    description |-> Opt(Leaf), poemCount |-> Req(Leaf) ]

ConnectionSchema(edge) == [ edges |-> Req(edge), pageInfo |-> Req("PageInfo"), totalCount |-> Req(Leaf) ]
EdgeSchema(node) == [ node |-> Req(node), cursor |-> Req(Leaf) ]

PageInfoSchema ==
  [ hasNextPage |-> Req(Leaf), hasPreviousPage |-> Req(Leaf), startCursor |-> Opt(Leaf), endCursor |-> Opt(Leaf) ]

StatisticsSchema ==
  [ totalPoems |-> Req(Leaf), totalAuthors |-> Req(Leaf), totalDynasties |-> Req(Leaf),
    poemsByDynasty |-> Req("DynastyStats"), poemsByType |-> Req("TypeStats") ]

ShareSchema ==
  [ DynastyStats |-> [dynasty |-> Req("Dynasty"), count |-> Req(Leaf)],
    TypeStats    |-> [type |-> Req("PoetryType"), count |-> Req(Leaf)] ]

SchemaOf(t) ==
  CASE t = "Query"            -> QuerySchema
    [] t = "Poem"             -> PoemSchema
    [] t = "Author"           -> AuthorSchema
    [] t = "Dynasty"          -> DynastySchema
    [] t = "PoetryType"       -> PoetryTypeSchema
    [] t = "PoemConnection"   -> ConnectionSchema("PoemEdge")
    [] t = "AuthorConnection" -> ConnectionSchema("AuthorEdge")
    [] t = "PoemEdge"         -> EdgeSchema("Poem")
    [] t = "AuthorEdge"       -> EdgeSchema("Author")
    [] t = "PageInfo"         -> PageInfoSchema
    [] t = "Statistics"       -> StatisticsSchema
    [] OTHER                  -> ShareSchema[t]

-----------------------------------------------------------------------------
(* The functions of fields: the type whose object function marshals the    *)
(* result of the resolver, or of the property that is read.                *)

QueryPoemFields == [ poem |-> "Poem", poems |-> "PoemConnection", searchPoems |-> "PoemConnection" ]
QueryAuthorFields == [ randomPoem |-> "Poem", author |-> "Author", authors |-> "AuthorConnection" ]
QueryCountFields == [ dynasties |-> "Dynasty", poemTypes |-> "PoetryType", statistics |-> "Statistics" ]

PoemFields ==
  [ id |-> Leaf, title |-> Leaf, content |-> Leaf, author |-> "Author", dynasty |-> "Dynasty", type |-> "PoetryType" ]

AuthorFields ==
  [ id |-> Leaf, name |-> Leaf, dynasty |-> "Dynasty", poems |-> "PoemConnection", poemCount |-> Leaf ]

DynastyFields ==
  [ f \in {"id", "name", "nameEn", "startYear", "endYear", "poemCount", "authorCount"} |-> Leaf ]

PoetryTypeFields ==
  [ f \in {"id", "name", "category", "lines", "charsPerLine", "description", "poemCount"} |-> Leaf ]

PoemConnectionFields == [ edges |-> "PoemEdge", pageInfo |-> "PageInfo", totalCount |-> Leaf ]
PoemEdgeFields == [ node |-> "Poem", cursor |-> Leaf ]
AuthorConnectionFields == [ edges |-> "AuthorEdge", pageInfo |-> "PageInfo", totalCount |-> Leaf ]
AuthorEdgeFields == [ node |-> "Author", cursor |-> Leaf ]
PageInfoFields == [ f \in {"hasNextPage", "hasPreviousPage", "startCursor", "endCursor"} |-> Leaf ]

StatisticsFields ==
  [ totalPoems |-> Leaf, totalAuthors |-> Leaf, totalDynasties |-> Leaf,
    poemsByDynasty |-> "DynastyStats", poemsByType |-> "TypeStats" ]

DynastyStatsFields == [ dynasty |-> "Dynasty", count |-> Leaf ]
TypeStatsFields == [ type |-> "PoetryType", count |-> Leaf ]

\* Which function is called for a field of an object.
FieldType(t, f) ==
  CASE t = "Query" /\ f \in DOMAIN QueryPoemFields   -> QueryPoemFields[f]
    [] t = "Query" /\ f \in DOMAIN QueryAuthorFields -> QueryAuthorFields[f]
    [] t = "Query" /\ f \in DOMAIN QueryCountFields  -> QueryCountFields[f]
    [] t = "Poem"             -> PoemFields[f]
    [] t = "Author"           -> AuthorFields[f]
    [] t = "Dynasty"          -> DynastyFields[f]
    [] t = "PoetryType"       -> PoetryTypeFields[f]
    [] t = "PoemConnection"   -> PoemConnectionFields[f]
    [] t = "PoemEdge"         -> PoemEdgeFields[f]
    [] t = "AuthorConnection" -> AuthorConnectionFields[f]
    [] t = "AuthorEdge"       -> AuthorEdgeFields[f]
    [] t = "PageInfo"         -> PageInfoFields[f]
    [] t = "Statistics"       -> StatisticsFields[f]
    [] t = "DynastyStats"     -> DynastyStatsFields[f]
    [] t = "TypeStats"        -> TypeStatsFields[f]

-----------------------------------------------------------------------------
(* The functions of objects: the fields whose null is counted as invalid   *)
(* and makes the whole object null.  A lookup's or a relation's is not.    *)

QueryPoemObject == {"poems", "searchPoems"}

\* A statistics field that may be missing.
StatisticsMayFail == {"authors", "dynasties", "poemTypes"}
QueryObject == {"authors", "dynasties", "poemTypes", "statistics"}

\* A relation that takes the poem with it.
PoemNeedsItsType == {"id", "title", "content", "type"}
PoemObject == {"id", "title", "content"}
AuthorObject == {"id", "name", "poems", "poemCount"}
DynastyObject == {"id", "name", "poemCount", "authorCount"}
PoetryTypeObject == {"id", "name", "category", "poemCount"}
PoemConnectionObject == {"edges", "pageInfo", "totalCount"}
PoemEdgeObject == {"node", "cursor"}
AuthorConnectionObject == {"edges", "pageInfo", "totalCount"}
AuthorEdgeObject == {"node", "cursor"}
PageInfoObject == {"hasNextPage", "hasPreviousPage"}
StatisticsObject == {"totalPoems", "totalAuthors", "totalDynasties", "poemsByDynasty", "poemsByType"}
DynastyStatsObject == {"dynasty", "count"}
TypeStatsObject == {"type", "count"}

Invalidating(t) ==
  CASE t = "Query"            -> QueryPoemObject \cup QueryObject
    [] t = "Poem"             -> PoemObject
    [] t = "Author"           -> AuthorObject
    [] t = "Dynasty"          -> DynastyObject
    [] t = "PoetryType"       -> PoetryTypeObject
    [] t = "PoemConnection"   -> PoemConnectionObject
    [] t = "PoemEdge"         -> PoemEdgeObject
    [] t = "AuthorConnection" -> AuthorConnectionObject
    [] t = "AuthorEdge"       -> AuthorEdgeObject
    [] t = "PageInfo"         -> PageInfoObject
    [] t = "Statistics"       -> StatisticsObject
    [] t = "DynastyStats"     -> DynastyStatsObject
    [] t = "TypeStats"        -> TypeStatsObject

\* A list with a null element is null: every list function ends so.
ListGivesWay(step) == step = Item

-----------------------------------------------------------------------------
(* Where an error ends up.  A path is a sequence of field names and items. *)

\* The type at the i-th step of a path, following a table of types.
TypeAlong(Table(_, _), p, i) ==
  LET type[j \in 0 .. i] ==
        IF j = 0 THEN "Query" ELSE IF p[j] = Item THEN type[j - 1] ELSE Table(type[j - 1], p[j])
  IN  IF i = 0 THEN "Query" ELSE type[i]

\* The null of the i-th step is one the object or list that contains it gives way to.
GivesWay(p, i) == ListGivesWay(p[i]) \/ p[i] \in Invalidating(TypeAlong(FieldType, p, i - 1))

\* The closest step that may be null, 0 when it is the whole of the data.
Stop(p, Passes(_, _)) ==
  CHOOSE i \in 0 .. Len(p) : (i > 0 => ~ Passes(p, i)) /\ \A j \in i + 1 .. Len(p) : Passes(p, j)

\* What the code makes null for an error at a path.
NulledBy(p) == SubSeq(p, 1, Stop(p, GivesWay))

\* What the schema says: elements of lists and fields with "!" are required.
Required(p, i) ==
  LET Declared(t, f) == SchemaOf(t)[f].type
  IN  p[i] = Item \/ SchemaOf(TypeAlong(Declared, p, i - 1))[p[i]].required
DeclaredNull(p) == SubSeq(p, 1, Stop(p, Required))
=============================================================================
