------------------------------ MODULE Response -------------------------------
(***************************************************************************)
(* One GraphQL operation from its admission to its response.               *)
(*                                                                         *)
(* The operation is priced before anything is resolved, and refused above  *)
(* the limit of the configuration (cmd/server, internal/graph/complexity). *)
(* Its fields are then resolved as GraphCounts says, and the generated     *)
(* code writes the response: what failed is null there, and so is          *)
(* everything above it that cannot contain the null.                       *)
(***************************************************************************)
EXTENDS GraphCounts, Schema, FiniteSetsExt

CONSTANTS ComplexityLimit,
          NestedAuthorPoemsIOCost

\* The rows a field may be about: a page has no more than it was asked for, and
\* none if it is refused (LIMIT, repository_poems.go).
RowLimit(f) ==
  CASE Fields[f].kind \in Paged -> IF Fields[f].size \in 1 .. MaxPageSize THEN Fields[f].size ELSE 0
    [] Fields[f].kind \in {"poem", "author"} -> 1
    [] OTHER -> 0

\* An operation has finitely many fields; poems and authors have primary keys
\* (migrate.go:265); a field is about as many rows as its query returns.  A field
\* may be nested below it any number of times under different aliases; of each
\* there is one instance at most for a row.  The charge for a nested page, 20 in
\* the code, covers the statements of the page.
ASSUME ResponseAssumption ==
  /\ ComplexityLimit \in Nat
  /\ NestedAuthorPoemsIOCost \in Nat /\ NestedAuthorPoemsIOCost >= 7
  /\ \A o \in Operations : IsFiniteSet(o)
  /\ \A l \in Langs : \A p, q \in Poems[l] : p.id = q.id => p = q
  /\ \A l \in Langs : \A a, b \in Authors[l] : a.id = b.id => a = b
  /\ \A f \in DOMAIN Fields : IsFiniteSet(Fields[f].rows) /\ Cardinality(Fields[f].rows) <= RowLimit(f)
  /\ \A o \in Operations : \A f \in o : \A a \in {Fields[g].alias : g \in o} :
       Cardinality({g \in o : Fields[g].parent = f /\ Fields[g].alias = a}) <= Cardinality(Fields[f].rows)

VARIABLES verdict,   \* asked, admitted, refused or answered
          nulls      \* what the response lacks: a root field and the path from it

allVars == <<vars, verdict, nulls>>

-----------------------------------------------------------------------------
(* What an operation selects.  A field that asks for counts selects all of *)
(* them, another one leaf; a nested author.poems is selected, under its    *)
(* alias, once for all rows of its parent, of which each has an instance.  *)

CountName(c) == IF c = "poems" THEN "poemCount" ELSE "authorCount"

DynastyCounts(at) == {at \o <<"dynasty", "poemCount">>, at \o <<"dynasty", "authorCount">>}
AuthorCounts(at) == {at \o <<"poemCount">>} \cup DynastyCounts(at)
PoemCounts(at) == AuthorCounts(at \o <<"author">>) \cup DynastyCounts(at) \cup {at \o <<"type", "poemCount">>}

Selection(kind) ==
  CASE kind = "statistics" -> DynastyCounts(<<"poemsByDynasty", Item>>) \cup {<<"poemsByType", Item, "type", "poemCount">>}
    [] kind = "dynasties"  -> {<<Item, "poemCount">>, <<Item, "authorCount">>}
    [] kind = "poemTypes"  -> {<<Item, "poemCount">>}
    [] kind = "author"     -> AuthorCounts(<< >>)
    [] kind = "authors"    -> AuthorCounts(Row)
    [] kind = "poem"       -> PoemCounts(<< >>)
    [] OTHER               -> PoemCounts(Row)

\* Where the author is whose poems a nested field asks for.
AuthorPlace(parent) ==
  CASE Fields[parent].kind = "author"  -> << >>
    [] Fields[parent].kind = "authors" -> Row
    [] Fields[parent].kind = "poem"    -> <<"author">>
    [] OTHER                           -> Row \o <<"author">>

NestedIn(o, f) == {g \in o : Parent(g) = f}
Selected(o, f) ==
  (IF Fields[f].deep THEN Selection(Fields[f].kind) ELSE {})
    \cup (IF NestedIn(o, f) # {} THEN {AuthorPlace(f)} ELSE IF Fields[f].deep THEN {} ELSE {<<"id">>})

-----------------------------------------------------------------------------
(* The price of an operation. *)

\* A field without a price of its own costs one more than what is selected below it.
UnpricedCost(selection) ==
  Cardinality({q \in UNION {{SubSeq(p, 1, i) : i \in 1 .. Len(p)} : p \in selection} : q[Len(q)] # Item})

\* A page costs its rows, whatever its size was asked to be.
PageCost(size, child) ==
  1 + child * (IF size < 1 THEN 1 ELSE IF size > MaxPageSize THEN MaxPageSize ELSE size)

\* A nested page priced like another.
NestedLikeAnother(size, child) == PageCost(size, child)
AuthorPoemsCost(size, child) == NestedAuthorPoemsIOCost + PageCost(size, child)

QueryCost(f, child) == IF Fields[f].kind \in Paged THEN PageCost(Fields[f].size, child) ELSE 1 + child

FieldCost(f, child) == IF Nested(f) THEN AuthorPoemsCost(Fields[f].size, child) ELSE QueryCost(f, child)

\* What is nested below the rows of a field is selected, and priced, once for all of
\* them: the instance below which most is asked for has the whole selection.  Each
\* alias is a selection of its own, and their prices add up.
Aliases(o, f) == {Fields[g].alias : g \in NestedIn(o, f)}
Under(o, f, a) == {g \in NestedIn(o, f) : Fields[g].alias = a}

NestedCost(o, f, cost) ==
  SumFunction([a \in Aliases(o, f) |-> Max({cost[g] : g \in Under(o, f, a)})])

Cost(o) ==
  LET cost[f \in o] == FieldCost(f, UnpricedCost(Selected(o, f)) + NestedCost(o, f, cost))
  IN  cost

Roots == {f \in operation : ~ Nested(f)}
Complexity == SumFunctionOnSet(Cost(operation), Roots)

-----------------------------------------------------------------------------
(* The response. *)

\* The root field above a field, and the path from it.
PlaceOf(f) ==
  LET place[g \in operation] ==
        IF Nested(g)
        THEN [field |-> place[Parent(g)].field, path |-> place[Parent(g)].path \o AuthorPlace(Parent(g)) \o <<"poems">>]
        ELSE [field |-> g, path |-> <<Fields[g].kind>>]
  IN  place[f]

RootOf(f) == PlaceOf(f).field
PathOf(f) == PlaceOf(f).path

\* The count fields below a field that were reached and not answered.
FailedAsks(f) ==
  IF status[f] = "resolved"
  THEN {a \in Reached(f, paths[f]) \ asks[f] :
          ~ \E b \in answers : b.field = f /\ b.key = a.key /\ b.count = a.count /\ b.at = a.at}
  ELSE {}

\* Every error, with the root field and the path of the field it is about.
Errors ==
  {[field |-> RootOf(f), path |-> PathOf(f)] : f \in {g \in operation : status[g] = "failed"}}
    \cup UNION {{[field |-> RootOf(f), path |-> PathOf(f) \o a.at \o <<CountName(a.count)>>] : a \in FailedAsks(f)} : f \in operation}

\* The places below a field at which something is selected.
Wanted(f) ==
  {a.at : a \in {b \in Below(f, paths[f]) : Fields[f].deep}}
    \cup {AuthorPlace(f) : g \in NestedIn(operation, f)}

\* A relation that could not be loaded is null, without an error.
LostRelations ==
  UNION {{[field |-> RootOf(f), path |-> PathOf(f) \o q] : q \in {p \in LostPlaces(f) : \E w \in Wanted(f) : IsPrefix(p, w)}} :
           f \in {g \in operation : status[g] = "resolved"}}

NullOf(e) == [field |-> e.field, path |-> NulledBy(e.path)]
DataLost == \E n \in nulls : n.path = << >>

-----------------------------------------------------------------------------
OperationAsked == Init /\ verdict = "asked" /\ nulls = {}

Admit ==
  /\ verdict = "asked" /\ Complexity <= ComplexityLimit
  /\ verdict' = "admitted"
  /\ UNCHANGED <<vars, nulls>>

Refuse ==
  /\ verdict = "asked" /\ Complexity > ComplexityLimit
  /\ verdict' = "refused"
  /\ UNCHANGED <<vars, nulls>>

Resolve(f) ==
  /\ verdict = "admitted"
  /\ FieldStep(f)
  /\ UNCHANGED <<verdict, nulls>>

Respond ==
  /\ verdict = "admitted"
  /\ \A f \in operation : Idle(f)
  /\ verdict' = "answered"
  /\ nulls' = {NullOf(e) : e \in Errors \cup LostRelations}
  /\ UNCHANGED vars

Sent == verdict \in {"refused", "answered"} /\ UNCHANGED allVars

ResponseStep == Admit \/ Refuse \/ Respond \/ \E f \in operation : Resolve(f)
ResponseNext == ResponseStep \/ Sent

\* Some goroutine that can run does run, and the database answers.  Which one is
\* left to the scheduler: no fairness between the fields is needed.
ResponseSpec == OperationAsked /\ [][ResponseNext]_allVars /\ WF_allVars(ResponseStep)

-----------------------------------------------------------------------------
(* Properties. *)

\* The statements a resolver makes for its first query: a page counts its rows, reads
\* them and loads their relations; a random poem is counted, found, and read by its id.
FirstStatements(kind) ==
  CASE kind = "poem" -> 7
    [] kind \in {"poems", "author.poems", "statistics"} -> 5
    [] kind = "authors" -> 3
    [] kind = "author"  -> 2
    [] OTHER            -> 1
Begun(f) == queries[f] > 0 \/ (status[f] = "failed" /\ PageFits(f))
Spent(f) == IF Begun(f) THEN FirstStatements(Fields[f].kind) + queries[f] - 1 - Cardinality(dropped[f]) ELSE 0

\* Those that failed are among them as faults.
Statements == SumFunction([f \in operation |-> Spent(f)]) + Cardinality({a \in answers : a.queried}) + faults

\* An operation that is answered made no more statements than it was priced at,
\* but for the eight that reading one page by itself may take: neither the rows
\* of a page nor what is nested below them can make the work outgrow the limit
\* (comments at complexity.go:14 and 45, and at prefetch.go:81).
WorkIsPriced == verdict = "answered" => Statements <= Complexity + 8 * Cardinality(Roots)

\* What is missing from a response: a field that was never started, or a count field
\* without an answer.
Unanswered ==
  {[field |-> RootOf(f), path |-> PathOf(f)] : f \in {g \in operation : status[g] # "resolved"}}
    \cup UNION {{[field |-> RootOf(f), path |-> PathOf(f) \o b.at \o <<CountName(b.count)>>] :
                    b \in {a \in Below(f, paths[f]) : Fields[f].deep
                             /\ ~ \E c \in answers : c.field = f /\ c.key = a.key /\ c.count = a.count /\ c.at = a.at}} :
                  f \in {g \in operation : status[g] = "resolved"}}

\* An error makes null the closest field that the schema declares nullable: one below
\* a poem costs a relation of the poem, one below an author that author, and only the
\* error of a collection or of the statistics costs the data of the other fields.  A
\* relation whose query failed is null by itself, although no error says so, and takes
\* nothing else with it (repository_poems.go:46, 109).  Nothing but these is null, and
\* whatever was asked for and has no answer is at or below one of these nulls.
ErrorsStayInPlace ==
  verdict = "answered" =>
    /\ nulls = {[field |-> e.field, path |-> DeclaredNull(e.path)] : e \in Errors} \cup LostRelations
    /\ \A u \in Unanswered : \E n \in nulls : n.field = u.field /\ IsPrefix(n.path, u.path)

\* A wrong authorCount never stands alone in a response: if it is delivered, the
\* statistics of its language, which give the right count, are delivered with it.
\* When the statistics field fails instead, the whole data is null.
WrongCountIsContradicted ==
  verdict = "answered" /\ ~ DataLost =>
    \A a \in answers : a.value # Truth(a) =>
      \E g \in operation : Fields[g].kind = "statistics" /\ Fields[g].lang = Fields[a.field].lang /\ status[g] = "resolved"

\* Every operation is answered or refused, whichever queries fail.
ResponseIsSent == <>(verdict \in {"refused", "answered"})
=============================================================================
