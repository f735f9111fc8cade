--------------------------- MODULE ReleaseProofs ----------------------------
(***************************************************************************)
(* The loader and its report, for every tree of files, every order in      *)
(* which data sets and directories are listed, every hash of places and    *)
(* every failing read; the catalogue that is built of a tree, whoever      *)
(* builds it; and those who read it page by page.                          *)
(*                                                                         *)
(* The argument: while it loads, the records in hand are, in order, those  *)
(* of the files that come before what is left, and there is one decision   *)
(* for each of these files and for each excluded one.  FinalizeReport      *)
(* looks decisions up by path alone.  It goes on exactly if no two data    *)
(* sets name a file that has records, and then each record is counted for  *)
(* the decision on its own file, so that the totals add up.                *)
(*                                                                         *)
(* And the clients that read the catalogue: what they have been shown is   *)
(* what comes before the page they are at, because the place of a row is   *)
(* the number of rows before it in any order that the database chooses.    *)
(***************************************************************************)
EXTENDS Release, CatalogProofs

\* The file that a decision is about, and where a record is from.
FileOf(d) == <<d.dataset, d.path>>

\* The files that are loaded, and those that are excluded, so far.
DoneFiles ==
  {f \in LoadedFiles(tree) :
     f[1] \notin ToSet(keys) \/ (stage = "files" /\ f[1] = Head(keys) /\ f[2] \notin ToSet(paths))}
DoneExcluded ==
  {f \in ExcludedFiles(tree) : f[1] \notin ToSet(keys) \/ (stage = "files" /\ f[1] = Head(keys))}

Rising(s) == s \in Seq(Nat) /\ \A i, j \in DOMAIN s : i < j => s[i] < s[j]

\* What is still to be loaded comes after everything that is.
KeysLeft ==
  /\ Rising(keys) /\ ToSet(keys) \subseteq DOMAIN tree
  /\ \A k \in DOMAIN tree \ ToSet(keys) : \A l \in ToSet(keys) : k < l
PathsLeft ==
  stage = "files" =>
    /\ keys # <<>> /\ tree[Head(keys)].kind # "missing"
    /\ Rising(paths) /\ \A p \in ToSet(paths) : <<Head(keys), p>> \in LoadedFiles(tree)
    /\ \A f \in LoadedFiles(tree) : f[1] = Head(keys) /\ f[2] \notin ToSet(paths) => \A p \in ToSet(paths) : f[2] < p

\* Nothing that was passed keeps the tree from being built.
Readable(t, loadedOnes, excludedOnes, passed) ==
  /\ \A k \in passed : t[k].kind # "missing"
  /\ \A f \in loadedOnes \cup excludedOnes : t[f[1]].files[f[2]].inside
  /\ \A f \in loadedOnes : t[f[1]].files[f[2]].dated /\ t[f[1]].files[f[2]].parses

\* The records in hand are those of some files, in order, each once.
PlacesOf(t, files) == UNION {{<<f[1], f[2], i>> : i \in DOMAIN t[f[1]].files[f[2]].records} : f \in files}
RecordsOf(t, s, files) == s \in Seq(ToSet(s)) /\ Places(s) = PlacesOf(t, files) /\ InOrder(s)
AsLoaded(s) == \A j \in DOMAIN s : s[j] = Record(s[j].dataset, s[j].path, s[j].index)
AsClassified(s) == \A j \in DOMAIN s : s[j] = Classified(Record(s[j].dataset, s[j].path, s[j].index))

\* The decisions are those on some files, each once.
Verdict(f) ==
  IF f \in LoadedFiles(tree) THEN Decision(f[1], f[2], "loaded", Loaded(f[1], f[2]))
  ELSE Decision(f[1], f[2], "excluded", <<>>)
AsDecided(s) == \A i \in DOMAIN s : s[i] = Verdict(FileOf(s[i]))
DecisionsOn(s, files) ==
  /\ s \in Seq(ToSet(s))
  /\ {FileOf(s[i]) : i \in DOMAIN s} = files
  /\ \A i, j \in DOMAIN s : FileOf(s[i]) = FileOf(s[j]) => i = j

Loading ==
  stage \in {"datasets", "files"} =>
    /\ KeysLeft /\ PathsLeft
    /\ Readable(tree, DoneFiles, DoneExcluded, DOMAIN tree \ ToSet(keys))
    /\ RecordsOf(tree, poems, DoneFiles) /\ AsLoaded(poems)
    /\ DecisionsOn(decisions, DoneFiles \cup DoneExcluded) /\ AsDecided(decisions)

InReportOrder(s) == \A i, j \in DOMAIN s : i < j => ReportedBefore(s[i], s[j])
AllRead ==
  /\ Readable(tree, LoadedFiles(tree), ExcludedFiles(tree), DOMAIN tree)
  /\ RecordsOf(tree, poems, LoadedFiles(tree))
  /\ DecisionsOn(decisions, LoadedFiles(tree) \cup ExcludedFiles(tree)) /\ AsDecided(decisions)
  /\ InReportOrder(decisions)
Partitioned ==
  /\ AsClassified(poems)
  /\ accepted = Subsequence(poems, Unreasoned(poems)) /\ rejections = Subsequence(poems, Reasoned(poems))
Reported == Accounts(Recounted) /\ report = Report(Recounted)
Reconciled == report.total = Len(poems) /\ report.accepted = Len(accepted) /\ report.rejected = Len(rejections)

AllLoaded ==
  /\ stage \in {"loaded", "partitioned", "accounted", "ready"} => AllRead
  /\ stage = "loaded" => AsLoaded(poems)
  /\ stage \in {"partitioned", "accounted", "ready"} => Partitioned
  /\ stage \in {"accounted", "ready"} => Reported
  /\ stage = "ready" => Reconciled

Refused == stage = "failed" => faulted \/ ~SoundTree(tree)

LoaderInv == tree \in Trees /\ Loading /\ AllLoaded /\ Refused

-----------------------------------------------------------------------------
(* Listings. *)

LEMMA RisingTail ==
  ASSUME NEW s, Rising(s), s # <<>>
  PROVE  /\ Rising(Tail(s)) /\ Head(s) \in ToSet(s) /\ Head(s) \in Nat
         /\ ToSet(Tail(s)) = ToSet(s) \ {Head(s)}
         /\ \A x \in ToSet(Tail(s)) : Head(s) < x
<1>1. s \in Seq(Nat) /\ DOMAIN s = 1 .. Len(s) /\ Len(s) \in Nat \ {0} /\ \A i \in 1 .. Len(s) : s[i] \in Nat
  BY DEF Rising
<1>2. /\ Tail(s) \in Seq(Nat) /\ Len(Tail(s)) = Len(s) - 1 /\ Head(s) = s[1]
      /\ \A i \in 1 .. Len(s) - 1 : Tail(s)[i] = s[i + 1]
  BY <1>1, HeadTailProperties
<1>3. DOMAIN Tail(s) = 1 .. Len(s) - 1
  BY <1>2
<1>4. \A i, j \in 1 .. Len(s) : i < j => s[i] < s[j]
  BY <1>1 DEF Rising
<1> DEFINE n == Len(s)
           t == Tail(s)
<1>5. n \in Nat \ {0} /\ t \in Seq(Nat) /\ DOMAIN t = 1 .. n - 1 /\ \A i \in 1 .. n - 1 : t[i] = s[i + 1]
  BY <1>1, <1>2, <1>3
<1>6. ToSet(s) = {s[i] : i \in 1 .. n} /\ ToSet(t) = {t[i] : i \in 1 .. n - 1}
  BY <1>1, <1>3 DEF ToSet
<1> HIDE DEF n, t
<1>7. \A i \in 1 .. n - 1 : i + 1 \in 1 .. n /\ 1 < i + 1
  BY <1>5
<1>8. \A i, j \in 1 .. n - 1 : i < j => t[i] < t[j]
  <2>1. SUFFICES ASSUME NEW i \in 1 .. n - 1, NEW j \in 1 .. n - 1, i < j PROVE s[i + 1] < s[j + 1]
    BY <1>5
  <2>2. i + 1 \in 1 .. n /\ j + 1 \in 1 .. n /\ i + 1 < j + 1
    BY <1>5, <2>1
  <2>3. QED  BY <1>4, <2>2 DEF n
<1>9. Rising(t)
  BY <1>5, <1>8 DEF Rising
<1>10. 1 \in 1 .. n /\ s[1] \in Nat
  BY <1>1, <1>5 DEF n
<1>11. \A i \in 1 .. n : i = 1 \/ (i - 1 \in 1 .. n - 1 /\ (i - 1) + 1 = i)
  BY <1>5
<1>12. \A x \in ToSet(t) : s[1] < x /\ x \in ToSet(s) /\ x \in Nat
  <2>1. SUFFICES ASSUME NEW i \in 1 .. n - 1 PROVE s[1] < s[i + 1] /\ s[i + 1] \in ToSet(s) /\ s[i + 1] \in Nat
    BY <1>5, <1>6
  <2>2. QED  BY <1>1, <1>4, <1>6, <1>7, <1>10 DEF n
<1>13. \A x \in ToSet(s) : x = s[1] \/ x \in ToSet(t)
  <2>1. SUFFICES ASSUME NEW i \in 1 .. n, i # 1 PROVE s[i] \in ToSet(t)
    BY <1>6
  <2>2. i - 1 \in 1 .. n - 1 /\ t[i - 1] = s[i]
    BY <1>5, <1>11, <2>1
  <2>3. QED  BY <1>6, <2>2
<1>14. s[1] \in ToSet(s)
  BY <1>6, <1>10
<1>15. s[1] \notin ToSet(t)
  BY <1>10, <1>12
<1>16. ToSet(t) = ToSet(s) \ {s[1]}
  BY <1>12, <1>13, <1>15
<1>17. QED  BY <1>2, <1>9, <1>10, <1>12, <1>14, <1>16 DEF t

\* Whatever the order in which a set is listed, each of its members is listed once.
LEMMA ListingFacts ==
  ASSUME NEW S, IsFiniteSet(S), NEW s \in SetToSeqs(S)
  PROVE  /\ s \in Seq(S) /\ ToSet(s) = S
         /\ \A i, j \in DOMAIN s : s[i] = s[j] => i = j
<1> DEFINE n == Cardinality(S)
<1>1. n \in Nat
  BY FS_CardinalityType
<1>2. s \in [1 .. n -> S] /\ \A i, j \in 1 .. n : i # j => s[i] # s[j]
  BY DEF SetToSeqs
<1> HIDE DEF n
<1>3. s \in Seq(S) /\ DOMAIN s = 1 .. n
  BY <1>1, <1>2
<1>4. s \in Injection(1 .. n, S)
  BY <1>2 DEF Injection, IsInjective
<1>5. IsFiniteSet(1 .. n) /\ Cardinality(1 .. n) = n
  BY <1>1, FS_Interval
<1>6. s \in Surjection(1 .. n, S)
  BY <1>4, <1>5, FS_Injection DEF n
<1>7. ToSet(s) = S
  BY <1>3, <1>6 DEF ToSet, Surjection
<1>8. QED  BY <1>2, <1>3, <1>7

LEMMA OrderedFacts ==
  ASSUME NEW s, IsFiniteSet(ToSet(s)), ToSet(s) \subseteq Nat
  PROVE  Rising(Ordered(s)) /\ ToSet(Ordered(s)) = ToSet(s)
<1> DEFINE S == ToSet(s)
           t == Ascending(S)
<1>1. S \subseteq Int /\ IsFiniteSet(S)
  OBVIOUS
<1>2. t \in Seq(S) /\ ToSet(t) = S /\ \A i, j \in 1 .. Len(t) : i < j => t[i] < t[j]
  BY <1>1, AscendingFacts
<1>3. S \subseteq Nat
  OBVIOUS
<1>4. Ordered(s) = t
  BY DEF Ordered
<1> HIDE DEF S, t
<1>5. t \in Seq(Nat) /\ DOMAIN t = 1 .. Len(t)
  <2>1. t \in Seq(Nat)
    BY <1>2, <1>3, SeqMonotonic
  <2>2. QED  BY <2>1
<1>6. QED  BY <1>2, <1>4, <1>5 DEF Rising, S

\* What is taken of a listing, each member once.
LEMMA UsedFacts ==
  ASSUME NEW S, NEW s \in Seq(S), \A i, j \in DOMAIN s : s[i] = s[j] => i = j, NEW uses
  PROVE  /\ UsedAs(s, uses) \in Seq(S)
         /\ ToSet(UsedAs(s, uses)) = {p \in ToSet(s) : Current.files[p].use \in uses}
         /\ \A i, j \in DOMAIN UsedAs(s, uses) : UsedAs(s, uses)[i] = UsedAs(s, uses)[j] => i = j
<1> DEFINE P == {i \in DOMAIN s : Current.files[s[i]].use \in uses}
           t == UsedAs(s, uses)
<1>1. t = Subsequence(s, P) /\ P \subseteq DOMAIN s
  BY DEF UsedAs
<1>2. \A i \in P : i \in DOMAIN s /\ Current.files[s[i]].use \in uses
  OBVIOUS
<1>3. \A i \in DOMAIN s : Current.files[s[i]].use \in uses => i \in P
  OBVIOUS
<1> HIDE DEF P, t
<1>4. t \in Seq(S) /\ \E at : Selects(s, P, t, at)
  BY <1>1, SubsequenceFacts
<1>5. PICK at : Selects(s, P, t, at)
  BY <1>4
<1>6. DOMAIN t = 1 .. Len(t)
  BY <1>4
<1>7. \A i \in DOMAIN t : at[i] \in P /\ t[i] = s[at[i]]
  BY <1>5, <1>6 DEF Selects
<1>8. \A i, j \in DOMAIN t : t[i] = t[j] => i = j
  BY <1>2, <1>5, <1>6, <1>7 DEF Selects
<1>9. \A x \in ToSet(t) : x \in ToSet(s) /\ Current.files[x].use \in uses
  BY <1>2, <1>7 DEF ToSet
<1>10. ASSUME NEW x \in ToSet(s), Current.files[x].use \in uses PROVE x \in ToSet(t)
  <2>1. PICK i \in DOMAIN s : s[i] = x
    BY DEF ToSet
  <2>2. PICK k \in 1 .. Len(t) : at[k] = i
    BY <1>3, <1>5, <1>10, <2>1 DEF Selects
  <2>3. QED  BY <1>6, <1>7, <2>1, <2>2 DEF ToSet
<1>11. ToSet(t) = {p \in ToSet(s) : Current.files[p].use \in uses}
  BY <1>9, <1>10
<1>12. QED  BY <1>4, <1>8, <1>11 DEF t

-----------------------------------------------------------------------------
(* Trees. *)

LEMMA TreeFacts ==
  ASSUME tree \in Trees
  PROVE  /\ IsFiniteSet(DOMAIN tree) /\ DOMAIN tree \subseteq Nat
         /\ \A k \in DOMAIN tree :
              /\ tree[k].kind \in Kinds
              /\ IsFiniteSet(DOMAIN tree[k].files) /\ DOMAIN tree[k].files \subseteq Nat
              /\ tree[k].kind = "file" => \E p \in DOMAIN tree[k].files : DOMAIN tree[k].files = {p}
  BY SourcesAssumption DEF WellFormed

\* The files of a tree, and what their records are.
LEMMA FileFacts ==
  ASSUME tree \in Trees
  PROVE  /\ \A f \in LoadedFiles(tree) \cup ExcludedFiles(tree) :
              /\ f = <<f[1], f[2]>> /\ f[1] \in DOMAIN tree /\ f[2] \in DOMAIN tree[f[1]].files
              /\ f[1] \in Nat /\ f[2] \in Nat
         /\ \A k \in DOMAIN tree : \A p \in DOMAIN tree[k].files :
              /\ <<k, p>> \in LoadedFiles(tree) <=>
                   tree[k].kind = "file" \/ (tree[k].kind = "directory" /\ tree[k].files[p].use = "poetry")
              /\ <<k, p>> \in ExcludedFiles(tree) <=>
                   tree[k].kind = "directory" /\ tree[k].files[p].use \in {"listed", "metadata"}
              /\ tree[k].files[p] \in Files
         /\ LoadedFiles(tree) \cap ExcludedFiles(tree) = {}
<1>1. \A k \in DOMAIN tree : k \in Nat /\ \A p \in DOMAIN tree[k].files : p \in Nat
  BY TreeFacts
<1>2. \A f \in AllFiles(tree) : f = <<f[1], f[2]>> /\ f[1] \in DOMAIN tree /\ f[2] \in DOMAIN tree[f[1]].files
  BY DEF AllFiles
<1>3. \A k \in DOMAIN tree : \A p \in DOMAIN tree[k].files : <<k, p>> \in AllFiles(tree)
  BY DEF AllFiles
<1>4. LoadedFiles(tree) \subseteq AllFiles(tree) /\ ExcludedFiles(tree) \subseteq AllFiles(tree)
  BY DEF LoadedFiles, ExcludedFiles
<1>5. \A f \in LoadedFiles(tree) \cup ExcludedFiles(tree) :
        /\ f = <<f[1], f[2]>> /\ f[1] \in DOMAIN tree /\ f[2] \in DOMAIN tree[f[1]].files
        /\ f[1] \in Nat /\ f[2] \in Nat
  BY <1>1, <1>2, <1>4
<1>6. \A f \in AllFiles(tree) : tree[f[1]].files[f[2]] \in Files
  BY SourcesAssumption DEF WellFormed
<1>7. ASSUME NEW k \in DOMAIN tree, NEW p \in DOMAIN tree[k].files
      PROVE  /\ <<k, p>> \in LoadedFiles(tree) <=>
                  tree[k].kind = "file" \/ (tree[k].kind = "directory" /\ tree[k].files[p].use = "poetry")
             /\ <<k, p>> \in ExcludedFiles(tree) <=>
                  tree[k].kind = "directory" /\ tree[k].files[p].use \in {"listed", "metadata"}
             /\ tree[k].files[p] \in Files
  <2> DEFINE f == <<k, p>>
  <2>1. f \in AllFiles(tree) /\ f[1] = k /\ f[2] = p
    BY <1>3
  <2>2. f \in LoadedFiles(tree) <=>
          tree[k].kind = "file" \/ (tree[k].kind = "directory" /\ tree[k].files[p].use = "poetry")
    BY <2>1 DEF LoadedFiles
  <2>3. f \in ExcludedFiles(tree) <=> tree[k].kind = "directory" /\ tree[k].files[p].use \in {"listed", "metadata"}
    BY <2>1 DEF ExcludedFiles
  <2>4. tree[k].files[p] \in Files
    BY <1>6, <2>1
  <2>5. QED  BY <2>2, <2>3, <2>4
<1>8. LoadedFiles(tree) \cap ExcludedFiles(tree) = {}
  BY DEF LoadedFiles, ExcludedFiles
<1>9. QED  BY <1>5, <1>7, <1>8

\* The records of a file, and what the loader makes of them.
LEMMA RecordFields ==
  ASSUME NEW k, NEW p, NEW i
  PROVE  /\ Record(k, p, i).dataset = k /\ Record(k, p, i).path = p /\ Record(k, p, i).index = i
         /\ Place(Record(k, p, i)) = <<k, p, i>>
         /\ Classified(Record(k, p, i)).dataset = k /\ Classified(Record(k, p, i)).path = p
         /\ Classified(Record(k, p, i)).index = i
         /\ Place(Classified(Record(k, p, i))) = <<k, p, i>>
  BY DEF Record, Classified, Place

LEMMA FileRecords ==
  ASSUME tree \in Trees, NEW f \in LoadedFiles(tree)
  PROVE  /\ DOMAIN tree[f[1]].files[f[2]].records = 1 .. Len(tree[f[1]].files[f[2]].records)
         /\ Len(tree[f[1]].files[f[2]].records) \in Nat
         /\ \A i \in DOMAIN tree[f[1]].files[f[2]].records : tree[f[1]].files[f[2]].records[i].text \in Texts
         /\ Loaded(f[1], f[2]) \in Seq(ToSet(Loaded(f[1], f[2])))
         /\ Len(Loaded(f[1], f[2])) = Len(tree[f[1]].files[f[2]].records)
         /\ DOMAIN Loaded(f[1], f[2]) = DOMAIN tree[f[1]].files[f[2]].records
         /\ \A i \in DOMAIN Loaded(f[1], f[2]) : Loaded(f[1], f[2])[i] = Record(f[1], f[2], i)
<1> DEFINE file == tree[f[1]].files[f[2]]
           R == [text : Texts, canonical : STRING, id : Nat, product : STRING, author : STRING]
           s == Loaded(f[1], f[2])
<1>1. f[1] \in DOMAIN tree /\ f[2] \in DOMAIN tree[f[1]].files
  BY FileFacts
<1>2. file \in Files
  BY <1>1, FileFacts
<1>3. file.records \in Seq(R)
  BY <1>2 DEF Files
<1>4. /\ DOMAIN file.records = 1 .. Len(file.records) /\ Len(file.records) \in Nat
      /\ \A i \in DOMAIN file.records : file.records[i] \in R
  <2> HIDE DEF file, R
  <2>1. QED  BY <1>3
<1>5. \A i \in DOMAIN file.records : file.records[i].text \in Texts
  BY <1>4
<1>6. s = [i \in DOMAIN file.records |-> Record(f[1], f[2], i)]
  BY DEF Loaded
<1> HIDE DEF file, s
<1>7. DOMAIN s = 1 .. Len(file.records) /\ \A i \in DOMAIN s : s[i] = Record(f[1], f[2], i)
  BY <1>4, <1>6
<1>8. s \in [1 .. Len(file.records) -> ToSet(s)]
  BY <1>4, <1>6, <1>7 DEF ToSet
<1>9. s \in Seq(ToSet(s)) /\ Len(s) = Len(file.records)
  BY <1>4, <1>8
<1>10. QED  BY <1>4, <1>5, <1>7, <1>9 DEF file, s

-----------------------------------------------------------------------------
(* Records and decisions that are added to those in hand. *)

LEMMA Joined ==
  ASSUME NEW s, NEW t, s \in Seq(ToSet(s)), t \in Seq(ToSet(t))
  PROVE  /\ s \o t \in Seq(ToSet(s \o t)) /\ DOMAIN s = 1 .. Len(s) /\ DOMAIN t = 1 .. Len(t)
         /\ Len(s) \in Nat /\ Len(t) \in Nat
         /\ \A i \in DOMAIN s : (s \o t)[i] = s[i] /\ i \in DOMAIN (s \o t)
         /\ \A i \in DOMAIN t : (s \o t)[Len(s) + i] = t[i] /\ Len(s) + i \in DOMAIN (s \o t)
         /\ \A i \in DOMAIN (s \o t) : i \in DOMAIN s \/ \E j \in DOMAIN t : i = Len(s) + j
<1> DEFINE R == ToSet(s) \cup ToSet(t)
           u == s \o t
           m == Len(s)
           n == Len(t)
<1>1. s \in Seq(R) /\ t \in Seq(R)
  BY SeqMonotonic
<1> HIDE DEF R
<1>2. /\ DOMAIN s = 1 .. m /\ DOMAIN t = 1 .. n /\ m \in Nat /\ n \in Nat
      /\ u \in Seq(R) /\ Len(u) = m + n
      /\ \A i \in 1 .. m + n : u[i] = IF i <= m THEN s[i] ELSE t[i - m]
  BY <1>1, ConcatProperties
<1> HIDE DEF u
<1>3. DOMAIN u = 1 .. m + n /\ u \in Seq(ToSet(u))
  BY <1>2, ElementsOfSequence
<1> HIDE DEF m, n
<1>4. \A i \in 1 .. m : u[i] = s[i] /\ i \in DOMAIN u
  BY <1>2, <1>3
<1>5. ASSUME NEW i \in 1 .. n PROVE u[m + i] = t[i] /\ m + i \in DOMAIN u
  <2>1. m + i \in 1 .. m + n /\ ~(m + i <= m) /\ (m + i) - m = i
    BY <1>2
  <2>2. QED  BY <1>2, <1>3, <2>1
<1>6. ASSUME NEW i \in DOMAIN u, i \notin 1 .. m PROVE \E j \in 1 .. n : i = m + j
  <2>1. i - m \in 1 .. n /\ i = m + (i - m)
    BY <1>2, <1>3, <1>6
  <2>2. QED  BY <2>1
<1>7. \A i \in DOMAIN u : i \in DOMAIN s \/ \E j \in DOMAIN t : i = m + j
  BY <1>2, <1>6
<1>8. QED  BY <1>2, <1>3, <1>4, <1>5, <1>7 DEF u, m, n

\* The records of a file that comes after those in hand are put behind them.
LEMMA RecordsJoin ==
  ASSUME tree \in Trees, NEW s, NEW files, NEW f \in LoadedFiles(tree),
         RecordsOf(tree, s, files), AsLoaded(s),
         \A g \in files : g[1] < f[1] \/ (g[1] = f[1] /\ g[2] < f[2])
  PROVE  RecordsOf(tree, s \o Loaded(f[1], f[2]), files \cup {f}) /\ AsLoaded(s \o Loaded(f[1], f[2]))
<1> DEFINE t == Loaded(f[1], f[2])
           u == s \o t
           I == DOMAIN tree[f[1]].files[f[2]].records
<1>1. t \in Seq(ToSet(t)) /\ DOMAIN t = I /\ \A i \in DOMAIN t : t[i] = Record(f[1], f[2], i)
  BY FileRecords
<1>2. s \in Seq(ToSet(s)) /\ Places(s) = PlacesOf(tree, files) /\ InOrder(s)
  BY DEF RecordsOf
<1> HIDE DEF t
<1>3. /\ u \in Seq(ToSet(u)) /\ DOMAIN s = 1 .. Len(s) /\ DOMAIN t = 1 .. Len(t)
      /\ Len(s) \in Nat /\ Len(t) \in Nat
      /\ \A i \in DOMAIN s : u[i] = s[i] /\ i \in DOMAIN u
      /\ \A i \in DOMAIN t : u[Len(s) + i] = t[i] /\ Len(s) + i \in DOMAIN u
      /\ \A i \in DOMAIN u : i \in DOMAIN s \/ \E j \in DOMAIN t : i = Len(s) + j
  BY <1>1, <1>2, Joined
<1> HIDE DEF u
<1>4. \A i \in DOMAIN t : Place(t[i]) = <<f[1], f[2], i>>
  BY <1>1, RecordFields
<1>5. Places(u) = Places(s) \cup {<<f[1], f[2], i>> : i \in I}
  <2>1. \A x \in Places(u) : x \in Places(s) \cup {<<f[1], f[2], i>> : i \in I}
    BY <1>1, <1>3, <1>4 DEF Places
  <2>2. \A x \in Places(s) : x \in Places(u)
    BY <1>3 DEF Places
  <2>3. \A i \in I : <<f[1], f[2], i>> \in Places(u)
    BY <1>1, <1>3, <1>4 DEF Places
  <2>4. QED  BY <2>1, <2>2, <2>3
<1>6. PlacesOf(tree, files \cup {f}) = PlacesOf(tree, files) \cup {<<f[1], f[2], i>> : i \in I}
  BY DEF PlacesOf
<1>7. ASSUME NEW i \in DOMAIN s, NEW j \in DOMAIN t PROVE Earlier(Place(s[i]), Place(t[j]))
  <2>1. Place(s[i]) \in PlacesOf(tree, files)
    BY <1>2 DEF Places
  <2>2. PICK g \in files : Place(s[i])[1] = g[1] /\ Place(s[i])[2] = g[2]
    BY <2>1 DEF PlacesOf
  <2>3. QED  BY <1>4, <2>2 DEF Earlier
<1>8. ASSUME NEW i \in DOMAIN t, NEW j \in DOMAIN t, i < j PROVE Earlier(Place(t[i]), Place(t[j]))
  BY <1>4, <1>8 DEF Earlier
<1>9. InOrder(u)
  <2>1. SUFFICES ASSUME NEW i \in DOMAIN u, NEW j \in DOMAIN u, i < j PROVE Earlier(Place(u[i]), Place(u[j]))
    BY DEF InOrder
  <2>2. CASE i \in DOMAIN s /\ j \in DOMAIN s
    BY <1>2, <1>3, <2>1, <2>2 DEF InOrder
  <2>3. ASSUME NEW l \in DOMAIN t, i \in DOMAIN s, j = Len(s) + l PROVE Earlier(Place(u[i]), Place(u[j]))
    BY <1>3, <1>7, <2>3
  <2>4. ASSUME NEW k \in DOMAIN t, i = Len(s) + k, j \in DOMAIN s PROVE FALSE
    BY <1>3, <2>1, <2>4
  <2>5. ASSUME NEW k \in DOMAIN t, NEW l \in DOMAIN t, i = Len(s) + k, j = Len(s) + l
        PROVE  Earlier(Place(u[i]), Place(u[j]))
    <3>1. k < l
      BY <1>3, <2>1, <2>5
    <3>2. QED  BY <1>3, <1>8, <2>5, <3>1
  <2>6. QED  BY <1>3, <2>2, <2>3, <2>4, <2>5
<1>10. AsLoaded(u)
  <2>1. ASSUME NEW j \in DOMAIN t PROVE t[j] = Record(t[j].dataset, t[j].path, t[j].index)
    BY <1>1, RecordFields
  <2>2. QED  BY <1>3, <2>1 DEF AsLoaded
<1>11. QED  BY <1>2, <1>3, <1>5, <1>6, <1>9, <1>10 DEF RecordsOf, t, u

LEMMA VerdictFile == ASSUME NEW f, f = <<f[1], f[2]>> PROVE FileOf(Verdict(f)) = f
  BY DEF Verdict, Decision, FileOf

\* New decisions are put behind those that were made.
LEMMA DecisionsJoin ==
  ASSUME NEW s, NEW files, DecisionsOn(s, files), AsDecided(s),
         NEW t, NEW others, DecisionsOn(t, others), AsDecided(t), files \cap others = {}
  PROVE  DecisionsOn(s \o t, files \cup others) /\ AsDecided(s \o t)
<1> DEFINE u == s \o t
<1>1. s \in Seq(ToSet(s)) /\ t \in Seq(ToSet(t))
  BY DEF DecisionsOn
<1>2. /\ u \in Seq(ToSet(u)) /\ DOMAIN s = 1 .. Len(s) /\ DOMAIN t = 1 .. Len(t)
      /\ Len(s) \in Nat /\ Len(t) \in Nat
      /\ \A i \in DOMAIN s : u[i] = s[i] /\ i \in DOMAIN u
      /\ \A i \in DOMAIN t : u[Len(s) + i] = t[i] /\ Len(s) + i \in DOMAIN u
      /\ \A i \in DOMAIN u : i \in DOMAIN s \/ \E j \in DOMAIN t : i = Len(s) + j
  BY <1>1, Joined
<1> HIDE DEF u
<1>3. AsDecided(u)
  BY <1>2 DEF AsDecided
<1>4. /\ \A i \in DOMAIN s : FileOf(s[i]) \in files
      /\ \A i \in DOMAIN t : FileOf(t[i]) \in others
      /\ \A f \in files : \E i \in DOMAIN s : FileOf(s[i]) = f
      /\ \A f \in others : \E i \in DOMAIN t : FileOf(t[i]) = f
      /\ \A i, j \in DOMAIN s : FileOf(s[i]) = FileOf(s[j]) => i = j
      /\ \A i, j \in DOMAIN t : FileOf(t[i]) = FileOf(t[j]) => i = j
  BY DEF DecisionsOn
<1>5. \A i \in DOMAIN u : FileOf(u[i]) \in files \cup others
  BY <1>2, <1>4
<1>6. ASSUME NEW f \in files \cup others PROVE \E i \in DOMAIN u : FileOf(u[i]) = f
  <2>1. CASE f \in files
    BY <1>2, <1>4, <2>1
  <2>2. CASE f \in others
    <3>1. PICK i \in DOMAIN t : FileOf(t[i]) = f
      BY <1>4, <2>2
    <3>2. QED  BY <1>2, <3>1
  <2>3. QED  BY <2>1, <2>2
<1>7. ASSUME NEW i \in DOMAIN u, NEW j \in DOMAIN u, FileOf(u[i]) = FileOf(u[j]) PROVE i = j
  <2>1. CASE i \in DOMAIN s /\ j \in DOMAIN s
    BY <1>2, <1>4, <1>7, <2>1
  <2>2. ASSUME NEW k \in DOMAIN t, NEW l \in DOMAIN t, i = Len(s) + k, j = Len(s) + l PROVE i = j
    BY <1>2, <1>4, <1>7, <2>2
  <2>3. ASSUME NEW k \in DOMAIN t, i = Len(s) + k, j \in DOMAIN s PROVE FALSE
    BY <1>2, <1>4, <1>7, <2>3
  <2>4. ASSUME NEW k \in DOMAIN t, j = Len(s) + k, i \in DOMAIN s PROVE FALSE
    BY <1>2, <1>4, <1>7, <2>4
  <2>5. QED  BY <1>2, <2>1, <2>2, <2>3, <2>4
<1>8. {FileOf(u[i]) : i \in DOMAIN u} = files \cup others
  BY <1>5, <1>6
<1>9. QED  BY <1>2, <1>3, <1>7, <1>8 DEF DecisionsOn, u

-----------------------------------------------------------------------------
(* Loading. *)

\* What the tree says of records and files does not change.
LEMMA SameTree ==
  ASSUME tree' = tree
  PROVE  /\ AsLoaded(poems)' <=> AsLoaded(poems')
         /\ AsClassified(poems)' <=> AsClassified(poems')
         /\ AsDecided(decisions)' <=> AsDecided(decisions')
<1>1. \A k, p, i : Record(k, p, i)' = Record(k, p, i)
  BY DEF Record
<1>2. \A k, p : Loaded(k, p)' = Loaded(k, p)
  BY <1>1 DEF Loaded
<1>3. \A f : Verdict(f)' = Verdict(f)
  BY <1>2 DEF Verdict
<1>4. AsLoaded(poems)' <=> AsLoaded(poems')
  BY <1>1 DEF AsLoaded
<1>5. AsClassified(poems)' <=> AsClassified(poems')
  BY <1>1 DEF AsClassified
<1>6. AsDecided(decisions)' <=> AsDecided(decisions')
  BY <1>3 DEF AsDecided
<1>7. QED  BY <1>4, <1>5, <1>6

LEMMA NothingYet ==
  /\ \A t : RecordsOf(t, <<>>, {}) /\ DecisionsOn(<<>>, {})
  /\ AsLoaded(<<>>) /\ AsDecided(<<>>)
<1>1. <<>> \in Seq(ToSet(<<>>)) /\ DOMAIN <<>> = {}
  OBVIOUS
<1>2. \A t : Places(<<>>) = PlacesOf(t, {}) /\ InOrder(<<>>)
  BY <1>1 DEF Places, PlacesOf, InOrder
<1>3. {FileOf(<<>>[i]) : i \in DOMAIN <<>>} = {}
  BY <1>1
<1>4. QED  BY <1>1, <1>2, <1>3 DEF RecordsOf, DecisionsOn, AsLoaded, AsDecided

LEMMA LoadAllInv ==
  ASSUME LoaderInv, LoadAll
  PROVE  LoaderInv'
<1>1. tree \in Trees /\ tree' = tree /\ stage' = "datasets" /\ decisions' = <<>> /\ poems' = <<>>
  BY DEF LoaderInv, LoadAll
<1>2. IsFiniteSet(DOMAIN tree) /\ DOMAIN tree \subseteq Nat
  BY <1>1, TreeFacts
<1>3. PICK listing \in SetToSeqs(DOMAIN tree) : keys' = Ordered(listing)
  BY DEF LoadAll
<1>4. Rising(keys') /\ ToSet(keys') = DOMAIN tree
  BY <1>2, <1>3, ListingFacts, OrderedFacts
<1>5. KeysLeft' /\ PathsLeft'
  BY <1>1, <1>4 DEF KeysLeft, PathsLeft
<1>6. DoneFiles' = {} /\ DoneExcluded' = {} /\ DOMAIN tree' \ ToSet(keys') = {}
  BY <1>1, <1>4, FileFacts DEF DoneFiles, DoneExcluded
<1>7. Readable(tree', DoneFiles', DoneExcluded', DOMAIN tree' \ ToSet(keys'))
  BY <1>6 DEF Readable
<1>8. AsLoaded(poems)' /\ AsDecided(decisions)'
  BY <1>1, SameTree, NothingYet
<1>9. RecordsOf(tree', poems', DoneFiles') /\ DecisionsOn(decisions', DoneFiles' \cup DoneExcluded')
  BY <1>1, <1>6, NothingYet
<1>10. QED  BY <1>1, <1>5, <1>7, <1>8, <1>9 DEF LoaderInv, Loading, AllLoaded, Refused

\* A directory is read: its excluded files are decided on, and the others are to be loaded.
LEMMA OpenDirectoryInv ==
  ASSUME LoaderInv, OpenDirectory
  PROVE  LoaderInv'
<1> DEFINE k == Head(keys)
<1>1. /\ tree \in Trees /\ tree' = tree /\ stage = "datasets" /\ keys # <<>> /\ keys' = keys /\ poems' = poems
      /\ tree[k].kind = "directory" /\ Current = tree[k] /\ faulted' = faulted
  BY DEF LoaderInv, OpenDirectory, Current
<1>2. /\ KeysLeft /\ Readable(tree, DoneFiles, DoneExcluded, DOMAIN tree \ ToSet(keys))
      /\ RecordsOf(tree, poems, DoneFiles) /\ AsLoaded(poems)
      /\ DecisionsOn(decisions, DoneFiles \cup DoneExcluded) /\ AsDecided(decisions)
  BY <1>1 DEF LoaderInv, Loading
<1>3. Rising(keys) /\ k \in ToSet(keys) /\ k \in DOMAIN tree
  BY <1>1, <1>2, RisingTail DEF KeysLeft
<1> HIDE DEF k
<1>4. IsFiniteSet(DOMAIN tree[k].files) /\ DOMAIN tree[k].files \subseteq Nat
  BY <1>1, <1>3, TreeFacts
<1>5. PICK listing \in SetToSeqs(DOMAIN tree[k].files) :
        IF Escapes(listing) THEN Fail /\ UNCHANGED <<paths, decisions>>
        ELSE /\ paths' = Ordered(Candidates(listing))
             /\ decisions' = decisions \o [i \in DOMAIN Excluded(listing) |->
                                             Decision(k, Excluded(listing)[i], "excluded", <<>>)]
             /\ stage' = "files"
  BY <1>1 DEF OpenDirectory, k
<1>6. /\ listing \in Seq(DOMAIN tree[k].files) /\ ToSet(listing) = DOMAIN tree[k].files
      /\ \A i, j \in DOMAIN listing : listing[i] = listing[j] => i = j
  BY <1>4, <1>5, ListingFacts
<1>7. CASE Escapes(listing)
  <2>1. PICK p \in DOMAIN tree[k].files : tree[k].files[p].use # "other" /\ ~tree[k].files[p].inside
    BY <1>1, <1>6, <1>7 DEF Escapes, Considered, ToSet
  <2>2. tree[k].files[p].use \in Uses
    BY <1>1, <1>3, FileFacts DEF Files
  <2>3. <<k, p>> \in LoadedFiles(tree) \cup ExcludedFiles(tree)
    BY <1>1, <1>3, <2>1, <2>2, FileFacts DEF Uses
  <2>4. ~SoundTree(tree)
    <3> DEFINE f == <<k, p>>
    <3>1. f[1] = k /\ f[2] = p /\ ~tree[f[1]].files[f[2]].inside
      BY <2>1
    <3> HIDE DEF f
    <3>2. QED  BY <2>3, <3>1 DEF SoundTree, f
  <2>5. stage' = "failed"
    BY <1>5, <1>7 DEF Fail
  <2>6. QED  BY <1>1, <2>4, <2>5 DEF LoaderInv, Loading, AllLoaded, Refused
<1>8. CASE ~Escapes(listing)
  <2> DEFINE E == Excluded(listing)
             t == [i \in DOMAIN E |-> Decision(k, E[i], "excluded", <<>>)]
             here == {f \in ExcludedFiles(tree) : f[1] = k}
  <2>1. paths' = Ordered(Candidates(listing)) /\ decisions' = decisions \o t /\ stage' = "files"
    BY <1>5, <1>8
  <2>2. ToSet(Candidates(listing)) = {p \in DOMAIN tree[k].files : tree[k].files[p].use = "poetry"}
    BY <1>1, <1>6, UsedFacts DEF Candidates
  <2>3. ToSet(Candidates(listing)) \subseteq Nat /\ IsFiniteSet(ToSet(Candidates(listing)))
    BY <1>4, <2>2, FS_Subset
  <2>4. Rising(paths') /\ ToSet(paths') = {p \in DOMAIN tree[k].files : tree[k].files[p].use = "poetry"}
    BY <2>1, <2>2, <2>3, OrderedFacts
  <2>5. /\ E \in Seq(DOMAIN tree[k].files)
        /\ ToSet(E) = {p \in DOMAIN tree[k].files : tree[k].files[p].use \in {"listed", "metadata"}}
        /\ \A i, j \in DOMAIN E : E[i] = E[j] => i = j
    BY <1>1, <1>6, UsedFacts DEF Excluded
  <2> HIDE DEF E, t
  <2>6. \A p \in ToSet(paths') : <<k, p>> \in LoadedFiles(tree)
    BY <1>1, <1>3, <2>4, FileFacts
  <2>7. \A f \in LoadedFiles(tree) : f[1] = k => f[2] \in ToSet(paths')
    <3>1. SUFFICES ASSUME NEW f \in LoadedFiles(tree), f[1] = k PROVE f[2] \in ToSet(paths')
      OBVIOUS
    <3>2. f = <<k, f[2]>> /\ f[2] \in DOMAIN tree[k].files
      BY <1>1, <3>1, FileFacts
    <3>3. QED  BY <1>1, <1>3, <2>4, <3>1, <3>2, FileFacts
  <2>8. KeysLeft' /\ PathsLeft'
    <3>1. KeysLeft'
      BY <1>1, <1>2 DEF KeysLeft
    <3>2. tree[k].kind # "missing"
      BY <1>1
    <3>3. QED  BY <1>1, <2>4, <2>6, <2>7, <3>1, <3>2 DEF PathsLeft, k
  <2>9. DoneFiles' = DoneFiles
    BY <1>1, <1>3, <2>1, <2>7 DEF DoneFiles, k
  <2>10. DoneExcluded' = DoneExcluded \cup here
    BY <1>1, <2>1 DEF DoneExcluded, k
  <2>11. here \cap (DoneFiles \cup DoneExcluded) = {}
    <3>1. \A f \in DoneFiles \cup DoneExcluded : f[1] \notin ToSet(keys)
      BY <1>1 DEF DoneFiles, DoneExcluded
    <3>2. QED  BY <1>3, <3>1
  <2>12. \A f \in here : tree[f[1]].files[f[2]].inside
    <3>1. SUFFICES ASSUME NEW f \in here PROVE tree[k].files[f[2]].inside
      OBVIOUS
    <3>2. f = <<k, f[2]>> /\ f[2] \in DOMAIN tree[k].files
      BY <1>1, FileFacts
    <3>3. tree[k].files[f[2]].use \in {"listed", "metadata"}
      BY <1>1, <1>3, <3>2, FileFacts
    <3>4. QED  BY <1>1, <1>6, <1>8, <3>2, <3>3 DEF Escapes, Considered, ToSet
  <2>13. Readable(tree, DoneFiles, DoneExcluded \cup here, DOMAIN tree \ ToSet(keys))
    BY <1>2, <2>12 DEF Readable
  <2>14. DecisionsOn(t, here) /\ AsDecided(t)
    <3>1. DOMAIN t = DOMAIN E /\ \A i \in DOMAIN t : t[i] = Decision(k, E[i], "excluded", <<>>)
      BY DEF t
    <3>2. DOMAIN E = 1 .. Len(E) /\ Len(E) \in Nat
      BY <2>5
    <3>3. t \in Seq(ToSet(t))
      <4>1. t \in [1 .. Len(E) -> ToSet(t)]
        BY <3>1, <3>2 DEF t, ToSet
      <4>2. QED  BY <3>2, <4>1
    <3>4. \A i \in DOMAIN t : FileOf(t[i]) = <<k, E[i]>> /\ E[i] \in ToSet(E)
      BY <3>1 DEF FileOf, Decision, ToSet
    <3>5. \A p \in ToSet(E) : <<k, p>> \in ExcludedFiles(tree) /\ <<k, p>> \notin LoadedFiles(tree)
      BY <1>1, <1>3, <2>5, FileFacts
    <3>6. AsDecided(t)
      <4>1. SUFFICES ASSUME NEW i \in DOMAIN t PROVE t[i] = Verdict(<<k, E[i]>>)
        BY <3>4 DEF AsDecided
      <4>2. <<k, E[i]>> \notin LoadedFiles(tree)
        BY <3>4, <3>5
      <4>3. QED  BY <3>1, <4>2 DEF Verdict
    <3>7. \A i \in DOMAIN t : FileOf(t[i]) \in here
      BY <3>4, <3>5
    <3>8. ASSUME NEW f \in here PROVE \E i \in DOMAIN t : FileOf(t[i]) = f
      <4>1. f = <<k, f[2]>> /\ f[2] \in ToSet(E)
        BY <1>1, <1>3, <2>5, FileFacts
      <4>2. QED  BY <3>1, <3>4, <4>1 DEF ToSet
    <3>9. {FileOf(t[i]) : i \in DOMAIN t} = here
      BY <3>7, <3>8
    <3>10. \A i, j \in DOMAIN t : FileOf(t[i]) = FileOf(t[j]) => i = j
      BY <2>5, <3>1, <3>4
    <3>11. QED  BY <3>3, <3>6, <3>9, <3>10 DEF DecisionsOn
  <2> HIDE DEF here
  <2>15. DecisionsOn(decisions', (DoneFiles \cup DoneExcluded) \cup here) /\ AsDecided(decisions')
    BY <1>2, <2>1, <2>11, <2>14, DecisionsJoin
  <2>16. (DoneFiles \cup DoneExcluded) \cup here = DoneFiles' \cup DoneExcluded'
    BY <2>9, <2>10
  <2>17. RecordsOf(tree', poems', DoneFiles') /\ AsLoaded(poems)' /\ AsDecided(decisions)'
    BY <1>1, <1>2, <2>9, <2>15, SameTree
  <2>18. Readable(tree', DoneFiles', DoneExcluded', DOMAIN tree' \ ToSet(keys'))
    BY <1>1, <2>9, <2>10, <2>13
  <2>19. DecisionsOn(decisions', DoneFiles' \cup DoneExcluded')
    BY <2>15, <2>16
  <2>20. QED  BY <1>1, <2>1, <2>8, <2>17, <2>18, <2>19 DEF LoaderInv, Loading, AllLoaded, Refused
<1>9. QED  BY <1>7, <1>8

\* A single file is to be loaded, and there is nothing beside it.
LEMMA OpenFileInv ==
  ASSUME LoaderInv, OpenFile
  PROVE  LoaderInv'
<1> DEFINE k == Head(keys)
<1>1. /\ tree \in Trees /\ tree' = tree /\ stage = "datasets" /\ keys # <<>> /\ keys' = keys /\ poems' = poems
      /\ tree[k].kind = "file" /\ decisions' = decisions /\ stage' = "files"
  BY DEF LoaderInv, OpenFile, Current
<1>2. /\ KeysLeft /\ Readable(tree, DoneFiles, DoneExcluded, DOMAIN tree \ ToSet(keys))
      /\ RecordsOf(tree, poems, DoneFiles) /\ AsLoaded(poems)
      /\ DecisionsOn(decisions, DoneFiles \cup DoneExcluded) /\ AsDecided(decisions)
  BY <1>1 DEF LoaderInv, Loading
<1>3. Rising(keys) /\ k \in ToSet(keys) /\ k \in DOMAIN tree
  BY <1>1, <1>2, RisingTail DEF KeysLeft
<1>4. PICK p \in DOMAIN tree[k].files : paths' = <<p>>
  BY DEF OpenFile, Current
<1> HIDE DEF k
<1>5. DOMAIN tree[k].files = {p} /\ p \in Nat
  BY <1>1, <1>3, <1>4, TreeFacts
<1>6. <<k, p>> \in LoadedFiles(tree)
  BY <1>1, <1>3, <1>4, FileFacts
<1>7. Rising(paths') /\ ToSet(paths') = {p}
  <2>1. paths' \in Seq(Nat) /\ DOMAIN paths' = {1} /\ paths'[1] = p
    BY <1>4, <1>5
  <2>2. QED  BY <2>1 DEF Rising, ToSet
<1>8. \A f \in LoadedFiles(tree) : f[1] = k => f[2] \in ToSet(paths')
  BY <1>1, <1>5, <1>7, FileFacts
<1>9. KeysLeft' /\ PathsLeft'
  <2>1. KeysLeft'
    BY <1>1, <1>2 DEF KeysLeft
  <2>2. \A q \in ToSet(paths') : <<k, q>> \in LoadedFiles(tree)
    BY <1>6, <1>7
  <2>3. QED  BY <1>1, <1>7, <1>8, <2>1, <2>2 DEF PathsLeft, k
<1>10. DoneFiles' = DoneFiles
  BY <1>1, <1>3, <1>8 DEF DoneFiles, k
<1>11. \A f \in ExcludedFiles(tree) : f[1] # k
  BY <1>1 DEF ExcludedFiles
<1>12. DoneExcluded' = DoneExcluded
  BY <1>1, <1>11 DEF DoneExcluded, k
<1>13. AsLoaded(poems)' /\ AsDecided(decisions)'
  BY <1>1, <1>2, SameTree
<1>14. QED  BY <1>1, <1>2, <1>9, <1>10, <1>12, <1>13 DEF LoaderInv, Loading, AllLoaded, Refused

LEMMA OpenMissingInv ==
  ASSUME LoaderInv, OpenMissing
  PROVE  LoaderInv'
<1>1. /\ tree \in Trees /\ tree' = tree /\ stage = "datasets" /\ keys # <<>> /\ stage' = "failed"
      /\ tree[Head(keys)].kind = "missing"
  BY DEF LoaderInv, OpenMissing, Current, Fail
<1>2. KeysLeft
  BY <1>1 DEF LoaderInv, Loading
<1>3. Head(keys) \in DOMAIN tree
  BY <1>1, <1>2, RisingTail DEF KeysLeft
<1>4. ~SoundTree(tree)
  BY <1>1, <1>3 DEF SoundTree
<1>5. QED  BY <1>1, <1>4 DEF LoaderInv, Loading, AllLoaded, Refused

\* A file is read: its records are those that come next, or the tree cannot be built.
LEMMA LoadFileInv ==
  ASSUME LoaderInv, LoadFile
  PROVE  LoaderInv'
<1> DEFINE k == Head(keys)
           p == Head(paths)
           f == <<k, p>>
           d == Decision(k, p, "loaded", Loaded(k, p))
<1>1. /\ tree \in Trees /\ tree' = tree /\ stage = "files" /\ keys' = keys /\ paths # <<>>
      /\ IF ~(tree[k].files[p].dated /\ tree[k].files[p].inside /\ tree[k].files[p].parses)
         THEN stage' = "failed" /\ UNCHANGED <<paths, poems, decisions>>
         ELSE /\ decisions' = Append(decisions, d) /\ poems' = poems \o Loaded(k, p)
              /\ paths' = Tail(paths) /\ stage' = "files"
  BY DEF LoaderInv, LoadFile, Fail
<1>2. /\ KeysLeft /\ PathsLeft /\ Readable(tree, DoneFiles, DoneExcluded, DOMAIN tree \ ToSet(keys))
      /\ RecordsOf(tree, poems, DoneFiles) /\ AsLoaded(poems)
      /\ DecisionsOn(decisions, DoneFiles \cup DoneExcluded) /\ AsDecided(decisions)
  BY <1>1 DEF LoaderInv, Loading
<1>3. /\ keys # <<>> /\ tree[k].kind # "missing" /\ Rising(paths)
      /\ \A q \in ToSet(paths) : <<k, q>> \in LoadedFiles(tree)
      /\ \A g \in LoadedFiles(tree) : g[1] = k /\ g[2] \notin ToSet(paths) => \A q \in ToSet(paths) : g[2] < q
  BY <1>1, <1>2 DEF PathsLeft
<1>4. Rising(keys) /\ k \in ToSet(keys) /\ k \in DOMAIN tree
  BY <1>2, <1>3, RisingTail DEF KeysLeft
<1>5. /\ p \in ToSet(paths) /\ p \in Nat /\ Rising(Tail(paths)) /\ ToSet(Tail(paths)) = ToSet(paths) \ {p}
      /\ \A q \in ToSet(Tail(paths)) : p < q
  BY <1>1, <1>3, RisingTail
<1> HIDE DEF k, p
<1>6. f \in LoadedFiles(tree) /\ f[1] = k /\ f[2] = p
  BY <1>3, <1>5
<1>7. CASE ~(tree[k].files[p].dated /\ tree[k].files[p].inside /\ tree[k].files[p].parses)
  <2>1. ~SoundTree(tree)
    BY <1>6, <1>7 DEF SoundTree
  <2>2. stage' = "failed"
    BY <1>1, <1>7
  <2>3. QED  BY <1>1, <2>1, <2>2 DEF LoaderInv, Loading, AllLoaded, Refused
<1>8. CASE tree[k].files[p].dated /\ tree[k].files[p].inside /\ tree[k].files[p].parses
  <2>1. /\ decisions' = Append(decisions, d) /\ poems' = poems \o Loaded(k, p)
        /\ paths' = Tail(paths) /\ stage' = "files"
    BY <1>1, <1>8
  <2>2. KeysLeft'
    BY <1>1, <1>2 DEF KeysLeft
  <2>3. ASSUME NEW g \in LoadedFiles(tree), g[1] = k, g[2] \notin ToSet(paths'), NEW q \in ToSet(paths') PROVE g[2] < q
    <3>1. q \in ToSet(paths) /\ p < q
      BY <1>5, <2>1
    <3>2. g[2] \notin ToSet(paths) \/ g[2] = p
      BY <1>5, <2>1, <2>3
    <3>3. QED  BY <1>3, <2>3, <3>1, <3>2
  <2>4. PathsLeft'
    <3>1. \A q \in ToSet(paths') : <<k, q>> \in LoadedFiles(tree)
      BY <1>3, <1>5, <2>1
    <3>2. QED  BY <1>1, <1>3, <1>5, <2>1, <2>3, <3>1 DEF PathsLeft, k
  <2>5. DoneFiles' = DoneFiles \cup {f}
    <3>1. \A g \in LoadedFiles(tree) : g[1] = k /\ g[2] = p => g = f
      BY <1>1, FileFacts
    <3>2. DoneFiles = {g \in LoadedFiles(tree) : g[1] \notin ToSet(keys) \/ (g[1] = k /\ g[2] \notin ToSet(paths))}
      BY <1>1 DEF DoneFiles, k
    <3>3. DoneFiles' = {g \in LoadedFiles(tree) : g[1] \notin ToSet(keys) \/ (g[1] = k /\ g[2] \notin ToSet(Tail(paths)))}
      BY <1>1, <2>1 DEF DoneFiles, k
    <3>4. QED  BY <1>5, <1>6, <3>1, <3>2, <3>3
  <2>6. DoneExcluded' = DoneExcluded
    BY <1>1, <2>1 DEF DoneExcluded
  <2>7. \A g \in DoneFiles : g[1] < k \/ (g[1] = k /\ g[2] < p)
    <3>1. SUFFICES ASSUME NEW g \in DoneFiles PROVE g[1] < k \/ (g[1] = k /\ g[2] < p)
      OBVIOUS
    <3>2. g \in LoadedFiles(tree) /\ (g[1] \notin ToSet(keys) \/ (g[1] = k /\ g[2] \notin ToSet(paths)))
      BY <1>1 DEF DoneFiles, k
    <3>3. g[1] \in DOMAIN tree
      BY <1>1, <3>2, FileFacts
    <3>4. CASE g[1] \notin ToSet(keys)
      BY <1>2, <1>4, <3>3, <3>4 DEF KeysLeft
    <3>5. CASE g[1] = k /\ g[2] \notin ToSet(paths)
      BY <1>3, <1>5, <3>2, <3>5
    <3>6. QED  BY <3>2, <3>4, <3>5
  <2>8. f \notin DoneFiles \cup DoneExcluded
    <3>1. f \notin DoneFiles
      BY <1>1, <1>4, <1>5, <1>6 DEF DoneFiles
    <3>2. f \notin ExcludedFiles(tree)
      BY <1>1, <1>6, FileFacts
    <3>3. QED  BY <3>1, <3>2 DEF DoneExcluded
  <2> HIDE DEF f
  <2>9. \A g \in DoneFiles : g[1] < f[1] \/ (g[1] = f[1] /\ g[2] < f[2])
    BY <1>6, <2>7
  <2>10. RecordsOf(tree, poems \o Loaded(f[1], f[2]), DoneFiles \cup {f}) /\ AsLoaded(poems \o Loaded(f[1], f[2]))
    BY <1>1, <1>2, <1>6, <2>9, RecordsJoin
  <2>11. Verdict(f) = d
    BY <1>6 DEF Verdict
  <2>12. DecisionsOn(<<d>>, {f}) /\ AsDecided(<<d>>)
    <3>1. FileOf(d) = f
      BY DEF FileOf, Decision, f
    <3> HIDE DEF d
    <3>2. <<d>> \in Seq(ToSet(<<d>>)) /\ DOMAIN <<d>> = {1} /\ <<d>>[1] = d
      BY DEF ToSet
    <3>3. {FileOf(<<d>>[i]) : i \in DOMAIN <<d>>} = {f}
      BY <3>1, <3>2
    <3>4. QED  BY <2>11, <3>1, <3>2, <3>3 DEF DecisionsOn, AsDecided
  <2> HIDE DEF d
  <2>13. (DoneFiles \cup DoneExcluded) \cap {f} = {}
    BY <2>8
  <2>14. DecisionsOn(decisions \o <<d>>, (DoneFiles \cup DoneExcluded) \cup {f}) /\ AsDecided(decisions \o <<d>>)
    BY <1>2, <2>12, <2>13, DecisionsJoin
  <2>15. decisions' = decisions \o <<d>>
    <3>1. decisions \in Seq(ToSet(decisions) \cup {d})
      BY <1>2, SeqMonotonic DEF DecisionsOn
    <3>2. QED  BY <2>1, <3>1
  <2>16. (DoneFiles \cup DoneExcluded) \cup {f} = DoneFiles' \cup DoneExcluded'
    BY <2>5, <2>6
  <2>17. AsLoaded(poems)' /\ AsDecided(decisions)'
    BY <1>1, <1>6, <2>1, <2>10, <2>14, <2>15, SameTree
  <2>18. RecordsOf(tree', poems', DoneFiles') /\ DecisionsOn(decisions', DoneFiles' \cup DoneExcluded')
    BY <1>1, <1>6, <2>1, <2>5, <2>10, <2>14, <2>15, <2>16
  <2>19. Readable(tree', DoneFiles', DoneExcluded', DOMAIN tree' \ ToSet(keys'))
    <3>1. Readable(tree, DoneFiles \cup {f}, DoneExcluded, DOMAIN tree \ ToSet(keys))
      BY <1>2, <1>6, <1>8 DEF Readable
    <3>2. QED  BY <1>1, <2>5, <2>6, <3>1
  <2>20. QED  BY <1>1, <2>1, <2>2, <2>4, <2>17, <2>18, <2>19 DEF LoaderInv, Loading, AllLoaded, Refused
<1>9. QED  BY <1>7, <1>8

LEMMA CloseDatasetInv ==
  ASSUME LoaderInv, CloseDataset
  PROVE  LoaderInv'
<1> DEFINE k == Head(keys)
<1>1. /\ tree \in Trees /\ tree' = tree /\ stage = "files" /\ keys' = Tail(keys) /\ paths = <<>> /\ poems' = poems
      /\ decisions' = decisions /\ stage' = "datasets"
  BY DEF LoaderInv, CloseDataset
<1>2. /\ KeysLeft /\ PathsLeft /\ Readable(tree, DoneFiles, DoneExcluded, DOMAIN tree \ ToSet(keys))
      /\ RecordsOf(tree, poems, DoneFiles) /\ AsLoaded(poems)
      /\ DecisionsOn(decisions, DoneFiles \cup DoneExcluded) /\ AsDecided(decisions)
  BY <1>1 DEF LoaderInv, Loading
<1>3. keys # <<>> /\ tree[k].kind # "missing"
  BY <1>1, <1>2 DEF PathsLeft
<1>4. /\ k \in ToSet(keys) /\ k \in Nat /\ Rising(Tail(keys)) /\ ToSet(Tail(keys)) = ToSet(keys) \ {k}
      /\ \A l \in ToSet(Tail(keys)) : k < l
  BY <1>2, <1>3, RisingTail DEF KeysLeft
<1>5. ToSet(paths) = {}
  BY <1>1 DEF ToSet
<1> HIDE DEF k
<1>6. KeysLeft'
  <2>1. ASSUME NEW j \in DOMAIN tree \ ToSet(keys'), NEW l \in ToSet(keys') PROVE j < l
    <3>1. l \in ToSet(keys) /\ k < l /\ (j \in DOMAIN tree \ ToSet(keys) \/ j = k)
      BY <1>1, <1>4, <2>1
    <3>2. QED  BY <1>2, <3>1 DEF KeysLeft
  <2>2. ToSet(keys') \subseteq DOMAIN tree
    BY <1>1, <1>2, <1>4 DEF KeysLeft
  <2>3. QED  BY <1>1, <1>4, <2>1, <2>2 DEF KeysLeft
<1>7. DoneFiles' = DoneFiles
  <2>1. DoneFiles = {g \in LoadedFiles(tree) : g[1] \notin ToSet(keys) \/ g[1] = k}
    BY <1>1, <1>5 DEF DoneFiles, k
  <2>2. DoneFiles' = {g \in LoadedFiles(tree) : g[1] \notin ToSet(Tail(keys))}
    BY <1>1 DEF DoneFiles
  <2>3. QED  BY <1>4, <2>1, <2>2
<1>8. DoneExcluded' = DoneExcluded
  <2>1. DoneExcluded = {g \in ExcludedFiles(tree) : g[1] \notin ToSet(keys) \/ g[1] = k}
    BY <1>1 DEF DoneExcluded, k
  <2>2. DoneExcluded' = {g \in ExcludedFiles(tree) : g[1] \notin ToSet(Tail(keys))}
    BY <1>1 DEF DoneExcluded
  <2>3. QED  BY <1>4, <2>1, <2>2
<1>9. Readable(tree', DoneFiles', DoneExcluded', DOMAIN tree' \ ToSet(keys'))
  <2>1. Readable(tree, DoneFiles, DoneExcluded, DOMAIN tree \ ToSet(Tail(keys)))
    BY <1>2, <1>3, <1>4 DEF Readable, k
  <2>2. QED  BY <1>1, <1>7, <1>8, <2>1
<1>10. AsLoaded(poems)' /\ AsDecided(decisions)'
  BY <1>1, <1>2, SameTree
<1>11. PathsLeft'
  BY <1>1 DEF PathsLeft
<1>12. QED  BY <1>1, <1>2, <1>6, <1>7, <1>8, <1>9, <1>10, <1>11 DEF LoaderInv, Loading, AllLoaded, Refused

LEMMA ReadFailsInv ==
  ASSUME LoaderInv, ReadFails
  PROVE  LoaderInv'
<1>1. tree \in Trees /\ tree' = tree /\ stage' = "failed" /\ faulted'
  BY DEF LoaderInv, ReadFails, Fail
<1>2. QED  BY <1>1 DEF LoaderInv, Loading, AllLoaded, Refused

-----------------------------------------------------------------------------
(* The report is sorted, and the records are classified. *)

\* Of decisions on files, no two of them on one, one comes before the other.
LEMMA ReportOrder ==
  ASSUME NEW d, NEW e, d.dataset \in Nat, d.path \in Nat, e.dataset \in Nat, e.path \in Nat, FileOf(d) # FileOf(e)
  PROVE  /\ ReportedBefore(d, e) \/ ReportedBefore(e, d)
         /\ ~(ReportedBefore(d, e) /\ ReportedBefore(e, d))
  BY DEF ReportedBefore, FileOf

LEMMA ReportTransitive ==
  ASSUME NEW d, NEW e, NEW g, d.dataset \in Nat, d.path \in Nat, e.dataset \in Nat, e.path \in Nat,
         g.dataset \in Nat, g.path \in Nat, ReportedBefore(d, e), ReportedBefore(e, g)
  PROVE  ReportedBefore(d, g)
<1> DEFINE a == d.dataset  b == e.dataset  c == g.dataset
           p == d.path  q == e.path  r == g.path
<1>1. a \in Nat /\ b \in Nat /\ c \in Nat /\ p \in Nat /\ q \in Nat /\ r \in Nat
  OBVIOUS
<1>2. (a < b \/ (a = b /\ p < q)) /\ (b < c \/ (b = c /\ q < r))
  BY DEF ReportedBefore
<1> HIDE DEF a, b, c, p, q, r
<1>3. a < c \/ (a = c /\ p < r)
  BY <1>1, <1>2
<1>4. QED  BY <1>3 DEF ReportedBefore, a, c, p, r

\* The decisions on files of a tree have numbers for their places in the report.
LEMMA DecisionFields ==
  ASSUME tree \in Trees, NEW s, NEW files, DecisionsOn(s, files),
         files \subseteq LoadedFiles(tree) \cup ExcludedFiles(tree)
  PROVE  /\ DOMAIN s = 1 .. Len(s) /\ Len(s) \in Nat /\ IsFiniteSet(DOMAIN s)
         /\ \A i \in DOMAIN s : FileOf(s[i]) \in files /\ s[i].dataset \in Nat /\ s[i].path \in Nat
<1>1. DOMAIN s = 1 .. Len(s) /\ Len(s) \in Nat
  BY ElementsOfSequence DEF DecisionsOn
<1> DEFINE n == Len(s)
<1>2. n \in Nat
  BY <1>1
<1> HIDE DEF n
<1>3. IsFiniteSet(1 .. n)
  BY <1>2, FS_Interval
<1>4. \A i \in DOMAIN s : FileOf(s[i]) \in files
  BY DEF DecisionsOn
<1>5. ASSUME NEW i \in DOMAIN s PROVE s[i].dataset \in Nat /\ s[i].path \in Nat
  <2>1. FileOf(s[i])[1] \in Nat /\ FileOf(s[i])[2] \in Nat
    BY <1>4, FileFacts
  <2>2. FileOf(s[i])[1] = s[i].dataset /\ FileOf(s[i])[2] = s[i].path
    BY DEF FileOf
  <2>3. QED  BY <2>1, <2>2
<1>6. QED  BY <1>1, <1>3, <1>4, <1>5 DEF n

\* Sorting by rank puts the decisions in the order of the report.
LEMMA SortedDecisions ==
  ASSUME tree \in Trees, NEW files, DecisionsOn(decisions, files), AsDecided(decisions),
         files \subseteq LoadedFiles(tree) \cup ExcludedFiles(tree),
         NEW t, t = LET order == Sorted(DOMAIN decisions, [i \in DOMAIN decisions |-> Cardinality(ReportedAhead(i))])
                    IN  [k \in DOMAIN order |-> decisions[order[k]]]
  PROVE  DecisionsOn(t, files) /\ AsDecided(t) /\ InReportOrder(t)
<1> DEFINE D == DOMAIN decisions
           rank == [i \in D |-> Cardinality(ReportedAhead(i))]
           order == Sorted(D, rank)
<1>1. /\ IsFiniteSet(D) /\ D = 1 .. Len(decisions) /\ Len(decisions) \in Nat
      /\ \A i \in D : FileOf(decisions[i]) \in files /\ decisions[i].dataset \in Nat /\ decisions[i].path \in Nat
  BY DecisionFields
<1>2. \A i, j \in D : i # j => FileOf(decisions[i]) # FileOf(decisions[j])
  BY DEF DecisionsOn
<1>3. \A i \in D : ReportedAhead(i) \subseteq D /\ IsFiniteSet(ReportedAhead(i)) /\ Cardinality(ReportedAhead(i)) \in Nat
  <2>1. SUFFICES ASSUME NEW i \in D
                 PROVE  /\ ReportedAhead(i) \subseteq D /\ IsFiniteSet(ReportedAhead(i))
                        /\ Cardinality(ReportedAhead(i)) \in Nat
    OBVIOUS
  <2>2. ReportedAhead(i) \subseteq D
    BY DEF ReportedAhead
  <2>3. IsFiniteSet(ReportedAhead(i))
    BY <1>1, <2>2, FS_Subset
  <2>4. QED  BY <2>2, <2>3, FS_CardinalityType
<1>4. ASSUME NEW i \in D, NEW j \in D, ReportedBefore(decisions[i], decisions[j]) PROVE rank[i] < rank[j]
  <2>1. ReportedAhead(i) \subseteq ReportedAhead(j)
    <3>1. SUFFICES ASSUME NEW k \in ReportedAhead(i) PROVE k \in ReportedAhead(j)
      OBVIOUS
    <3>2. k \in D /\ ReportedBefore(decisions[k], decisions[i])
      BY <3>1 DEF ReportedAhead
    <3>3. ReportedBefore(decisions[k], decisions[j])
      BY <1>1, <1>4, <3>2, ReportTransitive
    <3>4. QED  BY <3>2, <3>3 DEF ReportedAhead
  <2>2. i \in ReportedAhead(j) /\ i \notin ReportedAhead(i)
    BY <1>1, <1>4 DEF ReportedAhead, ReportedBefore
  <2>3. Cardinality(ReportedAhead(i)) <= Cardinality(ReportedAhead(j))
        /\ Cardinality(ReportedAhead(i)) # Cardinality(ReportedAhead(j))
    BY <1>3, <2>1, <2>2, FS_Subset
  <2>4. QED  BY <1>3, <2>3
<1>5. ASSUME NEW i \in D, NEW j \in D, rank[i] < rank[j] PROVE ReportedBefore(decisions[i], decisions[j])
  <2>1. i # j /\ rank[i] \in Nat /\ rank[j] \in Nat
    BY <1>3, <1>5
  <2>2. ~ReportedBefore(decisions[j], decisions[i])
    BY <1>4, <1>5, <2>1
  <2>3. QED  BY <1>1, <1>2, <2>1, <2>2, ReportOrder
<1>6. Keyed(D, rank)
  <2>1. rank \in [D -> Int]
    BY <1>3
  <2>2. ASSUME NEW i \in D, NEW j \in D, rank[i] = rank[j], i # j PROVE FALSE
    <3>1. ReportedBefore(decisions[i], decisions[j]) \/ ReportedBefore(decisions[j], decisions[i])
      BY <1>1, <1>2, <2>2, ReportOrder
    <3>2. rank[i] < rank[j] \/ rank[j] < rank[i]
      BY <1>4, <3>1
    <3>3. rank[i] \in Nat /\ rank[j] \in Nat
      BY <1>3
    <3>4. QED  BY <2>2, <3>2, <3>3
  <2>3. QED  BY <2>1, <2>2 DEF Keyed
<1> HIDE DEF D, rank
<1>7. /\ order \in Seq(D) /\ Len(order) = Cardinality(D) /\ ToSet(order) = D
      /\ \A i, j \in 1 .. Len(order) : i < j => rank[order[i]] < rank[order[j]]
  BY <1>1, <1>6, SortedFacts
<1>8. t = [k \in DOMAIN order |-> decisions[order[k]]]
  BY DEF D, rank
<1> HIDE DEF order
<1>9. DOMAIN order = 1 .. Len(order) /\ Len(order) \in Nat /\ \A k \in DOMAIN order : order[k] \in D
  BY <1>7
<1>10. DOMAIN t = DOMAIN order /\ \A k \in DOMAIN t : t[k] = decisions[order[k]] /\ order[k] \in D
  BY <1>8, <1>9
<1>11. InReportOrder(t)
  BY <1>5, <1>7, <1>9, <1>10 DEF InReportOrder
<1>12. AsDecided(t)
  BY <1>10 DEF AsDecided, D
<1>13. t \in Seq(ToSet(t))
  <2> DEFINE n == Len(order)
             T == ToSet(t)
  <2>1. n \in Nat /\ t \in [1 .. n -> T]
    BY <1>8, <1>9, <1>10 DEF ToSet
  <2> HIDE DEF n, T
  <2>2. t \in Seq(T)
    BY ONLY <2>1
  <2>3. QED  BY <2>2 DEF T
<1>14. {FileOf(t[k]) : k \in DOMAIN t} = files
  <2>1. \A k \in DOMAIN t : FileOf(t[k]) \in files
    BY <1>1, <1>10
  <2>2. ASSUME NEW f \in files PROVE \E k \in DOMAIN t : FileOf(t[k]) = f
    <3>1. PICK i \in D : FileOf(decisions[i]) = f
      BY DEF DecisionsOn, D
    <3>2. PICK k \in DOMAIN order : order[k] = i
      BY <1>7 DEF ToSet
    <3>3. QED  BY <1>10, <3>1, <3>2
  <2>3. QED  BY <2>1, <2>2
<1>15. ASSUME NEW i \in DOMAIN t, NEW j \in DOMAIN t, FileOf(t[i]) = FileOf(t[j]) PROVE i = j
  <2>1. order[i] = order[j]
    BY <1>2, <1>10, <1>15
  <2>2. ~(i < j) /\ ~(j < i)
    <3>1. rank[order[i]] \in Int
      BY <1>6, <1>10 DEF Keyed
    <3>2. QED  BY <1>7, <1>9, <1>10, <2>1, <3>1
  <2>3. QED  BY <1>9, <1>10, <2>2
<1>16. QED  BY <1>11, <1>12, <1>13, <1>14, <1>15 DEF DecisionsOn

LEMMA SortReportInv ==
  ASSUME LoaderInv, SortReport
  PROVE  LoaderInv'
<1>1. /\ tree \in Trees /\ tree' = tree /\ stage = "datasets" /\ keys = <<>> /\ poems' = poems /\ stage' = "loaded"
      /\ decisions' = LET order == Sorted(DOMAIN decisions, [i \in DOMAIN decisions |-> Cardinality(ReportedAhead(i))])
                      IN  [k \in DOMAIN order |-> decisions[order[k]]]
  BY DEF LoaderInv, SortReport
<1>2. /\ Readable(tree, DoneFiles, DoneExcluded, DOMAIN tree \ ToSet(keys))
      /\ RecordsOf(tree, poems, DoneFiles) /\ AsLoaded(poems)
      /\ DecisionsOn(decisions, DoneFiles \cup DoneExcluded) /\ AsDecided(decisions)
  BY <1>1 DEF LoaderInv, Loading
<1>3. ToSet(keys) = {}
  BY <1>1 DEF ToSet
<1>4. DoneFiles = LoadedFiles(tree) /\ DoneExcluded = ExcludedFiles(tree) /\ DOMAIN tree \ ToSet(keys) = DOMAIN tree
  BY <1>3 DEF DoneFiles, DoneExcluded
<1> DEFINE files == LoadedFiles(tree) \cup ExcludedFiles(tree)
<1>5. DecisionsOn(decisions, files) /\ AsDecided(decisions)
  BY <1>2, <1>4
<1>6. files \subseteq LoadedFiles(tree) \cup ExcludedFiles(tree)
  OBVIOUS
<1> HIDE DEF files
<1>7. DecisionsOn(decisions', files) /\ AsDecided(decisions') /\ InReportOrder(decisions')
  BY <1>1, <1>5, <1>6, SortedDecisions
<1>8. AsLoaded(poems)' /\ AsDecided(decisions)'
  BY <1>1, <1>2, <1>7, SameTree
<1>9. AllRead'
  <2>1. InReportOrder(decisions)'
    BY <1>7 DEF InReportOrder, ReportedBefore
  <2>2. Readable(tree, LoadedFiles(tree), ExcludedFiles(tree), DOMAIN tree)'
    BY <1>1, <1>2, <1>4
  <2>3. RecordsOf(tree, poems, LoadedFiles(tree))'
    BY <1>1, <1>2, <1>4
  <2>4. DecisionsOn(decisions, LoadedFiles(tree) \cup ExcludedFiles(tree))'
    BY <1>1, <1>7 DEF files
  <2>5. QED  BY <1>8, <2>1, <2>2, <2>3, <2>4 DEF AllRead
<1>10. QED  BY <1>1, <1>8, <1>9 DEF LoaderInv, Loading, AllLoaded, Refused

\* Classifying changes of a record no more than its reason.
LEMMA ClassifiedRecords ==
  ASSUME NEW s, NEW files, RecordsOf(tree, s, files), AsLoaded(s),
         NEW u, u = [i \in DOMAIN s |-> Classified(s[i])]
  PROVE  RecordsOf(tree, u, files) /\ AsClassified(u)
<1>1. DOMAIN s = 1 .. Len(s) /\ Len(s) \in Nat
  BY ElementsOfSequence DEF RecordsOf
<1>2. DOMAIN u = DOMAIN s /\ \A i \in DOMAIN u : u[i] = Classified(s[i])
  OBVIOUS
<1>3. \A i \in DOMAIN s : /\ Classified(s[i]) = Classified(Record(s[i].dataset, s[i].path, s[i].index))
                          /\ Place(s[i]) = <<s[i].dataset, s[i].path, s[i].index>>
  BY DEF AsLoaded, Place
<1>4. \A i \in DOMAIN u : /\ Place(u[i]) = Place(s[i])
                          /\ u[i].dataset = s[i].dataset /\ u[i].path = s[i].path /\ u[i].index = s[i].index
  BY <1>2, <1>3, RecordFields
<1>5. u \in Seq(ToSet(u))
  <2>1. u \in [1 .. Len(s) -> ToSet(u)]
    BY <1>1, <1>2 DEF ToSet
  <2>2. QED  BY <1>1, <2>1
<1>6. Places(u) = Places(s)
  BY <1>2, <1>4 DEF Places
<1>7. InOrder(u)
  BY <1>2, <1>4 DEF RecordsOf, InOrder
<1>8. AsClassified(u)
  BY <1>2, <1>3, <1>4 DEF AsClassified
<1>9. QED  BY <1>5, <1>6, <1>7, <1>8 DEF RecordsOf

LEMMA PartitionSourcesInv ==
  ASSUME LoaderInv, PartitionSources
  PROVE  LoaderInv'
<1>1. /\ tree \in Trees /\ tree' = tree /\ stage = "loaded" /\ stage' = "partitioned" /\ decisions' = decisions
      /\ poems' = [i \in DOMAIN poems |-> Classified(poems[i])]
      /\ accepted' = Subsequence(poems', Unreasoned(poems')) /\ rejections' = Subsequence(poems', Reasoned(poems'))
  BY DEF LoaderInv, PartitionSources
<1>2. AllRead /\ AsLoaded(poems)
  BY <1>1 DEF LoaderInv, AllLoaded
<1>3. RecordsOf(tree, poems', LoadedFiles(tree)) /\ AsClassified(poems')
  BY <1>1, <1>2, ClassifiedRecords DEF AllRead
<1>4. AsClassified(poems)' /\ AsDecided(decisions)'
  BY <1>1, <1>2, <1>3, SameTree DEF AllRead
<1>5. AllRead'
  <2>1. InReportOrder(decisions)'
    BY <1>1, <1>2 DEF AllRead, InReportOrder
  <2>2. QED  BY <1>1, <1>2, <1>3, <1>4, <2>1 DEF AllRead
<1>6. Partitioned'
  BY <1>1, <1>4 DEF Partitioned
<1>7. QED  BY <1>1, <1>5, <1>6 DEF LoaderInv, Loading, AllLoaded, Refused

-----------------------------------------------------------------------------
(* Counting records. *)

\* The total of the sizes of disjoint parts is the size of what they are parts of.
LEMMA TotalOfParts ==
  ASSUME NEW I, NEW U, IsFiniteSet(U), NEW P, NEW c, DOMAIN c = I,
         \A i \in I : P[i] \subseteq U /\ c[i] = Cardinality(P[i]),
         \A i, j \in I : i # j => P[i] \cap P[j] = {},
         \A u \in U : \E i \in I : u \in P[i]
  PROVE  Total(c) = Cardinality(U)
<1> DEFINE X == UNION {{i} \X (1 .. c[i]) : i \in I}
           b == [i \in I |-> CHOOSE f : f \in Bijection(1 .. c[i], P[i])]
           f == [x \in X |-> b[x[1]][x[2]]]
<1>1. ASSUME NEW i \in I PROVE b[i] \in Bijection(1 .. c[i], P[i])
  <2>1. IsFiniteSet(P[i])
    BY FS_Subset
  <2>2. ExistsBijection(1 .. c[i], P[i])
    BY <2>1, FS_CardinalityType
  <2>3. \E g : g \in Bijection(1 .. c[i], P[i])
    BY <2>2 DEF ExistsBijection
  <2> DEFINE B == Bijection(1 .. c[i], P[i])
  <2>4. b[i] = CHOOSE g : g \in B
    OBVIOUS
  <2> HIDE DEF B, b
  <2>5. (CHOOSE g : g \in B) \in B
    BY <2>3, Zenon DEF B
  <2>6. QED  BY <2>4, <2>5 DEF B
<1> HIDE DEF b
<1>2. \A i \in I : /\ b[i] \in [1 .. c[i] -> P[i]]
                   /\ \A m, n \in 1 .. c[i] : b[i][m] = b[i][n] => m = n
                   /\ \A u \in P[i] : \E m \in 1 .. c[i] : b[i][m] = u
  <2>1. SUFFICES ASSUME NEW i \in I
                 PROVE  /\ b[i] \in [1 .. c[i] -> P[i]]
                        /\ \A m, n \in 1 .. c[i] : b[i][m] = b[i][n] => m = n
                        /\ \A u \in P[i] : \E m \in 1 .. c[i] : b[i][m] = u
    OBVIOUS
  <2> DEFINE g == b[i]  S == 1 .. c[i]  T == P[i]
  <2>2. g \in Bijection(S, T)
    BY <1>1
  <2> HIDE DEF g, S, T
  <2>3. g \in [S -> T] /\ (\A m, n \in S : g[m] = g[n] => m = n) /\ \A u \in T : \E m \in S : g[m] = u
    BY <2>2 DEF Bijection, Injection, Surjection, IsInjective
  <2>4. QED  BY <2>3 DEF g, S, T
<1>3. \A x \in X : x = <<x[1], x[2]>> /\ x[1] \in I /\ x[2] \in 1 .. c[x[1]]
  OBVIOUS
<1>4. \A i \in I : \A m \in 1 .. c[i] : <<i, m>> \in X
  OBVIOUS
<1> HIDE DEF X
<1>5. \A x \in X : f[x] = b[x[1]][x[2]] /\ f[x] \in P[x[1]] /\ f[x] \in U
  <2>1. SUFFICES ASSUME NEW x \in X PROVE b[x[1]][x[2]] \in P[x[1]] /\ b[x[1]][x[2]] \in U
    OBVIOUS
  <2> DEFINE i == x[1]  m == x[2]
  <2>2. i \in I /\ m \in 1 .. c[i]
    BY <1>3
  <2> HIDE DEF i, m
  <2>3. b[i] \in [1 .. c[i] -> P[i]] /\ P[i] \subseteq U
    BY <1>2, <2>2
  <2>4. b[i][m] \in P[i]
    BY <2>2, <2>3
  <2>5. QED  BY <2>3, <2>4 DEF i, m
<1>6. f \in [X -> U]
  BY <1>5
<1>7. ASSUME NEW x \in X, NEW y \in X, f[x] = f[y] PROVE x = y
  <2>1. x[1] = y[1]
    BY <1>3, <1>5, <1>7
  <2>2. x[2] = y[2]
    BY <1>2, <1>3, <1>5, <1>7, <2>1
  <2>3. QED  BY <1>3, <2>1, <2>2
<1>8. ASSUME NEW u \in U PROVE \E x \in X : f[x] = u
  <2>1. PICK i \in I : u \in P[i]
    OBVIOUS
  <2>2. PICK m \in 1 .. c[i] : b[i][m] = u
    BY <1>2, <2>1
  <2>3. <<i, m>> \in X /\ f[<<i, m>>] = u
    BY <1>4, <2>2
  <2>4. QED  BY <2>3
<1>9. Bijects(f, X, U)
  BY <1>6, <1>7, <1>8 DEF Bijects
<1> HIDE DEF f
<1>10. Cardinality(X) = Cardinality(U)
  BY <1>9, SameNumber
<1>11. QED  BY <1>10 DEF Total, X

\* Every record in hand is at a place of a file that was loaded, each such place is that
\* of one record, and nothing speaks against it if it has a text.
LEMMA RecordPlaces ==
  ASSUME tree \in Trees, AllRead, AsClassified(poems)
  PROVE  /\ DOMAIN poems = 1 .. Len(poems) /\ Len(poems) \in Nat /\ IsFiniteSet(DOMAIN poems)
         /\ Cardinality(DOMAIN poems) = Len(poems)
         /\ \A j \in DOMAIN poems :
              LET f == FileOf(poems[j])
              IN  /\ f \in LoadedFiles(tree) /\ Place(poems[j]) = <<f[1], f[2], poems[j].index>>
                  /\ poems[j].index \in DOMAIN tree[f[1]].files[f[2]].records
                  /\ poems[j].reason = "" <=> tree[f[1]].files[f[2]].records[poems[j].index].text = "text"
         /\ \A i, j \in DOMAIN poems : Place(poems[i]) = Place(poems[j]) => i = j
         /\ \A f \in LoadedFiles(tree) : \A m \in DOMAIN tree[f[1]].files[f[2]].records :
              \E j \in DOMAIN poems : Place(poems[j]) = <<f[1], f[2], m>>
<1>1. poems \in Seq(ToSet(poems)) /\ Places(poems) = PlacesOf(tree, LoadedFiles(tree)) /\ InOrder(poems)
  BY DEF AllRead, RecordsOf
<1>2. DOMAIN poems = 1 .. Len(poems) /\ Len(poems) \in Nat
  BY <1>1, ElementsOfSequence
<1>3. IsFiniteSet(DOMAIN poems) /\ Cardinality(DOMAIN poems) = Len(poems)
  <2> DEFINE n == Len(poems)
  <2>1. n \in Nat
    BY <1>2
  <2> HIDE DEF n
  <2>2. IsFiniteSet(1 .. n) /\ Cardinality(1 .. n) = n
    BY <2>1, FS_Interval
  <2>3. QED  BY <1>2, <2>2 DEF n
<1>4. ASSUME NEW j \in DOMAIN poems
      PROVE  /\ FileOf(poems[j]) \in LoadedFiles(tree)
             /\ Place(poems[j]) = <<FileOf(poems[j])[1], FileOf(poems[j])[2], poems[j].index>>
             /\ poems[j].index \in DOMAIN tree[FileOf(poems[j])[1]].files[FileOf(poems[j])[2]].records
             /\ poems[j].reason = "" <=>
                  tree[FileOf(poems[j])[1]].files[FileOf(poems[j])[2]].records[poems[j].index].text = "text"
  <2> DEFINE k == poems[j].dataset
             p == poems[j].path
             m == poems[j].index
  <2>1. Place(poems[j]) = <<k, p, m>> /\ FileOf(poems[j]) = <<k, p>>
    BY DEF Place, FileOf
  <2>2. <<k, p, m>> \in PlacesOf(tree, LoadedFiles(tree))
    BY <1>1, <2>1 DEF Places
  <2>3. PICK f \in LoadedFiles(tree) : k = f[1] /\ p = f[2] /\ m \in DOMAIN tree[f[1]].files[f[2]].records
    BY <2>2 DEF PlacesOf
  <2>4. f = <<k, p>>
    BY <2>3, FileFacts
  <2>5. tree[k].files[p].records[m].text \in Texts
    BY <2>3, FileRecords
  <2>6. poems[j] = Classified(Record(k, p, m))
    BY DEF AsClassified
  <2>7. /\ Record(k, p, m).text = tree[k].files[p].records[m].text
        /\ Record(k, p, m).reason = IF tree[k].files[p].records[m].text = "none" THEN "missing_content" ELSE ""
    BY DEF Record
  <2> DEFINE r == Record(k, p, m)
  <2>8. r.reason # "" => Classified(r).reason = r.reason
    BY DEF Classified
  <2>9. r.reason = "" => Classified(r).reason = CASE r.text = "garbled"     -> "unicode_replacement_character"
                                                  [] r.text = "blank"       -> "empty_after_normalization"
                                                  [] r.text = "placeholder" -> "placeholder_content"
                                                  [] OTHER                  -> ""
    BY DEF Classified, Record
  <2>10. poems[j].reason = "" <=> r.text = "text"
    <3> HIDE DEF r
    <3>1. r.text \in Texts /\ r.reason = (IF r.text = "none" THEN "missing_content" ELSE "")
      BY <2>5, <2>7 DEF r
    <3>2. poems[j].reason = Classified(r).reason
      BY <2>6 DEF r
    <3>3. QED  BY <2>8, <2>9, <3>1, <3>2 DEF Texts
  <2>11. QED  BY <2>1, <2>3, <2>4, <2>7, <2>10
<1>5. ASSUME NEW i \in DOMAIN poems, NEW j \in DOMAIN poems, i < j PROVE Place(poems[i]) # Place(poems[j])
  <2>1. Earlier(Place(poems[i]), Place(poems[j]))
    BY <1>1, <1>5 DEF InOrder
  <2>2. Place(poems[i])[1] \in Nat /\ Place(poems[i])[2] \in Nat /\ Place(poems[i])[3] \in Nat
    <3> DEFINE f == FileOf(poems[i])
               m == poems[i].index
    <3>1. f \in LoadedFiles(tree) /\ Place(poems[i]) = <<f[1], f[2], m>> /\ m \in DOMAIN tree[f[1]].files[f[2]].records
      BY <1>4
    <3> HIDE DEF f, m
    <3>2. f[1] \in Nat /\ f[2] \in Nat
      BY <3>1, FileFacts
    <3>3. m \in 1 .. Len(tree[f[1]].files[f[2]].records)
      BY <3>1, FileRecords
    <3>4. QED  BY <3>1, <3>2, <3>3
  <2>3. QED  BY <2>1, <2>2 DEF Earlier
<1>6. \A i, j \in DOMAIN poems : Place(poems[i]) = Place(poems[j]) => i = j
  BY <1>2, <1>5
<1>7. ASSUME NEW f \in LoadedFiles(tree), NEW m \in DOMAIN tree[f[1]].files[f[2]].records
      PROVE  \E j \in DOMAIN poems : Place(poems[j]) = <<f[1], f[2], m>>
  <2>1. <<f[1], f[2], m>> \in Places(poems)
    BY <1>1 DEF PlacesOf
  <2>2. QED  BY <2>1 DEF Places
<1>8. QED  BY <1>2, <1>3, <1>4, <1>6, <1>7

\* What a decision says of its file.
LEMMA DecisionKinds ==
  ASSUME tree \in Trees, AllRead, NEW i \in DOMAIN decisions, NEW f, f = FileOf(decisions[i])
  PROVE  /\ i \in LoadedOf(decisions) <=> f \in LoadedFiles(tree)
         /\ f \in LoadedFiles(tree) \cup ExcludedFiles(tree) /\ f = <<f[1], f[2]>>
         /\ decisions[i].dataset = f[1] /\ decisions[i].path = f[2] /\ f[1] \in Nat /\ f[2] \in Nat
         /\ f \in LoadedFiles(tree) =>
              decisions[i] = [dataset |-> f[1], path |-> f[2], action |-> "loaded",
                              total |-> Len(tree[f[1]].files[f[2]].records),
                              accepted |-> decisions[i].accepted, rejected |-> decisions[i].rejected]
         /\ f \notin LoadedFiles(tree) => decisions[i] = Unread(f)
<1>1. decisions[i] = Verdict(f)
  BY DEF AllRead, AsDecided
<1>2. f \in LoadedFiles(tree) \cup ExcludedFiles(tree)
  BY DEF AllRead, DecisionsOn
<1>3. f = <<f[1], f[2]>> /\ f[1] \in Nat /\ f[2] \in Nat
  BY <1>2, FileFacts
<1>4. f \in LoadedFiles(tree) => decisions[i] = Decision(f[1], f[2], "loaded", Loaded(f[1], f[2]))
  BY <1>1 DEF Verdict
<1>5. f \notin LoadedFiles(tree) => decisions[i] = Decision(f[1], f[2], "excluded", <<>>)
  BY <1>1 DEF Verdict
<1>6. decisions[i].dataset = f[1] /\ decisions[i].path = f[2]
  BY <1>4, <1>5 DEF Decision
<1>7. ASSUME f \in LoadedFiles(tree)
      PROVE  decisions[i] = [dataset |-> f[1], path |-> f[2], action |-> "loaded",
                             total |-> Len(tree[f[1]].files[f[2]].records),
                             accepted |-> decisions[i].accepted, rejected |-> decisions[i].rejected]
  <2>1. Len(Loaded(f[1], f[2])) = Len(tree[f[1]].files[f[2]].records)
    BY <1>7, FileRecords
  <2>2. QED  BY <1>4, <1>7, <2>1 DEF Decision
<1>8. ASSUME f \notin LoadedFiles(tree) PROVE decisions[i] = Unread(f)
  <2>1. Unreasoned(<<>>) = {} /\ Reasoned(<<>>) = {} /\ Len(<<>>) = 0
    BY DEF Unreasoned, Reasoned
  <2>2. Cardinality(Unreasoned(<<>>)) = 0 /\ Cardinality(Reasoned(<<>>)) = 0
    BY <2>1, FS_EmptySet
  <2>3. QED  BY <1>5, <1>8, <2>1, <2>2 DEF Decision, Unread
<1>9. i \in LoadedOf(decisions) <=> f \in LoadedFiles(tree)
  <2>1. f \in LoadedFiles(tree) => decisions[i].action = "loaded"
    BY <1>4 DEF Decision
  <2>2. f \notin LoadedFiles(tree) => decisions[i].action = "excluded"
    BY <1>5 DEF Decision
  <2>3. QED  BY <2>1, <2>2 DEF LoadedOf
<1>10. QED  BY <1>2, <1>3, <1>6, <1>7, <1>8, <1>9

\* The records of the file that a decision is on.
PartOf(i) == {j \in DOMAIN poems : FileOf(poems[j]) = FileOf(decisions[i])}

\* No two data sets name a file that has records.
Unshared(t) == \A f, g \in LoadedFiles(t) : f[2] = g[2] /\ f[1] < g[1] => t[f[1]].files[f[2]].records = <<>>

\* As many records are in hand as their file has, and as many without a reason as it has texts.
LEMMA PartSizes ==
  ASSUME tree \in Trees, AllRead, AsClassified(poems), NEW i \in LoadedOf(decisions), NEW f, f = FileOf(decisions[i])
  PROVE  /\ Cardinality(PartOf(i)) = Len(tree[f[1]].files[f[2]].records)
         /\ Cardinality(PartOf(i) \cap Unreasoned(poems)) = Cardinality(Good(tree, f))
         /\ Cardinality(PartOf(i) \cap Reasoned(poems)) =
              Len(tree[f[1]].files[f[2]].records) - Cardinality(Good(tree, f))
         /\ Len(tree[f[1]].files[f[2]].records) \in Nat /\ Cardinality(Good(tree, f)) \in Nat
<1> DEFINE R == tree[f[1]].files[f[2]].records
           I == DOMAIN R
           n == Len(R)
           P == PartOf(i)
           G == Good(tree, f)
           Q == P \cap Unreasoned(poems)
           at == [j \in P |-> poems[j].index]
           good == [j \in Q |-> poems[j].index]
<1>1. i \in DOMAIN decisions /\ f \in LoadedFiles(tree) /\ f = <<f[1], f[2]>>
  BY DecisionKinds DEF LoadedOf
<1>2. I = 1 .. n /\ n \in Nat
  BY <1>1, FileRecords
<1>3. /\ \A j \in DOMAIN poems : FileOf(poems[j]) = f =>
           /\ Place(poems[j]) = <<f[1], f[2], poems[j].index>> /\ poems[j].index \in I
           /\ poems[j].reason = "" <=> R[poems[j].index].text = "text"
      /\ \A j, k \in DOMAIN poems : Place(poems[j]) = Place(poems[k]) => j = k
      /\ \A m \in I : \E j \in DOMAIN poems : Place(poems[j]) = <<f[1], f[2], m>>
      /\ IsFiniteSet(DOMAIN poems)
  BY <1>1, RecordPlaces
<1>4. P = {j \in DOMAIN poems : FileOf(poems[j]) = f} /\ P \subseteq DOMAIN poems
  BY DEF PartOf
<1>5. G = {m \in I : R[m].text = "text"} /\ Unreasoned(poems) = {j \in DOMAIN poems : poems[j].reason = ""}
      /\ Reasoned(poems) = DOMAIN poems \ Unreasoned(poems)
  BY DEF Good, Unreasoned, Reasoned
<1>6. \A j \in DOMAIN poems : Place(poems[j])[1] = FileOf(poems[j])[1] /\ Place(poems[j])[2] = FileOf(poems[j])[2]
        /\ Place(poems[j])[3] = poems[j].index /\ FileOf(poems[j]) = <<FileOf(poems[j])[1], FileOf(poems[j])[2]>>
  BY DEF Place, FileOf
<1> HIDE DEF R, I, n, P, G
<1>7. \A m \in I : \E j \in P : poems[j].index = m
  <2>1. SUFFICES ASSUME NEW m \in I PROVE \E j \in P : poems[j].index = m
    OBVIOUS
  <2>2. PICK j \in DOMAIN poems : Place(poems[j]) = <<f[1], f[2], m>>
    BY <1>3, <2>1
  <2>3. FileOf(poems[j])[1] = f[1] /\ FileOf(poems[j])[2] = f[2] /\ poems[j].index = m
    BY <1>6, <2>2
  <2>4. FileOf(poems[j]) = f
    BY <1>1, <1>6, <2>3
  <2>5. QED  BY <1>4, <2>3, <2>4
<1>8. ASSUME NEW j \in P, NEW k \in P, poems[j].index = poems[k].index PROVE j = k
  <2>1. j \in DOMAIN poems /\ FileOf(poems[j]) = f /\ k \in DOMAIN poems /\ FileOf(poems[k]) = f
    BY <1>4
  <2>2. Place(poems[j]) = <<f[1], f[2], poems[j].index>> /\ Place(poems[k]) = <<f[1], f[2], poems[k].index>>
    BY <1>3, <2>1
  <2>3. QED  BY <1>3, <1>8, <2>1, <2>2
<1>9. Bijects(at, P, I)
  BY <1>3, <1>4, <1>7, <1>8 DEF Bijects
<1>10. Bijects(good, Q, G)
  <2>1. good \in [Q -> G]
    BY <1>3, <1>4, <1>5
  <2>2. ASSUME NEW m \in G PROVE \E j \in Q : good[j] = m
    <3>1. m \in I /\ R[m].text = "text"
      BY <1>5
    <3>2. PICK j \in P : poems[j].index = m
      BY <1>7, <3>1
    <3>3. j \in DOMAIN poems /\ FileOf(poems[j]) = f
      BY <1>4
    <3>4. j \in Unreasoned(poems)
      BY <1>3, <1>5, <3>1, <3>2, <3>3
    <3>5. QED  BY <3>2, <3>4
  <2>3. \A j, k \in Q : good[j] = good[k] => j = k
    BY <1>8
  <2>4. QED  BY <2>1, <2>2, <2>3 DEF Bijects
<1> HIDE DEF at, good
<1>11. IsFiniteSet(I) /\ Cardinality(I) = n
  BY <1>2, FS_Interval
<1>12. IsFiniteSet(G) /\ Cardinality(G) \in Nat
  BY <1>5, <1>11, FS_Subset, FS_CardinalityType
<1>13. IsFiniteSet(P) /\ Cardinality(P) = n
  BY <1>9, <1>11, SameNumber
<1>14. Cardinality(Q) = Cardinality(G)
  BY <1>10, <1>12, SameNumber
<1>15. Cardinality(P \cap Reasoned(poems)) = n - Cardinality(G)
  <2>1. P \cap Reasoned(poems) = P \ Unreasoned(poems)
    BY <1>4, <1>5
  <2> DEFINE U == Unreasoned(poems)
  <2>2. Cardinality(P \ U) = Cardinality(P) - Cardinality(P \cap U)
    BY <1>13, FS_Difference
  <2>3. QED  BY <1>13, <1>14, <2>1, <2>2
<1>16. QED  BY <1>2, <1>12, <1>13, <1>14, <1>15 DEF P, G, R, n

\* Decisions on one path are made in the order of the data sets that name it.
LEMMA SamePath ==
  ASSUME tree \in Trees, AllRead, NEW i \in LoadedOf(decisions), NEW j \in LoadedOf(decisions),
         decisions[i].path = decisions[j].path, i < j
  PROVE  FileOf(decisions[i])[2] = FileOf(decisions[j])[2] /\ FileOf(decisions[i])[1] < FileOf(decisions[j])[1]
<1>1. i \in DOMAIN decisions /\ j \in DOMAIN decisions
  BY DEF LoadedOf
<1>2. ReportedBefore(decisions[i], decisions[j])
  BY <1>1 DEF AllRead, InReportOrder
<1>3. /\ decisions[i].dataset = FileOf(decisions[i])[1] /\ decisions[i].path = FileOf(decisions[i])[2]
      /\ decisions[j].dataset = FileOf(decisions[j])[1] /\ decisions[j].path = FileOf(decisions[j])[2]
      /\ FileOf(decisions[j])[2] \in Nat
  BY <1>1, DecisionKinds
<1>4. decisions[i].path = decisions[j].path /\ decisions[i].path \in Nat
  BY <1>3
<1>5. decisions[i].dataset < decisions[j].dataset
  <2> DEFINE p == decisions[i].path  q == decisions[j].path
             k == decisions[i].dataset  l == decisions[j].dataset
  <2>1. (k < l \/ (k = l /\ p < q)) /\ p = q /\ p \in Nat
    BY <1>2, <1>4 DEF ReportedBefore
  <2> HIDE DEF p, q, k, l
  <2>2. k < l
    BY <2>1
  <2>3. QED  BY <2>2 DEF k, l
<1>6. QED  BY <1>3, <1>5

LEMMA EmptyPart ==
  ASSUME tree \in Trees, AllRead, AsClassified(poems), NEW i \in LoadedOf(decisions),
         tree[FileOf(decisions[i])[1]].files[FileOf(decisions[i])[2]].records = <<>>
  PROVE  PartOf(i) = {}
<1> DEFINE f == FileOf(decisions[i])
<1>1. SUFFICES ASSUME NEW j \in PartOf(i) PROVE FALSE
  OBVIOUS
<1>2. j \in DOMAIN poems /\ FileOf(poems[j]) = f
  BY DEF PartOf
<1>3. poems[j].index \in DOMAIN tree[f[1]].files[f[2]].records
  BY <1>2, RecordPlaces
<1>4. tree[f[1]].files[f[2]].records = <<>>
  OBVIOUS
<1>5. QED  BY <1>3, <1>4

\* If no data sets share a file, the path alone finds the decision on a record.
LEMMA PathDecides ==
  ASSUME tree \in Trees, AllRead, AsClassified(poems), Unshared(tree), NEW i \in LoadedOf(decisions)
  PROVE  AccountedTo(i) = PartOf(i)
<1>1. /\ DOMAIN decisions = 1 .. Len(decisions) /\ Len(decisions) \in Nat
      /\ LoadedOf(decisions) \subseteq DOMAIN decisions
      /\ {FileOf(decisions[k]) : k \in DOMAIN decisions} = LoadedFiles(tree) \cup ExcludedFiles(tree)
  BY ElementsOfSequence DEF AllRead, DecisionsOn, LoadedOf
<1>2. \A k \in LoadedOf(decisions) :
        /\ FileOf(decisions[k]) \in LoadedFiles(tree)
        /\ FileOf(decisions[k]) = <<decisions[k].dataset, decisions[k].path>>
  BY <1>1, DecisionKinds DEF FileOf
<1>3. ASSUME NEW j \in LoadedOf(decisions), NEW k \in LoadedOf(decisions), decisions[j].path = decisions[k].path, j < k
      PROVE  PartOf(j) = {}
  BY <1>2, <1>3, SamePath, EmptyPart DEF Unshared
<1>4. \A j \in DOMAIN poems : \E k \in LoadedOf(decisions) : j \in PartOf(k) /\ poems[j].path = decisions[k].path
  <2>1. SUFFICES ASSUME NEW j \in DOMAIN poems
                 PROVE  \E k \in LoadedOf(decisions) : j \in PartOf(k) /\ poems[j].path = decisions[k].path
    OBVIOUS
  <2>2. FileOf(poems[j]) \in LoadedFiles(tree)
    BY RecordPlaces
  <2>3. PICK k \in DOMAIN decisions : FileOf(decisions[k]) = FileOf(poems[j])
    BY <1>1, <2>2
  <2>4. k \in LoadedOf(decisions)
    BY <2>2, <2>3, DecisionKinds
  <2>5. poems[j].path = decisions[k].path
    BY <2>3 DEF FileOf
  <2>6. QED  BY <2>3, <2>4, <2>5 DEF PartOf
<1>5. AccountedTo(i) \subseteq PartOf(i)
  <2>1. SUFFICES ASSUME NEW j \in AccountedTo(i) PROVE j \in PartOf(i)
    OBVIOUS
  <2>2. j \in DOMAIN poems /\ Stands(i) /\ poems[j].path = decisions[i].path
    BY DEF AccountedTo
  <2>3. PICK k \in LoadedOf(decisions) : j \in PartOf(k) /\ poems[j].path = decisions[k].path
    BY <1>4, <2>2
  <2>4. k <= i
    BY <2>2, <2>3 DEF Stands
  <2>5. ~(k < i)
    BY <1>3, <2>2, <2>3
  <2>6. k = i
    BY <1>1, <2>4, <2>5
  <2>7. QED  BY <2>3, <2>6
<1>6. PartOf(i) \subseteq AccountedTo(i)
  <2>1. SUFFICES ASSUME NEW j \in PartOf(i) PROVE j \in AccountedTo(i)
    OBVIOUS
  <2>2. j \in DOMAIN poems /\ poems[j].path = decisions[i].path
    BY DEF PartOf, FileOf
  <2>3. Stands(i)
    <3>1. SUFFICES ASSUME NEW k \in LoadedOf(decisions), decisions[k].path = decisions[i].path PROVE k <= i
      BY DEF Stands
    <3>2. ~(i < k)
      BY <1>3, <2>1, <3>1
    <3>3. QED  BY <1>1, <3>2
  <2>4. QED  BY <2>2, <2>3 DEF AccountedTo
<1>7. QED  BY <1>5, <1>6

\* FinalizeReport goes on exactly if no data sets share a file that has records.
LEMMA AccountsExactly ==
  ASSUME tree \in Trees, AllRead, AsClassified(poems)
  PROVE  Accounts(Recounted) <=> Unshared(tree)
<1>1. /\ DOMAIN decisions = 1 .. Len(decisions) /\ Len(decisions) \in Nat
      /\ LoadedOf(decisions) \subseteq DOMAIN decisions
      /\ {FileOf(decisions[k]) : k \in DOMAIN decisions} = LoadedFiles(tree) \cup ExcludedFiles(tree)
  BY ElementsOfSequence DEF AllRead, DecisionsOn, LoadedOf
<1>2. DOMAIN Recounted = DOMAIN decisions
  BY DEF Recounted
<1>3. ASSUME NEW i \in LoadedOf(decisions)
      PROVE  /\ Recounted[i].total = Len(tree[FileOf(decisions[i])[1]].files[FileOf(decisions[i])[2]].records)
             /\ Recounted[i].accepted = Cardinality(AccountedTo(i) \cap Unreasoned(poems))
             /\ Recounted[i].rejected = Cardinality(AccountedTo(i) \cap Reasoned(poems))
             /\ Recounted[i].action = "loaded"
  <2> DEFINE f == FileOf(decisions[i])
             n == Len(tree[f[1]].files[f[2]].records)
  <2>1. i \in DOMAIN decisions /\ f \in LoadedFiles(tree)
    BY <1>1, DecisionKinds
  <2>2. decisions[i] = [dataset |-> f[1], path |-> f[2], action |-> "loaded", total |-> n,
                        accepted |-> decisions[i].accepted, rejected |-> decisions[i].rejected]
    BY <2>1, DecisionKinds
  <2>3. Recounted[i] = [decisions[i] EXCEPT !.accepted = Cardinality(AccountedTo(i) \cap Unreasoned(poems)),
                                            !.rejected = Cardinality(AccountedTo(i) \cap Reasoned(poems))]
    BY <2>1 DEF Recounted
  <2> HIDE DEF f, n
  <2>4. QED  BY <2>2, <2>3 DEF f, n
<1>4. \A i \in DOMAIN decisions \ LoadedOf(decisions) : Recounted[i] = decisions[i]
  BY DEF Recounted
<1>5. LoadedOf(Recounted) = LoadedOf(decisions)
  BY <1>2, <1>3, <1>4 DEF LoadedOf
<1>6. ASSUME Unshared(tree) PROVE Accounts(Recounted)
  <2>1. ASSUME NEW j \in DOMAIN poems PROVE \E i \in DOMAIN Recounted : j \in AccountedTo(i)
    <3>1. FileOf(poems[j]) \in LoadedFiles(tree)
      BY RecordPlaces
    <3>2. PICK i \in DOMAIN decisions : FileOf(decisions[i]) = FileOf(poems[j])
      BY <1>1, <3>1
    <3>3. i \in LoadedOf(decisions)
      BY <3>1, <3>2, DecisionKinds
    <3>4. j \in PartOf(i)
      BY <3>2 DEF PartOf
    <3>5. QED  BY <1>2, <1>6, <3>3, <3>4, PathDecides
  <2>2. ASSUME NEW i \in LoadedOf(decisions) PROVE Recounted[i].accepted + Recounted[i].rejected = Recounted[i].total
    <3> DEFINE f == FileOf(decisions[i])
               n == Len(tree[f[1]].files[f[2]].records)
               g == Cardinality(Good(tree, f))
    <3>1. AccountedTo(i) = PartOf(i)
      BY <1>6, PathDecides
    <3>2. /\ Cardinality(PartOf(i) \cap Unreasoned(poems)) = g /\ Cardinality(PartOf(i) \cap Reasoned(poems)) = n - g
          /\ n \in Nat /\ g \in Nat
      BY PartSizes
    <3>3. Recounted[i].total = n
      BY <1>3
    <3> HIDE DEF n, g
    <3>4. QED  BY <1>3, <3>1, <3>2, <3>3
  <2>3. QED  BY <1>5, <2>1, <2>2 DEF Accounts
<1>7. ASSUME Accounts(Recounted), NEW f \in LoadedFiles(tree), NEW g \in LoadedFiles(tree), f[2] = g[2], f[1] < g[1]
      PROVE  tree[f[1]].files[f[2]].records = <<>>
  <2>1. PICK i \in DOMAIN decisions : FileOf(decisions[i]) = f
    BY <1>1
  <2>2. PICK j \in DOMAIN decisions : FileOf(decisions[j]) = g
    BY <1>1
  <2>3. /\ i \in LoadedOf(decisions) /\ j \in LoadedOf(decisions)
        /\ decisions[i].path = f[2] /\ decisions[j].path = g[2]
        /\ f[1] \in Nat /\ g[1] \in Nat
    BY <2>1, <2>2, DecisionKinds
  <2>4. i < j
    <3>1. i # j
      BY <1>7, <2>1, <2>2, <2>3
    <3>2. ~(j < i)
      <4>1. SUFFICES ASSUME j < i PROVE FALSE
        OBVIOUS
      <4>2. g[1] < f[1]
        BY <1>7, <2>1, <2>2, <2>3, <4>1, SamePath
      <4>3. QED  BY <1>7, <2>3, <4>2
    <3>3. QED  BY <1>1, <3>1, <3>2
  <2>5. ~Stands(i)
    BY <1>1, <1>7, <2>3, <2>4 DEF Stands
  <2>6. AccountedTo(i) \cap Unreasoned(poems) = {} /\ AccountedTo(i) \cap Reasoned(poems) = {}
    BY <2>5 DEF AccountedTo
  <2>7. Recounted[i].accepted = 0 /\ Recounted[i].rejected = 0
    BY <1>3, <2>3, <2>6, FS_EmptySet
  <2>8. Recounted[i].accepted + Recounted[i].rejected = Recounted[i].total
    BY <1>5, <1>7, <2>3 DEF Accounts
  <2>9. Recounted[i].total = Len(tree[f[1]].files[f[2]].records)
    BY <1>3, <2>1, <2>3
  <2>10. Len(tree[f[1]].files[f[2]].records) = 0
    BY <2>7, <2>8, <2>9
  <2>11. tree[f[1]].files[f[2]] \in Files
    BY FileFacts
  <2> DEFINE s == tree[f[1]].files[f[2]].records
             R == [text : Texts, canonical : STRING, id : Nat, product : STRING, author : STRING]
  <2>12. s \in Seq(R) /\ Len(s) = 0
    BY <2>10, <2>11 DEF Files
  <2> HIDE DEF s, R
  <2>13. s = <<>>
    BY <2>12, EmptySeq
  <2>14. QED  BY <2>13 DEF s
<1>8. QED  BY <1>6, <1>7 DEF Unshared

\* The files of the decisions part the records.
LEMMA PartsOfRecords ==
  ASSUME tree \in Trees, AllRead, AsClassified(poems)
  PROVE  /\ \A i, j \in LoadedOf(decisions) : i # j => PartOf(i) \cap PartOf(j) = {}
         /\ \A j \in DOMAIN poems : \E i \in LoadedOf(decisions) : j \in PartOf(i)
<1>1. /\ {FileOf(decisions[k]) : k \in DOMAIN decisions} = LoadedFiles(tree) \cup ExcludedFiles(tree)
      /\ \A i, j \in DOMAIN decisions : FileOf(decisions[i]) = FileOf(decisions[j]) => i = j
  BY DEF AllRead, DecisionsOn
<1>2. \A i, j \in LoadedOf(decisions) : i # j => PartOf(i) \cap PartOf(j) = {}
  BY <1>1 DEF PartOf, LoadedOf
<1>3. ASSUME NEW j \in DOMAIN poems PROVE \E i \in LoadedOf(decisions) : j \in PartOf(i)
  <2>1. FileOf(poems[j]) \in LoadedFiles(tree)
    BY RecordPlaces
  <2>2. PICK i \in DOMAIN decisions : FileOf(decisions[i]) = FileOf(poems[j])
    BY <1>1, <2>1
  <2>3. i \in LoadedOf(decisions)
    BY <2>1, <2>2, DecisionKinds
  <2>4. QED  BY <2>2, <2>3 DEF PartOf
<1>4. QED  BY <1>2, <1>3

\* The decisions as they are recounted.
LEMMA RecountedFacts ==
  ASSUME tree \in Trees, AllRead, AsClassified(poems), Unshared(tree)
  PROVE  /\ DOMAIN Recounted = DOMAIN decisions /\ LoadedOf(Recounted) = LoadedOf(decisions)
         /\ \A i \in LoadedOf(decisions) : Recounted[i] = Tally(tree, FileOf(decisions[i]))
         /\ \A i \in DOMAIN decisions \ LoadedOf(decisions) : Recounted[i] = Unread(FileOf(decisions[i]))
<1>1. DOMAIN Recounted = DOMAIN decisions
  BY DEF Recounted
<1>2. ASSUME NEW i \in LoadedOf(decisions) PROVE Recounted[i] = Tally(tree, FileOf(decisions[i]))
  <2> DEFINE f == FileOf(decisions[i])
             n == Len(tree[f[1]].files[f[2]].records)
             g == Cardinality(Good(tree, f))
  <2>1. i \in DOMAIN decisions /\ f \in LoadedFiles(tree)
    BY DecisionKinds DEF LoadedOf
  <2>2. decisions[i] = [dataset |-> f[1], path |-> f[2], action |-> "loaded", total |-> n,
                        accepted |-> decisions[i].accepted, rejected |-> decisions[i].rejected]
    BY <2>1, DecisionKinds
  <2>3. AccountedTo(i) = PartOf(i)
    BY PathDecides
  <2>4. Cardinality(PartOf(i) \cap Unreasoned(poems)) = g /\ Cardinality(PartOf(i) \cap Reasoned(poems)) = n - g
    BY PartSizes
  <2>5. Recounted[i] = [decisions[i] EXCEPT !.accepted = g, !.rejected = n - g]
    BY <2>1, <2>3, <2>4 DEF Recounted
  <2>6. Tally(tree, f) = [dataset |-> f[1], path |-> f[2], action |-> "loaded", total |-> n,
                          accepted |-> g, rejected |-> n - g]
    BY DEF Tally
  <2>7. PICK a, r : decisions[i] = [dataset |-> f[1], path |-> f[2], action |-> "loaded", total |-> n,
                                    accepted |-> a, rejected |-> r]
    BY <2>2
  <2> HIDE DEF f, n, g
  <2>8. Recounted[i] = Tally(tree, f)
    <3> DEFINE d == decisions[i]  b == n - g
    <3>1. /\ d = [dataset |-> f[1], path |-> f[2], action |-> "loaded", total |-> n, accepted |-> a, rejected |-> r]
          /\ Recounted[i] = [d EXCEPT !.accepted = g, !.rejected = b]
          /\ Tally(tree, f) = [dataset |-> f[1], path |-> f[2], action |-> "loaded", total |-> n,
                               accepted |-> g, rejected |-> b]
      BY <2>5, <2>6, <2>7
    <3> HIDE DEF d, b
    <3>2. [d EXCEPT !.accepted = g, !.rejected = b] =
            [dataset |-> f[1], path |-> f[2], action |-> "loaded", total |-> n, accepted |-> g, rejected |-> b]
      BY <3>1
    <3>3. QED  BY <3>1, <3>2
  <2>9. QED  BY <2>8 DEF f
<1>3. ASSUME NEW i \in DOMAIN decisions \ LoadedOf(decisions) PROVE Recounted[i] = Unread(FileOf(decisions[i]))
  <2>1. Recounted[i] = decisions[i]
    BY DEF Recounted
  <2>2. QED  BY <2>1, DecisionKinds
<1>4. LoadedOf(Recounted) = LoadedOf(decisions)
  <2>1. (\A f : Tally(tree, f).action = "loaded") /\ \A f : Unread(f).action = "excluded"
    BY DEF Tally, Unread
  <2>2. \A i \in LoadedOf(decisions) : Recounted[i].action = "loaded" /\ i \in DOMAIN decisions
    BY <1>2, <2>1 DEF LoadedOf
  <2>3. \A i \in DOMAIN decisions \ LoadedOf(decisions) : Recounted[i].action # "loaded"
    BY <1>3, <2>1
  <2>4. QED  BY <1>1, <2>2, <2>3 DEF LoadedOf
<1>5. QED  BY <1>1, <1>2, <1>3, <1>4

\* The totals of the report are the numbers of records in hand.
LEMMA ReportTotals ==
  ASSUME tree \in Trees, AllRead, AsClassified(poems), Unshared(tree)
  PROVE  /\ Report(Recounted).files = Recounted
         /\ Report(Recounted).total = Len(poems)
         /\ Report(Recounted).accepted = Cardinality(Unreasoned(poems))
         /\ Report(Recounted).rejected = Cardinality(Reasoned(poems))
         /\ Report(Recounted).excluded = Cardinality(ExcludedFiles(tree))
<1> DEFINE L == LoadedOf(decisions)
           U == Unreasoned(poems)
           R == Reasoned(poems)
           D == DOMAIN poems
           sums == [i \in L |-> Recounted[i].total]
           good == [i \in L |-> Recounted[i].accepted]
           bad == [i \in L |-> Recounted[i].rejected]
           all == [i \in L |-> PartOf(i)]
           kept == [i \in L |-> PartOf(i) \cap U]
           left == [i \in L |-> PartOf(i) \cap R]
<1>1. /\ DOMAIN Recounted = DOMAIN decisions /\ LoadedOf(Recounted) = L
      /\ \A i \in L : Recounted[i] = Tally(tree, FileOf(decisions[i]))
  BY RecountedFacts
<1>2. IsFiniteSet(D) /\ Cardinality(D) = Len(poems) /\ U \subseteq D /\ R \subseteq D
  BY RecordPlaces DEF Unreasoned, Reasoned
<1>3. \A i \in L : PartOf(i) \subseteq D
  BY DEF PartOf
<1>4. /\ \A i, j \in L : i # j => PartOf(i) \cap PartOf(j) = {}
      /\ \A j \in D : \E i \in L : j \in PartOf(i)
  BY PartsOfRecords
<1>5. ASSUME NEW i \in L
      PROVE  /\ Recounted[i].total = Cardinality(PartOf(i))
             /\ Recounted[i].accepted = Cardinality(PartOf(i) \cap U)
             /\ Recounted[i].rejected = Cardinality(PartOf(i) \cap R)
  <2> DEFINE f == FileOf(decisions[i])
             n == Len(tree[f[1]].files[f[2]].records)
             g == Cardinality(Good(tree, f))
  <2>1. Cardinality(PartOf(i)) = n /\ Cardinality(PartOf(i) \cap U) = g /\ Cardinality(PartOf(i) \cap R) = n - g
    BY PartSizes
  <2>2. Tally(tree, f).total = n /\ Tally(tree, f).accepted = g /\ Tally(tree, f).rejected = n - g
    BY DEF Tally
  <2>3. QED  BY <1>1, <2>1, <2>2
<1>6. /\ Report(Recounted).files = Recounted
      /\ Report(Recounted).total = Total(sums) /\ Report(Recounted).accepted = Total(good)
      /\ Report(Recounted).rejected = Total(bad) /\ Report(Recounted).excluded = Cardinality(DOMAIN decisions \ L)
  BY <1>1 DEF Report
<1> HIDE DEF L, U, R, D
<1>7. Total(sums) = Cardinality(D)
  <2>1. DOMAIN sums = L /\ \A i \in L : all[i] \subseteq D /\ sums[i] = Cardinality(all[i])
    BY <1>3, <1>5
  <2>2. (\A i, j \in L : i # j => all[i] \cap all[j] = {}) /\ \A j \in D : \E i \in L : j \in all[i]
    BY <1>4
  <2>3. IsFiniteSet(D)
    BY <1>2
  <2> HIDE DEF sums, all
  <2>4. QED  BY <2>1, <2>2, <2>3, TotalOfParts
<1>8. Total(good) = Cardinality(U)
  <2>1. DOMAIN good = L /\ \A i \in L : kept[i] \subseteq U /\ good[i] = Cardinality(kept[i])
    BY <1>5
  <2>2. (\A i, j \in L : i # j => kept[i] \cap kept[j] = {}) /\ \A j \in U : \E i \in L : j \in kept[i]
    BY <1>2, <1>4
  <2>3. IsFiniteSet(U)
    BY <1>2, FS_Subset
  <2> HIDE DEF good, kept
  <2>4. QED  BY <2>1, <2>2, <2>3, TotalOfParts
<1>9. Total(bad) = Cardinality(R)
  <2>1. DOMAIN bad = L /\ \A i \in L : left[i] \subseteq R /\ bad[i] = Cardinality(left[i])
    BY <1>5
  <2>2. (\A i, j \in L : i # j => left[i] \cap left[j] = {}) /\ \A j \in R : \E i \in L : j \in left[i]
    BY <1>2, <1>4
  <2>3. IsFiniteSet(R)
    BY <1>2, FS_Subset
  <2> HIDE DEF bad, left
  <2>4. QED  BY <2>1, <2>2, <2>3, TotalOfParts
<1>10. Cardinality(DOMAIN decisions \ L) = Cardinality(ExcludedFiles(tree))
  <2> DEFINE X == DOMAIN decisions \ L
             E == ExcludedFiles(tree)
             file == [i \in X |-> FileOf(decisions[i])]
             files == LoadedFiles(tree) \cup ExcludedFiles(tree)
  <2>1. /\ DecisionsOn(decisions, files) /\ files \subseteq LoadedFiles(tree) \cup ExcludedFiles(tree)
        /\ {FileOf(decisions[k]) : k \in DOMAIN decisions} = files
        /\ \A i, j \in DOMAIN decisions : FileOf(decisions[i]) = FileOf(decisions[j]) => i = j
    BY DEF AllRead, DecisionsOn
  <2> HIDE DEF files
  <2>2. IsFiniteSet(DOMAIN decisions)
    BY <2>1, DecisionFields
  <2>3. IsFiniteSet(X)
    BY <2>2, FS_Subset
  <2>4. \A i \in DOMAIN decisions : i \in X <=> FileOf(decisions[i]) \in E
    <3>1. \A i \in DOMAIN decisions : i \in L <=> FileOf(decisions[i]) \in LoadedFiles(tree)
      BY DecisionKinds DEF L
    <3>2. LoadedFiles(tree) \cap E = {}
      BY FileFacts
    <3>3. QED  BY <2>1, <3>1, <3>2 DEF files
  <2>5. DOMAIN file = X /\ file = [i \in X |-> file[i]] /\ \A i, j \in X : file[i] = file[j] => i = j
    BY <2>1
  <2>6. {file[i] : i \in X} = E
    <3>1. \A i \in X : file[i] \in E
      BY <2>4
    <3>2. ASSUME NEW f \in E PROVE \E i \in X : file[i] = f
      <4>1. PICK i \in DOMAIN decisions : FileOf(decisions[i]) = f
        BY <2>1 DEF files
      <4>2. QED  BY <2>4, <4>1
    <3>3. QED  BY <3>1, <3>2
  <2> HIDE DEF X, E, file
  <2>7. Cardinality({file[i] : i \in X}) = Cardinality(X)
    BY <2>3, <2>5, Image
  <2>8. QED  BY <2>6, <2>7 DEF X, E
<1>11. QED  BY <1>2, <1>6, <1>7, <1>8, <1>9, <1>10 DEF U, R, D

\* How many records are kept and how many are not.
LEMMA PartLengths ==
  ASSUME tree \in Trees, AllRead, AsClassified(poems), Partitioned
  PROVE  /\ Len(accepted) = Cardinality(Unreasoned(poems)) /\ Len(rejections) = Cardinality(Reasoned(poems))
         /\ Len(accepted) \in Nat /\ Len(rejections) \in Nat /\ Len(poems) = Len(accepted) + Len(rejections)
<1> DEFINE U == Unreasoned(poems)
           D == DOMAIN poems
<1>1. U \subseteq D /\ Reasoned(poems) = D \ U
  BY DEF Unreasoned, Reasoned
<1>2. poems \in Seq(ToSet(poems))
  BY DEF AllRead, RecordsOf
<1>3. IsFiniteSet(D) /\ Cardinality(D) = Len(poems)
  BY RecordPlaces
<1> HIDE DEF U, D
<1>4. Len(Subsequence(poems, U)) = Cardinality(U) /\ Len(Subsequence(poems, D \ U)) = Cardinality(D \ U)
  <2>1. U \subseteq DOMAIN poems /\ D \ U \subseteq DOMAIN poems
    BY <1>1 DEF D
  <2>2. QED  BY <1>2, <2>1, SubsequenceFacts
<1>5. accepted = Subsequence(poems, U) /\ rejections = Subsequence(poems, D \ U)
  BY <1>1 DEF Partitioned, U
<1>6. D \cap U = U /\ IsFiniteSet(U) /\ IsFiniteSet(D \ U)
  BY <1>1, <1>3, FS_Subset
<1>7. Cardinality(D \ U) = Cardinality(D) - Cardinality(U)
  BY <1>3, <1>6, FS_Difference
<1>8. Cardinality(U) \in Nat /\ Cardinality(D \ U) \in Nat /\ Cardinality(D) \in Nat
  BY <1>3, <1>6, FS_CardinalityType
<1>9. QED  BY <1>1, <1>3, <1>4, <1>5, <1>7, <1>8 DEF U

-----------------------------------------------------------------------------
(* The report is finalised and compared, and the catalogue is built. *)

LEMMA SameCount ==
  ASSUME poems' = poems, decisions' = decisions
  PROVE  Recounted' = Recounted /\ (Accounts(Recounted)' <=> Accounts(Recounted))
<1>1. \A i : Stands(i)' <=> Stands(i)
  BY DEF Stands
<1>2. \A i : AccountedTo(i)' = AccountedTo(i)
  BY <1>1 DEF AccountedTo
<1>3. Recounted' = Recounted
  BY <1>2 DEF Recounted
<1>4. \A ds : Accounts(ds)' <=> Accounts(ds)
  BY <1>2 DEF Accounts
<1>5. Accounts(Recounted)' <=> Accounts(Recounted)
  BY <1>3, <1>4 DEF Accounts
<1>6. QED  BY <1>3, <1>5

LEMMA SameRead ==
  ASSUME tree' = tree, poems' = poems, decisions' = decisions
  PROVE  /\ AllRead => AllRead'
         /\ AsClassified(poems) => AsClassified(poems)'
<1>1. AsClassified(poems) => AsClassified(poems)'
  BY SameTree
<1>2. AsDecided(decisions) => AsDecided(decisions)'
  BY SameTree
<1>3. InReportOrder(decisions) => InReportOrder(decisions)'
  BY DEF InReportOrder
<1>4. QED  BY <1>1, <1>2, <1>3 DEF AllRead

\* A tree whose files can be read and are shared by no data sets can be built.
LEMMA SoundExactly ==
  ASSUME AllRead
  PROVE  SoundTree(tree) <=> Unshared(tree)
  BY DEF AllRead, Readable, SoundTree, Unshared

LEMMA FinalizeReportInv ==
  ASSUME LoaderInv, FinalizeReport
  PROVE  LoaderInv'
<1>1. /\ tree \in Trees /\ tree' = tree /\ stage = "partitioned" /\ poems' = poems /\ decisions' = decisions
      /\ accepted' = accepted /\ rejections' = rejections
      /\ IF Accounts(Recounted) THEN report' = Report(Recounted) /\ stage' = "accounted" ELSE stage' = "failed"
  BY DEF LoaderInv, FinalizeReport, Fail
<1>2. AllRead /\ Partitioned
  BY <1>1 DEF LoaderInv, AllLoaded
<1>3. CASE ~Accounts(Recounted)
  <2>1. AsClassified(poems)
    BY <1>2 DEF Partitioned
  <2>2. ~SoundTree(tree)
    BY <1>1, <1>2, <1>3, <2>1, AccountsExactly, SoundExactly
  <2>3. QED  BY <1>1, <1>3, <2>2 DEF LoaderInv, Loading, AllLoaded, Refused
<1>4. CASE Accounts(Recounted)
  <2>1. AllRead' /\ AsClassified(poems)'
    BY <1>1, <1>2, SameRead DEF Partitioned
  <2>2. Partitioned'
    BY <1>1, <1>2, <2>1 DEF Partitioned
  <2>3. Recounted' = Recounted /\ Accounts(Recounted)'
    BY <1>1, <1>4, SameCount
  <2>4. Report(Recounted)' = Report(Recounted)
    BY <2>3 DEF Report
  <2>5. Reported'
    BY <1>1, <1>4, <2>3, <2>4 DEF Reported
  <2>6. QED  BY <1>1, <1>4, <2>1, <2>2, <2>5 DEF LoaderInv, Loading, AllLoaded, Refused
<1>5. QED  BY <1>3, <1>4

\* The comparison of run never fails: FinalizeReport has established what it asks.
LEMMA CheckAccountingInv ==
  ASSUME LoaderInv, CheckAccounting
  PROVE  LoaderInv'
<1>1. /\ tree \in Trees /\ tree' = tree /\ stage = "accounted" /\ poems' = poems /\ decisions' = decisions
      /\ accepted' = accepted /\ rejections' = rejections /\ report' = report
      /\ stage' = IF Reconciled THEN "ready" ELSE "failed"
  BY DEF LoaderInv, CheckAccounting, Reconciled
<1>2. AllRead /\ Partitioned /\ Reported
  BY <1>1 DEF LoaderInv, AllLoaded
<1>3. AsClassified(poems)
  BY <1>2 DEF Partitioned
<1>4. Unshared(tree)
  BY <1>1, <1>2, <1>3, AccountsExactly DEF Reported
<1>5. Reconciled
  BY <1>1, <1>2, <1>3, <1>4, ReportTotals, PartLengths DEF Reconciled, Reported
<1>6. AllRead' /\ AsClassified(poems)'
  BY <1>1, <1>2, <1>3, SameRead
<1>7. Partitioned'
  BY <1>1, <1>2, <1>6 DEF Partitioned
<1>8. Reported'
  <2>1. Recounted' = Recounted /\ Accounts(Recounted)'
    BY <1>1, <1>2, SameCount DEF Reported
  <2>2. Report(Recounted)' = Report(Recounted)
    BY <2>1 DEF Report
  <2>3. QED  BY <1>1, <1>2, <2>1, <2>2 DEF Reported
<1>9. Reconciled'
  BY <1>1, <1>5 DEF Reconciled
<1>10. QED  BY <1>1, <1>5, <1>6, <1>7, <1>8, <1>9 DEF LoaderInv, Loading, AllLoaded, Refused

\* Nothing is loaded while readers read, and when a build has ended or another begins.
LEMMA IdleInv ==
  ASSUME LoaderInv, tree' = tree, stage' \in {"start", "conflict", "published"}
  PROVE  LoaderInv'
  BY DEF LoaderInv, Loading, AllLoaded, Refused

LEMMA UnchangedInv ==
  ASSUME LoaderInv, UNCHANGED building
  PROVE  LoaderInv'
<1>1. /\ tree' = tree /\ stage' = stage /\ keys' = keys /\ paths' = paths /\ poems' = poems /\ decisions' = decisions
      /\ accepted' = accepted /\ rejections' = rejections /\ report' = report /\ faulted' = faulted
  BY DEF building
<1>2. DoneFiles' = DoneFiles /\ DoneExcluded' = DoneExcluded
  BY <1>1 DEF DoneFiles, DoneExcluded
<1>3. AsLoaded(poems) => AsLoaded(poems)'
  BY <1>1, SameTree
<1>4. AsDecided(decisions) => AsDecided(decisions)'
  BY <1>1, SameTree
<1>5. (KeysLeft => KeysLeft') /\ (PathsLeft => PathsLeft')
  BY <1>1 DEF KeysLeft, PathsLeft
<1>6. Loading => Loading'
  BY <1>1, <1>2, <1>3, <1>4, <1>5 DEF Loading
<1>7. (AllRead => AllRead') /\ (AsClassified(poems) => AsClassified(poems)')
  BY <1>1, SameRead
<1>8. Partitioned => Partitioned'
  BY <1>1, <1>7 DEF Partitioned
<1>9. Reported => Reported'
  <2>1. Recounted' = Recounted /\ (Accounts(Recounted)' <=> Accounts(Recounted))
    BY <1>1, SameCount
  <2>2. Report(Recounted)' = Report(Recounted)
    BY <2>1 DEF Report
  <2>3. QED  BY <1>1, <2>1, <2>2 DEF Reported
<1>10. Reconciled => Reconciled'
  BY <1>1 DEF Reconciled
<1>11. AllLoaded => AllLoaded'
  BY <1>1, <1>3, <1>7, <1>8, <1>9, <1>10 DEF AllLoaded
<1>12. Refused => Refused'
  BY <1>1 DEF Refused
<1>13. QED  BY <1>1, <1>6, <1>11, <1>12 DEF LoaderInv

LEMMA LoaderStepInv ==
  ASSUME LoaderInv, LoaderNext
  PROVE  LoaderInv'
<1>1. CASE LoadAll
  BY <1>1, LoadAllInv
<1>2. CASE OpenDirectory
  BY <1>2, OpenDirectoryInv
<1>3. CASE OpenFile
  BY <1>3, OpenFileInv
<1>4. CASE OpenMissing
  BY <1>4, OpenMissingInv
<1>5. CASE LoadFile
  BY <1>5, LoadFileInv
<1>6. CASE CloseDataset
  BY <1>6, CloseDatasetInv
<1>7. CASE ReadFails
  BY <1>7, ReadFailsInv
<1>8. CASE SortReport
  BY <1>8, SortReportInv
<1>9. CASE PartitionSources
  BY <1>9, PartitionSourcesInv
<1>10. CASE FinalizeReport
  BY <1>10, FinalizeReportInv
<1>11. CASE CheckAccounting
  BY <1>11, CheckAccountingInv
<1>12. QED
  BY <1>1, <1>2, <1>3, <1>4, <1>5, <1>6, <1>7, <1>8, <1>9, <1>10, <1>11 DEF LoaderNext

-----------------------------------------------------------------------------
(* What is kept of a tree. *)

\* What is taken of the records in hand, in their order.
LEMMA TakenRecords ==
  ASSUME AllRead, NEW P, P \subseteq DOMAIN poems, NEW t, t = Subsequence(poems, P)
  PROVE  /\ t \in Seq(ToSet(poems)) /\ ToSet(t) = {poems[j] : j \in P}
         /\ Places(t) = {Place(poems[j]) : j \in P} /\ InOrder(t)
<1>1. poems \in Seq(ToSet(poems)) /\ InOrder(poems)
  BY DEF AllRead, RecordsOf
<1>2. t \in Seq(ToSet(poems)) /\ \E at : Selects(poems, P, t, at)
  BY <1>1, SubsequenceFacts
<1>3. PICK at : Selects(poems, P, t, at)
  BY <1>2
<1>4. DOMAIN t = 1 .. Len(t)
  BY <1>2
<1>5. /\ \A k \in DOMAIN t : at[k] \in P /\ t[k] = poems[at[k]]
      /\ \A i, j \in DOMAIN t : i < j => at[i] < at[j]
      /\ \A p \in P : \E k \in DOMAIN t : at[k] = p
  BY <1>3, <1>4 DEF Selects
<1>6. ToSet(t) = {poems[j] : j \in P}
  BY <1>5 DEF ToSet
<1>7. Places(t) = {Place(poems[j]) : j \in P}
  <2>1. \A k \in DOMAIN t : Place(t[k]) = Place(poems[at[k]])
    BY <1>5
  <2>2. QED  BY <1>5, <2>1 DEF Places
<1>8. InOrder(t)
  <2>1. SUFFICES ASSUME NEW i \in DOMAIN t, NEW j \in DOMAIN t, i < j PROVE Earlier(Place(t[i]), Place(t[j]))
    BY DEF InOrder
  <2>2. at[i] \in DOMAIN poems /\ at[j] \in DOMAIN poems /\ at[i] < at[j]
    BY <1>5, <2>1
  <2>3. Earlier(Place(poems[at[i]]), Place(poems[at[j]]))
    BY <1>1, <2>2 DEF InOrder
  <2>4. QED  BY <1>5, <2>1, <2>3
<1>9. QED  BY <1>2, <1>6, <1>7, <1>8

\* The records that nothing speaks against are those that have a text.
LEMMA PlacesOfParts ==
  ASSUME tree \in Trees, AllRead, AsClassified(poems)
  PROVE  /\ {Place(poems[j]) : j \in Unreasoned(poems)} = GoodPlaces(tree)
         /\ {Place(poems[j]) : j \in Reasoned(poems)} = AllPlaces(tree) \ GoodPlaces(tree)
<1> DEFINE Rs(f) == tree[f[1]].files[f[2]].records
           D == DOMAIN poems
<1>1. /\ \A j \in D :
           LET f == FileOf(poems[j])
           IN  /\ f \in LoadedFiles(tree) /\ Place(poems[j]) = <<f[1], f[2], poems[j].index>>
               /\ poems[j].index \in DOMAIN Rs(f)
               /\ poems[j].reason = "" <=> Rs(f)[poems[j].index].text = "text"
      /\ \A f \in LoadedFiles(tree) : \A m \in DOMAIN Rs(f) :
           \E j \in D : Place(poems[j]) = <<f[1], f[2], m>>
  BY RecordPlaces
<1>2. \A f \in LoadedFiles(tree) : f = <<f[1], f[2]>>
  BY FileFacts
<1>3. \A f \in LoadedFiles(tree) : Good(tree, f) = {m \in DOMAIN Rs(f) : Rs(f)[m].text = "text"}
  BY DEF Good
<1>4. /\ \A f \in LoadedFiles(tree) : \A m \in DOMAIN Rs(f) : <<f[1], f[2], m>> \in AllPlaces(tree)
      /\ \A x \in AllPlaces(tree) : \E f \in LoadedFiles(tree) : \E m \in DOMAIN Rs(f) : x = <<f[1], f[2], m>>
  BY DEF AllPlaces
<1>5. Unreasoned(poems) = {j \in D : poems[j].reason = ""} /\ Reasoned(poems) = D \ Unreasoned(poems)
  BY DEF Unreasoned, Reasoned
<1> HIDE DEF D
<1>6. ASSUME NEW f \in LoadedFiles(tree), NEW m PROVE <<f[1], f[2], m>> \in GoodPlaces(tree) <=> m \in Good(tree, f)
  <2>1. m \in Good(tree, f) => <<f[1], f[2], m>> \in GoodPlaces(tree)
    BY DEF GoodPlaces
  <2>2. ASSUME <<f[1], f[2], m>> \in GoodPlaces(tree) PROVE m \in Good(tree, f)
    <3>1. PICK g \in LoadedFiles(tree) : \E n \in Good(tree, g) : <<f[1], f[2], m>> = <<g[1], g[2], n>>
      BY <2>2 DEF GoodPlaces
    <3>2. f = g /\ m \in Good(tree, g)
      BY <1>2, <3>1
    <3>3. QED  BY <3>2
  <2>3. QED  BY <2>1, <2>2
<1>7. ASSUME NEW j \in D
      PROVE  /\ Place(poems[j]) \in AllPlaces(tree)
             /\ Place(poems[j]) \in GoodPlaces(tree) <=> j \in Unreasoned(poems)
  <2> DEFINE f == FileOf(poems[j])
             m == poems[j].index
  <2>1. /\ f \in LoadedFiles(tree) /\ Place(poems[j]) = <<f[1], f[2], m>> /\ m \in DOMAIN Rs(f)
        /\ poems[j].reason = "" <=> Rs(f)[m].text = "text"
    BY <1>1
  <2>2. j \in Unreasoned(poems) <=> m \in Good(tree, f)
    BY <1>3, <1>5, <2>1
  <2> HIDE DEF f, m
  <2>3. Place(poems[j]) \in AllPlaces(tree)
    BY <1>4, <2>1
  <2>4. QED  BY <1>6, <2>1, <2>2, <2>3
<1>8. ASSUME NEW x \in AllPlaces(tree) PROVE \E j \in D : Place(poems[j]) = x
  BY <1>1, <1>4
<1>9. GoodPlaces(tree) \subseteq AllPlaces(tree)
  <2>1. SUFFICES ASSUME NEW f \in LoadedFiles(tree), NEW m \in Good(tree, f) PROVE <<f[1], f[2], m>> \in AllPlaces(tree)
    BY DEF GoodPlaces
  <2>2. QED  BY <1>3, <1>4
<1>10. \A x \in GoodPlaces(tree) : \E j \in Unreasoned(poems) : Place(poems[j]) = x
  BY <1>7, <1>8, <1>9
<1>11. \A x \in AllPlaces(tree) \ GoodPlaces(tree) : \E j \in Reasoned(poems) : Place(poems[j]) = x
  BY <1>5, <1>7, <1>8
<1>12. {Place(poems[j]) : j \in Unreasoned(poems)} = GoodPlaces(tree)
  BY <1>5, <1>7, <1>10
<1>13. {Place(poems[j]) : j \in Reasoned(poems)} = AllPlaces(tree) \ GoodPlaces(tree)
  BY <1>5, <1>7, <1>11
<1>14. QED  BY <1>12, <1>13

LEMMA ReadyOutcome ==
  ASSUME LoaderInv
  PROVE  OutcomeIsDetermined
<1>1. SUFFICES ASSUME stage = "ready"
               PROVE  /\ SoundTree(tree)
                      /\ Places(accepted) = GoodPlaces(tree) /\ InOrder(accepted)
                      /\ Places(rejections) = AllPlaces(tree) \ GoodPlaces(tree) /\ InOrder(rejections)
  BY DEF LoaderInv, Refused, OutcomeIsDetermined
<1>2. tree \in Trees /\ AllRead /\ Partitioned /\ Reported /\ AsClassified(poems)
  BY <1>1 DEF LoaderInv, AllLoaded, Partitioned
<1>3. SoundTree(tree)
  BY <1>2, AccountsExactly, SoundExactly DEF Reported
<1>4. Unreasoned(poems) \subseteq DOMAIN poems /\ Reasoned(poems) \subseteq DOMAIN poems
  BY DEF Unreasoned, Reasoned
<1>5. Places(accepted) = {Place(poems[j]) : j \in Unreasoned(poems)} /\ InOrder(accepted)
  BY <1>2, <1>4, TakenRecords DEF Partitioned
<1>6. Places(rejections) = {Place(poems[j]) : j \in Reasoned(poems)} /\ InOrder(rejections)
  BY <1>2, <1>4, TakenRecords DEF Partitioned
<1>7. QED  BY <1>2, <1>3, <1>5, <1>6, PlacesOfParts

LEMMA ReadyReport ==
  ASSUME LoaderInv
  PROVE  ReportIsTrue
<1>1. SUFFICES ASSUME stage = "ready"
               PROVE  /\ ToSet(report.files) =
                           {Tally(tree, f) : f \in LoadedFiles(tree)} \cup {Unread(f) : f \in ExcludedFiles(tree)}
                      /\ \A i, j \in DOMAIN report.files : i < j => ReportedBefore(report.files[i], report.files[j])
                      /\ report.accepted = Len(accepted) /\ report.rejected = Len(rejections)
                      /\ report.total = report.accepted + report.rejected
                      /\ report.excluded = Cardinality(ExcludedFiles(tree))
  BY DEF ReportIsTrue
<1>2. tree \in Trees /\ AllRead /\ Partitioned /\ Reported /\ Reconciled /\ AsClassified(poems)
  BY <1>1 DEF LoaderInv, AllLoaded, Partitioned
<1>3. Unshared(tree) /\ report = Report(Recounted)
  BY <1>2, AccountsExactly DEF Reported
<1>4. report.files = Recounted /\ report.excluded = Cardinality(ExcludedFiles(tree))
  BY <1>2, <1>3, ReportTotals
<1>5. /\ DOMAIN Recounted = DOMAIN decisions
      /\ \A i \in LoadedOf(decisions) : Recounted[i] = Tally(tree, FileOf(decisions[i]))
      /\ \A i \in DOMAIN decisions \ LoadedOf(decisions) : Recounted[i] = Unread(FileOf(decisions[i]))
  BY <1>2, <1>3, RecountedFacts
<1>6. /\ {FileOf(decisions[k]) : k \in DOMAIN decisions} = LoadedFiles(tree) \cup ExcludedFiles(tree)
      /\ \A i \in DOMAIN decisions : i \in LoadedOf(decisions) <=> FileOf(decisions[i]) \in LoadedFiles(tree)
      /\ \A i \in DOMAIN decisions : decisions[i].dataset = FileOf(decisions[i])[1]
                                       /\ decisions[i].path = FileOf(decisions[i])[2]
      /\ LoadedFiles(tree) \cap ExcludedFiles(tree) = {}
  BY <1>2, DecisionKinds, FileFacts DEF AllRead, DecisionsOn
<1>7. ToSet(Recounted) = {Tally(tree, f) : f \in LoadedFiles(tree)} \cup {Unread(f) : f \in ExcludedFiles(tree)}
  <2> DEFINE all == {Tally(tree, f) : f \in LoadedFiles(tree)} \cup {Unread(f) : f \in ExcludedFiles(tree)}
  <2>1. ASSUME NEW i \in DOMAIN Recounted PROVE Recounted[i] \in all
    BY <1>5, <1>6
  <2>2. ASSUME NEW f \in LoadedFiles(tree) PROVE Tally(tree, f) \in ToSet(Recounted)
    <3>1. PICK i \in DOMAIN decisions : FileOf(decisions[i]) = f
      BY <1>6
    <3>2. Recounted[i] = Tally(tree, f) /\ i \in DOMAIN Recounted
      BY <1>5, <1>6, <3>1
    <3>3. QED  BY <3>2 DEF ToSet
  <2>3. ASSUME NEW f \in ExcludedFiles(tree) PROVE Unread(f) \in ToSet(Recounted)
    <3>1. PICK i \in DOMAIN decisions : FileOf(decisions[i]) = f
      BY <1>6
    <3>2. Recounted[i] = Unread(f) /\ i \in DOMAIN Recounted
      BY <1>5, <1>6, <3>1
    <3>3. QED  BY <3>2 DEF ToSet
  <2>4. \A x \in ToSet(Recounted) : \E i \in DOMAIN Recounted : x = Recounted[i]
    BY DEF ToSet
  <2>5. QED  BY <2>1, <2>2, <2>3, <2>4
<1>8. ASSUME NEW i \in DOMAIN decisions, NEW j \in DOMAIN decisions, i < j
      PROVE  ReportedBefore(Recounted[i], Recounted[j])
  <2>1. ReportedBefore(decisions[i], decisions[j])
    BY <1>2, <1>8 DEF AllRead, InReportOrder
  <2>2. \A f : Tally(tree, f).dataset = f[1] /\ Tally(tree, f).path = f[2] /\ Unread(f).dataset = f[1] /\ Unread(f).path = f[2]
    BY DEF Tally, Unread
  <2>3. /\ Recounted[i].dataset = decisions[i].dataset /\ Recounted[i].path = decisions[i].path
        /\ Recounted[j].dataset = decisions[j].dataset /\ Recounted[j].path = decisions[j].path
    BY <1>5, <1>6, <2>2
  <2>4. QED  BY <2>1, <2>3 DEF ReportedBefore
<1>9. report.accepted = Len(accepted) /\ report.rejected = Len(rejections) /\ report.total = Len(poems)
  BY <1>2 DEF Reconciled
<1>10. Len(poems) = Len(accepted) + Len(rejections)
  BY <1>2, PartLengths
<1>11. QED  BY <1>4, <1>5, <1>7, <1>8, <1>9, <1>10

-----------------------------------------------------------------------------
(* What the catalogue is made of. *)

\* The records of a tree that are in the build: there is one for each good place.
GoodRecords == {Classified(Record(a[1], a[2], a[3])) : a \in GoodPlaces(tree)}

CatalogueInv == Published => \E p : ToSet(p) = GoodRecords /\ rows = Prepared(p)

LEMMA AcceptedRecords ==
  ASSUME LoaderInv, stage = "ready"
  PROVE  ToSet(accepted) = GoodRecords /\ IsFiniteSet(ToSet(accepted))
<1>1. tree \in Trees /\ AllRead /\ Partitioned /\ AsClassified(poems)
  BY DEF LoaderInv, AllLoaded, Partitioned
<1>2. Unreasoned(poems) \subseteq DOMAIN poems
  BY DEF Unreasoned
<1>3. ToSet(accepted) = {poems[j] : j \in Unreasoned(poems)} /\ accepted \in Seq(ToSet(poems))
  BY <1>1, <1>2, TakenRecords DEF Partitioned
<1>4. {Place(poems[j]) : j \in Unreasoned(poems)} = GoodPlaces(tree)
  BY <1>1, PlacesOfParts
<1>5. ASSUME NEW j \in DOMAIN poems
      PROVE  poems[j] = Classified(Record(Place(poems[j])[1], Place(poems[j])[2], Place(poems[j])[3]))
  BY <1>1 DEF AsClassified, Place
<1>6. \A j \in Unreasoned(poems) : poems[j] \in GoodRecords
  BY <1>2, <1>4, <1>5 DEF GoodRecords
<1>7. ASSUME NEW a \in GoodPlaces(tree) PROVE Classified(Record(a[1], a[2], a[3])) \in ToSet(accepted)
  <2>1. PICK j \in Unreasoned(poems) : Place(poems[j]) = a
    BY <1>4
  <2>2. QED  BY <1>2, <1>3, <1>5, <2>1
<1>8. ToSet(accepted) = GoodRecords
  BY <1>3, <1>6, <1>7 DEF GoodRecords
<1>9. IsFiniteSet(ToSet(accepted))
  <2> DEFINE n == Len(accepted)
             T == {accepted[i] : i \in 1 .. n}
  <2>1. n \in Nat /\ DOMAIN accepted = 1 .. n /\ accepted = [i \in 1 .. n |-> accepted[i]] /\ ToSet(accepted) = T
    BY <1>3 DEF ToSet
  <2>2. IsFiniteSet(1 .. n)
    BY <2>1, FS_Interval
  <2> HIDE DEF n
  <2>3. IsFiniteSet(T)
    BY <2>1, <2>2, Image
  <2>4. QED  BY <2>1, <2>3
<1>10. QED  BY <1>8, <1>9

LEMMA SameRecords ==
  ASSUME tree' = tree
  PROVE  GoodRecords' = GoodRecords
<1>1. \A k, p, i : Record(k, p, i)' = Record(k, p, i)
  BY DEF Record
<1>2. \A a : Classified(Record(a[1], a[2], a[3]))' = Classified(Record(a[1], a[2], a[3]))
  BY <1>1 DEF Classified
<1>3. GoodPlaces(tree)' = GoodPlaces(tree)
  OBVIOUS
<1>4. QED  BY <1>2, <1>3 DEF GoodRecords

\* What is published is the catalogue of the tree, whatever order the workers keep.
LEMMA PublishedRows ==
  ASSUME LoaderInv, Publish
  PROVE  /\ tree' = tree /\ stage' \in {"conflict", "published"}
         /\ rows' = rows \/ \E p : ToSet(p) = GoodRecords /\ rows' = Prepared(p)
<1>1. stage = "ready" /\ tree' = tree
  BY DEF Publish
<1>2. ToSet(accepted) = GoodRecords /\ IsFiniteSet(ToSet(accepted))
  BY <1>1, AcceptedRecords
<1>3. PICK order \in SetToSeqs(ToSet(accepted)) :
        IF Conflict(order) THEN stage' = "conflict" /\ UNCHANGED browsing
        ELSE stage' = "published" /\ Open(Prepared(order))
  BY DEF Publish
<1>4. ToSet(order) = GoodRecords
  BY <1>2, <1>3, ListingFacts
<1>5. CASE Conflict(order)
  BY <1>1, <1>3, <1>5 DEF browsing
<1>6. CASE ~Conflict(order)
  BY <1>1, <1>3, <1>4, <1>6 DEF Open
<1>7. QED  BY <1>5, <1>6

\* No request changes the catalogue.
LEMMA ReadKeepsRows ==
  ASSUME Step
  PROVE  rows' = rows
<1>1. CASE Ask
  BY <1>1 DEF Ask
<1>2. CASE ResolveDynasty
  BY <1>2 DEF ResolveDynasty, Proceed, EndWith
<1>3. CASE ResolveAuthor
  BY <1>3 DEF ResolveAuthor, Proceed, EndWith
<1>4. CASE ResolveTypes
  BY <1>4 DEF ResolveTypes, Proceed, EndWith
<1>5. CASE FindAuthor
  BY <1>5 DEF FindAuthor, Proceed, EndWith
<1>6. CASE CountMatching
  BY <1>6 DEF CountMatching, Proceed, EndWith
<1>7. CASE FetchPage \/ PickPoem \/ LoadAuthors \/ LoadOrigins \/ LoadDynasties \/ LoadTypes \/ Prefetch
  BY <1>7 DEF FetchPage, PickPoem, LoadAuthors, LoadOrigins, LoadDynasties, LoadTypes, Prefetch, Proceed
<1>8. CASE FetchOne
  BY <1>8 DEF FetchOne, Proceed, EndWith
<1>9. CASE QueryFails \/ Respond
  BY <1>9 DEF QueryFails, Respond
<1>10. QED  BY <1>1, <1>2, <1>3, <1>4, <1>5, <1>6, <1>7, <1>8, <1>9 DEF Step

LEMMA LoaderKeepsTree ==
  ASSUME LoaderNext
  PROVE  tree' = tree
  BY DEF LoaderNext, LoadAll, OpenDirectory, OpenFile, OpenMissing, LoadFile, CloseDataset, ReadFails,
         SortReport, PartitionSources, FinalizeReport, CheckAccounting

LEMMA ReleaseInitInv ==
  ASSUME ReleaseInit
  PROVE  LoaderInv /\ CatalogueInv
<1>1. tree \in Trees /\ stage = "start" /\ rows = <<>>
  BY DEF ReleaseInit, LoaderInit, BrowseInit
<1>2. QED  BY <1>1 DEF LoaderInv, Loading, AllLoaded, Refused, CatalogueInv, Published

LEMMA ReleaseStepInv ==
  ASSUME LoaderInv, CatalogueInv, [ReleaseNext]_<<building, browsing, builds>>
  PROVE  LoaderInv' /\ CatalogueInv' /\ (Published => rows' = rows)
<1>1. ASSUME tree' = tree, rows' = rows PROVE CatalogueInv' /\ (Published => rows' = rows)
  BY <1>1, SameRecords DEF CatalogueInv, Published
<1>2. CASE Build
  <2>1. LoaderNext /\ rows' = rows
    BY <1>2 DEF Build, browsing
  <2>2. QED  BY <1>1, <2>1, LoaderStepInv, LoaderKeepsTree
<1>3. CASE Publish
  <2>1. LoaderInv'
    BY <1>3, PublishedRows, IdleInv
  <2>2. CASE rows' = rows
    BY <1>1, <1>3, <2>1, <2>2, PublishedRows
  <2>3. CASE rows' # rows
    <3>1. PICK p : ToSet(p) = GoodRecords /\ rows' = Prepared(p)
      BY <1>3, <2>3, PublishedRows
    <3>2. tree' = tree
      BY <1>3, PublishedRows
    <3>3. CatalogueInv'
      BY <3>1, <3>2, SameRecords DEF CatalogueInv
    <3>4. ASSUME Published PROVE rows' = rows
      <4>1. PICK q : ToSet(q) = GoodRecords /\ rows = Prepared(q)
        BY <3>4 DEF CatalogueInv
      <4>2. QED  BY <3>1, <4>1, CatalogOfRecords
    <3>5. QED  BY <2>1, <3>3, <3>4
  <2>4. QED  BY <2>2, <2>3
<1>4. CASE BuildAgain
  <2>1. tree' = tree /\ stage' = "start" /\ rows' = rows
    BY <1>4 DEF BuildAgain, Anew, browsing
  <2>2. QED  BY <1>1, <2>1, IdleInv
<1>5. CASE Read
  <2>1. UNCHANGED building /\ rows' = rows
    BY <1>5, ReadKeepsRows DEF Read
  <2>2. tree' = tree
    BY <2>1 DEF building
  <2>3. QED  BY <1>1, <2>1, <2>2, UnchangedInv
<1>6. CASE UNCHANGED <<building, browsing, builds>>
  <2>1. UNCHANGED building /\ rows' = rows /\ tree' = tree
    BY <1>6 DEF building, browsing
  <2>2. QED  BY <1>1, <2>1, UnchangedInv
<1>7. QED  BY <1>2, <1>3, <1>4, <1>5, <1>6 DEF ReleaseNext

-----------------------------------------------------------------------------
(* The order of a listing. *)

\* Any two rows of a set have an order.
Connects(w, S) == \A e, f \in S : e # f => Before(w, e, f) \/ Before(w, f, e)

\* The place of a row in a listing is the number of rows before it, whichever order the
\* database chooses.
LEMMA PlaceInOrder ==
  ASSUME NEW w, NEW S, IsFiniteSet(S), Connects(w, S), NEW order \in Orders(w, S), NEW k \in DOMAIN order
  PROVE  /\ order[k] \in S /\ k \in 1 .. Cardinality(S)
         /\ Cardinality({f \in S : Before(w, f, order[k])}) = k - 1
<1> DEFINE n == Cardinality(S)
           T == 1 .. n
<1>1. n \in Nat /\ IsFiniteSet(T) /\ Cardinality(T) = n
  BY FS_CardinalityType, FS_Interval
<1>2. /\ order \in [T -> S]
      /\ \A i, j \in T : order[i] = order[j] => i = j
      /\ \A i, j \in T : Before(w, order[i], order[j]) => i < j
  BY DEF Orders
<1>3. order \in Injection(T, S)
  BY <1>2 DEF Injection, IsInjective
<1>4. order \in Surjection(T, S)
  BY <1>1, <1>3, FS_Injection
<1> HIDE DEF n
<1>5. k \in T /\ order[k] \in S
  BY <1>2
<1> DEFINE P == 1 .. k - 1
           F == {f \in S : Before(w, f, order[k])}
           place == [i \in P |-> order[i]]
<1>6. \A i \in P : i \in T /\ i < k
  BY <1>1, <1>5
<1>7. F = {place[i] : i \in P}
  <2>1. ASSUME NEW i \in P PROVE order[i] \in F
    <3>1. order[i] \in S /\ order[i] # order[k] /\ ~(k < i)
      BY <1>2, <1>5, <1>6
    <3>2. ~Before(w, order[k], order[i])
      BY <1>2, <1>5, <1>6, <3>1
    <3>3. Before(w, order[i], order[k])
      BY <1>5, <3>1, <3>2 DEF Connects
    <3>4. QED  BY <3>1, <3>3
  <2>2. ASSUME NEW f \in F PROVE \E i \in P : f = place[i]
    <3>1. PICK i \in T : order[i] = f
      BY <1>4 DEF Surjection
    <3>2. i < k
      BY <1>2, <1>5, <3>1
    <3>3. i \in P
      BY <1>1, <1>5, <3>2
    <3>4. QED  BY <3>1, <3>3
  <2>3. QED  BY <2>1, <2>2
<1>8. IsFiniteSet(P) /\ Cardinality(P) = k - 1
  BY <1>1, <1>5, FS_Interval
<1>9. \A i, j \in P : place[i] = place[j] => i = j
  BY <1>2, <1>6
<1>10. DOMAIN place = P /\ place = [i \in P |-> place[i]]
  OBVIOUS
<1> HIDE DEF place, P
<1>11. Cardinality({place[i] : i \in P}) = Cardinality(P)
  BY <1>8, <1>9, <1>10, Image
<1>12. QED  BY <1>5, <1>7, <1>8, <1>11 DEF n

-----------------------------------------------------------------------------
(* The queries of a request. *)

Lookup == {"dynasty", "author", "type"}
Picking == {"page", "pick", "one"}
Relating == {"authors", "origins", "dynasties", "types"}

\* A query of a request comes after others.
QueryPlace(s) ==
  CASE s = "dynasty" -> 1 [] s = "author" -> 2 [] s = "type" -> 3 [] s = "row" -> 4
    [] s = "pick" -> 5 [] s \in {"page", "one"} -> 6
    [] s = "authors" -> 7 [] s = "origins" -> 8 [] s = "dynasties" -> 9 [] s = "types" -> 10 [] OTHER -> 11

Names == Lookup \cup Picking \cup Relating \cup {"row", "count", "prefetch"}

\* What the plan of a request has to be for its effects to add up: lookups come first,
\* what is found before what is related to it, and the total before a row is picked.
Planned(p) ==
  /\ p \in Seq(Names)
  /\ \A i, j \in DOMAIN p : i < j /\ p[i] # "count" /\ p[j] # "count" => QueryPlace(p[i]) < QueryPlace(p[j])
  /\ \A i, j \in DOMAIN p : p[i] \in Lookup /\ p[j] \notin Lookup => i < j
  /\ \A i, j \in DOMAIN p : p[i] = "count" /\ p[j] = "pick" => i < j

\* The queries that a listing needs, and those it does not make.
Suits(w, Q) ==
  /\ "page" \in Q <=> w.list \in Lists \cup Rosters
  /\ "count" \in Q <=> w.list \in Lists \cup {"random"}
  /\ "pick" \in Q <=> w.list = "random"
  /\ "one" \in Q <=> w.list \in Singles
  /\ "row" \in Q <=> w.list = "works"
  /\ w.list \in {"poems", "search", "works"} => Q \cap Relating = {"authors", "dynasties", "types"}
  /\ w.list \in {"random", "poem"} => Relating \subseteq Q
  /\ w.list \in {"author", "authors"} => Q \cap Relating = {"origins"}
  /\ w.list \in {"dynasties", "types", "dynasty", "type"} => Q \cap Relating = {}

LEMMA QueriesFacts ==
  ASSUME NEW w, w.api \in {"rest", "graphql"}, w.list \in Lists \cup Rosters \cup Singles
  PROVE  /\ Planned(Queries(w)) /\ Suits(w, ToSet(Queries(w)))
         /\ \A i \in DOMAIN Queries(w) : Queries(w)[i] \notin Lookup
<1>1. CASE w.list = "random"
  <2> DEFINE q == << "count", "pick", "one", "authors", "origins", "dynasties", "types" >>
  <2>1. Queries(w) = q
    BY <1>1 DEF Queries, Rosters
  <2>2. q \in Seq(Names) /\ DOMAIN q = 1 .. 7
    BY DEF Names, Lookup, Picking, Relating
  <2>3. q[1] = "count" /\ q[2] = "pick" /\ q[3] = "one" /\ q[4] = "authors" /\ q[5] = "origins" /\ q[6] = "dynasties" /\ q[7] = "types"
    OBVIOUS
  <2> HIDE DEF q
  <2>4. \A i \in DOMAIN q : i = 1 \/ i = 2 \/ i = 3 \/ i = 4 \/ i = 5 \/ i = 6 \/ i = 7
    BY <2>2
  <2>5. Planned(q) /\ \A i \in DOMAIN q : q[i] \notin Lookup
    BY <2>2, <2>3, <2>4 DEF Planned, QueryPlace, Lookup
  <2>6. ToSet(q) = {"count", "pick", "one", "authors", "origins", "dynasties", "types"}
    BY <2>2, <2>3, <2>4 DEF ToSet
  <2>7. Suits(w, {"count", "pick", "one", "authors", "origins", "dynasties", "types"})
    BY <1>1 DEF Suits, Lists, Rosters, Singles, Relating
  <2>8. QED  BY <2>1, <2>5, <2>6, <2>7
<1>2. CASE w.list = "poem"
  <2> DEFINE q == << "one", "authors", "origins", "dynasties", "types" >>
  <2>1. Queries(w) = q
    BY <1>2 DEF Queries, Rosters
  <2>2. q \in Seq(Names) /\ DOMAIN q = 1 .. 5
    BY DEF Names, Lookup, Picking, Relating
  <2>3. q[1] = "one" /\ q[2] = "authors" /\ q[3] = "origins" /\ q[4] = "dynasties" /\ q[5] = "types"
    OBVIOUS
  <2> HIDE DEF q
  <2>4. \A i \in DOMAIN q : i = 1 \/ i = 2 \/ i = 3 \/ i = 4 \/ i = 5
    BY <2>2
  <2>5. Planned(q) /\ \A i \in DOMAIN q : q[i] \notin Lookup
    BY <2>2, <2>3, <2>4 DEF Planned, QueryPlace, Lookup
  <2>6. ToSet(q) = {"one", "authors", "origins", "dynasties", "types"}
    BY <2>2, <2>3, <2>4 DEF ToSet
  <2>7. Suits(w, {"one", "authors", "origins", "dynasties", "types"})
    BY <1>2 DEF Suits, Lists, Rosters, Singles, Relating
  <2>8. QED  BY <2>1, <2>5, <2>6, <2>7
<1>3. CASE w.list = "author"
  <2> DEFINE q == << "one", "origins" >>
  <2>1. Queries(w) = q
    BY <1>3 DEF Queries, Rosters
  <2>2. q \in Seq(Names) /\ DOMAIN q = 1 .. 2
    BY DEF Names, Lookup, Picking, Relating
  <2>3. q[1] = "one" /\ q[2] = "origins"
    OBVIOUS
  <2> HIDE DEF q
  <2>4. \A i \in DOMAIN q : i = 1 \/ i = 2
    BY <2>2
  <2>5. Planned(q) /\ \A i \in DOMAIN q : q[i] \notin Lookup
    BY <2>2, <2>3, <2>4 DEF Planned, QueryPlace, Lookup
  <2>6. ToSet(q) = {"one", "origins"}
    BY <2>2, <2>3, <2>4 DEF ToSet
  <2>7. Suits(w, {"one", "origins"})
    BY <1>3 DEF Suits, Lists, Rosters, Singles, Relating
  <2>8. QED  BY <2>1, <2>5, <2>6, <2>7
<1>4. CASE w.list \in {"dynasty", "type"}
  <2> DEFINE q == << "one" >>
  <2>1. Queries(w) = q
    BY <1>4 DEF Queries, Rosters
  <2>2. q \in Seq(Names) /\ DOMAIN q = 1 .. 1
    BY DEF Names, Lookup, Picking, Relating
  <2>3. q[1] = "one"
    OBVIOUS
  <2> HIDE DEF q
  <2>4. \A i \in DOMAIN q : i = 1
    BY <2>2
  <2>5. Planned(q) /\ \A i \in DOMAIN q : q[i] \notin Lookup
    BY <2>2, <2>3, <2>4 DEF Planned, QueryPlace, Lookup
  <2>6. ToSet(q) = {"one"}
    BY <2>2, <2>3, <2>4 DEF ToSet
  <2>7. Suits(w, {"one"})
    BY <1>4 DEF Suits, Lists, Rosters, Singles, Relating
  <2>8. QED  BY <2>1, <2>5, <2>6, <2>7
<1>5. CASE w.list \in Rosters
  <2> DEFINE q == << "page" >>
  <2>1. Queries(w) = q
    BY <1>5 DEF Queries, Rosters
  <2>2. q \in Seq(Names) /\ DOMAIN q = 1 .. 1
    BY DEF Names, Lookup, Picking, Relating
  <2>3. q[1] = "page"
    OBVIOUS
  <2> HIDE DEF q
  <2>4. \A i \in DOMAIN q : i = 1
    BY <2>2
  <2>5. Planned(q) /\ \A i \in DOMAIN q : q[i] \notin Lookup
    BY <2>2, <2>3, <2>4 DEF Planned, QueryPlace, Lookup
  <2>6. ToSet(q) = {"page"}
    BY <2>2, <2>3, <2>4 DEF ToSet
  <2>7. Suits(w, {"page"})
    BY <1>5 DEF Suits, Lists, Rosters, Singles, Relating
  <2>8. QED  BY <2>1, <2>5, <2>6, <2>7
<1>6. CASE w.list = "authors" /\ w.api = "rest"
  <2> DEFINE q == << "page", "origins", "count" >>
  <2>1. Queries(w) = q
    BY <1>6 DEF Queries, Rosters
  <2>2. q \in Seq(Names) /\ DOMAIN q = 1 .. 3
    BY DEF Names, Lookup, Picking, Relating
  <2>3. q[1] = "page" /\ q[2] = "origins" /\ q[3] = "count"
    OBVIOUS
  <2> HIDE DEF q
  <2>4. \A i \in DOMAIN q : i = 1 \/ i = 2 \/ i = 3
    BY <2>2
  <2>5. Planned(q) /\ \A i \in DOMAIN q : q[i] \notin Lookup
    BY <2>2, <2>3, <2>4 DEF Planned, QueryPlace, Lookup
  <2>6. ToSet(q) = {"page", "origins", "count"}
    BY <2>2, <2>3, <2>4 DEF ToSet
  <2>7. Suits(w, {"page", "origins", "count"})
    BY <1>6 DEF Suits, Lists, Rosters, Singles, Relating
  <2>8. QED  BY <2>1, <2>5, <2>6, <2>7
<1>7. CASE w.list = "authors" /\ w.api = "graphql"
  <2> DEFINE q == << "count", "page", "origins", "prefetch" >>
  <2>1. Queries(w) = q
    BY <1>7 DEF Queries, Rosters
  <2>2. q \in Seq(Names) /\ DOMAIN q = 1 .. 4
    BY DEF Names, Lookup, Picking, Relating
  <2>3. q[1] = "count" /\ q[2] = "page" /\ q[3] = "origins" /\ q[4] = "prefetch"
    OBVIOUS
  <2> HIDE DEF q
  <2>4. \A i \in DOMAIN q : i = 1 \/ i = 2 \/ i = 3 \/ i = 4
    BY <2>2
  <2>5. Planned(q) /\ \A i \in DOMAIN q : q[i] \notin Lookup
    BY <2>2, <2>3, <2>4 DEF Planned, QueryPlace, Lookup
  <2>6. ToSet(q) = {"count", "page", "origins", "prefetch"}
    BY <2>2, <2>3, <2>4 DEF ToSet
  <2>7. Suits(w, {"count", "page", "origins", "prefetch"})
    BY <1>7 DEF Suits, Lists, Rosters, Singles, Relating
  <2>8. QED  BY <2>1, <2>5, <2>6, <2>7
<1>8. CASE w.list = "works"
  <2> DEFINE q == << "row", "count", "page", "authors", "dynasties", "types", "prefetch" >>
  <2>1. Queries(w) = q
    BY <1>8 DEF Queries, Rosters
  <2>2. q \in Seq(Names) /\ DOMAIN q = 1 .. 7
    BY DEF Names, Lookup, Picking, Relating
  <2>3. q[1] = "row" /\ q[2] = "count" /\ q[3] = "page" /\ q[4] = "authors" /\ q[5] = "dynasties" /\ q[6] = "types" /\ q[7] = "prefetch"
    OBVIOUS
  <2> HIDE DEF q
  <2>4. \A i \in DOMAIN q : i = 1 \/ i = 2 \/ i = 3 \/ i = 4 \/ i = 5 \/ i = 6 \/ i = 7
    BY <2>2
  <2>5. Planned(q) /\ \A i \in DOMAIN q : q[i] \notin Lookup
    BY <2>2, <2>3, <2>4 DEF Planned, QueryPlace, Lookup
  <2>6. ToSet(q) = {"row", "count", "page", "authors", "dynasties", "types", "prefetch"}
    BY <2>2, <2>3, <2>4 DEF ToSet
  <2>7. Suits(w, {"row", "count", "page", "authors", "dynasties", "types", "prefetch"})
    BY <1>8 DEF Suits, Lists, Rosters, Singles, Relating
  <2>8. QED  BY <2>1, <2>5, <2>6, <2>7
<1>9. CASE w.list \in {"poems", "search"} /\ w.api = "rest"
  <2> DEFINE q == << "count", "page", "authors", "dynasties", "types" >>
  <2>1. Queries(w) = q
    BY <1>9 DEF Queries, Rosters
  <2>2. q \in Seq(Names) /\ DOMAIN q = 1 .. 5
    BY DEF Names, Lookup, Picking, Relating
  <2>3. q[1] = "count" /\ q[2] = "page" /\ q[3] = "authors" /\ q[4] = "dynasties" /\ q[5] = "types"
    OBVIOUS
  <2> HIDE DEF q
  <2>4. \A i \in DOMAIN q : i = 1 \/ i = 2 \/ i = 3 \/ i = 4 \/ i = 5
    BY <2>2
  <2>5. Planned(q) /\ \A i \in DOMAIN q : q[i] \notin Lookup
    BY <2>2, <2>3, <2>4 DEF Planned, QueryPlace, Lookup
  <2>6. ToSet(q) = {"count", "page", "authors", "dynasties", "types"}
    BY <2>2, <2>3, <2>4 DEF ToSet
  <2>7. Suits(w, {"count", "page", "authors", "dynasties", "types"})
    BY <1>9 DEF Suits, Lists, Rosters, Singles, Relating
  <2>8. QED  BY <2>1, <2>5, <2>6, <2>7
<1>10. CASE w.list \in {"poems", "search"} /\ w.api = "graphql"
  <2> DEFINE q == << "count", "page", "authors", "dynasties", "types", "prefetch" >>
  <2>1. Queries(w) = q
    BY <1>10 DEF Queries, Rosters
  <2>2. q \in Seq(Names) /\ DOMAIN q = 1 .. 6
    BY DEF Names, Lookup, Picking, Relating
  <2>3. q[1] = "count" /\ q[2] = "page" /\ q[3] = "authors" /\ q[4] = "dynasties" /\ q[5] = "types" /\ q[6] = "prefetch"
    OBVIOUS
  <2> HIDE DEF q
  <2>4. \A i \in DOMAIN q : i = 1 \/ i = 2 \/ i = 3 \/ i = 4 \/ i = 5 \/ i = 6
    BY <2>2
  <2>5. Planned(q) /\ \A i \in DOMAIN q : q[i] \notin Lookup
    BY <2>2, <2>3, <2>4 DEF Planned, QueryPlace, Lookup
  <2>6. ToSet(q) = {"count", "page", "authors", "dynasties", "types", "prefetch"}
    BY <2>2, <2>3, <2>4 DEF ToSet
  <2>7. Suits(w, {"count", "page", "authors", "dynasties", "types", "prefetch"})
    BY <1>10 DEF Suits, Lists, Rosters, Singles, Relating
  <2>8. QED  BY <2>1, <2>5, <2>6, <2>7
<1>11. QED  BY <1>1, <1>2, <1>3, <1>4, <1>5, <1>6, <1>7, <1>8, <1>9, <1>10 DEF Lists, Rosters, Singles

LEMMA PlannedJoin ==
  ASSUME NEW p, NEW q, Planned(p), Planned(q), ToSet(p) \subseteq Lookup,
         \A s \in ToSet(p), t \in ToSet(q) : QueryPlace(s) < QueryPlace(t)
  PROVE  Planned(p \o q) /\ ToSet(p \o q) = ToSet(p) \cup ToSet(q)
<1> DEFINE u == p \o q
           m == Len(p)
           n == Len(q)
<1>1. p \in Seq(Names) /\ q \in Seq(Names)
  BY DEF Planned
<1>2. p \in Seq(ToSet(p)) /\ q \in Seq(ToSet(q))
  BY <1>1, ElementsOfSequence
<1>3. /\ DOMAIN p = 1 .. m /\ DOMAIN q = 1 .. n /\ m \in Nat /\ n \in Nat
      /\ \A i \in DOMAIN p : u[i] = p[i] /\ i \in DOMAIN u
      /\ \A i \in DOMAIN q : u[m + i] = q[i] /\ m + i \in DOMAIN u
      /\ \A i \in DOMAIN u : i \in DOMAIN p \/ \E j \in DOMAIN q : i = m + j
  BY <1>2, Joined
<1>4. u \in Seq(Names)
  BY <1>1, ConcatProperties
<1> HIDE DEF u, m, n
<1>5. /\ \A i \in DOMAIN p : p[i] \in ToSet(p) /\ p[i] \in Lookup
      /\ \A i \in DOMAIN q : q[i] \in ToSet(q)
  BY DEF ToSet
<1>6. ToSet(u) = ToSet(p) \cup ToSet(q)
  <2>1. \A i \in DOMAIN u : u[i] \in ToSet(p) \cup ToSet(q)
    BY <1>3, <1>5
  <2>2. \A x \in ToSet(p) : x \in ToSet(u)
    BY <1>3 DEF ToSet
  <2>3. \A x \in ToSet(q) : x \in ToSet(u)
    BY <1>3 DEF ToSet
  <2>4. \A x \in ToSet(u) : \E i \in DOMAIN u : x = u[i]
    BY DEF ToSet
  <2>5. QED  BY <2>1, <2>2, <2>3, <2>4
<1>7. ASSUME NEW i \in DOMAIN u, NEW j \in DOMAIN u
      PROVE  /\ i < j /\ u[i] # "count" /\ u[j] # "count" => QueryPlace(u[i]) < QueryPlace(u[j])
             /\ u[i] \in Lookup /\ u[j] \notin Lookup => i < j
             /\ u[i] = "count" /\ u[j] = "pick" => i < j
  <2>1. CASE i \in DOMAIN p /\ j \in DOMAIN p
    BY <1>3, <1>5, <2>1 DEF Planned, Lookup
  <2>2. CASE i \in DOMAIN p /\ j \notin DOMAIN p
    <3>1. PICK l \in DOMAIN q : j = m + l
      BY <1>3, <2>2
    <3>2. u[i] = p[i] /\ u[j] = q[l] /\ i < j
      BY <1>3, <2>2, <3>1
    <3>3. QED  BY <1>5, <2>2, <3>2
  <2>3. CASE i \notin DOMAIN p /\ j \in DOMAIN p
    <3>1. PICK l \in DOMAIN q : i = m + l
      BY <1>3, <2>3
    <3>2. ~(i < j) /\ u[j] = p[j] /\ u[j] \in Lookup
      BY <1>3, <1>5, <2>3, <3>1
    <3>3. QED  BY <3>2 DEF Lookup
  <2>4. CASE i \notin DOMAIN p /\ j \notin DOMAIN p
    <3>1. PICK k \in DOMAIN q : i = m + k
      BY <1>3, <2>4
    <3>2. PICK l \in DOMAIN q : j = m + l
      BY <1>3, <2>4
    <3>3. u[i] = q[k] /\ u[j] = q[l] /\ (i < j <=> k < l)
      BY <1>3, <3>1, <3>2
    <3>4. QED  BY <3>3 DEF Planned
  <2>5. QED  BY <2>1, <2>2, <2>3, <2>4
<1>8. QED  BY <1>4, <1>6, <1>7 DEF Planned, u

LEMMA PlannedOne ==
  ASSUME NEW s \in Lookup, NEW holds \in BOOLEAN, NEW p, p = IF holds THEN << s >> ELSE << >>
  PROVE  Planned(p) /\ ToSet(p) = {t \in {s} : holds}
<1>1. CASE holds
  <2>1. p = << s >> /\ DOMAIN p = 1 .. 1 /\ p[1] = s /\ p \in Seq(Names)
    BY <1>1 DEF Names
  <2>2. \A i \in DOMAIN p : i = 1
    BY <2>1
  <2>3. QED  BY <1>1, <2>1, <2>2 DEF Planned, ToSet, Lookup
<1>2. CASE ~holds
  <2>1. p = << >> /\ DOMAIN p = {} /\ p \in Seq(Names)
    BY <1>2
  <2>2. QED  BY <1>2, <2>1 DEF Planned, ToSet
<1>3. QED  BY <1>1, <1>2

\* The lookups of a request: those of the filters that it gives by name.
LookedUp(w) ==
  {s \in Lookup : w.named /\ CASE s = "dynasty" -> w.dynasty # "" [] s = "author" -> w.author # "" [] OTHER -> w.types # {}}

LEMMA LookupFacts ==
  ASSUME NEW w
  PROVE  Planned(Lookups(w)) /\ ToSet(Lookups(w)) = LookedUp(w)
<1> DEFINE a == IF w.dynasty # "" THEN << "dynasty" >> ELSE << >>
           b == IF w.author # "" THEN << "author" >> ELSE << >>
           c == IF w.types # {} THEN << "type" >> ELSE << >>
<1>1. CASE ~w.named
  <2>1. Lookups(w) = << >> /\ LookedUp(w) = {}
    BY <1>1 DEF Lookups, LookedUp
  <2>2. QED  BY <2>1 DEF Planned, ToSet
<1>2. CASE w.named
  <2>1. Lookups(w) = (a \o b) \o c
    BY <1>2 DEF Lookups
  <2>2. Planned(a) /\ ToSet(a) = {t \in {"dynasty"} : w.dynasty # ""}
    BY PlannedOne DEF Lookup
  <2>3. Planned(b) /\ ToSet(b) = {t \in {"author"} : w.author # ""}
    BY PlannedOne DEF Lookup
  <2>4. Planned(c) /\ ToSet(c) = {t \in {"type"} : w.types # {}}
    BY PlannedOne DEF Lookup
  <2> HIDE DEF a, b, c
  <2>5. QueryPlace("dynasty") = 1 /\ QueryPlace("author") = 2 /\ QueryPlace("type") = 3
    BY DEF QueryPlace
  <2>6. Planned(a \o b) /\ ToSet(a \o b) = ToSet(a) \cup ToSet(b)
    <3>1. ToSet(a) \subseteq Lookup /\ \A s \in ToSet(a), t \in ToSet(b) : QueryPlace(s) < QueryPlace(t)
      <4>1. ToSet(a) \subseteq {"dynasty"} /\ ToSet(b) \subseteq {"author"}
        BY <2>2, <2>3
      <4>2. QED  BY <2>5, <4>1 DEF Lookup
    <3>2. QED  BY <2>2, <2>3, <3>1, PlannedJoin
  <2>7. Planned((a \o b) \o c) /\ ToSet((a \o b) \o c) = ToSet(a \o b) \cup ToSet(c)
    <3>1. ToSet(a \o b) \subseteq Lookup /\ \A s \in ToSet(a \o b), t \in ToSet(c) : QueryPlace(s) < QueryPlace(t)
      <4>1. ToSet(a \o b) \subseteq {"dynasty", "author"} /\ ToSet(c) \subseteq {"type"}
        BY <2>2, <2>3, <2>4, <2>6
      <4>2. QED  BY <2>5, <4>1 DEF Lookup
    <3>2. QED  BY <2>4, <2>6, <3>1, PlannedJoin
  <2>8. QED  BY <1>2, <2>1, <2>2, <2>3, <2>4, <2>6, <2>7 DEF LookedUp, Lookup
<1>3. QED  BY <1>1, <1>2

LEMMA PlanFacts ==
  ASSUME NEW w \in Walks
  PROVE  /\ Planned(Plan(w)) /\ ToSet(Plan(w)) \cap Lookup = LookedUp(w) /\ Suits(w, ToSet(Plan(w)))
         /\ DOMAIN Plan(w) = 1 .. Len(Plan(w)) /\ Len(Plan(w)) \in Nat
<1> DEFINE p == Lookups(w)
           q == Queries(w)
<1>1. Planned(p) /\ ToSet(p) = LookedUp(w) /\ ToSet(p) \subseteq Lookup
  BY LookupFacts DEF LookedUp
<1>2. Planned(q) /\ Suits(w, ToSet(q)) /\ ToSet(q) \cap Lookup = {}
  <2>1. w.api \in {"rest", "graphql"} /\ w.list \in Lists \cup Rosters \cup Singles
    BY BrowseAssumption
  <2>2. /\ Planned(q) /\ Suits(w, ToSet(q))
        /\ \A i \in DOMAIN q : q[i] \notin Lookup
    BY <2>1, QueriesFacts
  <2>3. QED  BY <2>2 DEF ToSet
<1>3. Plan(w) = p \o q
  BY DEF Plan
<1>4. ToSet(q) \subseteq Names
  BY <1>2 DEF Planned, ToSet
<1> HIDE DEF p, q
<1>5. \A s \in ToSet(p), t \in ToSet(q) : QueryPlace(s) < QueryPlace(t)
  BY <1>1, <1>2, <1>4 DEF QueryPlace, Lookup, Names, Picking, Relating
<1>6. Planned(p \o q) /\ ToSet(p \o q) = ToSet(p) \cup ToSet(q)
  BY <1>1, <1>2, <1>5, PlannedJoin
<1>7. Suits(w, ToSet(p) \cup ToSet(q))
  BY <1>1, <1>2 DEF Suits, Lookup, Relating
<1>8. QED  BY <1>1, <1>2, <1>3, <1>6, <1>7 DEF Planned

-----------------------------------------------------------------------------
(* The invariant of the readers. *)

\* A query of the request that was made, or whose failure was ignored.
Done(s) == \E i \in DOMAIN Plan(walk) : i < step /\ Plan(walk)[i] = s

RowsKnown ==
  /\ IsFiniteSet(PoemRows)
  /\ \A r \in PoemRows : r.id \in Int /\ r.author \in DOMAIN People
  /\ \A r, s \in PoemRows : r.id = s.id => r = s

\* A client has been shown what comes before the page it is at.
Walking ==
  /\ walk \in Walks /\ lang \in walk.langs /\ page \in 1 .. MaxPage + 1 /\ step \in Nat
  /\ outcome \in {"walking", "refused"} => shown \in Seq(ToSet(shown)) /\ Len(shown) = Offset
  /\ page > 1 => walk.list \in Lists /\ Offset < Cardinality(Intended)
  /\ outcome = "refused" => ~Acceptable
  /\ IF Published THEN RowsKnown
     ELSE page = 1 /\ step = 0 /\ shown = <<>> /\ answer = <<>> /\ outcome = "walking"

\* The filters are those that are resolved.
Choosing ==
  /\ chosen = [dynasty |-> chosen.dynasty, author |-> chosen.author, types |-> chosen.types]
  /\ chosen.dynasty = IF walk.named /\ ~Done("dynasty") THEN "" ELSE walk.dynasty
  /\ chosen.types = IF walk.named /\ ~Done("type") THEN {} ELSE walk.types
  /\ IF ~walk.named THEN chosen.author = walk.author
     ELSE IF Done("author") THEN chosen.author # "" /\ Authors = {chosen.author} ELSE chosen.author = ""

Finding ==
  /\ Done("count") => total = Cardinality(Intended)
  /\ Done("page") => \E order \in Orders(walk, Intended) : found = PageOf(order)
  /\ Done("pick") \/ Done("one") => \E e \in Intended : found = << e >>

\* The relations of what is found are loaded, or their query has failed.
AuthorsOfFound == {r.author : r \in Found}
OriginsOfFound == {People[a].dynasty : a \in IF walk.list \in {"author", "authors"} THEN Found ELSE AuthorsOfFound}
Related ==
  /\ loaded = [authors |-> loaded.authors, origins |-> loaded.origins, dynasties |-> loaded.dynasties, types |-> loaded.types]
  /\ Done("authors") => "authors" \in failed \/ AuthorsOfFound \subseteq loaded.authors
  /\ Done("origins") => failed \cap {"authors", "origins"} # {} \/ OriginsOfFound \subseteq loaded.origins
  /\ Done("dynasties") => \/ "dynasties" \in failed
                          \/ /\ {Dynasty(r) : r \in Found} \subseteq loaded.dynasties
                             /\ walk.list \notin Singles => OriginsOfFound \subseteq loaded.origins
  /\ Done("types") => "types" \in failed \/ {TypeOf[r.product] : r \in Found} \subseteq loaded.types

Serving ==
  step # 0 =>
    /\ Published /\ outcome = "walking" /\ Acceptable /\ answer = <<>>
    /\ step \in 1 .. Len(Plan(walk)) + 1
    /\ Choosing /\ Finding /\ Related

ReadInv == Walking /\ Serving /\ WalkIsComplete /\ AnswersForCause

-----------------------------------------------------------------------------
(* Where a request is in its plan. *)

LEMMA DoneFacts ==
  ASSUME walk \in Walks
  PROVE  \A s : Done(s) => s \in ToSet(Plan(walk))
BY DEF Done, ToSet

LEMMA AtFacts ==
  ASSUME walk \in Walks, step \in Nat, NEW s, At(s)
  PROVE  /\ s \in ToSet(Plan(walk)) /\ step \in 1 .. Len(Plan(walk))
         /\ \A t \in ToSet(Plan(walk)) : s # "count" /\ t # "count" =>
              (Done(t) <=> QueryPlace(t) < QueryPlace(s))
         /\ s \notin Lookup => \A t \in LookedUp(walk) : Done(t)
         /\ s = "pick" => Done("count")
<1> DEFINE p == Plan(walk)
<1>1. /\ Planned(p) /\ ToSet(p) \cap Lookup = LookedUp(walk) /\ Suits(walk, ToSet(p))
      /\ DOMAIN p = 1 .. Len(p) /\ Len(p) \in Nat
  BY PlanFacts
<1> HIDE DEF p
<1>2. step \in DOMAIN p /\ p[step] = s
  BY <1>1 DEF At, Asking, p
<1>3. s \in ToSet(p)
  BY <1>2 DEF ToSet
<1>4. ASSUME NEW t \in ToSet(p) PROVE \E i \in DOMAIN p : p[i] = t
  BY DEF ToSet
<1>5. \A i \in DOMAIN p : p[i] \in Names
  BY <1>1 DEF Planned
<1>6. \A t \in Names : QueryPlace(t) \in Nat
  BY DEF QueryPlace
<1>7. ASSUME NEW t \in ToSet(p), s # "count", t # "count"
      PROVE  Done(t) <=> QueryPlace(t) < QueryPlace(s)
  <2>1. ASSUME Done(t) PROVE QueryPlace(t) < QueryPlace(s)
    <3>1. PICK i \in DOMAIN p : i < step /\ p[i] = t
      BY <2>1 DEF Done, p
    <3>2. QED  BY <1>1, <1>2, <1>7, <3>1 DEF Planned
  <2>2. ASSUME QueryPlace(t) < QueryPlace(s) PROVE Done(t)
    <3>1. PICK i \in DOMAIN p : p[i] = t
      BY <1>4
    <3>2. QueryPlace(t) \in Nat /\ QueryPlace(s) \in Nat
      BY <1>2, <1>5, <1>6, <3>1
    <3>3. i # step /\ ~(step < i)
      BY <1>1, <1>2, <1>7, <2>2, <3>1, <3>2 DEF Planned
    <3>4. i < step
      BY <1>1, <1>2, <3>3
    <3>5. QED  BY <3>1, <3>4 DEF Done, p
  <2>3. QED  BY <2>1, <2>2
<1>8. ASSUME NEW t \in LookedUp(walk), s \notin Lookup PROVE Done(t)
  <2>1. PICK i \in DOMAIN p : p[i] = t
    BY <1>1, <1>4
  <2>2. t \in Lookup
    BY DEF LookedUp
  <2>3. i < step
    BY <1>1, <1>2, <1>8, <2>1, <2>2 DEF Planned
  <2>4. QED  BY <2>1, <2>3 DEF Done, p
<1>9. ASSUME s = "pick" PROVE Done("count")
  <2>1. "count" \in ToSet(p)
    BY <1>1, <1>3, <1>9 DEF Suits
  <2>2. PICK i \in DOMAIN p : p[i] = "count"
    BY <1>4, <2>1
  <2>3. i < step
    BY <1>1, <1>2, <1>9, <2>2 DEF Planned
  <2>4. QED  BY <2>2, <2>3 DEF Done, p
<1>10. step \in 1 .. Len(p)
  BY <1>1, <1>2
<1>11. QED  BY <1>3, <1>7, <1>8, <1>9, <1>10 DEF p

LEMMA DoneNext ==
  ASSUME walk \in Walks, step \in Nat, NEW s, At(s), walk' = walk, step' = step + 1
  PROVE  /\ step' \in 1 .. Len(Plan(walk)) + 1 /\ step' # 0
         /\ \A t : Done(t)' <=> Done(t) \/ t = s
<1> DEFINE p == Plan(walk)
<1>1. DOMAIN p = 1 .. Len(p) /\ Len(p) \in Nat
  BY PlanFacts
<1>2. Plan(walk)' = p
  OBVIOUS
<1>3. \A t : Done(t) <=> \E i \in DOMAIN p : i < step /\ p[i] = t
  BY DEF Done
<1>4. \A t : Done(t)' <=> \E i \in DOMAIN p : i < step + 1 /\ p[i] = t
  BY <1>2 DEF Done
<1>5. step \in DOMAIN p /\ p[step] = s
  BY <1>1 DEF At, Asking
<1> HIDE DEF p
<1>6. \A i \in DOMAIN p : i < step + 1 <=> i < step \/ i = step
  BY <1>1
<1>7. step' \in 1 .. Len(p) + 1 /\ step' # 0
  BY <1>1, <1>5
<1>8. ASSUME NEW t PROVE Done(t)' <=> Done(t) \/ t = s
  BY <1>3, <1>4, <1>5, <1>6
<1>9. QED  BY <1>7, <1>8 DEF p

\* At the end of its plan a request has made all of its queries.
LEMMA AllDone ==
  ASSUME walk \in Walks, step = Len(Plan(walk)) + 1
  PROVE  \A s \in ToSet(Plan(walk)) : Done(s)
<1>1. DOMAIN Plan(walk) = 1 .. Len(Plan(walk)) /\ Len(Plan(walk)) \in Nat
  BY PlanFacts
<1>2. \A i \in DOMAIN Plan(walk) : i < step
  BY <1>1
<1>3. QED  BY <1>2 DEF ToSet, Done

-----------------------------------------------------------------------------
(* What a walk is for. *)

\* Identifiers complete every order.
LEMMA IdentifiersConnect ==
  ASSUME IsFiniteSet(PoemRows), NEW w, NEW S, \A e \in S : Identifier(w, e) \in Int,
         \A e, f \in S : Identifier(w, e) = Identifier(w, f) => e = f
  PROVE  Connects(w, S)
<1>1. SUFFICES ASSUME NEW e \in S, NEW f \in S, e # f PROVE Before(w, e, f) \/ Before(w, f, e)
  BY DEF Connects
<1> DEFINE m == Cardinality(PoemsOf(w, e))
           n == Cardinality(PoemsOf(w, f))
<1>2. m \in Nat /\ n \in Nat
  <2>1. IsFiniteSet(PoemsOf(w, e)) /\ IsFiniteSet(PoemsOf(w, f))
    BY FS_Subset DEF PoemsOf
  <2>2. QED  BY <2>1, FS_CardinalityType
<1>3. /\ More(w, e, f) <=> ByCount(w) /\ m > n
      /\ More(w, f, e) <=> ByCount(w) /\ n > m
  BY DEF More
<1>4. Identifier(w, e) \in Int /\ Identifier(w, f) \in Int /\ Identifier(w, e) # Identifier(w, f)
  BY <1>1
<1> DEFINE x == Identifier(w, e)
           y == Identifier(w, f)
<1>5. x < y \/ y < x
  <2> HIDE DEF x, y
  <2>1. QED  BY <1>4 DEF x, y
<1> HIDE DEF m, n
<1>6. QED  BY <1>2, <1>3, <1>5 DEF Before

LEMMA AuthorsKnown ==
  ASSUME RowsKnown
  PROVE  IsFiniteSet(AuthorRows) /\ AuthorRows = {r.author : r \in PoemRows} /\ AuthorRows \subseteq DOMAIN People
<1> DEFINE author == [r \in PoemRows |-> r.author]
<1>1. AuthorRows = {r.author : r \in PoemRows}
  BY DEF AuthorRows, PoemRows
<1>2. AuthorRows = {author[r] : r \in PoemRows}
  BY <1>1
<1>3. DOMAIN author = PoemRows /\ author = [r \in PoemRows |-> author[r]] /\ IsFiniteSet(PoemRows)
  BY DEF RowsKnown
<1> HIDE DEF author
<1>4. IsFiniteSet({author[r] : r \in PoemRows})
  BY <1>3, Image
<1>5. QED  BY <1>1, <1>2, <1>4 DEF RowsKnown

LEMMA IntendedFacts ==
  ASSUME walk \in Walks, RowsKnown, walk.list \in Lists \cup Rosters \cup {"random"}
  PROVE  IsFiniteSet(Intended) /\ Connects(walk, Intended)
<1>1. CASE walk.list \in {"poems", "search", "works", "random"}
  <2>1. Intended \subseteq PoemRows
    BY <1>1 DEF Intended
  <2>2. \A e : Identifier(walk, e) = e.id
    BY <1>1 DEF Identifier
  <2>3. IsFiniteSet(PoemRows) /\ IsFiniteSet(Intended)
    BY <2>1, FS_Subset DEF RowsKnown
  <2>4. /\ \A e \in Intended : Identifier(walk, e) \in Int
        /\ \A e, f \in Intended : Identifier(walk, e) = Identifier(walk, f) => e = f
    BY <2>1, <2>2 DEF RowsKnown
  <2>5. QED  BY <2>3, <2>4, IdentifiersConnect
<1>2. CASE walk.list = "authors"
  <2>1. Intended \subseteq AuthorRows
    BY <1>2 DEF Intended, Authors
  <2>2. \A e : Identifier(walk, e) = People[e].id
    BY <1>2 DEF Identifier
  <2>3. IsFiniteSet(PoemRows) /\ IsFiniteSet(Intended) /\ Intended \subseteq DOMAIN People
    BY <2>1, AuthorsKnown, FS_Subset DEF RowsKnown
  <2>4. /\ \A e \in Intended : Identifier(walk, e) \in Int
        /\ \A e, f \in Intended : Identifier(walk, e) = Identifier(walk, f) => e = f
    <3>1. \A a, b \in DOMAIN People : People[a].id \in Nat /\ (People[a].id = People[b].id => a = b)
      BY BrowseAssumption
    <3>2. QED  BY <2>2, <2>3, <3>1
  <2>5. QED  BY <2>3, <2>4, IdentifiersConnect
<1>3. ASSUME NEW names \in {Dynasties, Types}, Intended = DOMAIN names, \A e : Identifier(walk, e) = names[e]
      PROVE  IsFiniteSet(Intended) /\ Connects(walk, Intended)
  <2>1. IsFiniteSet(PoemRows) /\ IsFiniteSet(Intended)
    BY <1>3, BrowseAssumption DEF RowsKnown
  <2>2. /\ \A e \in Intended : Identifier(walk, e) \in Int
        /\ \A e, f \in Intended : Identifier(walk, e) = Identifier(walk, f) => e = f
    <3>1. \A x, y \in DOMAIN names : names[x] \in Nat /\ (names[x] = names[y] => x = y)
      BY BrowseAssumption
    <3>2. QED  BY <1>3, <3>1
  <2>3. QED  BY <2>1, <2>2, IdentifiersConnect
<1>4. CASE walk.list = "dynasties"
  BY <1>3, <1>4 DEF Intended, Identifier
<1>5. CASE walk.list = "types"
  BY <1>3, <1>5 DEF Intended, Identifier
<1>6. QED  BY <1>1, <1>2, <1>4, <1>5 DEF Lists, Rosters

\* What a query selects, once the filters are resolved.
LEMMA MatchingIsIntended ==
  ASSUME walk \in Walks, RowsKnown, step \in Nat, Choosing, NEW s \in {"count", "page", "pick"}, At(s)
  PROVE  Matching(walk, chosen) = Intended
<1>1. /\ walk.list \in Lists \cup Rosters \cup {"random"}
      /\ \A t \in LookedUp(walk) : Done(t)
      /\ \A t \in Lookup : Done(t) => t \in LookedUp(walk)
  <2>1. s \in ToSet(Plan(walk)) /\ \A t \in LookedUp(walk) : Done(t)
    BY AtFacts DEF Lookup
  <2>2. Suits(walk, ToSet(Plan(walk))) /\ ToSet(Plan(walk)) \cap Lookup = LookedUp(walk)
    BY PlanFacts
  <2>3. QED  BY <2>1, <2>2, DoneFacts DEF Suits
<1>2. chosen.dynasty = walk.dynasty /\ chosen.types = walk.types
  BY <1>1 DEF Choosing, LookedUp, Lookup
<1>3. CASE walk.list \in {"poems", "random", "works"}
  <2>1. Matching(walk, chosen) = Filtered(chosen)
    BY <1>3 DEF Matching
  <2>2. Intended = {r \in PoemRows : r.author \in Authors /\ (walk.types # {} => TypeOf[r.product] \in walk.types)}
    BY <1>3 DEF Intended, Rosters
  <2>3. ASSUME NEW r \in PoemRows
        PROVE  r.author \in Authors <=> /\ walk.dynasty = "" \/ Dynasty(r) = walk.dynasty
                                        /\ chosen.author = "" \/ r.author = chosen.author
    <3>1. r.author \in AuthorRows
      BY AuthorsKnown
    <3>2. r.author \in Authors <=> Wrote(r.author) /\ (walk.dynasty = "" \/ Dynasty(r) = walk.dynasty)
      BY <3>1 DEF Authors, Dynasty
    <3>3. CASE ~walk.named
      BY <3>2, <3>3 DEF Choosing, Wrote
    <3>4. CASE walk.named /\ Done("author")
      <4>1. chosen.author # "" /\ Authors = {chosen.author}
        BY <3>4 DEF Choosing
      <4>2. QED  BY <3>2, <4>1
    <3>5. CASE walk.named /\ ~Done("author")
      <4>1. chosen.author = "" /\ walk.author = ""
        BY <1>1, <3>5 DEF Choosing, LookedUp, Lookup
      <4>2. QED  BY <3>2, <4>1 DEF Wrote
    <3>6. QED  BY <3>3, <3>4, <3>5
  <2>4. QED  BY <1>2, <2>1, <2>2, <2>3 DEF Filtered
<1>4. CASE walk.list = "authors"
  <2>1. walk.author = ""
    BY <1>4, BrowseAssumption
  <2>2. QED  BY <1>2, <1>4, <2>1 DEF Matching, Intended, Authors, Wrote
<1>5. CASE walk.list \in {"search", "dynasties", "types"}
  BY <1>5 DEF Matching, Intended
<1>6. QED  BY <1>1, <1>3, <1>4, <1>5 DEF Lists, Rosters

-----------------------------------------------------------------------------
(* Pages. *)

LEMMA PagesLeft ==
  ASSUME NEW n \in Nat, NEW s \in Nat \ {0}, NEW p \in Nat
  PROVE  p < (n + s - 1) \div s <=> p * s < n
  OBVIOUS

\* A page is full if there is another one, and the last one if there is not.
LEMMA PageLength ==
  ASSUME NEW n \in Nat, NEW s \in Nat, NEW o \in Nat, o = 0 \/ o < n, NEW l, l = Least(s, n - Least(o, n))
  PROVE  l \in Nat /\ o + l <= n /\ (o + l < n <=> o + s < n) /\ (o + l < n => l = s)
<1>1. Least(o, n) = o
  BY DEF Least
<1>2. l = IF s < n - o THEN s ELSE n - o
  BY <1>1 DEF Least
<1>3. QED  BY <1>2

LEMMA OffsetFacts ==
  ASSUME walk \in Walks, page \in Nat \ {0}
  PROVE  walk.size \in Nat /\ Offset \in Nat /\ (page = 1 => Offset = 0) /\ page * walk.size = Offset + walk.size
<1>1. walk.size \in Nat
  BY BrowseAssumption
<1> DEFINE s == walk.size
<1>2. s \in Nat /\ Offset = (page - 1) * s
  BY <1>1 DEF Offset
<1> HIDE DEF s
<1>3. Offset \in Nat /\ (page = 1 => Offset = 0) /\ page * s = Offset + s
  BY <1>2
<1>4. QED  BY <1>1, <1>3 DEF s

\* The rows of a page have the places after those of the pages before.
LEMMA PageFacts ==
  ASSUME walk \in Walks, RowsKnown, walk.list \in Lists \cup Rosters, page \in Nat \ {0}, walk.size # 0,
         page > 1 => walk.list \in Lists /\ Offset < Cardinality(Intended),
         NEW order \in Orders(walk, Intended), NEW rowsOfPage, rowsOfPage = PageOf(order)
  PROVE  /\ Cardinality(Intended) \in Nat
         /\ rowsOfPage \in Seq(Intended)
         /\ \A i \in DOMAIN rowsOfPage : Cardinality(Preceding(rowsOfPage[i])) = Offset + i - 1
         /\ Len(rowsOfPage) = IF walk.list \in Lists THEN Least(walk.size, Cardinality(Intended) - Least(Offset, Cardinality(Intended)))
                              ELSE Cardinality(Intended)
<1> DEFINE n == Cardinality(Intended)
           s == walk.size
           o == Offset
<1>1. IsFiniteSet(Intended) /\ Connects(walk, Intended)
  BY IntendedFacts
<1>2. n \in Nat
  BY <1>1, FS_CardinalityType
<1>3. order \in [1 .. n -> Intended] /\ Len(order) = n
  BY <1>2 DEF Orders
<1>4. s \in Nat \ {0} /\ o \in Nat /\ (page = 1 => o = 0) /\ o = (page - 1) * s
  BY OffsetFacts DEF Offset
<1>5. ASSUME NEW k \in 1 .. n
      PROVE  order[k] \in Intended /\ Cardinality(Preceding(order[k])) = k - 1
  <2>1. k \in DOMAIN order
    BY <1>3
  <2>2. order[k] \in Intended /\ Cardinality({f \in Intended : Before(walk, f, order[k])}) = k - 1
    BY <1>1, <2>1, PlaceInOrder
  <2>3. QED  BY <2>2 DEF Preceding
<1>6. CASE walk.list \in Rosters
  <2>1. page = 1 /\ o = 0 /\ walk.list \notin Lists
    BY <1>4, <1>6 DEF Lists, Rosters
  <2>2. rowsOfPage = order
    BY <1>6 DEF PageOf
  <2>3. DOMAIN order = 1 .. n /\ order \in Seq(Intended)
    BY <1>2, <1>3
  <2> HIDE DEF n, s, o
  <2>4. \A i \in 1 .. n : o + i - 1 = i - 1
    BY <2>1
  <2>5. \A i \in DOMAIN rowsOfPage : Cardinality(Preceding(rowsOfPage[i])) = o + i - 1
    BY <1>5, <2>2, <2>3, <2>4
  <2>6. QED  BY <1>2, <1>3, <2>1, <2>2, <2>3, <2>5 DEF n, o
<1>7. CASE walk.list \in Lists
  <2> DEFINE l == Least(s, n - Least(o, n))
  <2>1. rowsOfPage = [i \in 1 .. l |-> order[o + i]]
    BY <1>3, <1>7 DEF PageOf, Lists, Rosters
  <2> HIDE DEF n, s, o
  <2>2. page \in Nat \ {0} /\ (page = 1 \/ o < n)
    BY <1>4 DEF o, n
  <2>3. l \in Nat /\ o + l <= n
    <3>1. l = Least(s, n - Least(o, n))
      OBVIOUS
    <3> HIDE DEF l
    <3>2. s \in Nat /\ o \in Nat /\ (o = 0 \/ o < n)
      BY <1>4, <2>2
    <3>3. QED  BY <1>2, <3>1, <3>2, PageLength
  <2> HIDE DEF l
  <2>4. \A i \in 1 .. l : o + i \in 1 .. n
    BY <1>2, <1>4, <2>3
  <2>5. ASSUME NEW i \in 1 .. l PROVE rowsOfPage[i] \in Intended /\ Cardinality(Preceding(rowsOfPage[i])) = o + i - 1
    <3>1. rowsOfPage[i] = order[o + i] /\ o + i \in 1 .. n
      BY <2>1, <2>4
    <3>2. order[o + i] \in Intended /\ Cardinality(Preceding(order[o + i])) = (o + i) - 1
      BY <1>5, <3>1
    <3>3. Cardinality(Preceding(rowsOfPage[i])) = (o + i) - 1
      BY <3>1, <3>2
    <3>4. (o + i) - 1 = o + i - 1
      BY <1>4, <2>3
    <3>5. QED  BY <3>1, <3>2, <3>3, <3>4
  <2>6. DOMAIN rowsOfPage = 1 .. l /\ rowsOfPage \in [1 .. l -> Intended]
    BY <2>1, <2>5
  <2>7. rowsOfPage \in Seq(Intended) /\ Len(rowsOfPage) = l
    BY <2>3, <2>6
  <2>8. QED  BY <1>2, <1>7, <2>5, <2>6, <2>7 DEF l, n, s, o
<1>8. QED  BY <1>6, <1>7

-----------------------------------------------------------------------------
(* Steps of a request. *)

\* What a walk is for does not change while it lasts.
LEMMA SameView ==
  ASSUME rows' = rows, walk' = walk, lang' = lang \/ ~walk.named
  PROVE  /\ Authors' = Authors /\ Intended' = Intended /\ (Known' <=> Known)
         /\ \A e : Preceding(e)' = Preceding(e)
         /\ (RowsKnown' <=> RowsKnown) /\ (Published' <=> Published)
         /\ \A S : Orders(walk, S)' = Orders(walk, S)
<1>1. AuthorRows' = AuthorRows /\ PoemRows' = PoemRows
  BY DEF AuthorRows, PoemRows
<1>2. Authors' = Authors
  BY <1>1 DEF Authors, Wrote
<1>3. Intended' = Intended
  BY <1>1, <1>2 DEF Intended
<1>4. \A w, e : PoemsOf(w, e)' = PoemsOf(w, e)
  BY <1>1 DEF PoemsOf, Dynasty
<1>5. \A w, e, f : Before(w, e, f)' <=> Before(w, e, f)
  BY <1>4 DEF Before, More, ByCount, Identifier
<1>6. \A e : Preceding(e)' = Preceding(e)
  BY <1>3, <1>5 DEF Preceding
<1>7. \A S : Orders(walk, S)' = Orders(walk, S)
  BY <1>5 DEF Orders
<1>8. Known' <=> Known
  BY <1>2 DEF Known
<1>9. (RowsKnown' <=> RowsKnown) /\ (Published' <=> Published)
  BY <1>1 DEF RowsKnown, Published
<1>10. QED  BY <1>2, <1>3, <1>6, <1>7, <1>8, <1>9

LEMMA SameWalk ==
  ASSUME Walking, WalkIsComplete, Published, UNCHANGED <<rows, client>>, step' \in Nat
  PROVE  Walking' /\ WalkIsComplete'
<1>1. rows' = rows /\ walk' = walk /\ page' = page /\ lang' = lang /\ shown' = shown /\ outcome' = outcome
  BY DEF client
<1>2. /\ Intended' = Intended /\ (RowsKnown' <=> RowsKnown) /\ Published'
      /\ \A e : Preceding(e)' = Preceding(e)
  BY <1>1, SameView
<1>3. Offset' = Offset /\ (Acceptable' <=> Acceptable) /\ (Searchable(walk)' <=> Searchable(walk))
  BY <1>1 DEF Offset, Acceptable, Searchable
<1>4. Walking'
  BY <1>1, <1>2, <1>3 DEF Walking
<1>5. WalkIsComplete'
  BY <1>1, <1>2, <1>3 DEF WalkIsComplete
<1>6. QED  BY <1>4, <1>5

\* A request goes on to its next query, or it ends without an answer.
GoesOn == step' = step + 1 /\ UNCHANGED <<rows, client, answer>>
Ends(why) == outcome' = why /\ step' = 0 /\ UNCHANGED <<rows, walk, page, lang, shown, answer>>

LEMMA ProceedInv ==
  ASSUME ReadInv, NEW s, At(s), GoesOn, Choosing', Finding', Related'
  PROVE  ReadInv'
<1>1. Walking /\ WalkIsComplete /\ walk \in Walks /\ step \in Nat /\ step # 0
  BY DEF ReadInv, Walking, At, Asking
<1>2. Published /\ outcome = "walking" /\ Acceptable /\ answer = <<>>
  BY <1>1 DEF ReadInv, Serving
<1>3. UNCHANGED <<rows, client>> /\ walk' = walk /\ page' = page /\ outcome' = outcome /\ answer' = answer /\ step' = step + 1
  BY DEF GoesOn, client
<1>4. Walking' /\ WalkIsComplete'
  BY <1>1, <1>2, <1>3, SameWalk
<1>5. step' \in 1 .. Len(Plan(walk)) + 1
  BY <1>1, <1>3, DoneNext
<1>6. Published' /\ (Acceptable' <=> Acceptable) /\ Plan(walk)' = Plan(walk)
  BY <1>2, <1>3 DEF Published, Acceptable, Searchable
<1>7. Serving'
  BY <1>2, <1>3, <1>5, <1>6 DEF Serving
<1>8. AnswersForCause'
  BY <1>2, <1>3 DEF AnswersForCause
<1>9. QED  BY <1>4, <1>7, <1>8 DEF ReadInv

\* A request that ends without an answer is asked again, or ends the walk for a cause.
LEMMA EndInv ==
  ASSUME ReadInv, NEW s, At(s), NEW why, Ends(why),
         \/ why = "walking"
         \/ why = "missing" /\ (failed' # {} \/ ~Known \/ Intended = {})
         \/ why = "ambiguous" /\ Cardinality(Authors) > 1
  PROVE  ReadInv'
<1>1. Walking /\ WalkIsComplete /\ walk \in Walks /\ step # 0
  BY DEF ReadInv, Walking, At, Asking
<1>2. Published /\ outcome = "walking" /\ answer = <<>>
  BY <1>1 DEF ReadInv, Serving
<1>3. /\ rows' = rows /\ walk' = walk /\ page' = page /\ lang' = lang /\ shown' = shown /\ answer' = answer
      /\ outcome' = why /\ step' = 0
  BY DEF Ends
<1>4. /\ Intended' = Intended /\ Authors' = Authors /\ (Known' <=> Known) /\ (RowsKnown' <=> RowsKnown) /\ Published'
      /\ \A e : Preceding(e)' = Preceding(e)
  BY <1>2, <1>3, SameView
<1>5. Offset' = Offset
  BY <1>3 DEF Offset
<1>6. Walking'
  BY <1>1, <1>2, <1>3, <1>4, <1>5 DEF Walking
<1>7. WalkIsComplete'
  BY <1>1, <1>2, <1>3, <1>4 DEF WalkIsComplete
<1>8. Serving'
  BY <1>3 DEF Serving
<1>9. AnswersForCause'
  BY <1>2, <1>3, <1>4 DEF AnswersForCause
<1>10. QED  BY <1>6, <1>7, <1>8, <1>9 DEF ReadInv

LEMMA Goes == Proceed => GoesOn
  BY DEF Proceed, GoesOn

LEMMA Stops == \A why : EndWith(why) => Ends(why)
  BY DEF EndWith, Ends

LEMMA AtReady ==
  ASSUME ReadInv, NEW s, At(s)
  PROVE  /\ walk \in Walks /\ step \in Nat /\ step # 0 /\ page \in Nat \ {0} /\ lang \in walk.langs
         /\ Published /\ RowsKnown /\ outcome = "walking" /\ Acceptable /\ answer = <<>>
         /\ Choosing /\ Finding /\ Related
<1>1. Walking /\ walk \in Walks /\ step \in Nat /\ step # 0 /\ lang \in walk.langs
  BY DEF ReadInv, Walking, At, Asking
<1>2. Published /\ outcome = "walking" /\ Acceptable /\ answer = <<>> /\ Choosing /\ Finding /\ Related
  BY <1>1 DEF ReadInv, Serving
<1>3. page \in Nat \ {0} /\ RowsKnown
  <2>1. MaxPage \in Nat
    BY BrowseAssumption
  <2>2. page \in 1 .. MaxPage + 1
    BY <1>1 DEF Walking
  <2>3. RowsKnown
    BY <1>1, <1>2 DEF Walking
  <2>4. QED  BY <2>1, <2>2, <2>3
<1>4. QED  BY <1>1, <1>2, <1>3

LEMMA KeepsChoosing ==
  ASSUME ReadInv, NEW s, At(s), GoesOn, s \notin Lookup, chosen' = chosen
  PROVE  Choosing'
<1>1. walk \in Walks /\ step \in Nat /\ Choosing
  BY AtReady
<1>2. rows' = rows /\ walk' = walk /\ lang' = lang /\ step' = step + 1
  BY DEF GoesOn, client
<1>3. \A t : Done(t)' <=> Done(t) \/ t = s
  BY <1>1, <1>2, DoneNext
<1>4. Authors' = Authors
  BY <1>2, SameView
<1>5. QED  BY <1>1, <1>2, <1>3, <1>4 DEF Choosing, Lookup

LEMMA KeepsFinding ==
  ASSUME ReadInv, NEW s, At(s), GoesOn, s \notin Picking \cup {"count"}, total' = total, found' = found
  PROVE  Finding'
<1>1. walk \in Walks /\ step \in Nat /\ Finding
  BY AtReady
<1>2. rows' = rows /\ walk' = walk /\ lang' = lang /\ page' = page /\ step' = step + 1
  BY DEF GoesOn, client
<1>3. \A t : Done(t)' <=> Done(t) \/ t = s
  BY <1>1, <1>2, DoneNext
<1>4. Intended' = Intended /\ \A S : Orders(walk, S)' = Orders(walk, S)
  BY <1>2, SameView
<1>5. Orders(walk, Intended)' = Orders(walk, Intended)
  BY <1>4
<1>6. \A order : PageOf(order)' = PageOf(order)
  BY <1>2 DEF PageOf, Offset
<1>7. QED  BY <1>1, <1>3, <1>4, <1>5, <1>6, found' = found, total' = total DEF Finding, Picking

LEMMA KeepsRelated ==
  ASSUME ReadInv, NEW s, At(s), GoesOn, s \notin Relating, loaded' = loaded, failed' = failed,
         found' = found \/ s \in Picking
  PROVE  Related'
<1>1. walk \in Walks /\ step \in Nat /\ Related
  BY AtReady
<1>2. walk' = walk /\ step' = step + 1
  BY DEF GoesOn, client
<1>3. \A t : Done(t)' <=> Done(t) \/ t = s
  BY <1>1, <1>2, DoneNext
<1>4. CASE found' = found
  <2>1. Found' = Found /\ AuthorsOfFound' = AuthorsOfFound /\ OriginsOfFound' = OriginsOfFound
    BY <1>2, <1>4 DEF Found, AuthorsOfFound, OriginsOfFound
  <2>2. {Dynasty(r) : r \in Found}' = {Dynasty(r) : r \in Found}
    BY <2>1 DEF Dynasty
  <2>3. QED  BY <1>1, <1>2, <1>3, <2>1, <2>2 DEF Related, Relating
<1>5. CASE s \in Picking
  <2>1. ASSUME NEW t \in Relating PROVE ~Done(t)'
    <3>1. t # s /\ s # "count" /\ t # "count" /\ ~(QueryPlace(t) < QueryPlace(s))
      BY <1>5 DEF QueryPlace, Picking, Relating
    <3>2. Done(t) => t \in ToSet(Plan(walk))
      BY <1>1, DoneFacts
    <3>3. \A u \in ToSet(Plan(walk)) : s # "count" /\ u # "count" => (Done(u) <=> QueryPlace(u) < QueryPlace(s))
      BY <1>1, AtFacts
    <3>4. QED  BY <1>3, <3>1, <3>2, <3>3
  <2>2. ~Done("authors")' /\ ~Done("origins")' /\ ~Done("dynasties")' /\ ~Done("types")'
    BY <2>1 DEF Relating
  <2>3. QED  BY <1>1, <2>2, loaded' = loaded DEF Related
<1>6. QED  BY <1>4, <1>5

\* A step that leaves a part of the request alone.
LEMMA ResolvesOn ==
  ASSUME ReadInv, NEW s \in Lookup, At(s), Proceed, UNCHANGED <<total, found, loaded, failed>>, Choosing'
  PROVE  ReadInv'
<1>1. GoesOn /\ s \notin Picking \cup {"count"} /\ s \notin Relating
  BY Goes DEF Lookup, Picking, Relating
<1>2. Finding' /\ Related'
  BY <1>1, KeepsFinding, KeepsRelated
<1>3. QED  BY <1>1, <1>2, ProceedInv

LEMMA FindsOn ==
  ASSUME ReadInv, NEW s \in Picking \cup {"count"}, At(s), Proceed, UNCHANGED <<chosen, loaded, failed>>,
         found' = found \/ s \in Picking, Finding'
  PROVE  ReadInv'
<1>1. GoesOn /\ s \notin Lookup /\ s \notin Relating
  BY Goes DEF Lookup, Picking, Relating
<1>2. Choosing' /\ Related'
  BY <1>1, KeepsChoosing, KeepsRelated
<1>3. QED  BY <1>1, <1>2, ProceedInv

LEMMA RelatesOn ==
  ASSUME ReadInv, NEW s \in Relating, At(s), GoesOn, UNCHANGED <<chosen, total, found>>, Related'
  PROVE  ReadInv'
<1>1. s \notin Lookup /\ s \notin Picking \cup {"count"}
  BY DEF Lookup, Picking, Relating
<1>2. Choosing' /\ Finding'
  BY <1>1, KeepsChoosing, KeepsFinding
<1>3. QED  BY <1>2, ProceedInv

-----------------------------------------------------------------------------
(* The queries of a request keep the invariant. *)

LEMMA ResolveDynastyInv ==
  ASSUME ReadInv, ResolveDynasty
  PROVE  ReadInv'
<1>1. At("dynasty") /\ UNCHANGED <<total, found, loaded, failed>>
  BY DEF ResolveDynasty
<1>2. walk \in Walks /\ step \in Nat /\ step # 0 /\ Choosing
  BY <1>1, AtReady
<1>3. walk.named /\ walk.dynasty # ""
  <2>1. "dynasty" \in ToSet(Plan(walk)) /\ ToSet(Plan(walk)) \cap Lookup = LookedUp(walk)
    BY <1>1, <1>2, AtFacts, PlanFacts
  <2>2. QED  BY <2>1 DEF LookedUp, Lookup
<1>4. CASE walk.dynasty \in DOMAIN Dynasties
  <2>1. chosen' = [chosen EXCEPT !.dynasty = walk.dynasty] /\ Proceed
    BY <1>4 DEF ResolveDynasty
  <2>2. rows' = rows /\ walk' = walk /\ lang' = lang /\ step' = step + 1
    BY <2>1 DEF Proceed, client
  <2>3. /\ chosen'.dynasty = walk.dynasty /\ chosen'.author = chosen.author /\ chosen'.types = chosen.types
        /\ chosen' = [dynasty |-> chosen'.dynasty, author |-> chosen'.author, types |-> chosen'.types]
    BY <1>2, <2>1 DEF Choosing
  <2>4. (\A t : Done(t)' <=> Done(t) \/ t = "dynasty") /\ Authors' = Authors
    BY <1>1, <1>2, <2>2, DoneNext, SameView
  <2>5. Choosing'
    BY <1>2, <1>3, <2>2, <2>3, <2>4 DEF Choosing
  <2>6. QED  BY <1>1, <2>1, <2>5, ResolvesOn DEF Lookup
<1>5. CASE walk.dynasty \notin DOMAIN Dynasties
  <2>1. Ends("missing")
    BY <1>5, Stops DEF ResolveDynasty
  <2>2. ~Known
    BY <1>3, <1>5 DEF Known
  <2>3. QED  BY <1>1, <2>1, <2>2, EndInv
<1>6. QED  BY <1>4, <1>5

LEMMA ResolveTypesInv ==
  ASSUME ReadInv, ResolveTypes
  PROVE  ReadInv'
<1>1. At("type") /\ UNCHANGED <<total, found, loaded, failed>>
  BY DEF ResolveTypes
<1>2. walk \in Walks /\ step \in Nat /\ step # 0 /\ Choosing
  BY <1>1, AtReady
<1>3. walk.named
  <2>1. "type" \in ToSet(Plan(walk)) /\ ToSet(Plan(walk)) \cap Lookup = LookedUp(walk)
    BY <1>1, <1>2, AtFacts, PlanFacts
  <2>2. QED  BY <2>1 DEF LookedUp, Lookup
<1>4. CASE walk.types \subseteq DOMAIN Types
  <2>1. chosen' = [chosen EXCEPT !.types = walk.types] /\ Proceed
    BY <1>4 DEF ResolveTypes
  <2>2. rows' = rows /\ walk' = walk /\ lang' = lang /\ step' = step + 1
    BY <2>1 DEF Proceed, client
  <2>3. /\ chosen'.types = walk.types /\ chosen'.author = chosen.author /\ chosen'.dynasty = chosen.dynasty
        /\ chosen' = [dynasty |-> chosen'.dynasty, author |-> chosen'.author, types |-> chosen'.types]
    BY <1>2, <2>1 DEF Choosing
  <2>4. (\A t : Done(t)' <=> Done(t) \/ t = "type") /\ Authors' = Authors
    BY <1>1, <1>2, <2>2, DoneNext, SameView
  <2>5. Choosing'
    BY <1>2, <1>3, <2>2, <2>3, <2>4 DEF Choosing
  <2>6. QED  BY <1>1, <2>1, <2>5, ResolvesOn DEF Lookup
<1>5. CASE ~(walk.types \subseteq DOMAIN Types)
  <2>1. Ends("missing")
    BY <1>5, Stops DEF ResolveTypes
  <2>2. ~Known
    BY <1>5 DEF Known
  <2>3. QED  BY <1>1, <2>1, <2>2, EndInv
<1>6. QED  BY <1>4, <1>5

\* The author is looked for once the dynasty is known, so that its namesakes are told apart.
LEMMA ResolveAuthorInv ==
  ASSUME ReadInv, ResolveAuthor
  PROVE  ReadInv'
<1>1. At("author") /\ UNCHANGED <<total, found, loaded, failed>>
  BY DEF ResolveAuthor
<1>2. walk \in Walks /\ step \in Nat /\ step # 0 /\ Choosing /\ RowsKnown
  BY <1>1, AtReady
<1>3. walk.named /\ walk.author # "" /\ chosen.dynasty = walk.dynasty
  <2>1. "author" \in ToSet(Plan(walk)) /\ ToSet(Plan(walk)) \cap Lookup = LookedUp(walk)
    BY <1>1, <1>2, AtFacts, PlanFacts
  <2>2. walk.named /\ walk.author # ""
    BY <2>1 DEF LookedUp, Lookup
  <2>3. QueryPlace("dynasty") < QueryPlace("author")
    BY DEF QueryPlace
  <2>4. "dynasty" \in ToSet(Plan(walk)) => Done("dynasty")
    BY <1>1, <1>2, <2>3, AtFacts
  <2>5. walk.dynasty # "" => "dynasty" \in ToSet(Plan(walk))
    BY <2>1, <2>2 DEF LookedUp, Lookup
  <2>6. QED  BY <1>2, <2>2, <2>4, <2>5 DEF Choosing
<1>4. Namesakes = Authors /\ IsFiniteSet(Authors) /\ Authors \subseteq DOMAIN People
  <2>1. Namesakes = Authors
    BY <1>3 DEF Namesakes, Authors, Wrote
  <2>2. Authors \subseteq AuthorRows
    BY DEF Authors
  <2>3. QED  BY <1>2, <2>1, <2>2, AuthorsKnown, FS_Subset
<1>5. CASE Authors = {}
  <2>1. Ends("missing")
    BY <1>4, <1>5, Stops, FS_EmptySet DEF ResolveAuthor
  <2>2. ~Known
    BY <1>3, <1>5 DEF Known
  <2>3. QED  BY <1>1, <2>1, <2>2, EndInv
<1>6. CASE Authors # {} /\ Cardinality(Authors) = 1
  <2>1. chosen' = [chosen EXCEPT !.author = CHOOSE a \in Authors : TRUE] /\ Proceed
    BY <1>4, <1>6 DEF ResolveAuthor
  <2>2. rows' = rows /\ walk' = walk /\ lang' = lang /\ step' = step + 1
    BY <2>1 DEF Proceed, client
  <2>3. PICK a : Authors = {a}
    BY <1>4, <1>6, FS_Singleton
  <2>4. (CHOOSE b \in Authors : TRUE) = a
    BY <2>3
  <2>5. a # ""
    BY <1>4, <2>3, BrowseAssumption
  <2>6. /\ chosen'.types = chosen.types /\ chosen'.author = a /\ chosen'.dynasty = chosen.dynasty
        /\ chosen' = [dynasty |-> chosen'.dynasty, author |-> chosen'.author, types |-> chosen'.types]
    BY <1>2, <2>1, <2>4 DEF Choosing
  <2>7. (\A t : Done(t)' <=> Done(t) \/ t = "author") /\ Authors' = Authors
    BY <1>1, <1>2, <2>2, DoneNext, SameView
  <2>8. Choosing'
    BY <1>2, <1>3, <2>2, <2>3, <2>5, <2>6, <2>7 DEF Choosing
  <2>9. QED  BY <1>1, <2>1, <2>8, ResolvesOn DEF Lookup
<1>7. CASE Authors # {} /\ Cardinality(Authors) # 1
  <2>1. Ends("ambiguous")
    BY <1>4, <1>7, Stops DEF ResolveAuthor
  <2>2. Cardinality(Authors) > 1
    BY <1>4, <1>7, FS_CardinalityType, FS_EmptySet
  <2>3. QED  BY <1>1, <2>1, <2>2, EndInv
<1>8. QED  BY <1>5, <1>6, <1>7

LEMMA FindAuthorInv ==
  ASSUME ReadInv, FindAuthor
  PROVE  ReadInv'
<1>1. At("row") /\ UNCHANGED <<chosen, total, found, loaded, failed>>
  BY DEF FindAuthor
<1>2. walk \in Walks /\ step \in Nat
  BY <1>1, AtReady
<1>3. walk.list = "works"
  BY <1>1, <1>2, AtFacts, PlanFacts DEF Suits
<1>4. CASE walk.author \in AuthorRows
  <2>1. GoesOn
    BY <1>4, Goes DEF FindAuthor
  <2>2. Choosing' /\ Finding' /\ Related'
    BY <1>1, <2>1, KeepsChoosing, KeepsFinding, KeepsRelated DEF Lookup, Picking, Relating
  <2>3. QED  BY <1>1, <2>1, <2>2, ProceedInv
<1>5. CASE walk.author \notin AuthorRows
  <2>1. Ends("missing")
    BY <1>5, Stops DEF FindAuthor
  <2>2. walk.author # "" /\ ~walk.named
    BY <1>2, <1>3, BrowseAssumption
  <2>3. Authors = {}
    BY <1>5, <2>2 DEF Authors, Wrote
  <2>4. ~Known
    BY <2>2, <2>3 DEF Known
  <2>5. QED  BY <1>1, <2>1, <2>4, EndInv
<1>6. QED  BY <1>4, <1>5

LEMMA CountMatchingInv ==
  ASSUME ReadInv, CountMatching
  PROVE  ReadInv'
<1>1. At("count") /\ UNCHANGED <<chosen, found, loaded, failed>> /\ total' = Cardinality(Matching(walk, chosen))
  BY DEF CountMatching
<1>2. walk \in Walks /\ step \in Nat /\ Choosing /\ Finding /\ RowsKnown
  BY <1>1, AtReady
<1>3. total' = Cardinality(Intended)
  BY <1>1, <1>2, MatchingIsIntended
<1>4. walk.list \in Lists \cup {"random"}
  BY <1>1, <1>2, AtFacts, PlanFacts DEF Suits
<1>5. CASE walk.list = "random" /\ total' = 0
  <2>1. Ends("missing")
    BY <1>5, Stops DEF CountMatching
  <2>2. Intended = {}
    BY <1>2, <1>3, <1>4, <1>5, IntendedFacts, FS_EmptySet
  <2>3. QED  BY <1>1, <2>1, <2>2, EndInv
<1>6. CASE ~(walk.list = "random" /\ total' = 0)
  <2>1. Proceed
    BY <1>6 DEF CountMatching
  <2>2. rows' = rows /\ walk' = walk /\ lang' = lang /\ page' = page /\ step' = step + 1
    BY <2>1 DEF Proceed, client
  <2>3. \A t : Done(t)' <=> Done(t) \/ t = "count"
    BY <1>1, <1>2, <2>2, DoneNext
  <2>4. Intended' = Intended /\ \A S : Orders(walk, S)' = Orders(walk, S)
    BY <2>2, SameView
  <2>5. Orders(walk, Intended)' = Orders(walk, Intended) /\ \A order : PageOf(order)' = PageOf(order)
    BY <2>2, <2>4 DEF PageOf, Offset
  <2>6. Finding'
    BY <1>1, <1>2, <1>3, <2>3, <2>4, <2>5 DEF Finding
  <2>7. QED  BY <1>1, <2>1, <2>6, FindsOn
<1>7. QED  BY <1>5, <1>6

LEMMA FetchPageInv ==
  ASSUME ReadInv, FetchPage
  PROVE  ReadInv'
<1>1. At("page") /\ Proceed /\ UNCHANGED <<chosen, total, loaded, failed>>
  BY DEF FetchPage
<1>2. walk \in Walks /\ step \in Nat /\ Choosing /\ Finding /\ RowsKnown
  BY <1>1, AtReady
<1>3. Matching(walk, chosen) = Intended
  BY <1>1, <1>2, MatchingIsIntended
<1>4. PICK order \in Orders(walk, Intended) : found' = PageOf(order)
  BY <1>3 DEF FetchPage
<1>5. rows' = rows /\ walk' = walk /\ lang' = lang /\ page' = page /\ step' = step + 1
  BY <1>1 DEF Proceed, client
<1>6. \A t : Done(t)' <=> Done(t) \/ t = "page"
  BY <1>1, <1>2, <1>5, DoneNext
<1>7. Intended' = Intended /\ \A S : Orders(walk, S)' = Orders(walk, S)
  BY <1>5, SameView
<1>8. Orders(walk, Intended)' = Orders(walk, Intended) /\ \A s : PageOf(s)' = PageOf(s)
  BY <1>5, <1>7 DEF PageOf, Offset
<1>9. ~Done("pick") /\ ~Done("one")
  <2>1. "page" \in ToSet(Plan(walk)) /\ Suits(walk, ToSet(Plan(walk)))
    BY <1>1, <1>2, AtFacts, PlanFacts
  <2>2. walk.list \in Lists \cup Rosters
    BY <2>1 DEF Suits
  <2>3. "pick" \notin ToSet(Plan(walk)) /\ "one" \notin ToSet(Plan(walk))
    BY <2>1, <2>2 DEF Suits, Lists, Rosters, Singles
  <2>4. QED  BY <1>2, <2>3, DoneFacts
<1>10. Finding'
  BY <1>1, <1>2, <1>4, <1>6, <1>7, <1>8, <1>9 DEF Finding
<1>11. QED  BY <1>1, <1>10, FindsOn DEF Picking

LEMMA PickPoemInv ==
  ASSUME ReadInv, PickPoem
  PROVE  ReadInv'
<1>1. At("pick") /\ Proceed /\ UNCHANGED <<chosen, total, loaded, failed>>
  BY DEF PickPoem
<1>2. walk \in Walks /\ step \in Nat /\ Choosing /\ Finding /\ RowsKnown
  BY <1>1, AtReady
<1>3. Matching(walk, chosen) = Intended
  BY <1>1, <1>2, MatchingIsIntended
<1>4. PICK order \in Orders(walk, Intended), i \in 1 .. total : found' = << order[i] >>
  BY <1>3 DEF PickPoem
<1>5. total = Cardinality(Intended)
  BY <1>1, <1>2, AtFacts DEF Finding
<1>6. order[i] \in Intended
  BY <1>4, <1>5 DEF Orders
<1>7. rows' = rows /\ walk' = walk /\ lang' = lang /\ page' = page /\ step' = step + 1
  BY <1>1 DEF Proceed, client
<1>8. \A t : Done(t)' <=> Done(t) \/ t = "pick"
  BY <1>1, <1>2, <1>7, DoneNext
<1>9. Intended' = Intended
  BY <1>7, SameView
<1>10. ~Done("page")
  <2>1. "pick" \in ToSet(Plan(walk)) /\ Suits(walk, ToSet(Plan(walk)))
    BY <1>1, <1>2, AtFacts, PlanFacts
  <2>2. walk.list = "random"
    BY <2>1 DEF Suits
  <2>3. "page" \notin ToSet(Plan(walk))
    BY <2>1, <2>2 DEF Suits, Lists, Rosters
  <2>4. QED  BY <1>2, <2>3, DoneFacts
<1>11. Finding'
  BY <1>1, <1>2, <1>4, <1>6, <1>8, <1>9, <1>10 DEF Finding
<1>12. QED  BY <1>1, <1>11, FindsOn DEF Picking

\* A single row is the one that was asked for, or picked.
LEMMA SingleFacts ==
  ASSUME walk \in Walks, step \in Nat, Finding, At("one")
  PROVE  Single \subseteq Intended /\ (Single = {} => ~Known \/ Intended = {})
<1>1. "one" \in ToSet(Plan(walk)) /\ Suits(walk, ToSet(Plan(walk)))
  BY AtFacts, PlanFacts
<1>2. walk.list \in Singles
  BY <1>1 DEF Suits
<1>3. CASE walk.list = "random"
  <2>1. "pick" \in ToSet(Plan(walk)) /\ QueryPlace("pick") < QueryPlace("one")
    BY <1>1, <1>3 DEF Suits, QueryPlace
  <2>2. Done("pick")
    BY <2>1, AtFacts
  <2>3. PICK e \in Intended : found = << e >>
    BY <2>2 DEF Finding
  <2>4. Single = {e}
    <3>1. Single = {found[i] : i \in DOMAIN found}
      BY <1>3 DEF Single
    <3>2. DOMAIN found = {1} /\ found[1] = e
      BY <2>3
    <3>3. QED  BY <3>1, <3>2
  <2>5. QED  BY <2>4
<1>4. CASE walk.list = "poem"
  BY <1>4 DEF Single, Intended
<1>5. CASE walk.list = "author"
  <2>1. walk.author # "" /\ walk.dynasty = "" /\ ~walk.named
    BY <1>5, BrowseAssumption
  <2>2. Single = AuthorRows \cap {walk.author} /\ Intended = Authors
    BY <1>5 DEF Single, Intended
  <2>3. Authors = AuthorRows \cap {walk.author}
    BY <2>1 DEF Authors, Wrote
  <2>4. QED  BY <2>2, <2>3
<1>6. CASE walk.list = "dynasty"
  <2>1. walk.dynasty # ""
    BY <1>6, BrowseAssumption
  <2>2. Single = DOMAIN Dynasties \cap {walk.dynasty} /\ Intended = {walk.dynasty}
    BY <1>6 DEF Single, Intended
  <2>3. QED  BY <2>1, <2>2 DEF Known
<1>7. CASE walk.list = "type"
  <2>1. Single = DOMAIN Types \cap walk.types /\ Intended = walk.types
    BY <1>7 DEF Single, Intended
  <2>2. QED  BY <2>1 DEF Known
<1>8. QED  BY <1>2, <1>3, <1>4, <1>5, <1>6, <1>7 DEF Singles

LEMMA FetchOneInv ==
  ASSUME ReadInv, FetchOne
  PROVE  ReadInv'
<1>1. At("one") /\ UNCHANGED <<chosen, total, loaded, failed>>
  BY DEF FetchOne
<1>2. walk \in Walks /\ step \in Nat /\ Choosing /\ Finding /\ RowsKnown
  BY <1>1, AtReady
<1>3. Single \subseteq Intended /\ (Single = {} => ~Known \/ Intended = {})
  BY <1>1, <1>2, SingleFacts
<1>4. CASE Single = {}
  <2>1. Ends("missing")
    BY <1>4, Stops DEF FetchOne
  <2>2. QED  BY <1>1, <1>3, <1>4, <2>1, EndInv
<1>5. CASE Single # {}
  <2>1. Proceed /\ found' = << CHOOSE e \in Single : TRUE >>
    BY <1>5 DEF FetchOne
  <2>2. PICK e \in Intended : found' = << e >>
    <3>1. (CHOOSE e \in Single : TRUE) \in Single
      BY <1>5
    <3>2. QED  BY <1>3, <2>1, <3>1
  <2>3. rows' = rows /\ walk' = walk /\ lang' = lang /\ page' = page /\ step' = step + 1
    BY <2>1 DEF Proceed, client
  <2>4. \A t : Done(t)' <=> Done(t) \/ t = "one"
    BY <1>1, <1>2, <2>3, DoneNext
  <2>5. Intended' = Intended
    BY <2>3, SameView
  <2>6. ~Done("page")
    <3>1. "one" \in ToSet(Plan(walk)) /\ Suits(walk, ToSet(Plan(walk)))
      BY <1>1, <1>2, AtFacts, PlanFacts
    <3>2. walk.list \in Singles
      BY <3>1 DEF Suits
    <3>3. "page" \notin ToSet(Plan(walk))
      BY <3>1, <3>2 DEF Suits, Lists, Rosters, Singles
    <3>4. QED  BY <1>2, <3>3, DoneFacts
  <2>7. Finding'
    BY <1>1, <1>2, <2>2, <2>4, <2>5, <2>6 DEF Finding
  <2>8. QED  BY <1>1, <2>1, <2>7, FindsOn DEF Picking
<1>6. QED  BY <1>4, <1>5

\* Relations are those of what was found, which stays as it is.
LEMMA FoundStays ==
  ASSUME walk' = walk, found' = found
  PROVE  /\ Found' = Found /\ AuthorsOfFound' = AuthorsOfFound /\ OriginsOfFound' = OriginsOfFound
         /\ {Dynasty(r) : r \in Found}' = {Dynasty(r) : r \in Found}
         /\ {TypeOf[r.product] : r \in Found}' = {TypeOf[r.product] : r \in Found}
<1>1. Found' = Found
  BY DEF Found
<1>2. AuthorsOfFound' = AuthorsOfFound /\ OriginsOfFound' = OriginsOfFound
  BY <1>1 DEF AuthorsOfFound, OriginsOfFound
<1>3. QED  BY <1>1, <1>2 DEF Dynasty

LEMMA LoadAuthorsInv ==
  ASSUME ReadInv, LoadAuthors
  PROVE  ReadInv'
<1>1. At("authors") /\ Proceed /\ UNCHANGED <<chosen, total, found, failed>>
  BY DEF LoadAuthors
<1>2. walk \in Walks /\ step \in Nat /\ Related
  BY <1>1, AtReady
<1>3. loaded' = [loaded EXCEPT !.authors = AuthorsOfFound]
  BY DEF LoadAuthors, AuthorsOfFound
<1>4. /\ loaded'.authors = AuthorsOfFound /\ loaded'.origins = loaded.origins
      /\ loaded'.dynasties = loaded.dynasties /\ loaded'.types = loaded.types
      /\ loaded' = [authors |-> loaded'.authors, origins |-> loaded'.origins, dynasties |-> loaded'.dynasties, types |-> loaded'.types]
  BY <1>2, <1>3 DEF Related
<1>5. walk' = walk /\ step' = step + 1
  BY <1>1 DEF Proceed, client
<1>6. \A t : Done(t)' <=> Done(t) \/ t = "authors"
  BY <1>1, <1>2, <1>5, DoneNext
<1>7. Related'
  BY <1>1, <1>2, <1>4, <1>5, <1>6, FoundStays DEF Related
<1>8. QED  BY <1>1, <1>7, Goes, RelatesOn DEF Relating

LEMMA LoadOriginsInv ==
  ASSUME ReadInv, LoadOrigins
  PROVE  ReadInv'
<1>1. At("origins") /\ Proceed /\ UNCHANGED <<chosen, total, found, failed>>
  BY DEF LoadOrigins
<1>2. walk \in Walks /\ step \in Nat /\ Related
  BY <1>1, AtReady
<1>3. loaded' = [loaded EXCEPT !.origins = {People[a].dynasty : a \in AuthorsFound}]
  BY DEF LoadOrigins
<1>4. /\ loaded'.authors = loaded.authors /\ loaded'.origins = {People[a].dynasty : a \in AuthorsFound}
      /\ loaded'.dynasties = loaded.dynasties /\ loaded'.types = loaded.types
      /\ loaded' = [authors |-> loaded'.authors, origins |-> loaded'.origins, dynasties |-> loaded'.dynasties, types |-> loaded'.types]
  BY <1>2, <1>3 DEF Related
<1>5. walk' = walk /\ step' = step + 1
  BY <1>1 DEF Proceed, client
<1>6. \A t : Done(t)' <=> Done(t) \/ t = "origins"
  BY <1>1, <1>2, <1>5, DoneNext
<1>7. "origins" \in ToSet(Plan(walk)) /\ Suits(walk, ToSet(Plan(walk))) /\ walk.list \in Lists \cup Rosters \cup Singles
  BY <1>1, <1>2, AtFacts, PlanFacts, BrowseAssumption
<1>8. failed \cap {"authors", "origins"} # {} \/ OriginsOfFound \subseteq {People[a].dynasty : a \in AuthorsFound}
  <2>1. CASE walk.list \in {"author", "authors"}
    BY <2>1 DEF OriginsOfFound, AuthorsFound
  <2>2. CASE walk.list \notin {"author", "authors"}
    <3>1. walk.list \in {"random", "poem"}
      BY <1>7, <2>2 DEF Suits, Lists, Rosters, Singles, Relating
    <3>2. "authors" \in ToSet(Plan(walk)) /\ QueryPlace("authors") < QueryPlace("origins")
      BY <1>7, <3>1 DEF Suits, Relating, QueryPlace
    <3>3. Done("authors")
      BY <1>1, <1>2, <3>2, AtFacts
    <3>4. "authors" \in failed \/ AuthorsOfFound \subseteq loaded.authors
      BY <1>2, <3>3 DEF Related
    <3>5. QED  BY <2>2, <3>4 DEF OriginsOfFound, AuthorsFound
  <2>3. QED  BY <2>1, <2>2
<1>9. Done("dynasties") => walk.list \in Singles
  <2>1. Done("dynasties") => "dynasties" \in ToSet(Plan(walk))
    BY <1>2, DoneFacts
  <2>2. QED  BY <1>7, <2>1 DEF Suits, Lists, Rosters, Singles, Relating
<1>10. Related'
  BY <1>1, <1>2, <1>4, <1>5, <1>6, <1>8, <1>9, FoundStays DEF Related
<1>11. QED  BY <1>1, <1>10, Goes, RelatesOn DEF Relating

LEMMA LoadDynastiesInv ==
  ASSUME ReadInv, LoadDynasties
  PROVE  ReadInv'
<1>1. At("dynasties") /\ Proceed /\ UNCHANGED <<chosen, total, found, failed>>
  BY DEF LoadDynasties
<1>2. walk \in Walks /\ step \in Nat /\ Related
  BY <1>1, AtReady
<1>3. walk' = walk /\ step' = step + 1
  BY <1>1 DEF Proceed, client
<1>4. \A t : Done(t)' <=> Done(t) \/ t = "dynasties"
  BY <1>1, <1>2, <1>3, DoneNext
<1>5. "dynasties" \in ToSet(Plan(walk)) /\ Suits(walk, ToSet(Plan(walk))) /\ walk.list \in Lists \cup Rosters \cup Singles
  BY <1>1, <1>2, AtFacts, PlanFacts, BrowseAssumption
<1>6. walk.list \in {"random", "poem"} \/ (walk.list \in {"poems", "search", "works"} /\ walk.list \notin Singles)
  BY <1>5 DEF Suits, Lists, Rosters, Singles, Relating
<1>7. CASE walk.list \in {"random", "poem"}
  <2>1. loaded' = [loaded EXCEPT !.dynasties = {Dynasty(r) : r \in Found}]
    BY <1>7 DEF LoadDynasties, Singles
  <2>2. /\ loaded'.authors = loaded.authors /\ loaded'.origins = loaded.origins
        /\ loaded'.dynasties = {Dynasty(r) : r \in Found} /\ loaded'.types = loaded.types
        /\ loaded' = [authors |-> loaded'.authors, origins |-> loaded'.origins, dynasties |-> loaded'.dynasties, types |-> loaded'.types]
    BY <1>2, <2>1 DEF Related
  <2>3. walk.list \in Singles
    BY <1>7 DEF Singles
  <2>4. Related'
    BY <1>1, <1>2, <1>3, <1>4, <2>2, <2>3, FoundStays DEF Related
  <2>5. QED  BY <1>1, <2>4, Goes, RelatesOn DEF Relating
<1>8. CASE walk.list \in {"poems", "search", "works"} /\ walk.list \notin Singles
  <2>1. loaded' = [loaded EXCEPT !.dynasties = Wanted, !.origins = Wanted]
    BY <1>8 DEF LoadDynasties
  <2>2. /\ loaded'.authors = loaded.authors /\ loaded'.origins = Wanted
        /\ loaded'.dynasties = Wanted /\ loaded'.types = loaded.types
        /\ loaded' = [authors |-> loaded'.authors, origins |-> loaded'.origins, dynasties |-> loaded'.dynasties, types |-> loaded'.types]
    BY <1>2, <2>1 DEF Related
  <2>3. {Dynasty(r) : r \in Found} \subseteq Wanted
    BY DEF Wanted
  <2>4. OriginsOfFound \subseteq {Dynasty(r) : r \in Found}
    BY <1>8 DEF OriginsOfFound, AuthorsOfFound, Dynasty
  <2>5. Related'
    BY <1>1, <1>2, <1>3, <1>4, <2>2, <2>3, <2>4, FoundStays DEF Related
  <2>6. QED  BY <1>1, <2>5, Goes, RelatesOn DEF Relating
<1>9. QED  BY <1>6, <1>7, <1>8

LEMMA LoadTypesInv ==
  ASSUME ReadInv, LoadTypes
  PROVE  ReadInv'
<1>1. At("types") /\ Proceed /\ UNCHANGED <<chosen, total, found, failed>>
  BY DEF LoadTypes
<1>2. walk \in Walks /\ step \in Nat /\ Related
  BY <1>1, AtReady
<1>3. loaded' = [loaded EXCEPT !.types = {TypeOf[r.product] : r \in Found}]
  BY DEF LoadTypes
<1>4. /\ loaded'.authors = loaded.authors /\ loaded'.origins = loaded.origins
      /\ loaded'.dynasties = loaded.dynasties /\ loaded'.types = {TypeOf[r.product] : r \in Found}
      /\ loaded' = [authors |-> loaded'.authors, origins |-> loaded'.origins, dynasties |-> loaded'.dynasties, types |-> loaded'.types]
  BY <1>2, <1>3 DEF Related
<1>5. walk' = walk /\ step' = step + 1
  BY <1>1 DEF Proceed, client
<1>6. \A t : Done(t)' <=> Done(t) \/ t = "types"
  BY <1>1, <1>2, <1>5, DoneNext
<1>7. Related'
  BY <1>1, <1>2, <1>4, <1>5, <1>6, FoundStays DEF Related
<1>8. QED  BY <1>1, <1>7, Goes, RelatesOn DEF Relating

LEMMA PrefetchInv ==
  ASSUME ReadInv, Prefetch
  PROVE  ReadInv'
<1>1. At("prefetch") /\ GoesOn /\ UNCHANGED <<chosen, total, found, loaded, failed>>
  BY Goes DEF Prefetch
<1>2. Choosing' /\ Finding' /\ Related'
  BY <1>1, KeepsChoosing, KeepsFinding, KeepsRelated DEF Lookup, Picking, Relating
<1>3. QED  BY <1>1, <1>2, ProceedInv

\* Only the query of a relation may fail without notice, and it is remembered.
LEMMA QueryFailsInv ==
  ASSUME ReadInv, QueryFails
  PROVE  ReadInv'
<1> DEFINE s == Plan(walk)[step]
<1>1. /\ failed' = failed \cup {s} /\ step' = (IF Ignored(s) THEN step + 1 ELSE 0)
      /\ outcome' = IF ~Ignored(s) /\ TakenForNothing(s) THEN "missing" ELSE outcome
      /\ UNCHANGED <<rows, walk, page, lang, chosen, total, found, loaded, answer, shown>>
  BY DEF QueryFails
<1>2. At(s)
  BY DEF QueryFails, At
<1> HIDE DEF s
<1>3. walk \in Walks /\ step \in Nat /\ Related /\ outcome = "walking"
  BY <1>2, AtReady
<1>4. CASE Ignored(s)
  <2>1. s \in Relating
    BY <1>4 DEF Ignored, Relating
  <2>2. GoesOn
    BY <1>1, <1>4 DEF GoesOn, client
  <2>3. \A t : Done(t)' <=> Done(t) \/ t = s
    BY <1>1, <1>2, <1>3, <1>4, DoneNext
  <2>4. Related'
    BY <1>1, <1>3, <2>3, FoundStays DEF Related
  <2>5. QED  BY <1>1, <1>2, <2>1, <2>2, <2>4, RelatesOn
<1>5. CASE ~Ignored(s)
  <2>1. Ends(outcome') /\ failed' # {} /\ outcome' \in {"walking", "missing"}
    BY <1>1, <1>3, <1>5 DEF Ends
  <2>2. QED  BY <1>2, <2>1, EndInv
<1>6. QED  BY <1>4, <1>5

-----------------------------------------------------------------------------
(* Requests and answers. *)

LEMMA AskInv ==
  ASSUME ReadInv, Published, Ask
  PROVE  ReadInv'
<1>1. Walking /\ WalkIsComplete /\ AnswersForCause /\ walk \in Walks /\ lang \in walk.langs /\ RowsKnown
  BY DEF ReadInv, Walking
<1>2. outcome = "walking" /\ step = 0 /\ UNCHANGED <<rows, walk, page, shown, faults>>
  BY DEF Ask, Asking
<1>3. rows' = rows /\ walk' = walk /\ page' = page /\ shown' = shown
  BY <1>2
<1>4. CASE Acceptable
  <2>1. /\ step' = 1 /\ lang' \in walk.langs /\ outcome' = outcome
        /\ chosen' = IF walk.named THEN NoFilter
                     ELSE [dynasty |-> walk.dynasty, author |-> walk.author, types |-> walk.types]
        /\ loaded' = Nothing /\ answer' = <<>>
    BY <1>4 DEF Ask
  <2>2. lang' = lang \/ ~walk.named
    <3>1. walk.named => \E l \in Langs : walk.langs = {l}
      BY <1>1, BrowseAssumption
    <3>2. QED  BY <1>1, <2>1, <3>1
  <2>3. /\ Intended' = Intended /\ (RowsKnown' <=> RowsKnown) /\ (Published' <=> Published)
        /\ \A e : Preceding(e)' = Preceding(e)
    BY <1>3, <2>2, SameView
  <2>4. Offset' = Offset /\ (Acceptable' <=> Acceptable) /\ (Searchable(walk)' <=> Searchable(walk))
    BY <1>3 DEF Offset, Acceptable, Searchable
  <2>5. Walking'
    BY <1>1, <1>2, <1>3, <2>1, <2>3, <2>4 DEF Walking
  <2>6. WalkIsComplete'
    BY <1>1, <1>2, <1>3, <2>1, <2>3, <2>4 DEF WalkIsComplete
  <2>7. AnswersForCause'
    BY <1>2, <2>1 DEF AnswersForCause
  <2>8. Serving'
    <3>1. DOMAIN Plan(walk) = 1 .. Len(Plan(walk)) /\ Len(Plan(walk)) \in Nat
      BY <1>1, PlanFacts
    <3>2. Plan(walk)' = Plan(walk)
      BY <1>3
    <3>3. \A t : ~Done(t)'
      BY <2>1, <3>1, <3>2 DEF Done
    <3>4. Choosing'
      BY <1>3, <2>1, <3>3 DEF Choosing, NoFilter
    <3>5. Finding'
      BY <3>3 DEF Finding
    <3>6. Related'
      BY <2>1, <3>3 DEF Related, Nothing
    <3>7. step' \in 1 .. Len(Plan(walk)) + 1
      BY <2>1, <3>1
    <3>8. QED  BY <1>2, <1>4, <2>1, <2>3, <2>4, <3>2, <3>4, <3>5, <3>6, <3>7 DEF Serving
  <2>9. QED  BY <2>5, <2>6, <2>7, <2>8 DEF ReadInv
<1>5. CASE ~Acceptable
  <2>1. outcome' = "refused" /\ lang' = lang /\ UNCHANGED request
    BY <1>5 DEF Ask
  <2>2. step' = step /\ answer' = answer /\ failed' = failed
    BY <2>1 DEF request
  <2>3. /\ Intended' = Intended /\ (RowsKnown' <=> RowsKnown) /\ (Published' <=> Published)
        /\ \A e : Preceding(e)' = Preceding(e)
    BY <1>3, <2>1, SameView
  <2>4. Offset' = Offset /\ (Acceptable' <=> Acceptable) /\ (Searchable(walk)' <=> Searchable(walk))
    BY <1>3 DEF Offset, Acceptable, Searchable
  <2>5. Walking'
    BY <1>1, <1>2, <1>3, <1>5, <2>1, <2>2, <2>3, <2>4 DEF Walking
  <2>6. walk.size \in 1 .. MaxPageSize /\ Searchable(walk) =>
          Len(shown) = MaxPage * walk.size /\ Len(shown) < Cardinality(Intended)
    <3>1. SUFFICES ASSUME walk.size \in 1 .. MaxPageSize, Searchable(walk)
                   PROVE  Len(shown) = MaxPage * walk.size /\ Len(shown) < Cardinality(Intended)
      OBVIOUS
    <3>2. MaxPage \in Nat \ {0}
      BY BrowseAssumption
    <3>3. page \in 1 .. MaxPage + 1 /\ page \notin 1 .. MaxPage
      BY <1>1, <1>5, <3>1 DEF Walking, Acceptable
    <3>4. page > 1 /\ page - 1 = MaxPage
      BY <3>2, <3>3
    <3>5. Offset = MaxPage * walk.size
      BY <3>4 DEF Offset
    <3>6. QED  BY <1>1, <1>2, <3>4, <3>5 DEF Walking
  <2>7. WalkIsComplete'
    BY <1>1, <1>2, <1>3, <2>1, <2>3, <2>4, <2>6 DEF WalkIsComplete
  <2>8. AnswersForCause'
    BY <1>1, <1>3, <2>1, <2>2 DEF AnswersForCause, Due
  <2>9. Serving'
    BY <1>2, <2>2 DEF Serving
  <2>10. QED  BY <2>5, <2>7, <2>8, <2>9 DEF ReadInv
<1>6. QED  BY <1>4, <1>5

\* What an answer leaves out is what a query that failed should have loaded.
LEMMA RelationsFacts ==
  ASSUME walk \in Walks, Related, step = Len(Plan(walk)) + 1, NEW e \in Found, NEW x \in Due \ RelationsOf(e)
  PROVE  failed \cap Causes[x] # {}
<1>1. Suits(walk, ToSet(Plan(walk))) /\ (\A s \in ToSet(Plan(walk)) : Done(s)) /\ walk.list \in Lists \cup Rosters \cup Singles
  BY PlanFacts, AllDone, BrowseAssumption
<1>2. /\ Causes["author"] = {"authors"} /\ Causes["origin"] = {"authors", "origins", "dynasties"}
      /\ Causes["dynasty"] = {"dynasties"} /\ Causes["type"] = {"types"}
      /\ DOMAIN Causes = {"author", "origin", "dynasty", "type"}
  BY DEF Causes
<1>3. CASE walk.list \in {"author", "authors"}
  <2>1. x = "origin" /\ People[e].dynasty \notin loaded.origins
    BY <1>3 DEF Due, RelationsOf, Rosters
  <2>2. "origins" \in ToSet(Plan(walk))
    BY <1>1, <1>3 DEF Suits, Relating
  <2>3. People[e].dynasty \in OriginsOfFound
    BY <1>3 DEF OriginsOfFound
  <2>4. failed \cap {"authors", "origins"} # {}
    BY <1>1, <2>1, <2>2, <2>3 DEF Related
  <2>5. QED  BY <1>2, <2>1, <2>4
<1>4. CASE walk.list \in Rosters \cup {"dynasty", "type"}
  BY <1>4 DEF Due, Rosters
<1>5. CASE walk.list \in {"poems", "search", "works", "random", "poem"}
  <2>1. Due = DOMAIN Causes
    BY <1>5 DEF Due, Rosters
  <2>2. RelationsOf(e) = {y \in {"author"}  : e.author \in loaded.authors}
         \cup {y \in {"origin"} : e.author \in loaded.authors /\ People[e.author].dynasty \in loaded.origins}
         \cup {y \in {"dynasty"} : Dynasty(e) \in loaded.dynasties}
         \cup {y \in {"type"} : TypeOf[e.product] \in loaded.types}
    BY <1>5 DEF RelationsOf, Rosters
  <2>3. "authors" \in ToSet(Plan(walk)) /\ "dynasties" \in ToSet(Plan(walk)) /\ "types" \in ToSet(Plan(walk))
    BY <1>1, <1>5 DEF Suits, Relating
  <2>4. e.author \in AuthorsOfFound /\ People[e.author].dynasty \in OriginsOfFound
    BY <1>5 DEF AuthorsOfFound, OriginsOfFound
  <2>5. "authors" \notin failed => e.author \in loaded.authors
    BY <1>1, <2>3, <2>4 DEF Related
  <2>6. "dynasties" \notin failed => Dynasty(e) \in loaded.dynasties
    BY <1>1, <2>3 DEF Related
  <2>7. "types" \notin failed => TypeOf[e.product] \in loaded.types
    BY <1>1, <2>3 DEF Related
  <2>8. failed \cap {"authors", "origins", "dynasties"} = {} => People[e.author].dynasty \in loaded.origins
    <3>1. CASE walk.list \in {"random", "poem"}
      <4>1. "origins" \in ToSet(Plan(walk))
        BY <1>1, <3>1 DEF Suits, Relating
      <4>2. QED  BY <1>1, <2>4, <4>1 DEF Related
    <3>2. CASE walk.list \in {"poems", "search", "works"}
      <4>1. walk.list \notin Singles
        BY <3>2 DEF Singles
      <4>2. QED  BY <1>1, <2>3, <2>4, <4>1 DEF Related
    <3>3. QED  BY <1>5, <3>1, <3>2
  <2>9. CASE x = "author"
    BY <1>2, <2>2, <2>5, <2>9
  <2>10. CASE x = "origin"
    BY <1>2, <2>2, <2>5, <2>8, <2>10
  <2>11. CASE x = "dynasty"
    BY <1>2, <2>2, <2>6, <2>11
  <2>12. CASE x = "type"
    BY <1>2, <2>2, <2>7, <2>12
  <2>13. QED  BY <1>2, <2>1, <2>9, <2>10, <2>11, <2>12
<1>6. QED  BY <1>1, <1>3, <1>4, <1>5 DEF Lists, Rosters, Singles

\* What is answered: the rows of a page, in their places, or a single row.
LEMMA ItemsFacts ==
  ASSUME ReadInv, step = Len(Plan(walk)) + 1, step # 0
  PROVE  /\ Items \in Seq(ToSet(Items)) /\ DOMAIN Items = DOMAIN found /\ Len(Items) = Len(found)
         /\ \A i \in DOMAIN Items :
              /\ Items[i].entity = found[i] /\ found[i] \in Intended
              /\ Items[i].cursor = Offset + i - 1 /\ Items[i].relations = RelationsOf(found[i])
              /\ walk.list \in Lists \cup Rosters => Cardinality(Preceding(found[i])) = Offset + i - 1
         /\ walk.list \in Singles => Len(found) = 1
         /\ walk.list \in Lists \cup Rosters => Cardinality(Intended) \in Nat
         /\ walk.list \in Rosters => Len(found) = Cardinality(Intended)
         /\ walk.list \in Lists =>
              Len(found) = Least(walk.size, Cardinality(Intended) - Least(Offset, Cardinality(Intended)))
<1>1. Walking /\ walk \in Walks /\ Published /\ Acceptable /\ Finding
  BY DEF ReadInv, Walking, Serving
<1>2. RowsKnown /\ page \in Nat \ {0} /\ walk.size # 0
  <2>1. page \in 1 .. MaxPage /\ walk.size \in 1 .. MaxPageSize /\ MaxPage \in Nat
    BY <1>1, BrowseAssumption DEF Acceptable
  <2>2. QED  BY <1>1, <2>1 DEF Walking
<1>3. Suits(walk, ToSet(Plan(walk))) /\ (\A s \in ToSet(Plan(walk)) : Done(s)) /\ walk.list \in Lists \cup Rosters \cup Singles
  BY <1>1, PlanFacts, AllDone, BrowseAssumption
<1>4. /\ found \in Seq(Intended)
      /\ walk.list \in Singles => Len(found) = 1
      /\ walk.list \in Lists \cup Rosters =>
           /\ Cardinality(Intended) \in Nat
           /\ \A i \in DOMAIN found : Cardinality(Preceding(found[i])) = Offset + i - 1
           /\ Len(found) = IF walk.list \in Lists THEN Least(walk.size, Cardinality(Intended) - Least(Offset, Cardinality(Intended)))
                           ELSE Cardinality(Intended)
  <2>1. CASE walk.list \in Lists \cup Rosters
    <3>1. Done("page") /\ walk.list \notin Singles
      BY <1>3, <2>1 DEF Suits, Lists, Rosters, Singles
    <3>2. PICK order \in Orders(walk, Intended) : found = PageOf(order)
      BY <1>1, <3>1 DEF Finding
    <3>3. page > 1 => walk.list \in Lists /\ Offset < Cardinality(Intended)
      BY <1>1 DEF Walking
    <3>4. QED  BY <1>1, <1>2, <2>1, <3>1, <3>2, <3>3, PageFacts
  <2>2. CASE walk.list \in Singles
    <3>1. Done("one") /\ walk.list \notin Lists \cup Rosters
      BY <1>3, <2>2 DEF Suits, Lists, Rosters, Singles
    <3>2. PICK e \in Intended : found = << e >>
      BY <1>1, <3>1 DEF Finding
    <3>3. QED  BY <3>1, <3>2
  <2>3. QED  BY <1>3, <2>1, <2>2
<1>5. DOMAIN found = 1 .. Len(found) /\ Len(found) \in Nat
  BY <1>4, ElementsOfSequence
<1>6. ASSUME NEW i \in DOMAIN found PROVE found[i] \in Intended
  BY <1>4, <1>5
<1>7. /\ DOMAIN Items = DOMAIN found
      /\ \A i \in DOMAIN found : /\ Items[i].entity = found[i] /\ Items[i].cursor = Offset + i - 1
                                 /\ Items[i].relations = RelationsOf(found[i])
  BY DEF Items
<1>8. Items \in Seq(ToSet(Items)) /\ Len(Items) = Len(found)
  <2>1. Items = [i \in DOMAIN found |-> Items[i]]
    BY DEF Items
  <2>2. \A i \in DOMAIN found : Items[i] \in ToSet(Items)
    BY <1>7 DEF ToSet
  <2>3. Items \in [1 .. Len(found) -> ToSet(Items)]
    BY <1>5, <2>1, <2>2
  <2>4. QED  BY ONLY <1>5, <2>3
<1>9. walk.list \in Lists => walk.list \in Lists \cup Rosters
  OBVIOUS
<1>10. walk.list \in Rosters => walk.list \notin Lists /\ walk.list \in Lists \cup Rosters
  BY DEF Lists, Rosters
<1>11. QED  BY <1>4, <1>6, <1>7, <1>8, <1>9, <1>10

\* Whether there is a next page is told rightly.
LEMMA NextPageFacts ==
  ASSUME ReadInv, step = Len(Plan(walk)) + 1, step # 0, walk.list \in Lists
  PROVE  /\ Offset \in Nat /\ Len(found) \in Nat /\ walk.size \in Nat
         /\ HasNextPage => Len(found) = walk.size /\ Offset + walk.size < Cardinality(Intended)
         /\ ~HasNextPage => Offset + Len(found) = Cardinality(Intended)
<1> DEFINE n == Cardinality(Intended)
           o == Offset
           s == walk.size
           l == Len(found)
<1>1. Walking /\ walk \in Walks /\ Published /\ Acceptable /\ Finding
  BY DEF ReadInv, Walking, Serving
<1>2. page \in Nat \ {0} /\ s \in Nat \ {0} /\ (page > 1 => o < n)
  <2>1. page \in 1 .. MaxPage /\ walk.size \in 1 .. MaxPageSize /\ MaxPage \in Nat /\ MaxPageSize \in Nat
    BY <1>1, BrowseAssumption DEF Acceptable
  <2>2. page > 1 => o < n
    BY <1>1 DEF Walking
  <2>3. QED  BY <2>1, <2>2
<1>3. o \in Nat /\ (page = 1 => o = 0) /\ page * s = o + s
  BY <1>1, <1>2, OffsetFacts
<1>4. n \in Nat /\ l = Least(s, n - Least(o, n))
  BY ItemsFacts
<1>5. total = n
  <2>1. "count" \in ToSet(Plan(walk))
    BY <1>1, PlanFacts DEF Suits
  <2>2. QED  BY <1>1, <2>1, AllDone DEF Finding
<1>6. HasNextPage <=> IF walk.api = "rest" THEN page < (n + s - 1) \div s ELSE o + l < n
  BY <1>5 DEF HasNextPage
<1> HIDE DEF n, o, s, l
<1>7. page = 1 \/ page > 1
  BY <1>2
<1>8. l \in Nat /\ o + l <= n /\ (o + l < n <=> o + s < n) /\ (o + l < n => l = s)
  <2>1. o = 0 \/ o < n
    BY <1>2, <1>3, <1>7
  <2>2. Least(o, n) = o
    BY <1>3, <1>4, <2>1 DEF Least
  <2>3. l = IF s < n - o THEN s ELSE n - o
    BY <1>4, <2>2 DEF Least
  <2>4. n \in Nat /\ s \in Nat /\ o \in Nat
    BY <1>2, <1>3, <1>4
  <2>5. QED  BY ONLY <2>1, <2>3, <2>4
<1>9. page < (n + s - 1) \div s <=> page * s < n
  BY <1>2, <1>4, PagesLeft
<1>10. HasNextPage <=> o + s < n
  BY <1>3, <1>6, <1>8, <1>9
<1>11. ~(o + s < n) => o + l = n
  BY <1>3, <1>4, <1>8
<1>12. QED  BY <1>2, <1>3, <1>8, <1>10, <1>11 DEF n, o, s, l

LEMMA RespondInv ==
  ASSUME ReadInv, Respond
  PROVE  ReadInv'
<1>1. /\ step = Len(Plan(walk)) + 1 /\ step # 0 /\ step' = 0 /\ answer' = Items /\ shown' = shown \o Items
      /\ IF walk.list \in Lists /\ HasNextPage THEN page' = page + 1 /\ outcome' = outcome
         ELSE outcome' = "done" /\ page' = page
      /\ rows' = rows /\ walk' = walk /\ lang' = lang /\ failed' = failed
  BY DEF Respond, Asking
<1>2. /\ Walking /\ WalkIsComplete /\ walk \in Walks /\ Published /\ Acceptable /\ outcome = "walking"
      /\ Related /\ RowsKnown /\ walk.list \in Lists \cup Rosters \cup Singles
  BY <1>1, BrowseAssumption DEF ReadInv, Walking, Serving
<1>3. /\ Intended' = Intended /\ (RowsKnown' <=> RowsKnown) /\ Published'
      /\ \A e : Preceding(e)' = Preceding(e)
  BY <1>1, <1>2, SameView
<1>4. page \in 1 .. MaxPage /\ page \in Nat \ {0} /\ MaxPage \in Nat
  <2>1. page \in 1 .. MaxPage /\ MaxPage \in Nat
    BY <1>2, BrowseAssumption DEF Acceptable
  <2>2. QED  BY <2>1
<1>5. Offset \in Nat /\ walk.size \in Nat /\ (page = 1 => Offset = 0) /\ page * walk.size = Offset + walk.size
  BY <1>2, <1>4, OffsetFacts
<1>6. shown \in Seq(ToSet(shown)) /\ Len(shown) = Offset
  BY <1>2 DEF Walking
<1>7. /\ Items \in Seq(ToSet(Items)) /\ DOMAIN Items = DOMAIN found /\ Len(Items) = Len(found)
      /\ \A i \in DOMAIN Items :
           /\ Items[i].entity = found[i] /\ found[i] \in Intended
           /\ Items[i].cursor = Offset + i - 1 /\ Items[i].relations = RelationsOf(found[i])
           /\ walk.list \in Lists \cup Rosters => Cardinality(Preceding(found[i])) = Offset + i - 1
      /\ walk.list \in Singles => Len(found) = 1
      /\ walk.list \in Rosters => Len(found) = Cardinality(Intended)
  BY <1>1, ItemsFacts
<1>8. /\ shown' \in Seq(ToSet(shown')) /\ DOMAIN shown = 1 .. Len(shown) /\ DOMAIN Items = 1 .. Len(Items)
      /\ \A i \in DOMAIN shown : shown'[i] = shown[i]
      /\ \A i \in DOMAIN Items : shown'[Len(shown) + i] = Items[i]
      /\ \A i \in DOMAIN shown' : i \in DOMAIN shown \/ \E j \in DOMAIN Items : i = Len(shown) + j
      /\ Len(Items) \in Nat
  <2> DEFINE u == shown \o Items
  <2>1. shown \in Seq(ToSet(shown)) /\ Items \in Seq(ToSet(Items))
    BY <1>6, <1>7
  <2>2. /\ u \in Seq(ToSet(u)) /\ DOMAIN shown = 1 .. Len(shown) /\ DOMAIN Items = 1 .. Len(Items)
        /\ Len(shown) \in Nat /\ Len(Items) \in Nat
        /\ \A i \in DOMAIN shown : u[i] = shown[i] /\ i \in DOMAIN u
        /\ \A i \in DOMAIN Items : u[Len(shown) + i] = Items[i] /\ Len(shown) + i \in DOMAIN u
        /\ \A i \in DOMAIN u : i \in DOMAIN shown \/ \E j \in DOMAIN Items : i = Len(shown) + j
    BY <2>1, Joined
  <2>3. shown' = u
    BY <1>1
  <2> HIDE DEF u
  <2>4. QED  BY <2>2, <2>3
<1>9. Len(shown') = Offset + Len(found)
  <2> DEFINE R == ToSet(shown) \cup ToSet(Items)
  <2>1. shown \in Seq(R) /\ Items \in Seq(R)
    BY <1>6, <1>7, SeqMonotonic
  <2> HIDE DEF R
  <2>2. Len(shown \o Items) = Len(shown) + Len(Items)
    BY ONLY <2>1, ConcatProperties
  <2>3. QED  BY <1>1, <1>6, <1>7, <2>2
<1>10. page = 1 => Offset = 0
  BY <1>5
<1>11. walk.list \in Rosters \cup Singles => Offset = 0
  <2>1. walk.list \in Rosters \cup Singles => walk.list \notin Lists
    BY DEF Lists, Rosters, Singles
  <2>2. page > 1 => walk.list \in Lists
    BY <1>2 DEF Walking
  <2>3. page = 1 \/ page > 1
    BY <1>4
  <2>4. QED  BY <1>5, <2>1, <2>2, <2>3
<1>12. ASSUME walk.list \in Lists /\ HasNextPage
      PROVE  Walking' /\ outcome' \in {"walking", "done"}
             /\ (outcome' = "done" => Len(shown') = IF walk.list \in Singles THEN 1 ELSE Cardinality(Intended))
  <2>1. page' = page + 1 /\ outcome' = "walking"
    BY <1>1, <1>2, <1>12
  <2>2. Len(found) = walk.size /\ Offset + walk.size < Cardinality(Intended)
    BY <1>1, <1>12, NextPageFacts
  <2>3. Offset' = Offset + walk.size
    <3>1. Offset' = (page' - 1) * walk.size /\ page' - 1 = page
      BY <1>1, <1>4, <2>1 DEF Offset
    <3>2. QED  BY <1>5, <3>1
  <2>4. page' \in 1 .. MaxPage + 1
    BY <1>4, <2>1
  <2>5. Walking'
    BY <1>1, <1>2, <1>3, <1>8, <1>9, <1>12, <2>1, <2>2, <2>3, <2>4 DEF Walking
  <2>6. QED  BY <2>1, <2>5
<1>13. ASSUME ~(walk.list \in Lists /\ HasNextPage)
      PROVE  Walking' /\ outcome' \in {"walking", "done"}
             /\ (outcome' = "done" => Len(shown') = IF walk.list \in Singles THEN 1 ELSE Cardinality(Intended))
  <2>1. page' = page /\ outcome' = "done" /\ Offset' = Offset
    BY <1>1, <1>13 DEF Offset
  <2>2. Walking'
    BY <1>1, <1>2, <1>3, <2>1 DEF Walking
  <2>3. Len(shown') = IF walk.list \in Singles THEN 1 ELSE Cardinality(Intended)
    <3>1. CASE walk.list \in Singles
      BY <1>7, <1>9, <1>11, <3>1
    <3>2. CASE walk.list \in Rosters
      <4>1. walk.list \notin Singles /\ Len(found) \in Nat
        BY <1>7, <1>8, <3>2 DEF Rosters, Singles
      <4>2. QED  BY <1>7, <1>9, <1>11, <3>2, <4>1
    <3>3. CASE walk.list \in Lists
      <4>1. walk.list \notin Singles
        BY <3>3 DEF Lists, Singles
      <4>2. QED  BY <1>1, <1>9, <1>13, <3>3, <4>1, NextPageFacts
    <3>4. QED  BY <1>2, <3>1, <3>2, <3>3
  <2>4. QED  BY <2>1, <2>2, <2>3
<1>14. Walking' /\ outcome' \in {"walking", "done"}
       /\ (outcome' = "done" => Len(shown') = IF walk.list \in Singles THEN 1 ELSE Cardinality(Intended))
  BY <1>12, <1>13
<1>15. ASSUME NEW k \in DOMAIN shown'
       PROVE  /\ shown'[k].entity \in Intended
              /\ walk.list \in Lists \cup Rosters =>
                   Cardinality(Preceding(shown'[k].entity)) = k - 1 /\ shown'[k].cursor = k - 1
  <2>1. CASE k \in DOMAIN shown
    BY <1>2, <1>8, <2>1 DEF WalkIsComplete
  <2>2. CASE \E j \in DOMAIN Items : k = Len(shown) + j
    <3>1. PICK j \in DOMAIN Items : k = Len(shown) + j
      BY <2>2
    <3>2. shown'[k] = Items[j]
      BY <1>8, <3>1
    <3>3. Offset + j - 1 = k - 1
      BY <1>5, <1>6, <1>8, <3>1
    <3>4. QED  BY <1>7, <3>2, <3>3
  <2>3. QED  BY <1>8, <2>1, <2>2
<1>16. WalkIsComplete'
  BY <1>1, <1>3, <1>14, <1>15 DEF WalkIsComplete
<1>17. AnswersForCause'
  <2>1. ASSUME NEW i \in DOMAIN Items, NEW x \in Due \ Items[i].relations PROVE failed \cap Causes[x] # {}
    <3>1. found[i] \in Found /\ Items[i].relations = RelationsOf(found[i])
      BY <1>7 DEF Found
    <3>2. QED  BY <1>1, <1>2, <2>1, <3>1, RelationsFacts
  <2>2. Due' = Due
    BY <1>1 DEF Due
  <2>3. QED  BY <1>1, <1>14, <2>1, <2>2 DEF AnswersForCause
<1>18. Serving'
  BY <1>1 DEF Serving
<1>19. QED  BY <1>14, <1>16, <1>17, <1>18 DEF ReadInv

-----------------------------------------------------------------------------
(* The catalogue that is read. *)

\* Rows are told apart by their identifiers, and their authors are those of records.
LEMMA RowsOfRecords ==
  ASSUME NEW p, IsFiniteSet(ToSet(p)), ~Conflict(p),
         \A r \in ToSet(p) : r.locator \in Int /\ r.id \in Int /\ r.author \in DOMAIN People
  PROVE  /\ IsFiniteSet(ToSet(Prepared(p)))
         /\ \A r \in ToSet(Prepared(p)) : r.id \in Int /\ r.author \in DOMAIN People
         /\ \A r, s \in ToSet(Prepared(p)) : r.id = s.id => r = s
<1> DEFINE W == Works(p)
           M == Made(p)
           key == [row \in M |-> row.id]
           names == [r \in ToSet(p) |-> r.canonical]
           row == [c \in W |-> Row(p, c)]
<1>1. W = {r.canonical : r \in ToSet(p)}
  BY DEF Works, ToSet
<1>2. Consistent(p)
  BY ConflictFree
<1>3. ASSUME NEW c \in W PROVE \E r \in ToSet(p) : r.canonical = c /\ Row(p, c).id = r.id /\ Row(p, c).author = r.author
  <2> DEFINE R == Records(p, c)
             locators == [r \in R |-> r.locator]
             L == {locators[r] : r \in R}
  <2>1. R \subseteq ToSet(p) /\ R # {} /\ \A r \in R : r.canonical = c
    BY <1>1 DEF Records
  <2>2. IsFiniteSet(R)
    BY <2>1, FS_Subset
  <2>3. IsFiniteSet(L)
    BY <2>2, Image
  <2>4. L \subseteq Int /\ L # {}
    BY <2>1
  <2>5. \E x \in L : \A y \in L : x <= y
    <3> HIDE DEF L
    <3>1. QED  BY <2>3, <2>4, LeastMember
  <2>6. \E r \in R : \A s \in R : r.locator <= s.locator
    BY <2>5
  <2>7. Kept(p, c) \in R
    BY <2>6 DEF Kept
  <2>8. Row(p, c).id = Kept(p, c).id /\ Row(p, c).author = Kept(p, c).author
    BY Zenon DEF Row
  <2>9. QED  BY <2>1, <2>7, <2>8
<1>4. IsFiniteSet(M)
  <2>1. W = {names[r] : r \in ToSet(p)}
    BY <1>1
  <2>2. IsFiniteSet({names[r] : r \in ToSet(p)})
    BY Image
  <2>3. M = {row[c] : c \in W}
    BY DEF Made
  <2>4. IsFiniteSet(W)
    BY <2>1, <2>2
  <2> HIDE DEF W
  <2>5. IsFiniteSet({row[c] : c \in W})
    BY <2>4, Image
  <2>6. QED  BY <2>3, <2>5
<1>5. \A x \in M : \E r \in ToSet(p) : x = Row(p, r.canonical) /\ x.id = r.id /\ x.author = r.author
  BY <1>3 DEF Made
<1>6. \A x \in M : x.id \in Int /\ x.author \in DOMAIN People
  BY <1>5
<1>7. \A x, y \in M : x.id = y.id => x = y
  <2>1. SUFFICES ASSUME NEW x \in M, NEW y \in M, x.id = y.id PROVE x = y
    OBVIOUS
  <2>2. PICK r \in ToSet(p) : x = Row(p, r.canonical) /\ x.id = r.id
    BY <1>5
  <2>3. PICK s \in ToSet(p) : y = Row(p, s.canonical) /\ y.id = s.id
    BY <1>5
  <2>4. r.canonical = s.canonical
    BY <1>2, <2>1, <2>2, <2>3 DEF Consistent, Collide
  <2>5. QED  BY <2>2, <2>3, <2>4
<1>8. Keyed(M, key)
  BY <1>6, <1>7 DEF Keyed
<1>9. Prepared(p) = Sorted(M, key)
  BY Zenon DEF Prepared, Made
<1> HIDE DEF M, key
<1>10. ToSet(Sorted(M, key)) = M
  BY <1>4, <1>8, SortedFacts
<1>11. QED  BY <1>4, <1>6, <1>7, <1>9, <1>10

LEMMA GoodRecordFields ==
  ASSUME tree \in Trees
  PROVE  \A r \in GoodRecords : r.locator \in Int /\ r.id \in Int /\ r.author \in DOMAIN People
<1>1. SUFFICES ASSUME NEW f \in LoadedFiles(tree), NEW i \in Good(tree, f)
               PROVE  LET r == Classified(Record(f[1], f[2], i))
                      IN  r.locator \in Int /\ r.id \in Int /\ r.author \in DOMAIN People
  <2>1. \A a \in GoodPlaces(tree) : \E f \in LoadedFiles(tree) : \E i \in Good(tree, f) : a[1] = f[1] /\ a[2] = f[2] /\ a[3] = i
    BY DEF GoodPlaces
  <2>2. QED  BY <2>1 DEF GoodRecords
<1> DEFINE all == tree[f[1]].files[f[2]].records
           d == Record(f[1], f[2], i)
           R == [text : Texts, canonical : STRING, id : Nat, product : STRING, author : STRING]
<1>2. i \in DOMAIN all
  BY DEF Good
<1>3. f \in AllFiles(tree)
  BY DEF LoadedFiles
<1>4. tree[f[1]].files[f[2]] \in Files /\ \A j \in DOMAIN all : LocatorId(f[1], f[2], j) \in Int
  BY <1>3, SourcesAssumption DEF WellFormed
<1>5. all \in Seq(R)
  BY <1>4 DEF Files
<1>6. all[i] \in R /\ all[i] \in ToSet(all)
  <2> HIDE DEF all, R
  <2>1. QED  BY <1>2, <1>5 DEF ToSet
<1>7. d.locator = LocatorId(f[1], f[2], i) /\ d.id = all[i].id
      /\ d.author = (IF all[i].author = "" THEN tree[f[1]].author ELSE all[i].author)
  BY DEF Record
<1>8. (IF all[i].author = "" THEN tree[f[1]].author ELSE all[i].author) \in DOMAIN People
  BY <1>6, ReleaseAssumption
<1>9. d.locator \in Int /\ d.id \in Int /\ d.author \in DOMAIN People
  <2>1. all[i].id \in Int
    <3> HIDE DEF all
    <3>1. QED  BY <1>6
  <2>2. LocatorId(f[1], f[2], i) \in Int
    BY <1>2, <1>4
  <2> HIDE DEF all, d
  <2>3. QED  BY <1>7, <1>8, <2>1, <2>2
<1>10. Classified(d).locator = d.locator /\ Classified(d).id = d.id /\ Classified(d).author = d.author
  BY DEF Classified, Record
<1>11. QED  BY <1>9, <1>10

LEMMA PublishedRowsKnown ==
  ASSUME LoaderInv, stage = "ready", NEW order \in SetToSeqs(ToSet(accepted)), ~Conflict(order), rows' = Prepared(order)
  PROVE  RowsKnown'
<1>1. ToSet(accepted) = GoodRecords /\ IsFiniteSet(ToSet(accepted)) /\ tree \in Trees
  BY AcceptedRecords DEF LoaderInv
<1>2. ToSet(order) = GoodRecords /\ IsFiniteSet(ToSet(order))
  BY <1>1, ListingFacts
<1>3. \A r \in ToSet(order) : r.locator \in Int /\ r.id \in Int /\ r.author \in DOMAIN People
  BY <1>1, <1>2, GoodRecordFields
<1>4. /\ IsFiniteSet(ToSet(Prepared(order)))
      /\ \A r \in ToSet(Prepared(order)) : r.id \in Int /\ r.author \in DOMAIN People
      /\ \A r, s \in ToSet(Prepared(order)) : r.id = s.id => r = s
  BY <1>2, <1>3, RowsOfRecords
<1>5. PoemRows' = ToSet(Prepared(order))
  BY DEF PoemRows, ToSet
<1>6. QED  BY <1>4, <1>5 DEF RowsKnown

-----------------------------------------------------------------------------
(* The invariant of the readers holds. *)

LEMMA ReadInitInv ==
  ASSUME ReleaseInit
  PROVE  ReadInv
<1>1. /\ rows = <<>> /\ walk \in Walks /\ page = 1 /\ lang \in walk.langs /\ step = 0
      /\ answer = <<>> /\ shown = <<>> /\ outcome = "walking"
  BY DEF ReleaseInit, BrowseInit
<1>2. Offset = 0
  BY <1>1, OffsetFacts
<1>3. MaxPage \in Nat /\ ~Published
  BY <1>1, BrowseAssumption DEF Published
<1>4. page \in 1 .. MaxPage + 1 /\ ~(page > 1)
  BY <1>1, <1>3
<1>5. shown \in Seq(ToSet(shown)) /\ Len(shown) = 0 /\ DOMAIN shown = {}
  BY <1>1
<1>6. Walking
  BY <1>1, <1>2, <1>3, <1>4, <1>5 DEF Walking
<1>7. Serving /\ WalkIsComplete /\ AnswersForCause
  BY <1>1, <1>5 DEF Serving, WalkIsComplete, AnswersForCause
<1>8. QED  BY <1>6, <1>7 DEF ReadInv

\* A request keeps the invariant, whichever query it is at.
LEMMA ReadStepInv ==
  ASSUME ReadInv, Published, Step
  PROVE  ReadInv'
<1>1. CASE Ask
  BY <1>1, AskInv
<1>2. CASE ResolveDynasty \/ ResolveAuthor \/ ResolveTypes \/ FindAuthor
  BY <1>2, ResolveDynastyInv, ResolveAuthorInv, ResolveTypesInv, FindAuthorInv
<1>3. CASE CountMatching \/ FetchPage \/ PickPoem \/ FetchOne
  BY <1>3, CountMatchingInv, FetchPageInv, PickPoemInv, FetchOneInv
<1>4. CASE LoadAuthors \/ LoadOrigins \/ LoadDynasties \/ LoadTypes \/ Prefetch
  BY <1>4, LoadAuthorsInv, LoadOriginsInv, LoadDynastiesInv, LoadTypesInv, PrefetchInv
<1>5. CASE QueryFails
  BY <1>5, QueryFailsInv
<1>6. CASE Respond
  BY <1>6, RespondInv
<1>7. QED  BY <1>1, <1>2, <1>3, <1>4, <1>5, <1>6 DEF Step

LEMMA ReadUnchanged ==
  ASSUME ReadInv, UNCHANGED browsing
  PROVE  ReadInv'
<1>1. /\ rows' = rows /\ walk' = walk /\ page' = page /\ lang' = lang /\ shown' = shown /\ outcome' = outcome
      /\ step' = step /\ chosen' = chosen /\ total' = total /\ found' = found /\ loaded' = loaded /\ failed' = failed
      /\ answer' = answer
  BY DEF browsing, client, request
<1>2. /\ Authors' = Authors /\ Intended' = Intended /\ (Known' <=> Known)
      /\ (RowsKnown' <=> RowsKnown) /\ (Published' <=> Published)
      /\ \A e : Preceding(e)' = Preceding(e)
      /\ \A S : Orders(walk, S)' = Orders(walk, S)
  BY <1>1, SameView
<1>3. Offset' = Offset /\ (Acceptable' <=> Acceptable) /\ (Searchable(walk)' <=> Searchable(walk))
  BY <1>1 DEF Offset, Acceptable, Searchable
<1>4. Walking'
  BY <1>1, <1>2, <1>3 DEF ReadInv, Walking
<1>5. WalkIsComplete'
  BY <1>1, <1>2, <1>3 DEF ReadInv, WalkIsComplete
<1>6. AnswersForCause'
  BY <1>1, <1>2 DEF ReadInv, AnswersForCause, Due
<1>7. ASSUME step # 0 PROVE Choosing' /\ Finding' /\ Related'
  <2>1. \A t : Done(t)' <=> Done(t)
    BY <1>1 DEF Done
  <2>2. Choosing /\ Finding /\ Related
    BY <1>7 DEF ReadInv, Serving
  <2>3. Choosing'
    BY <1>1, <1>2, <2>1, <2>2 DEF Choosing
  <2>4. Orders(walk, Intended)' = Orders(walk, Intended) /\ \A order : PageOf(order)' = PageOf(order)
    BY <1>1, <1>2 DEF PageOf, Offset
  <2>5. Finding'
    BY <1>1, <1>2, <2>1, <2>2, <2>4 DEF Finding
  <2>6. Related'
    BY <1>1, <2>1, <2>2, FoundStays DEF Related
  <2>7. QED  BY <2>3, <2>5, <2>6
<1>8. Serving'
  BY <1>1, <1>2, <1>3, <1>7 DEF ReadInv, Serving
<1>9. QED  BY <1>4, <1>5, <1>6, <1>8 DEF ReadInv

\* A server that is replaced by one of the same tree loses the request, and nothing else.
LEMMA PublishReadInv ==
  ASSUME LoaderInv, CatalogueInv, ReadInv, Publish
  PROVE  ReadInv'
<1>1. PICK order \in SetToSeqs(ToSet(accepted)) :
        IF Conflict(order) THEN stage' = "conflict" /\ UNCHANGED browsing
        ELSE stage' = "published" /\ Open(Prepared(order))
  BY DEF Publish
<1>2. CASE Conflict(order)
  BY <1>1, <1>2, ReadUnchanged
<1>3. CASE ~Conflict(order)
  <2>1. rows' = Prepared(order) /\ step' = 0 /\ UNCHANGED client /\ answer' = answer /\ failed' = failed
    BY <1>1, <1>3 DEF Open
  <2>2. walk' = walk /\ page' = page /\ lang' = lang /\ shown' = shown /\ outcome' = outcome
    BY <2>1 DEF client
  <2>3. RowsKnown'
    BY <1>1, <1>3, <2>1, PublishedRowsKnown DEF Publish
  <2>4. Walking /\ WalkIsComplete /\ AnswersForCause
    BY DEF ReadInv
  <2>5. Serving'
    BY <2>1 DEF Serving
  <2>6. CASE Published
    <3>1. rows' = rows
      <4>1. ReleaseNext
        BY DEF ReleaseNext
      <4>2. QED  BY <2>6, <4>1, ReleaseStepInv
    <3>2. Walking' /\ WalkIsComplete'
      BY <2>1, <2>4, <2>6, <3>1, SameWalk
    <3>3. Intended' = Intended /\ Authors' = Authors /\ (Known' <=> Known)
      BY <2>2, <3>1, SameView
    <3>4. AnswersForCause'
      BY <2>1, <2>2, <2>4, <3>3 DEF AnswersForCause, Due
    <3>5. QED  BY <2>5, <3>2, <3>4 DEF ReadInv
  <2>7. CASE ~Published
    <3>1. page = 1 /\ shown = <<>> /\ answer = <<>> /\ outcome = "walking"
      BY <2>4, <2>7 DEF Walking
    <3>2. Offset' = Offset
      BY <2>2 DEF Offset
    <3>3. ~(page > 1)
      BY <3>1
    <3>4. Walking'
      BY <2>1, <2>2, <2>3, <2>4, <3>1, <3>2, <3>3 DEF Walking
    <3>5. DOMAIN shown' = {}
      BY <2>2, <3>1
    <3>6. WalkIsComplete' /\ AnswersForCause'
      BY <2>1, <2>2, <3>1, <3>5 DEF WalkIsComplete, AnswersForCause
    <3>7. QED  BY <2>5, <3>4, <3>6 DEF ReadInv
  <2>8. QED  BY <2>6, <2>7
<1>4. QED  BY <1>2, <1>3

LEMMA ReadNextInv ==
  ASSUME LoaderInv, CatalogueInv, ReadInv, [ReleaseNext]_<<building, browsing, builds>>
  PROVE  ReadInv'
<1>1. CASE Build \/ BuildAgain \/ UNCHANGED <<building, browsing, builds>>
  <2>1. UNCHANGED browsing
    BY <1>1 DEF Build, BuildAgain
  <2>2. QED  BY <2>1, ReadUnchanged
<1>2. CASE Publish
  BY <1>2, PublishReadInv
<1>3. CASE Read
  BY <1>3, ReadStepInv DEF Read
<1>4. QED  BY <1>1, <1>2, <1>3 DEF ReleaseNext

-----------------------------------------------------------------------------
(* Theorems. *)

\* While it loads, the command has in hand the records of the files that come before
\* what is left, in order, and one decision for each of them (json_loader.go:105).
THEOREM LoaderInvariant == ReleaseSpec => [](LoaderInv /\ CatalogueInv)
<1>1. ReleaseInit => LoaderInv /\ CatalogueInv
  BY ReleaseInitInv
<1>2. (LoaderInv /\ CatalogueInv) /\ [ReleaseNext]_<<building, browsing, builds>> => (LoaderInv /\ CatalogueInv)'
  BY ReleaseStepInv
<1>3. QED  BY <1>1, <1>2, PTL DEF ReleaseSpec

\* The report of a build that goes on accounts for every file and every record
\* (json_loader.go:405).
THEOREM ReportCorrect == ReleaseSpec => []ReportIsTrue
<1>1. LoaderInv /\ CatalogueInv => ReportIsTrue
  BY ReadyReport
<1>2. QED  BY <1>1, LoaderInvariant, PTL

\* A tree gives the same records in the same order however it is listed, and it is
\* refused only if it cannot be built or a read fails (json_loader.go:109 and 455).
THEOREM OutcomeCorrect == ReleaseSpec => []OutcomeIsDetermined
<1>1. LoaderInv /\ CatalogueInv => OutcomeIsDetermined
  BY ReadyOutcome
<1>2. QED  BY <1>1, LoaderInvariant, PTL

\* Building a tree again does not change a row of what is being read
\* (repository_poems.go:175).
THEOREM CatalogueReproducible == ReleaseSpec => CatalogueIsReproducible
<1>1. LoaderInv /\ CatalogueInv /\ [ReleaseNext]_<<building, browsing, builds>> => [Published => rows' = rows]_rows
  BY ReleaseStepInv
<1>2. QED  BY <1>1, LoaderInvariant, PTL DEF ReleaseSpec, CatalogueIsReproducible

\* What a client has been shown is what comes before the page it is at, and a request
\* that is being served has resolved its filters, found what they select and loaded
\* its relations as far as its handler has come (repository_poems.go:33).
THEOREM ReaderInvariant == ReleaseSpec => []ReadInv
<1>1. ReleaseInit => LoaderInv /\ CatalogueInv /\ ReadInv
  BY ReleaseInitInv, ReadInitInv
<1>2. (LoaderInv /\ CatalogueInv /\ ReadInv) /\ [ReleaseNext]_<<building, browsing, builds>>
        => (LoaderInv /\ CatalogueInv /\ ReadInv)'
  BY ReleaseStepInv, ReadNextInv
<1>3. QED  BY <1>1, <1>2, PTL DEF ReleaseSpec

\* A client that goes on while it is told to is shown every row it is after, once, in
\* one order, whatever fails and whichever server answers (repository_poems.go:175,
\* repository_additional.go:26).
THEOREM WalkComplete == ReleaseSpec => []WalkIsComplete
<1>1. ReadInv => WalkIsComplete
  BY DEF ReadInv
<1>2. QED  BY <1>1, ReaderInvariant, PTL

\* An answer lacks only what a query that failed should have loaded, nothing is said to
\* be missing without a cause, and a name is ambiguous only if two authors of the given
\* dynasty bear it (repository_additional.go:9).
THEOREM AnswersCaused == ReleaseSpec => []AnswersForCause
<1>1. ReadInv => AnswersForCause
  BY DEF ReadInv
<1>2. QED  BY <1>1, ReaderInvariant, PTL
=============================================================================
