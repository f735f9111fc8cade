----------------------------- MODULE MCRelease ------------------------------
(***************************************************************************)
(* A corpus for TLC.  Two authors bear the name su, in different           *)
(* dynasties; the work w2 has two witnesses, in files of two data sets.    *)
(* Beside it, trees that have to be refused, each for its own reason.      *)
(***************************************************************************)
EXTENDS Release

\* Some hash: its order is not that of the places.
MCLocatorId(k, p, i) == (37 * k + 17 * p + 7 * i) % 101

Rec(text, work, id, author) == [text |-> text, canonical |-> work, id |-> id, product |-> work, author |-> author]
File(use, records) == [use |-> use, dated |-> TRUE, inside |-> TRUE, parses |-> TRUE, records |-> records]
Directory(files) == [kind |-> "directory", author |-> "", files |-> files]
OneFile(path, file) == [kind |-> "file", author |-> "su1", files |-> [p \in {path} |-> file]]

W1 == Rec("text", "w1", 4, "su2")
W2 == Rec("text", "w2", 3, "su1")
W3 == Rec("text", "w3", 2, "su1")
W4 == Rec("text", "w4", 1, "ouyang")
Garbled == Rec("garbled", "w5", 5, "su1")
Placeholder == Rec("placeholder", "w6", 6, "su1")
Blank == Rec("blank", "w7", 7, "su1")
Empty == Rec("none", "w8", 8, "su1")

Corpus ==
  << Directory(<< File("poetry", << W1, Garbled >>), File("poetry", << W3, Empty, W2 >>),
                  File("listed", << >>), File("other", << >>) >>),
     OneFile(5, File("poetry", << [W2 EXCEPT !.author = ""], Placeholder >>)),
     Directory([p \in {6, 7} |-> IF p = 6 THEN File("metadata", << >>) ELSE File("poetry", << W4, Blank >>)]) >>

Shared == << OneFile(1, File("poetry", << W1 >>)), Directory(<< File("poetry", << W1 >>) >>) >>
SharedEmpty == << OneFile(1, File("poetry", << >>)), Directory(<< File("poetry", << >>) >>) >>
Undated == << Directory(<< [File("poetry", << W1 >>) EXCEPT !.dated = FALSE] >>) >>
Torn == << Directory(<< File("poetry", << W1 >>), [File("poetry", << W2 >>) EXCEPT !.parses = FALSE] >>) >>
Outside == << Directory(<< [File("listed", << >>) EXCEPT !.inside = FALSE] >>) >>
Missing == << OneFile(1, File("poetry", << W1 >>)), [kind |-> "missing", author |-> "", files |-> << >>] >>
Collision == << OneFile(1, File("poetry", << W1, [W2 EXCEPT !.id = 4] >>)) >>

MCTrees == {Corpus, Shared, SharedEmpty, Undated, Torn, Outside, Missing, Collision}

MCLangs == {"hans", "hant"}
Named(id, dynasty, name) == [id |-> id, dynasty |-> dynasty, names |-> [l \in MCLangs |-> name]]
MCPeople == [su1 |-> Named(3, "song", "su"), su2 |-> Named(1, "tang", "su"), ouyang |-> Named(2, "song", "ouyang")]
MCTypeOf == [w \in {"w1", "w2", "w3", "w4"} |-> IF w = "w4" THEN "ci" ELSE "shi"]
MCDynasties == [song |-> 3, tang |-> 2, yuan |-> 1]   \* of the yuan there is nothing
MCTypes == [shi |-> 2, ci |-> 3, qu |-> 1, fu |-> 4]   \* nor of the qu and the fu
MCPhrases == [moon   |-> [runes |-> 3, wild |-> FALSE, hits |-> {"w1", "w2", "w3"}],
              su     |-> [runes |-> 1, wild |-> FALSE, hits |-> {"w1", "w2", "w3"}],
              wild   |-> [runes |-> 3, wild |-> TRUE, hits |-> {"w4"}],
              blank  |-> [runes |-> 0, wild |-> FALSE, hits |-> {}],
              long   |-> [runes |-> 5, wild |-> FALSE, hits |-> {}]]

Walk(api, list, size) ==
  [api |-> api, list |-> list, size |-> size, langs |-> MCLangs, named |-> FALSE,
   dynasty |-> "", author |-> "", types |-> {}, text |-> "moon", kind |-> "all", poem |-> ""]
ByName(list, dynasty, author, types) ==
  [Walk("rest", list, 2) EXCEPT !.langs = {"hans"}, !.named = TRUE, !.dynasty = dynasty, !.author = author, !.types = types]
Search(api, kind, text) == [Walk(api, "search", 2) EXCEPT !.langs = {"hans"}, !.kind = kind, !.text = text]

MCWalks ==
  {Walk(api, list, size) : api \in {"rest", "graphql"}, list \in {"poems", "authors"}, size \in 0 .. 3}
    \cup {[Walk("graphql", "works", 1) EXCEPT !.author = a] : a \in {"su1", "nobody"}}
    \cup {[Walk(api, "poems", 1) EXCEPT !.dynasty = "song"] : api \in {"rest", "graphql"}}
    \cup {[Walk("graphql", "authors", 1) EXCEPT !.dynasty = d] : d \in {"song", "yuan"}}
    \cup {[Walk(api, "random", 1) EXCEPT !.dynasty = d] : api \in {"rest", "graphql"}, d \in {"song", "yuan"}}
    \cup {ByName(list, d, a, t) : list \in {"poems", "random"}, d \in {"", "tang", "yuan", "ming"},
                                  a \in {"", "su"}, t \in {{}, {"shi", "ci"}, {"lu"}}}
    \cup {Search("rest", k, t) : k \in {"all", "author"}, t \in DOMAIN MCPhrases}
    \cup {[Walk("graphql", "poem", 1) EXCEPT !.poem = w] : w \in {"w2", "w9"}}
    \cup {[Walk(api, "author", 1) EXCEPT !.author = a] : api \in {"rest", "graphql"}, a \in {"su2", "nobody"}}
    \cup {Walk(api, list, 1) : api \in {"rest", "graphql"}, list \in Rosters}
    \cup {[Walk("rest", "dynasty", 1) EXCEPT !.dynasty = d] : d \in {"yuan", "ming"}}
    \cup {[Walk("rest", "type", 1) EXCEPT !.types = t] : t \in {{"ci"}, {"lu"}}}
    \cup {Search("graphql", "title", t) : t \in {"moon", "su"}}
=============================================================================
