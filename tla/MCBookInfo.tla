----------------------------- MODULE MCBookInfo -----------------------------
(* Pages of Goodreads and Storygraph for TLC.                              *)
EXTENDS BookInfo

SomeKs == {Absent, 0, 1, 2, 21}

Link(text, path) == [text |-> text, href |-> <<path>>]
LinkWithQuery(text, path) == [text |-> text, href |-> <<path, "from_search=true">>]
NoLink(text) == [text |-> text, href |-> <<>>]

SomeBookPaths == {"/books/a"}

\* Rows that differ in the links they have; at most three on a page, and one
\* page with more than the tools ask for by default.
GRRows ==
  { [title |-> title, authors |-> authors] :
      title \in {LinkWithQuery("A", "/a"), NoLink("B")},
      authors \in {<<Link("X", "/x")>>, <<Link("X", "/x"), NoLink("Y")>>} }

SGRows ==
  { [title |-> title, block |-> block] :
      title \in {LinkWithQuery("A", "/books/a"), Link("C", "/import"), NoLink("B")},
      block \in {<<>>, <<[text |-> "S", links |-> <<NoLink("S")>>],
                         [text |-> "X", links |-> <<Link("X", "/x")>>]>>,
                 <<[text |-> "Y", links |-> <<NoLink("Y")>>]>>} }

UpToThree(rows) == UNION { [1 .. n -> rows] : n \in 0 .. 3 }

Long(row, last) == [i \in 1 .. 6 |-> IF i = 6 THEN last ELSE row]

LongPages(site) ==
  LET sound == IF site = "GR" THEN [title |-> Link("A", "/a"), authors |-> <<>>]
               ELSE [title |-> Link("A", "/books/a"), block |-> <<>>]
      broken == [sound EXCEPT !.title = NoLink("B")]
  IN  {Long(sound, sound), Long(sound, broken)}

SomeSearchPages ==
  [site \in Sites |-> UpToThree(IF site = "GR" THEN GRRows ELSE SGRows) \union LongPages(site)]

\* No number, one below a thousand, one with one comma and one with two.
SomeNumbers == {<<>>, <<635>>, <<1, 1024>>, <<1, 1234, 1234567>>}

\* The fields of a page are read independently, so they vary one by one or,
\* where a parser may confuse them, two by two.
GRBookPages ==
  LET page == [title |-> "A", series |-> "S", authors |-> <<Link("X", "/x"), Link("Y", "/y")>>,
               ratings |-> <<871, 871415>>, reviews |-> <<43, 43963>>, pages |-> <<635>>,
               genres |-> <<"g">>]
  IN  { [page EXCEPT !.ratings = n, !.reviews = m] : n, m \in SomeNumbers } \union
      { [page EXCEPT !.title = title, !.pages = n] : title \in {"A", ""}, n \in SomeNumbers } \union
      { [page EXCEPT !.authors = links] : links \in {<<>>, <<Link("X", "/x"), NoLink("Y")>>} }

\* Up to three questions, any of them without an answer.
Questions ==
  LET asked(q, a) == {[question |-> q, answer |-> a], [question |-> q, answer |-> ""]}
  IN  {<<>>} \union { <<x>> : x \in asked("q1", "a1") } \union
      { <<x, y, z>> : x \in asked("q1", "a1"), y \in asked("q2", "a2"),
                      z \in asked("q3", "a3") }

Authors == [text |-> "X", links |-> <<Link("X", "/x")>>]
Series == [text |-> "S", links |-> <<Link("S", "/s")>>]

SGBookPages ==
  LET page == [title |-> "A", block |-> <<Series, Authors>>, pages |-> <<635>>,
               moods |-> <<"dark", "60%">>, questions |-> <<>>, genres |-> <<"g">>]
  IN  { [page EXCEPT !.title = title, !.pages = n] : title \in {"A", ""}, n \in SomeNumbers } \union
      { [page EXCEPT !.block = block] :
          block \in {<<>>, <<Authors>>, <<Series, Series, Authors>>} } \union
      { [page EXCEPT !.moods = moods] :
          moods \in {<<>>, <<"dark", "60%", "sad", "9%">>, <<"dark", "60%", "sad">>} } \union
      { [page EXCEPT !.questions = questions] : questions \in Questions }

SomeBookPages == [site \in Sites |-> IF site = "GR" THEN GRBookPages ELSE SGBookPages]

SomeQuotesPages ==
  { [i \in 1 .. n |-> [quote |-> i, by |-> "X"]] : n \in 0 .. 2 }
=============================================================================
