-------------------------- MODULE StorygraphParser --------------------------
(***************************************************************************)
(* StorygraphParser: from a Storygraph page to the list or the book that   *)
(* StorygraphService returns.                                              *)
(***************************************************************************)
EXTENDS Parser

\* The paragraphs under a title: that of the series, if any, and last that of
\* the authors.  A book page holds them twice, for small and large screens.
Blocks == Seq([text : STRING, links : Seq(Links)])

\* A search page is a sequence of rows.
Rows == [title : Links, block : Blocks]

\* moods alternates names and percentages.  questions is the questions of the
\* community in order, without a text as the answer where none is shown.
Pages ==
  [title : STRING, block : Blocks, pages : Numbers, moods : Seq(STRING),
   questions : Seq([question : STRING, answer : STRING]), genres : Seq(STRING)]

extractUrl(link) == <<"SG", Href(link)>>

extractAuthors(links) ==
  [i \in DOMAIN links |-> [name |-> links[i].text, url |-> extractUrl(links[i])]]

\* find("p").last().find("a"): no paragraph, no links.
AuthorLinks(block) == IF block = <<>> THEN <<>> ELSE Last(block).links

parseSearchResult(row) ==
  [title |-> row.title.text, url |-> extractUrl(row.title),
   authors |-> extractAuthors(AuthorLinks(row.block)),
   genres |-> <<>>, numPages |-> 0]

Parses(row) == HasHref(row.title) /\ AllHaveHrefs(AuthorLinks(row.block))

\* extractBooksFromRows: the list, and whether a row it comes to throws.
parseSearchPage(rows, k) == [i \in FirstOf(rows, k) |-> parseSearchResult(rows[i])]

SearchPageParses(rows, k) == \A i \in FirstOf(rows, k) : Parses(rows[i])

\* The series of extractTitleAndSeries: the two copies of the block make four
\* paragraphs when there is one.
extractSeries(page) == IF 2 * Len(page.block) = 4 THEN page.block[1].text ELSE NoText

\* The question whose answer is the i-th that is shown, if there is one.
Answered(questions) == {i \in DOMAIN questions : questions[i].answer # NoText}
AnsweredAs(questions, i) ==
  {j \in Answered(questions) : Cardinality(Answered(questions) \intersect 1 .. j) = i}

\* The i-th answer that is shown.
AnswerAt(questions, i) ==
  IF AnsweredAs(questions, i) = {} THEN NoText
  ELSE questions[CHOOSE j \in AnsweredAs(questions, i) : TRUE].answer

\* Mutant: pairs from the end.
PairedFromTheEnd(questions) ==
  [i \in DOMAIN questions |->
     [question |-> questions[i].question,
      answer |-> AnswerAt(questions,
                          i - Len(questions) + Cardinality(Answered(questions)))]]

\* The i-th question goes with the i-th answer.
extractQuesAndAns(questions) ==
  [i \in DOMAIN questions |->
     [question |-> questions[i].question, answer |-> AnswerAt(questions, i)]]

\* A name with the percentage after it, or alone at the end; a blank name
\* that stands alone is left out.
extractTupleFields(spans) ==
  LET pairs == Len(spans) \div 2
      alone == Len(spans) % 2 = 1 /\ Last(spans) # NoText
  IN [i \in 1 .. (IF alone THEN pairs + 1 ELSE pairs) |->
        IF i <= pairs THEN <<spans[2 * i - 1], spans[2 * i]>> ELSE <<Last(spans)>>]

parseBookPage(url, page) ==
  [title |-> page.title, url |-> url, series |-> extractSeries(page),
   authors |-> extractAuthors(AuthorLinks(page.block)),
   moods |-> extractTupleFields(page.moods),
   quesAns |-> extractQuesAndAns(page.questions),
   numPages |-> parseInt(page.pages), genres |-> page.genres]

BookPageParses(page) == AllHaveHrefs(AuthorLinks(page.block))
=============================================================================
