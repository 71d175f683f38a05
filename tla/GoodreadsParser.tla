-------------------------- MODULE GoodreadsParser ---------------------------
(***************************************************************************)
(* GoodreadsParser: from a Goodreads page to the list, the book or the     *)
(* quotes that GoodreadsService returns.                                   *)
(***************************************************************************)
EXTENDS Parser

\* A search page is a sequence of rows, a quotes page one of [quote, by].
Rows == [title : Links, authors : Seq(Links)]

Pages ==
  [title : STRING, series : STRING, authors : Seq(Links), ratings : Numbers,
   reviews : Numbers, pages : Numbers, genres : Seq(STRING)]

\* Mutant: the query stays.
KeepsQuery(link) == <<"GR">> \o link.href

\* The query of the link is cut off.
extractUrl(link) == <<"GR", Href(link)>>

extractAuthors(links) ==
  [i \in DOMAIN links |-> [name |-> links[i].text, url |-> Href(links[i])]]

parseSearchResult(row) ==
  [title |-> row.title.text, url |-> extractUrl(row.title),
   authors |-> extractAuthors(row.authors), genres |-> <<>>, numPages |-> 0]

Parses(row) == HasHref(row.title) /\ AllHaveHrefs(row.authors)

\* extractBooksFromRows: the list, and whether a row it comes to throws.
parseSearchPage(rows, k) == [i \in FirstOf(rows, k) |-> parseSearchResult(rows[i])]

\* Mutant: every row is parsed before the list is cut.
ParsesAll(rows, k) == \A i \in DOMAIN rows : Parses(rows[i])

SearchPageParses(rows, k) == \A i \in FirstOf(rows, k) : Parses(rows[i])

\* "635 pages, Kindle Edition": the comma of a thousand is not removed.
extractPages(page) == parseInt(page.pages)

extractBookMetaInfo(page) ==
  [numRatings |-> parseInt(RemoveComma(page.ratings)),
   numReviews |-> parseInt(RemoveComma(page.reviews))]

parseBookPage(url, page) ==
  [title |-> page.title, url |-> url, series |-> page.series,
   authors |-> extractAuthors(page.authors),
   numRatings |-> extractBookMetaInfo(page).numRatings,
   numReviews |-> extractBookMetaInfo(page).numReviews,
   numPages |-> extractPages(page), genres |-> page.genres]

BookPageParses(page) == AllHaveHrefs(page.authors)

parseQuotesPage(quotes, k) == [i \in FirstOf(quotes, k) |-> quotes[i].quote]
=============================================================================
