------------------------------ MODULE BookInfo ------------------------------
(***************************************************************************)
(* One request that is answered out of the pages of Goodreads or           *)
(* Storygraph, through either door:                                        *)
(*                                                                         *)
(*   "rest"  GoodreadsController, StorygraphController                     *)
(*   "mcp"   McpController, with a server and a transport of its own, and  *)
(*           the tools registered on it                                    *)
(*                                                                         *)
(*   "search"  up to k books         "book"  the first book of a search    *)
(*   "quotes"  REST, Goodreads only  "stream"  GET or DELETE of mcp        *)
(*                                                                         *)
(* The sites have no timeout, and what they send is any page.  A client    *)
(* may hang up at any moment; what the handler does is not cut short by    *)
(* that.  Requests share no state, so one is enough.                       *)
(***************************************************************************)
EXTENDS Integers, SequencesExt

CONSTANTS
  NaN,           \* the number of a text that is none
  NoText,        \* the empty text
  Absent,        \* k when it is not given, or is no number
  Ks,            \* the values of k, Absent among them
  SearchPages,   \* SearchPages[site]: the search pages the site may send
  BookPages,     \* BookPages[site]: the book pages
  BookPaths,     \* the paths under /books on Storygraph
  QuotesPages    \* the pages of quotes of Goodreads

GR == INSTANCE GoodreadsParser
SG == INSTANCE StorygraphParser

Sites == {"GR", "SG"}

ASSUME NumbersAssumption ==
  NaN \notin Int /\ Absent \notin Int /\ Ks \subseteq Int \union {Absent}
ASSUME PagesAssumption ==
  /\ NoText \in STRING
  /\ SearchPages["GR"] \subseteq Seq(GR!Rows) /\ BookPages["GR"] \subseteq GR!Pages
  /\ SearchPages["SG"] \subseteq Seq(SG!Rows) /\ BookPages["SG"] \subseteq SG!Pages

VARIABLES
  req,      \* [door, site, op, k]
  at,       \* "arrived" behind the guards, then the page waited for
  fetched,  \* the pages the site sent: <<[url, page], ...>>
  reply,    \* what the handler ended with; it reaches a client still there
  res,      \* the response: "open", "closed", or "gone" if it was closed
            \* before the handler listened
  server    \* the MCP server and transport of the request

infoVars == <<req, at, fetched, reply, res, server>>

\* What routes and tools there are.
Requests ==
  { r \in [door : {"rest", "mcp"}, site : Sites, op : {"search", "book", "quotes", "stream"}, k : Ks] :
      /\ r.op = "quotes" => r.door = "rest" /\ r.site = "GR"
      /\ r.op = "stream" => r.door = "mcp"
      /\ r.op \in {"book", "stream"} => r.k = Absent }

DEFAULT_SEARCH_BOOKS_K == 5

\* The number of results the handler asks the parser for.
Limit(r) ==
  CASE r.op = "book" -> 1
    [] r.op # "book" /\ r.k # Absent -> r.k
    [] r.op # "book" /\ r.k = Absent ->
         IF r.door = "mcp" THEN DEFAULT_SEARCH_BOOKS_K ELSE NaN

\* z.number().int().min(1).max(20).optional()
SchemaRefuses(r) ==
  r.door = "mcp" /\ r.op = "search" /\ r.k # Absent /\ r.k \notin 1 .. 20

\* The parser of the site reads the page.
parseSearchPage(site, page, k) ==
  IF site = "GR" THEN GR!parseSearchPage(page, k) ELSE SG!parseSearchPage(page, k)
SearchPageParses(site, page, k) ==
  IF site = "GR" THEN GR!SearchPageParses(page, k) ELSE SG!SearchPageParses(page, k)

parseBookPage(site, url, page) ==
  IF site = "GR" THEN GR!parseBookPage(url, page) ELSE SG!parseBookPage(url, page)
BookPageParses(site, page) ==
  IF site = "GR" THEN GR!BookPageParses(page) ELSE SG!BookPageParses(page)

None == [status |-> "none"]
Error(status) == [status |-> status]
Ok(body) == [status |-> "ok", body |-> body]
Waiting == {"search", "book", "quotes"}

InfoTypeOK ==
  /\ req \in Requests
  /\ at \in {"arrived", "done"} \union Waiting
  /\ Len(fetched) <= (IF req.op = "book" THEN 2 ELSE 1)
  /\ reply.status \in {"none", "ok", "notFound", "refused", "notAllowed",
                       "badRequest", "internal", "unavailable"}
  /\ (at = "done") <=> (reply # None)
  /\ res \in {"open", "closed", "gone"}
  /\ server \in {"none", "open", "closed"}
  /\ server # "none" => req.door = "mcp"

InfoInit ==
  /\ req \in Requests
  /\ at = "arrived"
  /\ fetched = <<>>
  /\ reply = None
  /\ res = "open"
  /\ server = "none"
-----------------------------------------------------------------------------
Answer(r) == at' = "done" /\ reply' = r
WaitFor(next) == at' = next /\ UNCHANGED reply

\* Mutant: a server for whatever method and door.
BuildsAlways == server' = "open"

\* McpController.handle: a server is built and connected for each POST.
buildServer ==
  server' = IF req.door = "mcp" /\ req.op # "stream" THEN "open" ELSE server

\* The guards let the request through and the handler runs to its first
\* await; an MCP call is checked against the input schema of its tool first.
Handle ==
  /\ at = "arrived"
  /\ buildServer
  /\ CASE req.op = "stream" -> Answer(Error("notAllowed"))
       [] SchemaRefuses(req) -> Answer(Error("refused"))
       [] req.op = "quotes" -> WaitFor("quotes")
       [] OTHER -> WaitFor("search")
  /\ UNCHANGED <<req, fetched, res>>

\* connect or handleRequest throws: the catch of McpController.handle answers
\* in place of the transport, and the listener is there already.
TransportFails ==
  /\ at = "arrived"
  /\ req.door = "mcp" /\ req.op # "stream"
  /\ buildServer
  /\ Answer(Error("internal"))
  /\ UNCHANGED <<req, fetched, res>>

\* The url getBook of each service takes: any on Goodreads, which parsed urls
\* always are, but on Storygraph that of a book.
Accepts(url) == url[1] = "GR" \/ url[2] \in BookPaths

\* searchBooks: an empty list is an answer of the tools and of Storygraph's
\* endpoint, and not found to Goodreads' and to whoever wants one book.
SearchAnswers(page) ==
  /\ at = "search"
  /\ fetched' = Append(fetched, [url |-> <<req.site, "search">>, page |-> page])
  /\ LET bookList == parseSearchPage(req.site, page, Limit(req))
         emptyIsError == req.op = "book" \/ (req.door = "rest" /\ req.site = "GR") IN
     IF ~SearchPageParses(req.site, page, Limit(req)) THEN Answer(Error("internal"))
     ELSE IF DOMAIN bookList = {} /\ emptyIsError THEN Answer(Error("notFound"))
     ELSE IF req.op # "book" THEN Answer(Ok(bookList))
     ELSE IF Accepts(bookList[1].url) THEN WaitFor("book")
     ELSE Answer(Error("badRequest"))
  /\ UNCHANGED <<req, res, server>>

\* bookList[0].url, which getBook is called with.
FirstUrl == parseSearchPage(req.site, fetched[1].page, Limit(req))[1].url

\* getBook: Goodreads sends a page without a title when it is in trouble.
BookAnswers(page) ==
  /\ at = "book"
  /\ fetched' = Append(fetched, [url |-> FirstUrl, page |-> page])
  /\ LET book == parseBookPage(req.site, FirstUrl, page) IN
     IF ~BookPageParses(req.site, page) THEN Answer(Error("internal"))
     ELSE IF req.site = "GR" /\ book.title = NoText THEN Answer(Error("unavailable"))
     ELSE Answer(Ok(book))
  /\ UNCHANGED <<req, res, server>>

\* getQuotes.
QuotesAnswers(page) ==
  /\ at = "quotes"
  /\ fetched' = Append(fetched, [url |-> <<"GR", "quotes">>, page |-> page])
  /\ Answer(Ok(GR!parseQuotesPage(page, Limit(req))))
  /\ UNCHANGED <<req, res, server>>

\* The call to the site fails, and with it the request.
SiteFails ==
  /\ at \in Waiting
  /\ Answer(Error("internal"))
  /\ UNCHANGED <<req, fetched, res, server>>

\* Mutant: the listener is not registered when the client hangs up.
CloseAtTheEnd ==
  /\ res' = IF at = "arrived" THEN "gone" ELSE "closed"
  /\ server' = IF server = "open" /\ at = "done" THEN "closed" ELSE server

\* The "close" event of the response: its listener closes the server and the
\* transport, if there is one by then.
Close ==
  /\ res' = IF at = "arrived" THEN "gone" ELSE "closed"
  /\ server' = IF server = "open" THEN "closed" ELSE server

\* The client gives up.
HangUp == at # "done" /\ res = "open" /\ Close /\ UNCHANGED <<req, at, fetched, reply>>

\* The response is sent and ends.
ResponseEnds == at = "done" /\ res = "open" /\ Close /\ UNCHANGED <<req, at, fetched, reply>>

InfoNext ==
  \/ Handle
  \/ TransportFails
  \/ \E page \in SearchPages[req.site] : SearchAnswers(page)
  \/ \E page \in BookPages[req.site] : BookAnswers(page)
  \/ \E page \in QuotesPages : QuotesAnswers(page)
  \/ SiteFails
  \/ HangUp
  \/ ResponseEnds

InfoSpec == InfoInit /\ [][InfoNext]_infoVars

\* Handlers that can go on do, and a response that is written ends.  Nothing
\* makes a site answer or a client give up.
InfoFairSpec == InfoSpec /\ WF_infoVars(Handle) /\ WF_infoVars(ResponseEnds)
-----------------------------------------------------------------------------
\* The links of a row of a search page that the parser has to follow.
LinksOf(row) ==
  {row.title} \union
  ToSet(IF req.site = "GR" THEN row.authors
        ELSE IF row.block = <<>> THEN <<>> ELSE Last(row.block).links)

Broken(row) == \E link \in LinksOf(row) : link.href = <<>>

\* The rows that an answer is about: as many as asked for, from the top.
RowsAsked ==
  {i \in DOMAIN fetched[1].page : Limit(req) # NaN /\ i <= Limit(req)}

\* A search answers with exactly the first k books the site lists, in its
\* order and each with its own page on that site, or with none of them: one
\* row without a link fails it, but only a row that was asked for
\* (parseSearchPage, parseSearchResult; the limit 5 of the tools).
SearchIsPrefix ==
  (at = "done" /\ req.op = "search" /\ fetched # <<>>) =>
    LET rows == fetched[1].page IN
    /\ (reply.status = "internal") <=> (\E i \in RowsAsked : Broken(rows[i]))
    /\ reply.status = "ok" =>
         /\ DOMAIN reply.body = RowsAsked
         /\ \A i \in RowsAsked :
              /\ reply.body[i].title = rows[i].title.text
              /\ reply.body[i].url = <<req.site, rows[i].title.href[1]>>
    /\ reply.status = "notFound" => RowsAsked = {}

\* A request for one book is answered from the page of the first book the
\* site lists, on that site and without the query of the link, which is the
\* url a book is catalogued under; "not found" is only said when the site
\* lists none (searchAndGetBook of both controllers and both tools).
PageOfFirstMatch ==
  (at = "done" /\ req.op = "book") =>
    /\ Len(fetched) = 2 =>
         fetched[2].url = <<req.site, fetched[1].page[1].title.href[1]>>
    /\ reply.status = "ok" => Len(fetched) = 2 /\ reply.body.url = fetched[2].url
    /\ reply.status = "notFound" => fetched[1].page = <<>>

\* What a number on a page may be answered as: itself while its text has at
\* most as many commas as the parser removes, and NaN when there is none.
ReadAs(n, number, commas) ==
  IF number = <<>> THEN n = NaN
  ELSE Len(number) <= commas + 1 => n = Last(number)

Names(authors) == [i \in DOMAIN authors |-> authors[i].name]
Texts(links) == [i \in DOMAIN links |-> links[i].text]

\* The questions of a page that have an answer come first.
AnsweredFirst(asked) ==
  \A i, j \in DOMAIN asked : i < j /\ asked[j].answer # NoText => asked[i].answer # NoText

Shows(site, page, book) ==
  /\ book.title = page.title
  /\ ReadAs(book.numPages, page.pages, 0)
  /\ site = "GR" =>
       /\ Names(book.authors) = Texts(page.authors)
       /\ ReadAs(book.numRatings, page.ratings, 1)
       /\ ReadAs(book.numReviews, page.reviews, 1)
  /\ site = "SG" =>
       /\ page.block # <<>> => Names(book.authors) = Texts(Last(page.block).links)
       /\ Len(page.block) = 1 => book.series = NoText
       /\ Len(page.block) = 2 => book.series = page.block[1].text
       /\ \A i \in DOMAIN page.moods :
            i % 2 = 0 => <<page.moods[i - 1], page.moods[i]>> \in ToSet(book.moods)
       /\ AnsweredFirst(page.questions) => book.quesAns = page.questions

\* A book is answered as its page shows it: the title, which only Storygraph's
\* may lack; all authors in order, and not the series among them; numbers up
\* to the size the parsers can read; the series of a page with one; each
\* percentage with its mood; and each answer with its question, provided that
\* no question without an answer comes before one with (parseBookPage of both
\* parsers, getBook of both services).
BookAsShown ==
  (at = "done" /\ req.op = "book" /\ reply.status = "ok") =>
    /\ Shows(req.site, fetched[2].page, reply.body)
    /\ fetched[2].page.title = NoText => req.site = "SG"

\* The server built for an MCP request is closed in the end, whether the
\* client hangs up or is answered, unless it stays on and the site never
\* answers, or had hung up before the handler listened (McpController.handle).
ServersClose ==
  server = "open" ~>
    server = "closed" \/ res = "gone" \/ (res = "open" /\ at \in Waiting)
=============================================================================
