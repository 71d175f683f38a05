------------------------------- MODULE Parser -------------------------------
(***************************************************************************)
(* What the parsers of Goodreads and Storygraph pages share: the texts and *)
(* links that cheerio finds in a page, reduced to what the extraction of a *)
(* field depends on.                                                       *)
(*                                                                         *)
(*   a link    [text, href]: href is what stands before and after each     *)
(*             "?", so <<path>> or <<path, query>>; <<>> when the element  *)
(*             has no href                                                 *)
(*   a number  what its text reads as up to each comma and to its end, so  *)
(*             1,024,000 is <<1, 1024, 1024000>>; <<>> when there is none  *)
(*                                                                         *)
(* An exception inside a parser is caught and rethrown as an internal      *)
(* server error: a parser has its result, and a predicate that says        *)
(* whether it gets as far.                                                 *)
(***************************************************************************)
EXTENDS Integers, SequencesExt

CONSTANTS
  NaN,     \* what parseInt makes of a text without digits
  NoText   \* the empty text, also text() of nothing

Links == [text : STRING, href : Seq(STRING)]
Numbers == Seq(Nat)

\* attr("href").split("?")[0] throws when there is no such attribute.
HasHref(link) == link.href # <<>>
Href(link) == link.href[1]

AllHaveHrefs(links) == \A i \in DOMAIN links : HasHref(links[i])

\* parseInt stops at the first character that is no digit.
parseInt(number) == IF number = <<>> THEN NaN ELSE number[1]

\* replace(",", "") removes the first comma only.
RemoveComma(number) == IF Len(number) < 2 THEN number ELSE Tail(number)

\* The indices of a loop from 0 up to Math.min(s.length, k): none when k is NaN.
FirstOf(s, k) == {i \in DOMAIN s : k # NaN /\ i <= k}
=============================================================================
