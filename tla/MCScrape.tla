------------------------------ MODULE MCScrape ------------------------------
(* Instance of Scrape for TLC: six definitions of different authors. *)
EXTENDS Scrape

SearchPath(type) ==
  [type |-> type, follow |-> FALSE, cats |-> {}, inverted |-> FALSE, noResults |-> FALSE,
   missingOk |-> FALSE]
Author ==
  [login |-> FALSE, test |-> FALSE, error |-> FALSE, andmatch |-> FALSE, dated |-> "none"]
Written(author, paths) ==
  [a \in DOMAIN author \cup {"paths"} |-> IF a = "paths" THEN paths ELSE author[a]]

Definitions ==
  LET html == SearchPath("html")
      json == SearchPath("json")
      xml == SearchPath("xml")
      public == [Author EXCEPT !.error = TRUE, !.andmatch = TRUE, !.dated = "required"]
      private == [Author EXCEPT !.login = TRUE, !.test = TRUE, !.error = TRUE]
      untested == [Author EXCEPT !.login = TRUE, !.dated = "optional"]
      movies == [html EXCEPT !.cats = {1}]
  IN  {Written(public, <<[html EXCEPT !.follow = TRUE]>>),
       Written(private, <<movies, [movies EXCEPT !.inverted = TRUE], html>>),
       Written(private, <<[xml EXCEPT !.follow = TRUE], [json EXCEPT !.cats = {1}]>>),
       Written(untested, <<html, xml>>),
       Written(Author, <<[json EXCEPT !.noResults = TRUE], [json EXCEPT !.missingOk = TRUE]>>),
       Written([Author EXCEPT !.andmatch = TRUE], <<json, html>>)}

RowsListed ==
  {<<>>, <<"fine", "partial">>, <<"other", "fine">>, <<"broken", "fine">>, <<"slow">>,
   <<"undated", "headed">>}
=============================================================================
