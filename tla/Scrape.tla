------------------------------- MODULE Scrape -------------------------------
(***************************************************************************)
(* One search of a Cardigann engine (cardigann/engine.go Search and the    *)
(* search package): the paths of the definition that serve the categories  *)
(* are asked in order; a redirect is followed, taken for a lost session,   *)
(* or answered by asking once more; a page that looks logged out ends the  *)
(* attempt, and a second one starts from nothing after a login; the rows   *)
(* of what is left are filtered and collected.                             *)
(*                                                                         *)
(* A definition is a record of what its author wrote: whether there is a   *)
(* login (with a test that tells a page of a lost session), an error       *)
(* selector, a filter on the words of the title, a date header, and the    *)
(* paths.  The site lists the same rows under a path whenever it is asked. *)
(***************************************************************************)
EXTENDS Integers, SequencesExt, Orders

CONSTANTS
  Definition,  \* definitions
  Cat,         \* categories
  SiteRows,    \* what a site may list under a path: sequences of row kinds
  MaxForgotten  \* bound: times the tracker forgets the session

(* The kinds of rows are explained where they are read. *)
RowKind == {"fine", "other", "partial", "broken", "slow", "headed", "undated"}
SearchPaths == [type : {"html", "json", "xml"}, follow : BOOLEAN, cats : SUBSET Cat,
                inverted : BOOLEAN, noResults : BOOLEAN, missingOk : BOOLEAN]

ASSUME ScrapeAssumption ==
  /\ Definition \subseteq [login : BOOLEAN, test : BOOLEAN, error : BOOLEAN, andmatch : BOOLEAN,
                          dated : {"none", "optional", "required"}, paths : Seq(SearchPaths)]
  /\ SiteRows \subseteq Seq(RowKind)
  /\ MaxForgotten \in Nat

VARIABLES
  definition, \* the definition of the engine
  search,     \* the query: its categories, and whether it is by id
  stage,      \* where the search is
  attempt,    \* 1, or 2 after a login
  todo,       \* paths still to ask
  hops,       \* redirects followed for the first of them
  response,   \* the answer in hand
  out,        \* releases collected
  alive,      \* the tracker accepts the session
  forgotten,  \* times the tracker forgot it
  listing,    \* history: what was seen listed under each path
  blind       \* history: paths whose page was no listing and was read as an empty one

scrapeVars == <<definition, search, stage, attempt, todo, hops, response, out, alive,
                forgotten, listing, blind>>

maxRedirectHops == 5

(* A page is what a request brings: a listing, a login wall, an error page  *)
(* of a tracker that knows the session, or a redirect that leads to another *)
(* page, to a magnet, to nowhere, or to a scheme nobody speaks.             *)
Response == [kind : {"listing", "login", "error", "redirect"}, html : BOOLEAN,
             leads : {"", "page", "magnet", "nowhere", "odd"}]
NoResponse == [kind |-> "login", html |-> FALSE, leads |-> ""]
Unseen == <<"unseen">>

Asked(p) == definition.paths[p]
Current == Head(todo)
Html(p) == Asked(p).type = "html"

ScrapeInit ==
  /\ definition \in Definition
  /\ search \in [cats : SUBSET Cat, byId : BOOLEAN]
  /\ stage = "session" /\ attempt = 1 /\ todo = <<>> /\ hops = 0
  /\ response = NoResponse /\ out = <<>>
  /\ alive = FALSE /\ forgotten = 0
  /\ listing = [p \in DOMAIN definition.paths |-> Unseen] /\ blind = {}

-----------------------------------------------------------------------------
(* What the tracker may answer: a session it does not accept gets the wall, *)
(* or is sent there.                                                        *)
Wall == {[kind |-> "login", html |-> h, leads |-> ""] : h \in BOOLEAN}
Redirects == {[kind |-> "redirect", html |-> h, leads |-> l] :
                h \in BOOLEAN, l \in {"page", "magnet", "nowhere", "odd"}}
Pages(p) ==
  {[kind |-> "listing", html |-> Html(p), leads |-> ""],
   [kind |-> "error", html |-> Html(p), leads |-> ""]}
Answers(p) == (IF definition.login /\ ~alive THEN Wall ELSE Pages(p)) \cup Redirects

(* A request whose answer is a listing shows what the site lists there.     *)
Brings(p, r) ==
  /\ response' = r
  /\ IF r.kind = "listing" /\ listing[p] = Unseen
       THEN \E l \in SiteRows : listing' = [listing EXCEPT ![p] = l]
       ELSE UNCHANGED listing

Fail == stage' = "failed" /\ response' = NoResponse

(* The eager login of the first search, or the one it remembers.            *)
EnsureSearchSession ==
  /\ stage = "session"
  /\ \/ stage' = "build" /\ alive' = TRUE /\ UNCHANGED response
     \/ definition.login /\ Fail /\ UNCHANGED alive
  /\ UNCHANGED <<definition, search, attempt, todo, hops, out, forgotten, listing, blind>>

(* A path with categories is asked when they meet those of the query, one   *)
(* that begins with "!" when they do not.                                   *)
narrowToPathCategories(p) ==
  \/ Asked(p).cats = {} /\ ~Asked(p).inverted
  \/ (search.cats \cap Asked(p).cats # {}) # Asked(p).inverted

(* Execute begins with no releases, also the second time.                   *)
FirstOutKept == out      \* mutant: what the first attempt found is kept
FirstOut == <<>>

BuildRequests ==
  /\ stage = "build"
  /\ todo' = Ordered({p \in DOMAIN definition.paths : narrowToPathCategories(p)})
  /\ stage' = IF todo' = <<>> THEN "done" ELSE "ask"
  /\ out' = FirstOut /\ hops' = 0 /\ blind' = {}
  /\ UNCHANGED <<definition, search, attempt, response, alive, forgotten, listing>>

AskPath ==
  /\ stage = "ask"
  /\ \E r \in Answers(Current) :
       Brings(Current, r) /\ stage' = IF r.kind = "redirect" THEN "moved" ELSE "read"
  /\ hops' = 0
  /\ UNCHANGED <<definition, search, attempt, todo, out, alive, forgotten, blind>>

(* No answer, or one with a status that is no page (checkStatus).           *)
RequestFails ==
  /\ stage \in {"ask", "moved"} /\ Fail
  /\ UNCHANGED <<definition, search, attempt, todo, hops, out, alive, forgotten, listing, blind>>

-----------------------------------------------------------------------------
(* resolveRedirect.                                                         *)
Follows ==
  /\ Asked(Current).follow /\ hops < maxRedirectHops
  /\ response.leads \in {"page", "odd"}

FollowRedirect ==
  /\ stage = "moved" /\ Follows
  /\ IF response.leads = "odd" THEN Fail /\ UNCHANGED <<hops, listing>>
     ELSE /\ hops' = hops + 1
          /\ \E r \in Answers(Current) :
               Brings(Current, r) /\ stage' = IF r.kind = "redirect" THEN "moved" ELSE "read"
  /\ UNCHANGED <<definition, search, attempt, todo, out, alive, forgotten, blind>>

(* The first lost session is answered by a login, the second is the result. *)
LoggedOut == IF attempt = 1 THEN stage' = "relogin" /\ UNCHANGED response ELSE Fail

RedirectUnfollowed ==
  /\ stage = "moved" /\ ~Follows
  /\ \/ /\ Asked(Current).type = "xml"
        /\ stage' = "read" /\ UNCHANGED <<response, listing>>
     \/ /\ Asked(Current).type # "xml" /\ definition.login
        /\ LoggedOut /\ UNCHANGED listing
     \/ /\ Asked(Current).type # "xml" /\ ~definition.login
        /\ \E r \in Answers(Current) : Brings(Current, r) /\ stage' = "read"
  /\ UNCHANGED <<definition, search, attempt, todo, hops, out, alive, forgotten, blind>>

-----------------------------------------------------------------------------
(* What the answer in hand is taken for.                                    *)
looksLoggedOut == definition.test /\ response.html /\ response.kind \in {"login", "redirect"}

SessionLost ==
  /\ stage = "read" /\ looksLoggedOut
  /\ LoggedOut
  /\ UNCHANGED <<definition, search, attempt, todo, hops, out, alive, forgotten, listing, blind>>

noResultsMatch ==
  /\ response.kind = "listing" /\ listing[Current] = <<>>
  /\ Asked(Current).type = "json" /\ Asked(Current).noResults

(* On to the next path with the releases of this one.                       *)
Collect(found) ==
  /\ out' = out \o found
  /\ todo' = Tail(todo)
  /\ stage' = IF todo' = <<>> THEN "done" ELSE "ask"
  /\ response' = NoResponse

NoResults ==
  /\ stage = "read" /\ ~looksLoggedOut /\ noResultsMatch
  /\ Collect(<<>>)
  /\ UNCHANGED <<definition, search, attempt, hops, alive, forgotten, listing, blind>>

(* A page without a listing: an error page is a failure where the author    *)
(* described it, and a JSON parser wants its rows; where the parser makes   *)
(* do, there are no rows on it.                                             *)
CheckErrorBlocks == response.kind = "error" /\ definition.error
checkSearchError == Html(Current) /\ CheckErrorBlocks
Barren ==
  CASE Html(Current) -> {"empty"}
    [] Asked(Current).type = "xml" -> {"empty", "unparsable"}
    [] OTHER -> {"unparsable"} \cup
                (IF Asked(Current).missingOk /\ ~response.html THEN {"empty"} ELSE {})

ReadBarren ==
  /\ stage = "read" /\ ~looksLoggedOut /\ response.kind # "listing"
  /\ IF checkSearchError \/ "unparsable" \in Barren
       THEN \/ Fail /\ UNCHANGED <<out, todo, blind>>
            \/ /\ ~checkSearchError /\ "empty" \in Barren
               /\ Collect(<<>>) /\ blind' = blind \cup {<<Current, response>>}
       ELSE Collect(<<>>) /\ blind' = blind \cup {<<Current, response>>}
  /\ UNCHANGED <<definition, search, attempt, hops, alive, forgotten, listing>>

-----------------------------------------------------------------------------
(* The rows of a listing.  "fine": every field is there and the title has   *)
(* all words; "other": it lacks one; "partial" and "broken": a field is     *)
(* missing or unreadable that is optional, or is not; "slow": a match in a  *)
(* field that is needed was given up on the clock; "headed" and "undated":  *)
(* no date of its own, and one above it, or none that could be read.        *)
andMatch(kind) == kind # "other"
applyRowFilters(kind) == definition.andmatch /\ ~search.byId /\ ~andMatch(kind)

backfillFails(kind, p) == kind = "undated" /\ definition.dated = "required" /\ Html(p)

isOptional(kind) == kind = "partial"
resolveFieldFails(kind) == kind \in {"partial", "broken", "slow"}
parseRowFails(kind) == resolveFieldFails(kind) /\ ~isOptional(kind)
RowFails(kind, p) == parseRowFails(kind) \/ backfillFails(kind, p)

isSkippableRowError(kind) == kind # "slow"
Aborts(kind, p) ==
  RowFails(kind, p) /\ ~(Asked(p).type # "json" /\ isSkippableRowError(kind))

ParseResults(p) ==
  LET kept == Ordered({i \in DOMAIN listing[p] : /\ ~applyRowFilters(listing[p][i])
                                                /\ ~RowFails(listing[p][i], p)})
  IN  [k \in DOMAIN kept |-> <<p, kept[k]>>]

ReadListing ==
  /\ stage = "read" /\ ~looksLoggedOut /\ response.kind = "listing" /\ ~noResultsMatch
  /\ IF \E i \in DOMAIN listing[Current] : Aborts(listing[Current][i], Current)
       THEN Fail /\ UNCHANGED <<out, todo>>
       ELSE Collect(ParseResults(Current))
  /\ UNCHANGED <<definition, search, attempt, hops, alive, forgotten, listing, blind>>

-----------------------------------------------------------------------------
SearchRelogin ==
  /\ stage = "relogin"
  /\ \/ stage' = "build" /\ alive' = TRUE /\ attempt' = 2 /\ response' = NoResponse
     \/ Fail /\ UNCHANGED <<alive, attempt>>
  /\ UNCHANGED <<definition, search, todo, hops, out, forgotten, listing, blind>>

(* The tracker forgets the session.                                         *)
TrackerForgets ==
  /\ stage \notin {"done", "failed"}
  /\ definition.login /\ alive /\ alive' = FALSE
  /\ forgotten < MaxForgotten /\ forgotten' = forgotten + 1
  /\ UNCHANGED <<definition, search, stage, attempt, todo, hops, response, out, listing, blind>>

ScrapeNext ==
  \/ EnsureSearchSession \/ BuildRequests \/ AskPath \/ RequestFails
  \/ FollowRedirect \/ RedirectUnfollowed \/ SessionLost
  \/ NoResults \/ ReadBarren \/ ReadListing
  \/ SearchRelogin \/ TrackerForgets

ScrapeSpec == ScrapeInit /\ [][ScrapeNext]_scrapeVars

-----------------------------------------------------------------------------
ScrapeTypeOK ==
  /\ definition \in Definition /\ search \in [cats : SUBSET Cat, byId : BOOLEAN]
  /\ stage \in {"session", "build", "ask", "moved", "read", "relogin", "done", "failed"}
  /\ attempt \in 1 .. 2 /\ hops \in 0 .. maxRedirectHops
  /\ todo \in Seq(DOMAIN definition.paths)
  /\ response \in Response /\ alive \in BOOLEAN /\ forgotten \in 0 .. MaxForgotten
  /\ listing \in [DOMAIN definition.paths -> SiteRows \cup {Unseen}]
  /\ out \in Seq((DOMAIN definition.paths) \X Nat)
  /\ blind \subseteq (DOMAIN definition.paths) \X Response

(* What a reader of the definition expects: of each path that serves the     *)
(* categories, the rows that are well-formed and match.                      *)
Belongs(kind, p) ==
  \/ kind \in {"fine", "partial", "headed"}
  \/ kind = "undated" /\ ~(Html(p) /\ definition.dated = "required")
  \/ kind = "other" /\ (search.byId \/ ~definition.andmatch)
Serves(p) ==
  \/ Asked(p).cats = {}
  \/ Asked(p).inverted /\ search.cats \cap Asked(p).cats = {}
  \/ ~Asked(p).inverted /\ search.cats \cap Asked(p).cats # {}

BlindPaths == {b[1] : b \in blind}
Expected ==
  UNION {{<<p, i>> : i \in {j \in DOMAIN listing[p] : Belongs(listing[p][j], p)}} :
           p \in {q \in DOMAIN definition.paths \ BlindPaths : Serves(q)}}
Precedes(x, y) == x[1] < y[1] \/ (x[1] = y[1] /\ x[2] < y[2])

(* A search that returns has the well-formed and matching rows of every path *)
(* that serves the categories, each once and in order, whatever redirects,   *)
(* lost sessions and second attempts came in between; and a login wall or an *)
(* error page passes for an empty listing only where the definition has no   *)
(* means to tell.                                                            *)
ScrapeWhole ==
  stage = "done" =>
    /\ ToSet(out) = Expected
    /\ \A j, k \in DOMAIN out : j < k => Precedes(out[j], out[k])
    /\ \A b \in blind :
         /\ b[2].kind \in {"login", "redirect"} => ~definition.test \/ ~b[2].html
         /\ b[2].kind = "error" => ~definition.error \/ ~Html(b[1])
=============================================================================
