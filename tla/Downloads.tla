----------------------------- MODULE Downloads -----------------------------
(***************************************************************************)
(* The download link of one release of a Cardigann indexer, from the feed  *)
(* that seals it to the grabs that open it (grab/rewriter.go, grab.go,     *)
(* search/download.go, search/grab.go): the token, the session, the        *)
(* request before, the info hash or the selectors in their order with the  *)
(* test of what they found, the fetch, and the last look at what came.     *)
(***************************************************************************)
EXTENDS SequencesExt

CONSTANTS
  DownloadRule,  \* download blocks of definitions
  Target,        \* what links lead to
  MaxStart       \* bound: starts of the daemon

(* What a definition may say of downloads; whether a selector reads the      *)
(* page of the request before.                                              *)
ASSUME DownloadsAssumption ==
  /\ \A r \in DownloadRule :
       /\ r.login \in BOOLEAN /\ r.block \in BOOLEAN /\ r.test \in BOOLEAN
       /\ r.before \in {"none", "plain", "selected"} /\ r.infohash \in {"none", "link", "before"}
       /\ r.selectors \in Seq(BOOLEAN)
  /\ {"nothing", "magnet"} \subseteq Target
  /\ Target \subseteq {"nothing", "torrent", "page", "empty", "magnet"}
  /\ MaxStart \in Nat \ {0}

VARIABLES
  rule,      \* what the definition says of downloads
  site,      \* what the tracker shows: the link, an info hash, a target per selector
  keyed,     \* tokens are sealed under the key of the store, else under one of the start
  start,     \* starts of the daemon
  offered,   \* what the feed carries
  grabbing,  \* where the grab is
  at,        \* the selector in hand
  read,      \* the page of the request before
  target,    \* what the link was resolved to
  requests,  \* history: the requests of the grab
  outcome,   \* the answer to the consumer
  logged,    \* the engine remembers a login
  live       \* the tracker accepts the session

grabVars == <<grabbing, at, read, target, requests, outcome>>
downloadsVars == <<rule, site, keyed, start, offered, grabVars, logged, live>>

NotOffered == [kind |-> "none", key |-> 0]
tokenKey == IF keyed THEN 1 ELSE start

DownloadsInit ==
  /\ rule \in DownloadRule /\ keyed \in BOOLEAN
  /\ site \in [link : Target \ {"nothing"}, hash : BOOLEAN,
               shown : [DOMAIN rule.selectors -> Target]]
  /\ start = 1 /\ offered = NotOffered
  /\ grabbing = "idle" /\ at = 1 /\ read = "none" /\ target = "nothing"
  /\ requests = <<>> /\ outcome = "none"
  /\ logged = FALSE /\ live = FALSE

-----------------------------------------------------------------------------
(* The feed: a link that has to be resolved or fetched with the session is  *)
(* sealed; where no token could be made the URL carries none.               *)
NeedsDLProxy == rule.block \/ rule.login

SealLink ==
  /\ offered = NotOffered
  /\ \E key \in IF NeedsDLProxy /\ site.link # "magnet" THEN {0, tokenKey} ELSE {0} :
       offered' = [kind |-> IF NeedsDLProxy /\ site.link # "magnet" THEN "url" ELSE "bare",
                   key |-> key]
  /\ UNCHANGED <<rule, site, keyed, start, grabVars, logged, live>>

GrabOver(result) == grabbing' = "over" /\ outcome' = result

(* A consumer comes with the token, on the route of this indexer or, with   *)
(* a token it has from there, of another one.                               *)
decodeDLToken(own) == own /\ offered.key # 0 /\ offered.key = tokenKey

Redeem ==
  /\ offered.kind = "url" /\ grabbing \in {"idle", "over"}
  /\ at' = 1 /\ read' = "none" /\ target' = "nothing" /\ requests' = <<>>
  /\ \E own \in BOOLEAN :
       IF decodeDLToken(own) THEN grabbing' = "session" /\ outcome' = "none"
       ELSE GrabOver("invalid")
  /\ UNCHANGED <<rule, site, keyed, start, offered, logged, live>>

(* The breaker or the budget of the indexer refuses, or the login fails.    *)
GrabRefused ==
  /\ grabbing = "session" /\ GrabOver("refused")
  /\ UNCHANGED <<rule, site, keyed, start, offered, at, read, target, requests, logged, live>>

SessionEnsured ==
  /\ grabbing = "session"
  /\ live' = (live \/ ~logged) /\ logged' = TRUE
  /\ grabbing' = IF ~rule.block \/ rule.before = "none" THEN "resolve"
                 ELSE IF rule.before = "selected" THEN "beforePage" ELSE "before"
  /\ UNCHANGED <<rule, site, keyed, start, offered, at, read, target, requests, outcome>>

-----------------------------------------------------------------------------
(* One request and its answer: no answer, a refusal for its rate, the login *)
(* page where the session is gone, or what is there.                        *)
Replies(kind) == {"fails", "limited"} \cup {IF rule.login /\ ~live THEN "wall" ELSE kind}

Asks(purpose, got) == requests' = Append(requests, [what |-> purpose, at |-> at, got |-> got])
NoPage(got) == got \in {"fails", "limited"}

ReadBeforePage ==
  /\ grabbing = "beforePage"
  /\ \E got \in Replies("page") :
       /\ Asks("page", got)
       /\ IF got = "page" THEN grabbing' = "before" /\ UNCHANGED outcome ELSE GrabOver("failed")
  /\ UNCHANGED <<rule, site, keyed, start, offered, at, read, target, logged, live>>

FetchBefore ==
  /\ grabbing = "before"
  /\ \E got \in Replies("page") :
       /\ Asks("before", got)
       /\ IF NoPage(got) THEN GrabOver("failed") /\ UNCHANGED read
          ELSE grabbing' = "resolve" /\ read' = got /\ UNCHANGED outcome
  /\ UNCHANGED <<rule, site, keyed, start, offered, at, target, logged, live>>

(* The page a selector reads: the one of the request before where it says   *)
(* so and there was one, else the link asked afresh.                        *)
PageFor(before, got) ==
  IF before /\ read # "none" THEN got = read /\ UNCHANGED requests
  ELSE got \in Replies("page") /\ Asks("page", got)
AnyPage == {"fails", "limited", "wall", "page"}

ResolvedTo(t) ==
  /\ target' = t
  /\ IF t = "magnet" THEN GrabOver("magnet") ELSE grabbing' = "fetch" /\ UNCHANGED outcome

KeepLink ==
  /\ grabbing = "resolve"
  /\ ~rule.block \/ (rule.infohash = "none" /\ rule.selectors = <<>>)
  /\ ResolvedTo(site.link)
  /\ UNCHANGED <<rule, site, keyed, start, offered, at, read, requests, logged, live>>

(* An info hash makes a magnet; without one the link stands as it is.       *)
ResolveInfoHash ==
  /\ grabbing = "resolve" /\ rule.block /\ rule.infohash # "none"
  /\ \E got \in AnyPage :
       /\ PageFor(rule.infohash = "before", got)
       /\ IF NoPage(got) THEN GrabOver("failed") /\ UNCHANGED target
          ELSE ResolvedTo(IF got = "page" /\ site.hash THEN "magnet" ELSE site.link)
  /\ UNCHANGED <<rule, site, keyed, start, offered, at, read, logged, live>>

Selecting ==
  grabbing = "resolve" /\ rule.block /\ rule.infohash = "none" /\ rule.selectors # <<>>

TrySelector ==
  /\ Selecting /\ at <= Len(rule.selectors)
  /\ \E got \in AnyPage :
       /\ PageFor(rule.selectors[at], got)
       /\ CASE NoPage(got) -> GrabOver("failed") /\ UNCHANGED <<at, target>>
            [] got = "wall" \/ (got = "page" /\ site.shown[at] = "nothing") ->
                 at' = at + 1 /\ UNCHANGED <<grabbing, outcome, target>>
            [] got = "page" /\ site.shown[at] # "nothing" ->
                 IF site.shown[at] = "magnet" \/ ~rule.test
                   THEN ResolvedTo(site.shown[at]) /\ UNCHANGED at
                   ELSE /\ grabbing' = "test" /\ target' = site.shown[at]
                        /\ UNCHANGED <<at, outcome>>
  /\ UNCHANGED <<rule, site, keyed, start, offered, read, logged, live>>

NoSelectorMatched ==
  /\ Selecting /\ at > Len(rule.selectors)
  /\ GrabOver("failed")
  /\ UNCHANGED <<rule, site, keyed, start, offered, at, read, target, requests, logged, live>>

(* The test of a target: a refusal for the rate ends the grab, any other    *)
(* failure and any body that is no torrent leads on to the next selector;   *)
(* an empty body passes.                                                    *)
EndsGrabNever(got) == FALSE      \* mutant: as any other failure
EndsGrab(got) == got = "limited"

passesTorrentTest ==
  /\ grabbing = "test"
  /\ \E got \in Replies(target) :
       /\ Asks("test", got)
       /\ CASE EndsGrab(got) -> GrabOver("failed") /\ UNCHANGED at
            [] got \in {"torrent", "empty"} -> grabbing' = "fetch" /\ UNCHANGED <<at, outcome>>
            [] OTHER -> grabbing' = "resolve" /\ at' = at + 1 /\ UNCHANGED outcome
  /\ UNCHANGED <<rule, site, keyed, start, offered, read, target, logged, live>>

-----------------------------------------------------------------------------
(* The fetch, and the look at its body before it is served as a torrent.    *)
isBencodeTorrent(got) == got = "torrent"

FetchTorrent ==
  /\ grabbing = "fetch"
  /\ \E got \in Replies(target) :
       /\ Asks("fetch", got)
       /\ GrabOver(IF NoPage(got) THEN "failed"
               ELSE IF isBencodeTorrent(got) THEN "torrent" ELSE "unavailable")
  /\ UNCHANGED <<rule, site, keyed, start, offered, at, read, target, logged, live>>

-----------------------------------------------------------------------------
SessionLapses ==
  /\ rule.login /\ live /\ live' = FALSE
  /\ UNCHANGED <<rule, site, keyed, start, offered, grabVars, logged>>

DaemonStarts ==
  /\ start < MaxStart /\ start' = start + 1
  /\ grabbing' = "idle" /\ at' = 1 /\ read' = "none" /\ target' = "nothing"
  /\ requests' = <<>> /\ outcome' = "none"
  /\ logged' = FALSE /\ live' = FALSE
  /\ UNCHANGED <<rule, site, keyed, offered>>

DownloadsNext ==
  \/ SealLink \/ Redeem \/ GrabRefused \/ SessionEnsured
  \/ ReadBeforePage \/ FetchBefore
  \/ KeepLink \/ ResolveInfoHash \/ TrySelector \/ NoSelectorMatched \/ passesTorrentTest
  \/ FetchTorrent
  \/ SessionLapses \/ DaemonStarts

DownloadsSpec == DownloadsInit /\ [][DownloadsNext]_downloadsVars

-----------------------------------------------------------------------------
DownloadsTypeOK ==
  /\ rule \in DownloadRule /\ keyed \in BOOLEAN /\ start \in 1 .. MaxStart
  /\ offered \in [kind : {"none", "bare", "url"}, key : 0 .. MaxStart]
  /\ grabbing \in {"idle", "session", "beforePage", "before", "resolve", "test", "fetch", "over"}
  /\ at \in 1 .. Len(rule.selectors) + 1 /\ read \in {"none", "wall", "page"}
  /\ target \in Target /\ logged \in BOOLEAN /\ live \in BOOLEAN
  /\ outcome \in {"none", "torrent", "magnet", "unavailable", "failed", "refused", "invalid"}
  /\ requests \in Seq([what : {"page", "before", "test", "fetch"},
                       at : 1 .. Len(rule.selectors) + 1,
                       got : Target \cup {"fails", "limited", "wall", "page"}])

(* What the author of the definition means the grab to bring: the magnet of  *)
(* the info hash or else the link, the first target that passes, the link.   *)
Usable(i) == site.shown[i] \in {"torrent", "empty", "magnet"} \cup
                               (IF rule.test THEN {} ELSE {"page"})
Meant ==
  LET usable == {i \in DOMAIN rule.selectors : Usable(i)}
  IN  IF ~rule.block THEN site.link
      ELSE IF rule.infohash # "none" THEN IF site.hash THEN "magnet" ELSE site.link
      ELSE IF rule.selectors = <<>> THEN site.link
      ELSE IF usable = {} THEN "nothing" ELSE site.shown[Min(usable)]
ServedFor(t) ==
  CASE t = "nothing" -> "failed"
    [] t \in {"page", "empty"} -> "unavailable"
    [] OTHER -> t

Got == {requests[i].got : i \in DOMAIN requests}

(* A grab that meets no failure and no lost session brings what the author   *)
(* meant.  Whatever it meets, what is served as a torrent is one and came    *)
(* with its last request; a refusal for the rate is the last request too; no *)
(* target is tested twice; and a token of another indexer or another key     *)
(* reaches no tracker.                                                       *)
GrabIsFaithful ==
  /\ ( /\ grabbing = "over" /\ outcome \notin {"refused", "invalid"}
       /\ Got \cap {"fails", "limited", "wall"} = {} ) => outcome = ServedFor(Meant)
  /\ outcome = "torrent" => Last(requests).what = "fetch" /\ Last(requests).got = "torrent"
  /\ \A i \in DOMAIN requests : requests[i].got = "limited" => i = Len(requests)
  /\ \A i, j \in DOMAIN requests :
       requests[i].what = "test" /\ requests[j].what = "test" /\ i # j
         => requests[i].at # requests[j].at
  /\ requests # <<>> => offered.key = tokenKey
=============================================================================
