------------------------------- MODULE Feeds -------------------------------
(***************************************************************************)
(* What a feed serves of the releases its indexers return: the pipeline of *)
(* core.SearchReleases (duplicates dropped, other categories dropped, one  *)
(* page), read page by page by a consumer, and the aggregate feed, which   *)
(* runs that pipeline on every selected indexer at once, merges the pages  *)
(* by publish date and tells in a ledger what became of each member.       *)
(*                                                                         *)
(* A tracker's answer to one query does not change while a consumer pages, *)
(* and a tracker that pages itself returns as much of the page as it has.  *)
(* A guid names one release, of one category and publish date (0: none).  The    *)
(* consumer asks for the next page while the total promises one, as the    *)
(* comment of pagedResult says *arr does.                                  *)
(***************************************************************************)
EXTENDS Integers, SequencesExt, Orders

CONSTANTS
  Members,      \* instances a slug selects, 1 .. Members in slug order
  Guid,         \* identities of releases
  LastDate,     \* publish dates are 1 .. LastDate
  MaxReleases,  \* bound on what the trackers hold
  LimitsMax,    \* the largest page (defaultLimit)
  FanoutLimit   \* member searches at once (fanoutLimit)

ASSUME FeedsAssumption ==
  /\ Members \in Nat \ {0} /\ LimitsMax \in Nat \ {0} /\ FanoutLimit \in Nat \ {0}
  /\ LastDate \in Nat /\ MaxReleases \in Nat

Member == 1 .. Members
Skips == {"disabled", "unavailable", "unsupported-mode"}

VARIABLES
  slug,      \* "one": the first member's own feed; "all": the aggregate
  catalog,   \* what each tracker finds for the query
  deep,      \* SupportsOffsetPaging: the members that page upstream
  resolved,  \* the reason a member was skipped with before the search, "" if none
  wanted,    \* requested categories, {} for any
  paging,    \* the page the consumer asks for
  slots,     \* the fan-out's slots
  replies    \* the answers the consumer has, oldest first

feedsVars == <<slug, catalog, deep, resolved, wanted, paging, slots, replies>>
askedVars == <<slug, catalog, deep, resolved, wanted>>

EmptySlot == [pc |-> "idle", releases |-> <<>>, reason |-> ""]

Releases == [guid : Guid, cat : {"movie", "tv", ""}, date : {0}]
(* A catalog of releases with these dates, each with a guid of its own. *)
Dated(dates) == [i \in DOMAIN dates |-> [guid |-> i, cat |-> "", date |-> dates[i]]]

FeedsInit ==
  /\ slug \in {"one", "all"}
  /\ deep \in [Member -> BOOLEAN] /\ \A m \in Member \ {1} : ~deep[m]
  /\ \/ /\ slug = "one"
        /\ \E found \in BoundedSeq(Releases, MaxReleases) :
             /\ \A i, j \in DOMAIN found : found[i].guid = found[j].guid => found[i] = found[j]
             /\ catalog = [m \in Member |-> IF m = 1 THEN found ELSE <<>>]
        /\ resolved = [m \in Member |-> ""]
        /\ wanted \in {{}, {"movie"}}
     \/ /\ slug = "all"
        /\ \E dates \in [Member -> BoundedSeq(0 .. LastDate, MaxReleases - 1)] :
             catalog = [m \in Member |-> Dated(dates[m])]
        /\ resolved \in [Member -> {"", "disabled"}]
        /\ wanted = {}
  /\ \E limit \in 1 .. LimitsMax : paging = [offset |-> 0, limit |-> limit]
  /\ slots = [m \in Member |-> EmptySlot]
  /\ replies = <<>>

-----------------------------------------------------------------------------
(* The shared pipeline. *)

window(pg, releases) ==
  SubSeq(releases, pg.offset + 1, Min({pg.offset + pg.limit, Len(releases)}))

(* What the driver returns: everything, or the page it asked the tracker for. *)
Searched(m, pg) == IF deep[m] THEN window(pg, catalog[m]) ELSE catalog[m]

dedupeByGUID(releases) ==
  LET first(i) == \A j \in 1 .. i - 1 : releases[j].guid # releases[i].guid
  IN  Picked(releases, {i \in DOMAIN releases : first(i)})

Wants(release) == wanted = {} \/ release.cat \in wanted \cup {""}
filterResults(releases) == Picked(releases, {i \in DOMAIN releases : Wants(releases[i])})

localPageResult(releases, pg) ==
  [page |-> window(pg, releases), total |-> Len(releases)]

FullTotalServed(pg, served) == pg.offset + served + 1      \* mutant
FullTotal(pg, served) == pg.offset + pg.limit + 1

pagedResult(releases, pg, rawCount) ==
  LET served == window([pg EXCEPT !.offset = 0], releases)
  IN  [page |-> served,
       total |-> IF rawCount >= pg.limit THEN FullTotal(pg, Len(served))
                                         ELSE pg.offset + Len(served)]

SearchReleases(m, pg) ==
  LET raw == Searched(m, pg)
      releases == filterResults(dedupeByGUID(raw))
  IN  IF deep[m] THEN pagedResult(releases, pg, Len(raw)) ELSE localPageResult(releases, pg)

-----------------------------------------------------------------------------
(* The aggregate.  memberQuery: each member is asked for its first full    *)
(* page, and the consumer's page is cut from the merged set.               *)

MemberPage == [offset |-> 0, limit |-> LimitsMax]

Live(m) == resolved[m] = ""
Running == {m \in Member : slots[m].pc = "running"}

(* g.Go, in slug order, waiting for one of the fanoutLimit places. *)
StartMember(m) ==
  /\ slug = "all" /\ Live(m) /\ slots[m].pc = "idle"
  /\ \A n \in 1 .. m - 1 : Live(n) => slots[n].pc # "idle"
  /\ Cardinality(Running) < FanoutLimit
  /\ slots' = [slots EXCEPT ![m].pc = "running"]
  /\ UNCHANGED <<askedVars, paging, replies>>

(* The member's search answers, or fails and is classified (classifySkip). *)
FinishMember(m) ==
  /\ slots[m].pc = "running"
  /\ \E slot \in {[pc |-> "done", releases |-> SearchReleases(m, MemberPage).page, reason |-> ""],
                  [pc |-> "done", releases |-> <<>>, reason |-> "error"]} :
       slots' = [slots EXCEPT ![m] = slot]
  /\ UNCHANGED <<askedVars, paging, replies>>

mergeByPublishDate ==
  LET of(m) == [i \in DOMAIN slots[m].releases |->
                 [member |-> m, at |-> i, release |-> slots[m].releases[i]]]
      flat == FlattenSeq([m \in Member |-> of(m)])
      on(date) == Picked(flat, {i \in DOMAIN flat : flat[i].release.date = date})
  IN  FlattenSeq([k \in 1 .. LastDate + 1 |-> on(LastDate + 1 - k)])

LedgerOfSlots(m) == [reason |-> slots[m].reason, count |-> Len(slots[m].releases)]  \* mutant
ledgerRow(m) ==
  IF Live(m) THEN [reason |-> slots[m].reason, count |-> Len(slots[m].releases)]
             ELSE [reason |-> resolved[m], count |-> 0]

SearchAggregate ==
  [page |-> window(paging, mergeByPublishDate), total |-> Len(mergeByPublishDate),
   ledger |-> [m \in Member |-> ledgerRow(m)], slots |-> slots]

-----------------------------------------------------------------------------
(* The consumer: it asks again while the total lies beyond the page. *)

Waits == replies # <<>> => Last(replies).total > paging.offset
Reply(reply) ==
  /\ replies' = Append(replies, reply)
  /\ paging' = [paging EXCEPT !.offset = @ + paging.limit]
  /\ slots' = [m \in Member |-> EmptySlot]
  /\ UNCHANGED askedVars

ServeOne == slug = "one" /\ Waits /\ Reply(SearchReleases(1, paging))

ServeAll ==
  /\ slug = "all" /\ Waits
  /\ \A m \in Member : Live(m) => slots[m].pc = "done"
  /\ Reply(SearchAggregate)

FeedsNext ==
  \/ ServeOne \/ ServeAll
  \/ \E m \in Member : Waits /\ (StartMember(m) \/ FinishMember(m))

FeedsSpec == FeedsInit /\ [][FeedsNext]_feedsVars

-----------------------------------------------------------------------------

FeedsTypeOK ==
  /\ slug \in {"one", "all"} /\ deep \in [Member -> BOOLEAN]
  /\ catalog \in [Member -> Seq([guid : Guid \cup Nat, cat : {"movie", "tv", ""},
                                  date : 0 .. LastDate])]
  /\ resolved \in [Member -> {""} \cup Skips]
  /\ paging.offset \in Nat /\ paging.limit \in 1 .. LimitsMax
  /\ \A m \in Member : slots[m].pc \in {"idle", "running", "done"}
  /\ Cardinality(Running) <= FanoutLimit

Guids(releases) == {releases[i].guid : i \in DOMAIN releases}
PagesOf(m) == UNION {Guids(replies[k].page) : k \in DOMAIN replies}

(* A consumer that stops paging because the total promises no more has been *)
(* given every release it wants: a page that duplicates or other categories *)
(* shrank does not end the feed, and no page lists a release twice          *)
(* (pagedResult and localPageResult, core/search.go).                       *)
PagesReachAll ==
  slug = "one" =>
    /\ ~Waits => {r.guid : r \in {s \in ToSet(catalog[1]) : Wants(s)}} = PagesOf(1)
    /\ \A k \in DOMAIN replies : IsInjective([i \in DOMAIN replies[k].page |->
                                               replies[k].page[i].guid])

(* The releases the answered members contributed, and where they come in *)
(* the merged feed: after the later ones, and after those of their date of *)
(* earlier members or places.                                              *)
Contributed(reply) ==
  UNION {{<<m, i>> : i \in DOMAIN reply.slots[m].releases} : m \in Member}

Place(reply, x) ==
  LET date(y) == reply.slots[y[1]].releases[y[2]].date
      before(y) == \/ date(y) > date(x)
                   \/ /\ date(y) = date(x)
                      /\ y[1] < x[1] \/ (y[1] = x[1] /\ y[2] < x[2])
  IN  1 + Cardinality({y \in Contributed(reply) : before(y)})

(* An aggregate answer accounts for itself: a row for each selected member, *)
(* which is ok exactly when the member was searched and answered, counts     *)
(* that add up to the total, and a page that holds, in order and once each,   *)
(* the releases whose place it covers (SearchAggregate, core/aggregate.go).   *)
AnswerAccounts(k) ==
  LET reply == replies[k]
      covered == {x \in Contributed(reply) :
                    Place(reply, x) \in (k - 1) * paging.limit + 1 .. k * paging.limit}
  IN  /\ FoldFunction(+, 0, [m \in Member |-> reply.ledger[m].count]) = reply.total
      /\ reply.total = Cardinality(Contributed(reply))
      /\ \A m \in Member :
           /\ ~Live(m) => reply.ledger[m].reason = resolved[m]
           /\ Live(m) => (reply.ledger[m].reason = "" <=> reply.slots[m].reason = "")
      /\ Len(reply.page) = Cardinality(covered)
      /\ \A x \in covered : LET r == reply.page[Place(reply, x) - (k - 1) * paging.limit]
                            IN  <<r.member, r.at>> = x

LedgerAccounts == slug = "all" => \A k \in DOMAIN replies : AnswerAccounts(k)

(* Every feed is whole: see its two parts. *)
FeedsWhole == PagesReachAll /\ LedgerAccounts
=============================================================================
