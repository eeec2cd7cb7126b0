----------------------------- MODULE MCServices -----------------------------
(***************************************************************************)
(* Instance for TLC of twelve components of the daemon that share no        *)
(* state: one of them moves in each behaviour, and the others stay where   *)
(* they start.                                                             *)
(***************************************************************************)
EXTENDS Resolver, MCPolls, Sessions, Keys, HitWindow, Warmer, Logins, Pacing, Feeds, MCScrape,
        MCDownloads, WriteBacks, TLC

VARIABLE moving

servicesVars ==
  <<moving, resolverVars, pollsVars, sessionVars, keysVars, windowVars, warmerVars, loginVars,
    pacingVars, feedsVars, scrapeVars, downloadsVars, writeBackVars>>

Component ==
  {"engines", "polls", "sessions", "keys", "window", "warmer", "logins", "pacing", "feeds",
   "scrape", "downloads", "writes"}

Symmetry == Permutations(Req) \cup Permutations(Mut) \cup Permutations(Worker)

(* Of the components with several initial states, the one at rest has one. *)
Rests(c) == moving # c

ServicesInit ==
  /\ moving \in Component
  /\ FeedsInit
  /\ Rests("feeds") =>
       /\ slug = "one" /\ ~deep[1] /\ wanted = {} /\ paging.limit = 1
       /\ \A m \in Member : catalog[m] = <<>>
  /\ Init /\ WindowInit
  /\ PollsInit
  /\ listed = <<2>> /\ (Rests("polls") => settings = [override |-> 0, warm |-> 0])
  /\ SessionsInit /\ (Rests("sessions") => saved = 0)
  /\ KeysInit /\ (Rests("keys") => configured = NoKey /\ ~allowPlain)
  /\ WarmerInit /\ (Rests("warmer") => \A i \in Feed : optIn[i] = 0)
  /\ LoginsInit /\ (Rests("logins") => ~probes)
  /\ PacingInit /\ (Rests("pacing") => limiter = 0 /\ \A d \in Doer : pace[d].want = 1)
  /\ IF Rests("scrape")
       THEN /\ definition = CHOOSE d \in Definition : Len(d.paths) = 1
            /\ search = [cats |-> {}, byId |-> FALSE]
       ELSE TRUE
  /\ ScrapeInit
  /\ IF Rests("downloads")
       THEN /\ rule = NoBlock /\ keyed = TRUE
            /\ site = [link |-> "torrent", hash |-> FALSE, shown |-> <<>>]
       ELSE TRUE
  /\ DownloadsInit
  /\ IF Rests("writes")
       THEN driver = "rotating" /\ account = [c \in Cap |-> 0]
       ELSE TRUE
  /\ WriteBacksInit

ServicesNext ==
  /\ UNCHANGED moving
  /\ \/ /\ moving = "engines" /\ Next
        /\ UNCHANGED <<pollsVars, sessionVars, keysVars, windowVars, warmerVars, loginVars,
                       pacingVars, feedsVars, scrapeVars, downloadsVars, writeBackVars>>
     \/ /\ moving = "polls" /\ PollsNext
        /\ UNCHANGED <<resolverVars, sessionVars, keysVars, windowVars, warmerVars, loginVars,
                       pacingVars, feedsVars, scrapeVars, downloadsVars, writeBackVars>>
     \/ /\ moving = "sessions" /\ SessionsNext
        /\ UNCHANGED <<resolverVars, pollsVars, keysVars, windowVars, warmerVars, loginVars,
                       pacingVars, feedsVars, scrapeVars, downloadsVars, writeBackVars>>
     \/ /\ moving = "keys" /\ KeysNext
        /\ UNCHANGED <<resolverVars, pollsVars, sessionVars, windowVars, warmerVars, loginVars,
                       pacingVars, feedsVars, scrapeVars, downloadsVars, writeBackVars>>
     \/ /\ moving = "window" /\ WindowNext
        /\ UNCHANGED <<resolverVars, pollsVars, sessionVars, keysVars, warmerVars, loginVars,
                       pacingVars, feedsVars, scrapeVars, downloadsVars, writeBackVars>>
     \/ /\ moving = "warmer" /\ WarmerNext
        /\ UNCHANGED <<resolverVars, pollsVars, sessionVars, keysVars, windowVars, loginVars,
                       pacingVars, feedsVars, scrapeVars, downloadsVars, writeBackVars>>
     \/ /\ moving = "logins" /\ LoginsNext
        /\ UNCHANGED <<resolverVars, pollsVars, sessionVars, keysVars, windowVars, warmerVars,
                       pacingVars, feedsVars, scrapeVars, downloadsVars, writeBackVars>>
     \/ /\ moving = "pacing" /\ PacingNext
        /\ UNCHANGED <<resolverVars, pollsVars, sessionVars, keysVars, windowVars, warmerVars,
                       loginVars, feedsVars, scrapeVars, downloadsVars, writeBackVars>>
     \/ /\ moving = "feeds" /\ FeedsNext
        /\ UNCHANGED <<resolverVars, pollsVars, sessionVars, keysVars, windowVars, warmerVars,
                       loginVars, pacingVars, scrapeVars, downloadsVars, writeBackVars>>
     \/ /\ moving = "scrape" /\ ScrapeNext
        /\ UNCHANGED <<resolverVars, pollsVars, sessionVars, keysVars, windowVars, warmerVars,
                       loginVars, pacingVars, feedsVars, downloadsVars, writeBackVars>>
     \/ /\ moving = "downloads" /\ DownloadsNext
        /\ UNCHANGED <<resolverVars, pollsVars, sessionVars, keysVars, windowVars, warmerVars,
                       loginVars, pacingVars, feedsVars, scrapeVars, writeBackVars>>
     \/ /\ moving = "writes" /\ WriteBacksNext
        /\ UNCHANGED <<resolverVars, pollsVars, sessionVars, keysVars, windowVars, warmerVars,
                       loginVars, pacingVars, feedsVars, scrapeVars, downloadsVars>>

ServicesSpec == ServicesInit /\ [][ServicesNext]_servicesVars

(* The type of the state of the component that moves. *)
ServicesTypeOK ==
  /\ moving = "engines" => TypeOK
  /\ moving = "polls" => PollsTypeOK
  /\ moving = "sessions" => SessionsTypeOK
  /\ moving = "keys" => KeysTypeOK
  /\ moving = "window" => WindowTypeOK
  /\ moving = "warmer" => WarmerTypeOK
  /\ moving = "logins" => LoginsTypeOK
  /\ moving = "pacing" => PacingTypeOK
  /\ moving = "feeds" => FeedsTypeOK
  /\ moving = "scrape" => ScrapeTypeOK
  /\ moving = "downloads" => DownloadsTypeOK
  /\ moving = "writes" => WriteBacksTypeOK

(* What tells two states of the engine cache apart: nothing here reads the   *)
(* epochs, nor the engine of a request that only has to be answered.         *)
EnginesSeen ==
  <<db, commits, IF installed = None THEN None ELSE installed.ver, gen, allEpoch,
    [r \in Req |-> IF req[r].pc = "ready"
                   THEN [IdleReq EXCEPT !.pc = "ready"]
                   ELSE [req[r] EXCEPT !.adapter.epoch = 0]],
    mut, crashes, settled>>

(* What tells two states of the settings apart: not the engines nobody uses. *)
WritesSeen ==
  LET used(e) == e = cachedEngine \/ \E w \in Worker : work[w].engine = e
  IN <<driver, account, present, stored,
       [e \in DOMAIN engines |-> IF used(e) THEN engines[e] ELSE NoEdit],
       cachedEngine, evicting, work, edit, lastToken, losses, choices, newest, behind, wrong>>

(* What tells two states apart: a component at rest is as it started. *)
Differing ==
  <<moving,
    CASE moving = "engines" -> EnginesSeen
      [] moving = "polls" -> pollsVars
      [] moving = "sessions" -> sessionVars
      [] moving = "keys" -> keysVars
      [] moving = "window" -> windowVars
      [] moving = "warmer" -> warmerVars
      [] moving = "logins" -> loginVars
      [] moving = "pacing" -> pacingVars
      [] moving = "feeds" -> feedsVars
      [] moving = "scrape" -> scrapeVars
      [] moving = "downloads" -> downloadsVars
      [] moving = "writes" -> WritesSeen>>
=============================================================================
