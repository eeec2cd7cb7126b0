----------------------------- MODULE MCDownloads -----------------------------
(* Instance of Downloads for TLC: the download blocks of seven definitions. *)
EXTENDS Downloads

NoBlock ==
  [login |-> TRUE, block |-> FALSE, before |-> "none", infohash |-> "none", selectors |-> <<>>,
   test |-> TRUE]
Block == [NoBlock EXCEPT !.block = TRUE]

DownloadRules ==
  {NoBlock, [NoBlock EXCEPT !.login = FALSE], [Block EXCEPT !.before = "plain"],
   [Block EXCEPT !.before = "selected", !.infohash = "before"],
   [Block EXCEPT !.login = FALSE, !.infohash = "link"],
   [Block EXCEPT !.before = "plain", !.selectors = <<TRUE, FALSE>>],
   [Block EXCEPT !.login = FALSE, !.selectors = <<FALSE, FALSE>>, !.test = FALSE]}

Targets == {"nothing", "torrent", "page", "empty", "magnet"}
=============================================================================
