------------------------------ MODULE MCPolls ------------------------------
(* Instance of Polls for TLC; of the releases, 1 is freeleech. *)
EXTENDS Polls

Listings == {<<2>>, <<2, 1>>}
SeedView == [enabled |-> TRUE, rss |-> 2]
(* Nothing set, and a lifetime of its own next to a warm interval. *)
Settings == {[override |-> 0, warm |-> 0], [override |-> 3, warm |-> 2]}
Patches == {[enabled |-> Absent, rss |-> 1], [enabled |-> FALSE, rss |-> Absent]}
(* A bundle of a daemon that never changed a knob, and one of another start. *)
Bundles == {[rows |-> NothingStored, fp |-> 0],
            [rows |-> [enabled |-> TRUE, rss |-> 1], fp |-> LastDef]}
=============================================================================
