----------------------------- MODULE MCGaladriel -----------------------------
(* Constants of the Galadriel runs: sync is a seeded cron job, poll a cron   *)
(* job somebody POSTed, call an at job, party one from /club schedule.       *)
EXTENDS Galadriel, TLC

CONSTANTS sync, poll, call, remind, party, w1, w2, api, bot

MCAtTime == [j \in OneShot |-> 1]

Symmetry == Permutations(Workers)
=============================================================================
