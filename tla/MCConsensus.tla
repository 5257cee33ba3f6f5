----------------------------- MODULE MCConsensus -----------------------------
(***************************************************************************)
(* Three Schedulers that are alike.  The view leaves out what no later     *)
(* step reads: the votes of a server that is no candidate, the match       *)
(* indices of one that is no leader, and the leaders that proposals would  *)
(* be forwarded to when none is left to make.                              *)
(***************************************************************************)
EXTENDS Consensus, TLC

Symmetry == Permutations(Server) \cup Permutations(Change)

View ==
    <<state, term, votedFor, log, applied, peers, net, waiting, proposed, events,
      elected, confirmed, excused,
      IF proposed = Change THEN None ELSE leaderId,
      [s \in Server |-> IF state[s] = "CANDIDATE" THEN votes[s] ELSE {}],
      [s \in Server |-> IF state[s] = "LEADER" THEN match[s] ELSE 0]>>
=============================================================================
