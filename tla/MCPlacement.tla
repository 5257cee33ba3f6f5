----------------------------- MODULE MCPlacement -----------------------------
(***************************************************************************)
(* Payloads, heartbeats and the symmetry set for Placement.  The runtime   *)
(* reports the size of a queue that nothing fills and never the status     *)
(* OFFLINE, so every heartbeat is online with queue 0.  Memory is in half  *)
(* gigabytes.                                                              *)
(***************************************************************************)
EXTENDS Placement

CONSTANT m1

MCPayload == {[models |-> {m1}, free |-> 2, total |-> 2],
              [models |-> {}, free |-> 0, total |-> 0]}

Reading(cpu, gpu, free) ==
    [online |-> TRUE, queue |-> 0, cpu |-> cpu, gpu |-> gpu, free |-> free]

MCBeat == {Reading(0, 0, 2), Reading(60, 20, 1)}

NodeSymmetry == Permutations(Node)
=============================================================================
