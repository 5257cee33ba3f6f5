------------------------------ MODULE Consensus ------------------------------
(***************************************************************************)
(* The quarantined Raft engine of experimental/scheduler/consensus.py:     *)
(* several Schedulers that elect a leader and replicate a log of registry  *)
(* changes over Zenoh.                                                     *)
(*                                                                         *)
(* Every handler runs under the engine's asyncio lock, so it is one step,  *)
(* from the message it takes (and the peer table it refreshes first) to    *)
(* the answers it puts.  Zenoh keeps the order of one publisher's messages *)
(* and loses the ones a full queue or a broken session stops; here one     *)
(* message from a publisher to a subscriber is under way at a time.        *)
(* Clocks are abstracted: an election timeout, a heartbeat period and a    *)
(* peer's five silent seconds may pass at any moment, and a stopped engine *)
(* is one that takes no steps for a while, because stop() and start() keep *)
(* its state.                                                              *)
(*                                                                         *)
(* Indices are 1-based here: index i of the model is i - 1 in the code,    *)
(* and 0 is the code's -1.                                                 *)
(***************************************************************************)
EXTENDS Integers, Sequences, FiniteSets, FiniteSetsExt

CONSTANTS
    Server,      \* scheduler ids
    Change,      \* registry changes a caller may propose, each at most once
    None,        \* no leader, no vote, nothing applied
    InFlight,    \* messages under way at once
    MaxEvents,   \* elections, newcomers and silent peers, together
    MaxForwards  \* only the last so many proposals may be forwarded

ASSUME ConsensusAssumption ==
    /\ IsFiniteSet(Server) /\ None \notin Server
    /\ None \notin Change
    /\ {InFlight, MaxEvents, MaxForwards} \subseteq Nat

VARIABLES
    state,       \* LEADER, CANDIDATE or FOLLOWER
    term,        \* current_term
    votedFor,    \* voted_for
    log,         \* the log: entries [term, change]
    applied,     \* what reached the registry; its length is commit_index
    peers,       \* peers heard of and not forgotten
    match,       \* match_index, 0 for a peer it has no entry of
    votes,       \* votes of a candidate
    leaderId,    \* leader_id
    net,         \* the message under way for every pair, or None
    waiting,     \* propose() calls that wait on a server that has stayed the leader
    proposed,    \* changes proposed so far
    events,      \* how much of MaxEvents is used
    elected,     \* history: who won which term's vote
    confirmed,   \* history: proposals whose event was set
    excused      \* history: what takes a run outside the safe envelope

server == <<state, term, votedFor, log, applied, peers, match, votes, leaderId>>
vars == <<server, net, waiting, proposed, events, elected, confirmed, excused>>

commit(s) == Len(applied[s])
LastTerm(l) == IF l = <<>> THEN 0 ELSE l[Len(l)].term

\* required_votes and required_quorum: a majority of the peers known right now
QuorumOfHalf(s) == (Cardinality(peers[s]) + 1) \div 2
Quorum(s) == (Cardinality(peers[s]) + 1) \div 2 + 1

Others(s) == Server \ {s}

Spend(n) == events + n <= MaxEvents /\ events' = events + n

\* _broadcast and _send_message.  A put may be lost on its way to any of its
\* subscribers, and is lost where the one before it was not taken yet or too much
\* is under way.
UnderWay(n) == {l \in DOMAIN n : n[l] # None}

Puts(n, from, to, m) ==
    {[l \in DOMAIN n |-> IF l[1] = from /\ l[2] \in got THEN m ELSE n[l]] :
        got \in {g \in SUBSET {x \in to : n[<<from, x>>] = None} :
                    Cardinality(g) + Cardinality(UnderWay(n)) <= InFlight}}

AppendEntries(s, t, l, c) == [type |-> "AppendEntries", term |-> t, entries |-> l, commit |-> c]

Heartbeat(n, s, l) == Puts(n, s, Others(s), AppendEntries(s, term[s], l, commit(s)))

-----------------------------------------------------------------------------
(***************************************************************************)
(* _apply_log_entries                                                      *)
(***************************************************************************)

\* Entries up to c go to the registry; the commit index moves to c even where
\* the log is shorter.
AppliedTo(s, l, c) ==
    applied[s] \o [k \in 1..(c - commit(s)) |->
                      IF commit(s) + k <= Len(l) THEN l[commit(s) + k] ELSE None]

\* The event of an index is set when that index is applied, whatever entry it is.
Apply(s, l, c) ==
    LET woken == {w \in waiting : w.by = s /\ w.index <= c /\ w.index <= Len(l)}
    IN  /\ applied' = [applied EXCEPT ![s] = AppliedTo(s, l, c)]
        /\ waiting' = waiting \ woken
        /\ confirmed' = confirmed \cup woken

\* The callers of a leader that steps down wait on; their events may be set for
\* entries that are not theirs, so they are no longer followed here.
StillLed(s) == {w \in waiting : w.by # s}

-----------------------------------------------------------------------------
(***************************************************************************)
(* Timers                                                                  *)
(***************************************************************************)

StartElection(s) ==
    /\ state[s] # "LEADER"
    /\ Spend(1)
    /\ state' = [state EXCEPT ![s] = "CANDIDATE"]
    /\ term' = [term EXCEPT ![s] = @ + 1]
    /\ votedFor' = [votedFor EXCEPT ![s] = s]
    /\ votes' = [votes EXCEPT ![s] = {s}]
    /\ net' \in Puts(net, s, Others(s),
                  [type |-> "RequestVote", term |-> term[s] + 1,
                   lastIndex |-> Len(log[s]), lastTerm |-> LastTerm(log[s])])
    /\ UNCHANGED <<log, applied, peers, match, leaderId, waiting, proposed, elected,
                   confirmed, excused>>

SendHeartbeats(s) ==
    /\ state[s] = "LEADER"
    /\ net' \in Heartbeat(net, s, log[s])
    /\ UNCHANGED <<server, waiting, proposed, events, elected, confirmed, excused>>

-----------------------------------------------------------------------------
(***************************************************************************)
(* propose                                                                 *)
(***************************************************************************)

Fresh(c) == c \in Change \ proposed

\* A leader appends, broadcasts its log and waits for the event of the index.  A
\* call that gives up after 3 s leaves the entry in the log: it is a call whose
\* event comes too late to be seen.
ProposeAtLeader(s, c) ==
    LET entry == [term |-> term[s], change |-> c]
    IN  /\ Fresh(c)
        /\ state[s] = "LEADER" /\ peers[s] # {}
        /\ log' = [log EXCEPT ![s] = Append(@, entry)]
        /\ net' \in Heartbeat(net, s, Append(log[s], entry))
        /\ waiting' = waiting \cup {[by |-> s, index |-> Len(log[s]) + 1,
                                     entry |-> entry]}
        /\ proposed' = proposed \cup {c}
        /\ UNCHANGED <<state, term, votedFor, applied, peers, match, votes, leaderId,
                       events, elected, confirmed, excused>>

\* A server that has heard of nobody makes itself the leader, whatever it was
\* and without a new term, and is its own majority.
ProposeAlone(s, c) ==
    LET l == Append(log[s], [term |-> term[s], change |-> c])
    IN  /\ Fresh(c)
        /\ peers[s] = {}
        /\ state' = [state EXCEPT ![s] = "LEADER"]
        /\ leaderId' = [leaderId EXCEPT ![s] = s]
        /\ log' = [log EXCEPT ![s] = l]
        /\ net' \in Heartbeat(net, s, l)
        /\ Apply(s, l, Len(l))
        /\ proposed' = proposed \cup {c}
        /\ excused' = excused \cup {"promoted"}
        /\ UNCHANGED <<term, votedFor, peers, match, votes, events, elected>>

\* A follower forwards and polls its own log for 1.5 s without letting go of the
\* lock, so no handler can extend that log: the call always times out.
ProposeForwarded(s, c) ==
    /\ Fresh(c)
    /\ Cardinality(Change \ proposed) <= MaxForwards
    /\ state[s] # "LEADER" /\ peers[s] # {} /\ leaderId[s] # None
    /\ net' \in Puts(net, s, {leaderId[s]}, [type |-> "Propose", change |-> c])
    /\ proposed' = proposed \cup {c}
    /\ UNCHANGED <<server, waiting, events, elected, confirmed, excused>>

-----------------------------------------------------------------------------
(***************************************************************************)
(* _process_message and the five handlers                                  *)
(***************************************************************************)

\* Any message refreshes its sender and may find other peers silent for 5 s.
Hears(s, from, kind) ==
    /\ net[<<from, s>>] # None /\ net[<<from, s>>].type = kind
    /\ \E silent \in SUBSET (peers[s] \ {from}) :
          /\ Spend(Cardinality(silent))
          /\ peers' = [peers EXCEPT ![s] = (@ \ silent) \cup {from}]

Forgotten(s) == [p \in Server |-> IF p \in peers'[s] THEN match[s][p] ELSE 0]

Taken(s, from) == [net EXCEPT ![<<from, s>>] = None]

\* A vote is free for the first candidate of a term whose log is not behind.
LogIgnored(s, m) == TRUE
LogOk(s, m) ==
    \/ m.lastTerm > LastTerm(log[s])
    \/ m.lastTerm = LastTerm(log[s]) /\ m.lastIndex >= Len(log[s])

NewerOrSame(s, m) == m.term >= term[s]
Newer(s, m) == m.term > term[s]

FreeForAll(vote, candidate) == TRUE
Free(vote, candidate) == vote \in {None, candidate}

HandleRequestVote(s, from) ==
    LET m == net[<<from, s>>]
        newer == Newer(s, m)
        vote == IF newer THEN None ELSE votedFor[s]
        granted == m.term >= term[s] /\ Free(vote, from) /\ LogOk(s, m)
    IN  /\ Hears(s, from, "RequestVote")
        /\ term' = [term EXCEPT ![s] = Max({@, m.term})]
        /\ state' = [state EXCEPT ![s] = IF newer THEN "FOLLOWER" ELSE @]
        /\ leaderId' = [leaderId EXCEPT ![s] = IF newer THEN None ELSE @]
        /\ votedFor' = [votedFor EXCEPT ![s] = IF granted THEN from ELSE vote]
        /\ waiting' = IF newer THEN StillLed(s) ELSE waiting
        /\ net' \in Puts(Taken(s, from), s, {from},
                      [type |-> "RequestVoteResponse", term |-> term'[s],
                       granted |-> granted])
        /\ match' = [match EXCEPT ![s] = Forgotten(s)]
        /\ UNCHANGED <<log, applied, votes, proposed, elected, confirmed, excused>>

\* Only a candidate of that very term counts the vote; the last one it needs
\* makes it the leader, which forgets what followers had and sends heartbeats.
HandleVoteResponse(s, from) ==
    LET m == net[<<from, s>>]
        counts == state[s] = "CANDIDATE" /\ m.term = term[s] /\ m.granted
        poll == votes[s] \cup {from}
        wins == counts /\ Cardinality(poll) >= Quorum(s)'
    IN  /\ Hears(s, from, "RequestVoteResponse")
        /\ votes' = [votes EXCEPT ![s] = IF counts THEN poll ELSE @]
        /\ state' = [state EXCEPT ![s] = IF wins THEN "LEADER" ELSE @]
        /\ leaderId' = [leaderId EXCEPT ![s] = IF wins THEN s ELSE @]
        /\ match' = [match EXCEPT ![s] = IF wins THEN [p \in Server |-> 0] ELSE Forgotten(s)]
        /\ elected' = IF wins THEN elected \cup {<<term[s], s>>} ELSE elected
        /\ net' \in IF wins THEN Heartbeat(Taken(s, from), s, log[s]) ELSE {Taken(s, from)}
        /\ UNCHANGED <<term, votedFor, log, applied, waiting, proposed, confirmed, excused>>

\* A leader of this term or a later one is followed: its log replaces the
\* server's own, and its commit index is caught up with.
HandleAppendEntries(s, from) ==
    LET m == net[<<from, s>>]
        follows == m.term >= term[s]
        yields == m.term > term[s] \/ state[s] # "FOLLOWER"
    IN  /\ Hears(s, from, "AppendEntries")
        /\ term' = [term EXCEPT ![s] = Max({@, m.term})]
        /\ IF follows
           THEN /\ state' = [state EXCEPT ![s] = "FOLLOWER"]
                /\ votedFor' = [votedFor EXCEPT ![s] = IF yields THEN None ELSE @]
                /\ leaderId' = [leaderId EXCEPT ![s] = from]
                /\ log' = [log EXCEPT ![s] = m.entries]
                /\ applied' = [applied EXCEPT ![s] = AppliedTo(s, m.entries, m.commit)]
                /\ waiting' = StillLed(s)
           ELSE UNCHANGED <<state, votedFor, leaderId, log, applied, waiting>>
        /\ net' \in Puts(Taken(s, from), s, {from},
                      [type |-> "AppendEntriesResponse", term |-> term'[s],
                       success |-> follows, index |-> Len(log'[s])])
        /\ match' = [match EXCEPT ![s] = Forgotten(s)]
        /\ UNCHANGED <<votes, proposed, elected, confirmed, excused>>

\* The highest index a quorum has, counting the leader itself
Replicated(s, l, matched) ==
    {n \in (commit(s) + 1)..Len(l) :
        1 + Cardinality({p \in Server : matched[p] >= n}) >= Quorum(s)'}

HandleAppendResponse(s, from) ==
    LET m == net[<<from, s>>]
        counts == state[s] = "LEADER" /\ m.term = term[s] /\ m.success
        matched == IF counts THEN [Forgotten(s) EXCEPT ![from] = m.index] ELSE Forgotten(s)
        ready == IF counts THEN Replicated(s, log[s], matched) ELSE {}
    IN  /\ Hears(s, from, "AppendEntriesResponse")
        /\ match' = [match EXCEPT ![s] = matched]
        /\ IF m.term > term[s]
           THEN /\ term' = [term EXCEPT ![s] = m.term]
                /\ state' = [state EXCEPT ![s] = "FOLLOWER"]
                /\ votedFor' = [votedFor EXCEPT ![s] = None]
                /\ leaderId' = [leaderId EXCEPT ![s] = None]
                /\ waiting' = StillLed(s)
                /\ UNCHANGED <<applied, confirmed, excused>>
           ELSE /\ IF ready = {} THEN UNCHANGED <<applied, waiting, confirmed, excused>>
                   ELSE /\ Apply(s, log[s], Max(ready))
                        /\ excused' = IF log[s][Max(ready)].term = term[s] THEN excused
                                      ELSE excused \cup {"old term"}
                /\ UNCHANGED <<term, state, votedFor, leaderId>>
        /\ net' = Taken(s, from)
        /\ UNCHANGED <<log, votes, proposed, elected>>

HandlePropose(s, from) ==
    LET m == net[<<from, s>>]
        l == Append(log[s], [term |-> term[s], change |-> m.change])
    IN  /\ Hears(s, from, "Propose")
        /\ IF state[s] = "LEADER"
           THEN /\ log' = [log EXCEPT ![s] = l]
                /\ net' \in Heartbeat(Taken(s, from), s, l)
           ELSE /\ UNCHANGED log
                /\ net' = Taken(s, from)
        /\ match' = [match EXCEPT ![s] = Forgotten(s)]
        /\ UNCHANGED <<state, term, votedFor, applied, votes, leaderId, waiting, proposed,
                       elected, confirmed, excused>>

-----------------------------------------------------------------------------
\* Terms count from the one the cluster has when the run begins.  Newcomers are at
\* term 0 and have heard of nobody; the others have met.
Init ==
    /\ state = [s \in Server |-> "FOLLOWER"]
    /\ votedFor = [s \in Server |-> None]
    /\ log = [s \in Server |-> <<>>]
    /\ applied = [s \in Server |-> <<>>]
    /\ \E new \in {n \in SUBSET Server : Cardinality(n) <= MaxEvents} :
          /\ peers = [s \in Server |-> IF s \in new THEN {} ELSE Others(s)]
          /\ term = [s \in Server |-> IF new = {} \/ s \in new THEN 0 ELSE 1]
          /\ events = Cardinality(new)
    /\ match = [s \in Server |-> [p \in Server |-> 0]]
    /\ votes = [s \in Server |-> {}]
    /\ leaderId = [s \in Server |-> None]
    /\ net = [l \in {p \in Server \X Server : p[1] # p[2]} |-> None]
    /\ waiting = {} /\ proposed = {}
    /\ elected = {} /\ confirmed = {} /\ excused = {}

Next ==
    \/ \E s \in Server : StartElection(s) \/ SendHeartbeats(s)
    \/ \E s \in Server, c \in Change :
          ProposeAtLeader(s, c) \/ ProposeAlone(s, c) \/ ProposeForwarded(s, c)
    \/ \E s \in Server : \E from \in Others(s) :
          \/ HandleRequestVote(s, from)
          \/ HandleVoteResponse(s, from)
          \/ HandleAppendEntries(s, from)
          \/ HandleAppendResponse(s, from)
          \/ HandlePropose(s, from)

Spec == Init /\ [][Next]_vars

-----------------------------------------------------------------------------
\* At most one server wins the vote of a term, although the quorum counts only the
\* peers known at that moment and a candidate that yields may vote once more.
ElectionSafety ==
    \A a, b \in elected : a[1] = b[1] => a = b

\* Two logs that hold an entry of the same term at the same index hold the same
\* entries up to it.
LogMatching ==
    "promoted" \notin excused =>
        \A a, b \in Server :
            \A i \in 1..Len(log[a]) :
                i <= Len(log[b]) /\ log[a][i].term = log[b][i].term
                    => \A k \in 1..i : log[a][k] = log[b][k]

\* No two registries apply different changes at one index, as long as no server
\* made itself leader and no leader counted replicas of an earlier term's entry.
AppliedAgree ==
    excused = {} =>
        \A a, b \in Server :
            \A i \in 1..Len(applied[a]) : i <= Len(applied[b]) => applied[a][i] = applied[b][i]

\* A proposal that returned while its server had stayed the leader is the entry
\* every registry applies at its index.
ConfirmedSurvives ==
    excused = {} =>
        \A c \in confirmed :
            \A s \in Server : c.index <= Len(applied[s]) => applied[s][c.index] = c.entry
=============================================================================
