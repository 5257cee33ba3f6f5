---------------------------- MODULE ConsensusProofs ----------------------------
(***************************************************************************)
(* The quarantined Raft engine with at most three Schedulers, for any      *)
(* number of elections, newcomers, silent peers, proposals and messages    *)
(* under way: one winner per term, logs that match, registries that agree  *)
(* and proposals that stay.  Three is where the quorum of known peers is   *)
(* still a majority whatever was forgotten: nobody wins or commits without *)
(* another one that it heard, and the two are a majority of three.         *)
(***************************************************************************)
EXTENDS Consensus, FiniteSetTheorems, SequenceTheorems, WellFoundedInduction, TLAPS

AtMostThree == Cardinality(Server) <= 3

-----------------------------------------------------------------------------
(***************************************************************************)
(* The election invariant                                                  *)
(***************************************************************************)

Sent(a, b) == net[<<a, b>>]

Links == {p \in Server \X Server : p[1] # p[2]}

\* v cannot vote for another than c in term t any more.
Binding(v, t, c) ==
    \/ term[v] > t
    \/ term[v] = t /\ votedFor[v] = c /\ state[v] = "FOLLOWER"

\* A granted vote that may still be counted, or was counted by a candidate.
GrantOnItsWay(v, c, t) ==
    /\ Sent(v, c) # None
    /\ Sent(v, c).type = "RequestVoteResponse" /\ Sent(v, c).granted /\ Sent(v, c).term = t
GrantCounted(v, c, t) == state[c] = "CANDIDATE" /\ term[c] = t /\ v \in votes[c]
Grants(v, c, t) == GrantOnItsWay(v, c, t) \/ GrantCounted(v, c, t)

\* c acts as the leader of term t, or messages it sent as such are under way.
LeadsBy(c, b, t) ==
    Sent(c, b) # None /\ Sent(c, b).type = "AppendEntries" /\ Sent(c, b).term = t
Leads(c, t) ==
    \/ state[c] = "LEADER" /\ term[c] = t
    \/ \E b \in Server \ {c} : LeadsBy(c, b, t)

\* x has not led in term t: it has not reached it, or is still its candidate.
Fresher(x, t) == term[x] < t \/ (term[x] = t /\ state[x] = "CANDIDATE")

VoteType ==
    /\ state \in [Server -> {"LEADER", "CANDIDATE", "FOLLOWER"}]
    /\ term \in [Server -> Nat]
    /\ votedFor \in [Server -> Server \cup {None}]
    /\ votes \in [Server -> SUBSET Server]
    /\ peers \in [Server -> SUBSET Server]
    /\ DOMAIN net = Links

\* Whom a server has voted for, by its state.
OwnVote(s) ==
    /\ peers[s] = {} => votedFor[s] = s \/ (votedFor[s] = None /\ term[s] = 0)
    /\ state[s] = "CANDIDATE" => votedFor[s] = s /\ term[s] > 0
    /\ state[s] = "LEADER" => votedFor[s] = s \/ term[s] = 0

\* What is under way from a to b was said by a in some term up to its own.
Said(a, b) ==
    Sent(a, b) # None =>
        /\ Sent(a, b).type \in {"RequestVote", "RequestVoteResponse", "AppendEntries",
                               "AppendEntriesResponse"} => Sent(a, b).term \in Nat
        /\ Sent(a, b).type = "RequestVote" => Sent(a, b).term > 0
        /\ Sent(a, b).type = "AppendEntries" =>
              /\ Sent(a, b).term <= term[a]
              /\ Sent(a, b).term = term[a] => state[a] # "CANDIDATE"

VotesBind ==
    \A v, c \in Server, t \in Nat : v # c /\ Grants(v, c, t) => Binding(v, t, c)

VotesOnce ==
    \A v, c, d \in Server, t \in Nat :
        v # c /\ v # d /\ Grants(v, c, t) /\ Grants(v, d, t) => c = d

\* Where two of three have not led, the third was never deposed in the term by
\* another leader: if it led, it still has its own vote.
LoneLeader ==
    \A a, b, c \in Server, t \in Nat :
        a # b /\ c \notin {a, b} /\ Fresher(a, t) /\ Fresher(b, t) /\ Leads(c, t) =>
            /\ \A d \in Server \ {c} : ~Grants(c, d, t)
            /\ term[c] > t \/ (term[c] = t /\ votedFor[c] = c)

\* While b could still win term t, which a has won, the third is bound to a and never
\* led, and a has not been deposed in the term, so neither can vote for b.
Decided ==
    \A a, b \in Server, t \in Nat :
        <<t, a>> \in elected /\ a # b /\ Fresher(b, t) =>
            /\ term[a] > t \/ (term[a] = t /\ state[a] = "LEADER" /\ votedFor[a] = a)
            /\ \A d \in Server \ {a} : ~Grants(a, d, t)
            /\ \A c \in Server \ {a, b} :
                  /\ Binding(c, t, a) /\ ~Leads(c, t)
                  /\ \A d \in Server \ {a, c} : ~Grants(c, d, t)

ElectionInv ==
    /\ VoteType
    /\ elected \subseteq Nat \X Server
    /\ \A s \in Server : OwnVote(s)
    /\ \A a, b \in Server : a # b => Said(a, b)
    /\ VotesBind /\ VotesOnce /\ LoneLeader /\ Decided
    /\ \A t \in Nat, a, b \in Server : <<t, a>> \in elected /\ <<t, b>> \in elected => a = b

-----------------------------------------------------------------------------
(***************************************************************************)
(* What a step of one server does to votes and terms                       *)
(***************************************************************************)

SameBut(s) ==
    \A x \in Server \ {s} : /\ state'[x] = state[x] /\ term'[x] = term[x]
                            /\ votedFor'[x] = votedFor[x] /\ votes'[x] = votes[x]
                            /\ peers'[x] = peers[x]

Heard(s) == peers'[s] # {}

\* Nothing that votes depend on.
Quiet(s) ==
    /\ state'[s] = state[s] /\ term'[s] = term[s] /\ votedFor'[s] = votedFor[s]
    /\ votes'[s] = votes[s] /\ elected' = elected
    /\ peers'[s] = peers[s] \/ Heard(s)

Stands(s) ==
    /\ state[s] # "LEADER"
    /\ state'[s] = "CANDIDATE" /\ term'[s] = term[s] + 1 /\ votedFor'[s] = s
    /\ votes'[s] = {s} /\ elected' = elected /\ peers'[s] = peers[s]

Promotes(s) ==
    /\ peers[s] = {}
    /\ state'[s] = "LEADER" /\ term'[s] = term[s] /\ votedFor'[s] = votedFor[s]
    /\ votes'[s] = votes[s] /\ elected' = elected /\ peers'[s] = peers[s]

MovesOn(s) ==
    /\ term'[s] \in Nat /\ term'[s] > term[s]
    /\ state'[s] = "FOLLOWER" /\ votedFor'[s] = None
    /\ votes'[s] = votes[s] /\ elected' = elected /\ Heard(s)

\* c asked for the vote that s gives, and its log is not behind.
Asked(s, c) ==
    /\ Sent(c, s) # None /\ Sent(c, s).type = "RequestVote" /\ Sent(c, s).term = term'[s]
    /\ LogOk(s, Sent(c, s))

GrantsTo(s, c) ==
    /\ c \in Server \ {s} /\ Asked(s, c)
    /\ term'[s] \in Nat /\ term'[s] > 0 /\ votedFor'[s] = c
    /\ \/ term'[s] > term[s] /\ state'[s] = "FOLLOWER"
       \/ /\ term'[s] = term[s] /\ state'[s] = state[s]
          /\ votedFor[s] \in {None, c}
    /\ votes'[s] = votes[s] /\ elected' = elected /\ Heard(s)

Counts(s, v) ==
    /\ v \in Server \ {s} /\ state[s] = "CANDIDATE" /\ GrantOnItsWay(v, s, term[s])
    /\ term'[s] = term[s] /\ votedFor'[s] = votedFor[s]
    /\ votes'[s] = votes[s] \cup {v} /\ Heard(s)
    /\ \/ state'[s] = "CANDIDATE" /\ elected' = elected
       \/ state'[s] = "LEADER" /\ elected' = elected \cup {<<term[s], s>>}

YieldsTo(s, x) ==
    /\ x \in Server \ {s} /\ LeadsBy(x, s, term[s])
    /\ state'[s] = "FOLLOWER" /\ term'[s] = term[s]
    /\ votedFor'[s] = (IF state[s] = "FOLLOWER" THEN votedFor[s] ELSE None)
    /\ votes'[s] = votes[s] /\ elected' = elected /\ Heard(s)

Moves(s) ==
    \/ Quiet(s) \/ Stands(s) \/ Promotes(s) \/ MovesOn(s)
    \/ \E c \in Server : GrantsTo(s, c) \/ Counts(s, c) \/ YieldsTo(s, c)

\* What s may put on its way to b.
May(s, b, m) ==
    /\ m.type \in {"RequestVote", "RequestVoteResponse", "AppendEntries",
                   "AppendEntriesResponse"} => m.term \in Nat
    /\ m.type = "RequestVote" => m.term > 0
    /\ m.type = "AppendEntries" => m.term = term'[s] /\ state'[s] = "LEADER"
    /\ m.type = "RequestVoteResponse" /\ m.granted => GrantsTo(s, b) /\ m.term = term'[s]

Sends(s) ==
    /\ DOMAIN net' = Links
    /\ \A a, b \in Server : a # b =>
          \/ Sent(a, b)' = Sent(a, b) \/ Sent(a, b)' = None
          \/ a = s /\ May(s, b, Sent(a, b)')

VoteStepOf(s) ==
    /\ SameBut(s) /\ Moves(s) /\ Sends(s)
    /\ state' \in [Server -> {"LEADER", "CANDIDATE", "FOLLOWER"}]
    /\ term' \in [Server -> Nat]
    /\ votedFor' \in [Server -> Server \cup {None}]
    /\ votes' \in [Server -> SUBSET Server]
    /\ peers' \in [Server -> SUBSET Server]

\* Putting one message, and taking one.
LEMMA PutFacts ==
    ASSUME NEW n, DOMAIN n = Links, NEW s \in Server, NEW to,
           NEW m, NEW n1 \in Puts(n, s, to, m)
    PROVE  /\ DOMAIN n1 = Links
           /\ \A a, b \in Server : a # b =>
                 n1[<<a, b>>] = n[<<a, b>>] \/ (a = s /\ b \in to /\ n1[<<a, b>>] = m)
<1>1. PICK got : n1 = [l \in Links |-> IF l[1] = s /\ l[2] \in got THEN m ELSE n[l]]
                 /\ got \subseteq to
  BY DEF Puts
<1>2. DOMAIN n1 = Links BY <1>1
<1>3. ASSUME NEW a \in Server, NEW b \in Server, a # b
      PROVE  n1[<<a, b>>] = n[<<a, b>>] \/ (a = s /\ b \in to /\ n1[<<a, b>>] = m)
  <2> DEFINE l == <<a, b>>
  <2>1. l \in Links /\ l[1] = a /\ l[2] = b BY <1>3 DEF Links
  <2>2. n1[l] = IF l[1] = s /\ l[2] \in got THEN m ELSE n[l] BY <1>1, <2>1
  <2> QED BY <1>1, <2>1, <2>2
<1> QED BY <1>2, <1>3

LEMMA TakeFacts ==
    ASSUME DOMAIN net = Links, NEW s \in Server, NEW from \in Server, s # from
    PROVE  /\ DOMAIN Taken(s, from) = Links
           /\ \A a, b \in Server : a # b =>
                 Taken(s, from)[<<a, b>>] = net[<<a, b>>] \/ Taken(s, from)[<<a, b>>] = None
<1>1. DOMAIN Taken(s, from) = Links BY DEF Taken
<1>2. ASSUME NEW a \in Server, NEW b \in Server, a # b
      PROVE  Taken(s, from)[<<a, b>>] = net[<<a, b>>] \/ Taken(s, from)[<<a, b>>] = None
  <2> DEFINE l == <<a, b>>
  <2>1. l \in DOMAIN net BY <1>2 DEF Links
  <2>2. Taken(s, from)[l] = IF l = <<from, s>> THEN None ELSE net[l] BY <2>1 DEF Taken
  <2> QED BY <2>2
<1> QED BY <1>1, <1>2

LEMMA MaxFacts ==
    ASSUME NEW a \in Nat, NEW b \in Nat
    PROVE  Max({a, b}) = IF a >= b THEN a ELSE b
<1>1. ASSUME NEW x \in {a, b}, \A y \in {a, b} : x >= y PROVE Max({a, b}) = x
  <2>1. \A z \in {a, b} : (\A y \in {a, b} : z >= y) => z = x BY <1>1
  <2> QED BY <1>1, <2>1 DEF Max
<1>2. CASE a >= b BY <1>1, <1>2
<1>3. CASE b > a BY <1>1, <1>3
<1> QED BY <1>2, <1>3

\* Both together: what is taken is gone, what is put is one message of s.
LEMMA AnswerFacts ==
    ASSUME DOMAIN net = Links, NEW s \in Server, NEW from \in Server, s # from,
           NEW to, NEW m,
           net' \in Puts(Taken(s, from), s, to, m),
           \A b \in to : b # s => May(s, b, m)
    PROVE  Sends(s)
<1>1. /\ DOMAIN Taken(s, from) = Links
      /\ \A a, b \in Server : a # b =>
            Taken(s, from)[<<a, b>>] = net[<<a, b>>] \/ Taken(s, from)[<<a, b>>] = None
  BY TakeFacts
<1> DEFINE n == Taken(s, from)
<1> HIDE DEF n
<1>2. /\ DOMAIN net' = Links
      /\ \A a, b \in Server : a # b =>
            net'[<<a, b>>] = n[<<a, b>>] \/ (a = s /\ b \in to /\ net'[<<a, b>>] = m)
  BY <1>1, PutFacts DEF n
<1> QED BY <1>1, <1>2 DEF Sends, Sent, n

LEMMA PutOnlyFacts ==
    ASSUME DOMAIN net = Links, NEW s \in Server, NEW to, NEW m,
           net' \in Puts(net, s, to, m), \A b \in to : b # s => May(s, b, m)
    PROVE  Sends(s)
<1>1. /\ DOMAIN net' = Links
      /\ \A a, b \in Server : a # b =>
            net'[<<a, b>>] = net[<<a, b>>] \/ (a = s /\ b \in to /\ net'[<<a, b>>] = m)
  BY PutFacts
<1> QED BY <1>1 DEF Sends, Sent

LEMMA TakeOnlyFacts ==
    ASSUME DOMAIN net = Links, NEW s \in Server, NEW from \in Server, s # from,
           net' = Taken(s, from)
    PROVE  Sends(s)
BY TakeFacts DEF Sends, Sent

LEMMA HeartbeatFacts ==
    ASSUME VoteType, NEW s \in Server, NEW n, NEW l,
           \/ n = net
           \/ \E from \in Server \ {s} : n = Taken(s, from),
           net' \in Heartbeat(n, s, l), state'[s] = "LEADER", term'[s] = term[s]
    PROVE  Sends(s)
<1> DEFINE m == AppendEntries(s, term[s], l, commit(s))
<1>1. m.type = "AppendEntries" /\ m.term = term[s] BY DEF AppendEntries
<1>2. term[s] \in Nat /\ DOMAIN net = Links BY DEF VoteType
<1>3. net' \in Puts(n, s, Others(s), m)
  BY DEF Heartbeat
<1> HIDE DEF m
<1>4. \A b \in Others(s) : May(s, b, m) BY <1>1, <1>2 DEF May
<1>5. CASE n = net BY <1>2, <1>3, <1>4, <1>5, PutOnlyFacts
<1>6. ASSUME NEW from \in Server \ {s}, n = Taken(s, from) PROVE Sends(s)
  BY <1>2, <1>3, <1>4, <1>6, AnswerFacts
<1> QED BY <1>5, <1>6

LEMMA HearsFacts ==
    ASSUME VoteType, NEW s \in Server, NEW from \in Server \ {s}, NEW kind, Hears(s, from, kind)
    PROVE  /\ peers' \in [Server -> SUBSET Server]
           /\ Heard(s) /\ \A x \in Server \ {s} : peers'[x] = peers[x]
           /\ Sent(from, s) # None /\ Sent(from, s).type = kind
<1>1. PICK silent \in SUBSET (peers[s] \ {from}) :
          peers' = [peers EXCEPT ![s] = (@ \ silent) \cup {from}]
  BY DEF Hears
<1> QED BY <1>1 DEF Hears, Heard, VoteType, Sent

-----------------------------------------------------------------------------
(***************************************************************************)
(* Each action is such a step                                              *)
(***************************************************************************)

LEMMA StartElectionVotes ==
    ASSUME ElectionInv, NEW s \in Server, StartElection(s)
    PROVE  VoteStepOf(s)
<1> USE DEF ElectionInv, VoteType
<1> DEFINE m == [type |-> "RequestVote", term |-> term[s] + 1,
                 lastIndex |-> Len(log[s]), lastTerm |-> LastTerm(log[s])]
<1>1. m.type = "RequestVote" /\ m.term \in Nat /\ m.term > 0 OBVIOUS
<1>2. net' \in Puts(net, s, Others(s), m) BY DEF StartElection
<1> HIDE DEF m
<1>3. \A b \in Others(s) : b # s => May(s, b, m) BY <1>1 DEF May
<1>4. Sends(s) BY <1>2, <1>3, PutOnlyFacts
<1>5. /\ SameBut(s) /\ Stands(s)
      /\ state' \in [Server -> {"LEADER", "CANDIDATE", "FOLLOWER"}]
      /\ term' \in [Server -> Nat]
      /\ votedFor' \in [Server -> Server \cup {None}]
      /\ votes' \in [Server -> SUBSET Server]
      /\ peers' \in [Server -> SUBSET Server]
  BY DEF StartElection, SameBut, Stands
<1> QED BY <1>4, <1>5 DEF VoteStepOf, Moves

LEMMA SendHeartbeatsVotes ==
    ASSUME ElectionInv, NEW s \in Server, SendHeartbeats(s)
    PROVE  VoteStepOf(s)
<1> USE DEF ElectionInv
<1>1. SameBut(s) /\ Quiet(s) /\ UNCHANGED <<state, term, votedFor, votes, peers>>
  BY DEF SendHeartbeats, server, SameBut, Quiet
<1>2. Sends(s)
  <2>1. net' \in Heartbeat(net, s, log[s]) /\ state'[s] = "LEADER" /\ term'[s] = term[s]
    BY DEF SendHeartbeats, server
  <2> QED BY <2>1, HeartbeatFacts
<1> QED BY <1>1, <1>2 DEF VoteStepOf, Moves, VoteType

LEMMA ProposeAtLeaderVotes ==
    ASSUME ElectionInv, NEW s \in Server, NEW c, ProposeAtLeader(s, c)
    PROVE  VoteStepOf(s)
<1> USE DEF ElectionInv
<1>1. SameBut(s) /\ Quiet(s) /\ UNCHANGED <<state, term, votedFor, votes, peers>>
  BY DEF ProposeAtLeader, SameBut, Quiet
<1>2. Sends(s)
  <2>1. net' \in Heartbeat(net, s, Append(log[s], [term |-> term[s], change |-> c]))
        /\ state'[s] = "LEADER" /\ term'[s] = term[s]
    BY DEF ProposeAtLeader
  <2> QED BY <2>1, HeartbeatFacts
<1> QED BY <1>1, <1>2 DEF VoteStepOf, Moves, VoteType

LEMMA ProposeAloneVotes ==
    ASSUME ElectionInv, NEW s \in Server, NEW c, ProposeAlone(s, c)
    PROVE  VoteStepOf(s)
<1> USE DEF ElectionInv
<1>1. /\ SameBut(s) /\ Promotes(s) /\ UNCHANGED <<term, votedFor, votes, peers>>
      /\ state' \in [Server -> {"LEADER", "CANDIDATE", "FOLLOWER"}]
  BY DEF ProposeAlone, SameBut, Promotes, VoteType
<1>2. Sends(s)
  <2>1. net' \in Heartbeat(net, s, Append(log[s], [term |-> term[s], change |-> c]))
        /\ state'[s] = "LEADER" /\ term'[s] = term[s]
    BY DEF ProposeAlone, VoteType
  <2> QED BY <2>1, HeartbeatFacts
<1> QED BY <1>1, <1>2 DEF VoteStepOf, Moves, VoteType

LEMMA ProposeForwardedVotes ==
    ASSUME ElectionInv, NEW s \in Server, NEW c, ProposeForwarded(s, c)
    PROVE  VoteStepOf(s)
<1> USE DEF ElectionInv
<1>1. SameBut(s) /\ Quiet(s) /\ UNCHANGED <<state, term, votedFor, votes, peers>>
  BY DEF ProposeForwarded, server, SameBut, Quiet
<1>2. Sends(s)
  <2> DEFINE m == [type |-> "Propose", change |-> c]
  <2>1. m.type = "Propose" OBVIOUS
  <2>2. net' \in Puts(net, s, {leaderId[s]}, m) BY DEF ProposeForwarded
  <2> HIDE DEF m
  <2>3. \A b \in {leaderId[s]} : b # s => May(s, b, m) BY <2>1 DEF May
  <2> QED BY <2>2, <2>3, PutOnlyFacts DEF VoteType
<1> QED BY <1>1, <1>2 DEF VoteStepOf, Moves, VoteType

LEMMA HandleProposeVotes ==
    ASSUME ElectionInv, NEW s \in Server, NEW from \in Others(s), HandlePropose(s, from)
    PROVE  VoteStepOf(s)
<1> USE DEF ElectionInv
<1>0. from \in Server \ {s} BY DEF Others
<1>1. /\ peers' \in [Server -> SUBSET Server]
      /\ Heard(s) /\ \A x \in Server \ {s} : peers'[x] = peers[x]
  <2>1. Hears(s, from, "Propose") BY DEF HandlePropose
  <2> QED BY <1>0, <2>1, HearsFacts
<1>2. SameBut(s) /\ Quiet(s) /\ UNCHANGED <<state, term, votedFor, votes>>
  BY <1>1 DEF HandlePropose, SameBut, Quiet
<1>3. Sends(s)
  <2>1. CASE state[s] = "LEADER"
    <3>1. net' \in Heartbeat(Taken(s, from), s,
                    Append(log[s], [term |-> term[s], change |-> net[<<from, s>>].change]))
          /\ state'[s] = "LEADER" /\ term'[s] = term[s]
      BY <2>1, <1>2 DEF HandlePropose
    <3> QED BY <1>0, <3>1, HeartbeatFacts
  <2>2. CASE state[s] # "LEADER"
    BY <2>2, <1>0, TakeOnlyFacts DEF HandlePropose, VoteType
  <2> QED BY <2>1, <2>2
<1> QED BY <1>1, <1>2, <1>3 DEF VoteStepOf, Moves, VoteType

LEMMA HandleRequestVoteVotes ==
    ASSUME ElectionInv, NEW s \in Server, NEW from \in Others(s), HandleRequestVote(s, from)
    PROVE  VoteStepOf(s)
<1> USE DEF ElectionInv
<1>0. from \in Server \ {s} BY DEF Others
<1> DEFINE t == net[<<from, s>>].term
           vote == IF t > term[s] THEN None ELSE votedFor[s]
           granted == t >= term[s] /\ Free(vote, from) /\ LogOk(s, net[<<from, s>>])
           m == [type |-> "RequestVoteResponse", term |-> term'[s], granted |-> granted]
<1>1. Hears(s, from, "RequestVote") BY DEF HandleRequestVote
<1>2. /\ peers' \in [Server -> SUBSET Server]
      /\ Heard(s) /\ \A x \in Server \ {s} : peers'[x] = peers[x]
      /\ Sent(from, s) # None /\ Sent(from, s).type = "RequestVote"
  BY <1>0, <1>1, HearsFacts
<1>3. t \in Nat /\ t > 0 BY <1>0, <1>2 DEF Said, Sent
<1>4. /\ term' = [term EXCEPT ![s] = Max({@, t})]
      /\ state' = [state EXCEPT ![s] = IF t > term[s] THEN "FOLLOWER" ELSE @]
      /\ votedFor' = [votedFor EXCEPT ![s] = IF granted THEN from ELSE vote]
      /\ votes' = votes /\ elected' = elected
      /\ net' \in Puts(Taken(s, from), s, {from}, m)
  BY DEF HandleRequestVote, Newer
<1>5. m.type = "RequestVoteResponse" /\ m.term = term'[s] /\ m.granted = granted OBVIOUS
<1>6. granted => /\ t >= term[s] /\ (t = term[s] => votedFor[s] \in {None, from})
                 /\ LogOk(s, Sent(from, s))
  BY <1>3 DEF Free, VoteType, Sent
<1>61. Sent(from, s).term = t BY DEF Sent
<1> HIDE DEF m, granted, t
<1>7. Max({term[s], t}) = IF term[s] >= t THEN term[s] ELSE t BY <1>3, MaxFacts DEF VoteType
<1>8. /\ term' \in [Server -> Nat] /\ term'[s] = IF t > term[s] THEN t ELSE term[s]
      /\ state' \in [Server -> {"LEADER", "CANDIDATE", "FOLLOWER"}]
      /\ state'[s] = IF t > term[s] THEN "FOLLOWER" ELSE state[s]
      /\ votedFor' \in [Server -> Server \cup {None}]
      /\ votedFor'[s] = IF granted THEN from ELSE vote
      /\ votes' \in [Server -> SUBSET Server]
  <2>1. term' = [term EXCEPT ![s] = IF term[s] >= t THEN term[s] ELSE t] BY <1>4, <1>7
  <2> QED BY <1>0, <1>3, <1>4, <2>1 DEF VoteType
<1>9. SameBut(s) BY <1>2, <1>4 DEF SameBut, VoteType
<1>10. granted => GrantsTo(s, from)
  <2>1. granted => Asked(s, from) BY <1>2, <1>3, <1>6, <1>61, <1>8 DEF Asked, VoteType
  <2> QED BY <1>0, <1>2, <1>3, <1>4, <1>6, <1>8, <2>1 DEF GrantsTo, VoteType
<1>11. Moves(s)
  <2>1. CASE granted BY <2>1, <1>0, <1>10 DEF Moves
  <2>2. CASE ~granted /\ t > term[s]
    <3>1. MovesOn(s) BY <2>2, <1>2, <1>3, <1>4, <1>8 DEF MovesOn, VoteType
    <3> QED BY <3>1 DEF Moves
  <2>3. CASE ~granted /\ ~(t > term[s])
    <3>1. Quiet(s) BY <2>3, <1>2, <1>4, <1>8 DEF Quiet
    <3> QED BY <3>1 DEF Moves
  <2> QED BY <2>1, <2>2, <2>3
<1>12. Sends(s)
  <2>1. \A b \in {from} : b # s => May(s, b, m)
    BY <1>0, <1>5, <1>8, <1>10 DEF May
  <2> QED BY <1>0, <1>4, <2>1, AnswerFacts DEF VoteType
<1> QED BY <1>2, <1>8, <1>9, <1>11, <1>12 DEF VoteStepOf

LEMMA HandleVoteResponseVotes ==
    ASSUME ElectionInv, NEW s \in Server, NEW from \in Others(s), HandleVoteResponse(s, from)
    PROVE  VoteStepOf(s)
<1> USE DEF ElectionInv
<1>0. from \in Server \ {s} BY DEF Others
<1> DEFINE m == net[<<from, s>>]
           counts == state[s] = "CANDIDATE" /\ m.term = term[s] /\ m.granted
           poll == votes[s] \cup {from}
           wins == counts /\ Cardinality(poll) >= Quorum(s)'
<1>1. Hears(s, from, "RequestVoteResponse") BY DEF HandleVoteResponse
<1>2. /\ peers' \in [Server -> SUBSET Server]
      /\ Heard(s) /\ \A x \in Server \ {s} : peers'[x] = peers[x]
      /\ Sent(from, s) # None /\ Sent(from, s).type = "RequestVoteResponse"
  BY <1>0, <1>1, HearsFacts
<1>3. /\ votes' = [votes EXCEPT ![s] = IF counts THEN poll ELSE @]
      /\ state' = [state EXCEPT ![s] = IF wins THEN "LEADER" ELSE @]
      /\ elected' = IF wins THEN elected \cup {<<term[s], s>>} ELSE elected
      /\ net' \in IF wins THEN Heartbeat(Taken(s, from), s, log[s]) ELSE {Taken(s, from)}
      /\ UNCHANGED <<term, votedFor>>
  BY DEF HandleVoteResponse
<1>4. counts => GrantOnItsWay(from, s, term[s]) /\ state[s] = "CANDIDATE"
  BY <1>2 DEF GrantOnItsWay, Sent
<1>5. wins => counts OBVIOUS
<1> HIDE DEF counts, wins
<1>6. /\ SameBut(s)
      /\ state' \in [Server -> {"LEADER", "CANDIDATE", "FOLLOWER"}]
      /\ votes' \in [Server -> SUBSET Server]
      /\ state'[s] = (IF wins THEN "LEADER" ELSE state[s])
      /\ votes'[s] = (IF counts THEN poll ELSE votes[s])
  BY <1>0, <1>2, <1>3 DEF SameBut, VoteType
<1>7. Moves(s)
  <2>1. CASE counts
    <3>1. Counts(s, from) BY <2>1, <1>0, <1>2, <1>3, <1>4, <1>6 DEF Counts
    <3> QED BY <3>1, <1>0 DEF Moves
  <2>2. CASE ~counts
    <3>1. Quiet(s) BY <2>2, <1>2, <1>3, <1>5, <1>6 DEF Quiet
    <3> QED BY <3>1 DEF Moves
  <2> QED BY <2>1, <2>2
<1>8. Sends(s)
  <2>1. CASE wins
    <3>1. net' \in Heartbeat(Taken(s, from), s, log[s]) /\ state'[s] = "LEADER"
          /\ term'[s] = term[s]
      BY <2>1, <1>3, <1>6
    <3> QED BY <1>0, <3>1, HeartbeatFacts
  <2>2. CASE ~wins
    BY <2>2, <1>0, <1>3, TakeOnlyFacts DEF VoteType
  <2> QED BY <2>1, <2>2
<1> QED BY <1>2, <1>3, <1>6, <1>7, <1>8 DEF VoteStepOf, VoteType

LEMMA HandleAppendEntriesVotes ==
    ASSUME ElectionInv, NEW s \in Server, NEW from \in Others(s), HandleAppendEntries(s, from)
    PROVE  VoteStepOf(s)
<1> USE DEF ElectionInv
<1>0. from \in Server \ {s} BY DEF Others
<1> DEFINE t == net[<<from, s>>].term
           follows == t >= term[s]
           yields == t > term[s] \/ state[s] # "FOLLOWER"
           m == [type |-> "AppendEntriesResponse", term |-> term'[s],
                 success |-> follows, index |-> Len(log'[s])]
<1>1. Hears(s, from, "AppendEntries") BY DEF HandleAppendEntries
<1>2. /\ peers' \in [Server -> SUBSET Server]
      /\ Heard(s) /\ \A x \in Server \ {s} : peers'[x] = peers[x]
      /\ Sent(from, s) # None /\ Sent(from, s).type = "AppendEntries"
  BY <1>0, <1>1, HearsFacts
<1>3. t \in Nat BY <1>0, <1>2 DEF Said, Sent
<1>4. /\ term' = [term EXCEPT ![s] = Max({@, t})]
      /\ follows => /\ state' = [state EXCEPT ![s] = "FOLLOWER"]
                    /\ votedFor' = [votedFor EXCEPT ![s] = IF yields THEN None ELSE @]
      /\ ~follows => state' = state /\ votedFor' = votedFor
      /\ net' \in Puts(Taken(s, from), s, {from}, m)
      /\ votes' = votes /\ elected' = elected
  BY DEF HandleAppendEntries
<1>5. m.type = "AppendEntriesResponse" /\ m.term = term'[s] OBVIOUS
<1>6. t = term[s] => LeadsBy(from, s, term[s]) BY <1>2 DEF LeadsBy, Sent
<1> HIDE DEF m, t
<1>7. term' = [term EXCEPT ![s] = IF term[s] >= t THEN term[s] ELSE t]
  BY <1>3, <1>4, MaxFacts DEF VoteType
<1>8. /\ term' \in [Server -> Nat] /\ term'[s] = (IF term[s] >= t THEN term[s] ELSE t)
      /\ state' \in [Server -> {"LEADER", "CANDIDATE", "FOLLOWER"}]
      /\ votedFor' \in [Server -> Server \cup {None}]
      /\ votes' \in [Server -> SUBSET Server]
      /\ SameBut(s)
  BY <1>2, <1>3, <1>4, <1>7 DEF VoteType, SameBut
<1>9. Moves(s)
  <2>1. CASE t > term[s]
    <3>1. MovesOn(s) BY <2>1, <1>2, <1>3, <1>4, <1>8 DEF MovesOn, VoteType
    <3> QED BY <3>1 DEF Moves
  <2>2. CASE t = term[s]
    <3>1. YieldsTo(s, from) BY <2>2, <1>0, <1>2, <1>3, <1>4, <1>6, <1>8 DEF YieldsTo, VoteType
    <3> QED BY <3>1, <1>0 DEF Moves
  <2>3. CASE t < term[s]
    <3>1. Quiet(s) BY <2>3, <1>2, <1>3, <1>4, <1>8 DEF Quiet, VoteType
    <3> QED BY <3>1 DEF Moves
  <2> QED BY <2>1, <2>2, <2>3, <1>3 DEF VoteType
<1>10. Sends(s)
  <2>1. \A b \in {from} : b # s => May(s, b, m) BY <1>5, <1>8 DEF May
  <2> QED BY <1>0, <1>4, <2>1, AnswerFacts DEF VoteType
<1> QED BY <1>2, <1>8, <1>9, <1>10 DEF VoteStepOf

LEMMA HandleAppendResponseVotes ==
    ASSUME ElectionInv, NEW s \in Server, NEW from \in Others(s), HandleAppendResponse(s, from)
    PROVE  VoteStepOf(s)
<1> USE DEF ElectionInv
<1>0. from \in Server \ {s} BY DEF Others
<1> DEFINE t == net[<<from, s>>].term
<1>1. Hears(s, from, "AppendEntriesResponse") BY DEF HandleAppendResponse
<1>2. /\ peers' \in [Server -> SUBSET Server]
      /\ Heard(s) /\ \A x \in Server \ {s} : peers'[x] = peers[x]
      /\ Sent(from, s) # None /\ Sent(from, s).type = "AppendEntriesResponse"
  BY <1>0, <1>1, HearsFacts
<1>3. t \in Nat BY <1>0, <1>2 DEF Said, Sent
<1>4. /\ t > term[s] => /\ term' = [term EXCEPT ![s] = t]
                        /\ state' = [state EXCEPT ![s] = "FOLLOWER"]
                        /\ votedFor' = [votedFor EXCEPT ![s] = None]
      /\ ~(t > term[s]) => UNCHANGED <<term, state, votedFor>>
      /\ net' = Taken(s, from)
      /\ votes' = votes /\ elected' = elected
  BY DEF HandleAppendResponse
<1> HIDE DEF t
<1>5. Sends(s) BY <1>0, <1>4, TakeOnlyFacts DEF VoteType
<1>6. /\ term' \in [Server -> Nat]
      /\ state' \in [Server -> {"LEADER", "CANDIDATE", "FOLLOWER"}]
      /\ votedFor' \in [Server -> Server \cup {None}]
      /\ votes' \in [Server -> SUBSET Server]
      /\ SameBut(s)
  BY <1>2, <1>3, <1>4 DEF VoteType, SameBut
<1>7. Moves(s)
  <2>1. CASE t > term[s]
    <3>1. MovesOn(s) BY <2>1, <1>2, <1>3, <1>4 DEF MovesOn, VoteType
    <3> QED BY <3>1 DEF Moves
  <2>2. CASE ~(t > term[s])
    <3>1. Quiet(s) BY <2>2, <1>2, <1>4 DEF Quiet
    <3> QED BY <3>1 DEF Moves
  <2> QED BY <2>1, <2>2
<1> QED BY <1>2, <1>5, <1>6, <1>7 DEF VoteStepOf

LEMMA StepsVote ==
    ASSUME ElectionInv, Next PROVE \E s \in Server : VoteStepOf(s)
BY StartElectionVotes, SendHeartbeatsVotes, ProposeAtLeaderVotes, ProposeAloneVotes,
   ProposeForwardedVotes, HandleProposeVotes, HandleRequestVoteVotes, HandleVoteResponseVotes,
   HandleAppendEntriesVotes, HandleAppendResponseVotes DEF Next

-----------------------------------------------------------------------------
(***************************************************************************)
(* What such a step cannot undo                                            *)
(***************************************************************************)

\* Everything below is about one step of s.
VoteStep(s) == s \in Server /\ ElectionInv /\ VoteStepOf(s)

LEMMA TermsGrow ==
    ASSUME NEW s, VoteStep(s), NEW x \in Server
    PROVE  term[x] \in Nat /\ term'[x] \in Nat /\ term'[x] >= term[x]
<1> USE DEF VoteStep
<1>1. term[x] \in Nat /\ term'[x] \in Nat BY DEF ElectionInv, VoteType, VoteStepOf
<1>2. CASE x # s BY <1>1, <1>2 DEF VoteStepOf, SameBut
<1>3. CASE x = s
  BY <1>1, <1>3 DEF VoteStepOf, Moves, Quiet, Stands, Promotes, MovesOn, GrantsTo, Counts, YieldsTo
<1> QED BY <1>2, <1>3

\* A grant of this step is the first of its term for anyone but its candidate.
LEMMA NewGrantFacts ==
    ASSUME NEW s, VoteStep(s), NEW c \in Server, GrantsTo(s, c)
    PROVE  /\ c # s /\ term[s] <= term'[s] /\ votedFor'[s] = c /\ state'[s] = "FOLLOWER"
           /\ term[s] = term'[s] => votedFor[s] \in {None, c} /\ state[s] = "FOLLOWER"
<1> USE DEF VoteStep
<1>1. OwnVote(s) /\ state[s] \in {"LEADER", "CANDIDATE", "FOLLOWER"} /\ term[s] \in Nat
  BY DEF ElectionInv, VoteType
<1>2. None \notin Server BY ConsensusAssumption
<1> QED BY <1>1, <1>2 DEF GrantsTo, OwnVote

LEMMA BindingKept ==
    ASSUME NEW s, VoteStep(s), NEW v \in Server, NEW c \in Server, v # c, NEW t \in Nat,
           Binding(v, t, c)
    PROVE  Binding(v, t, c)'
<1> USE DEF VoteStep
<1>0. None \notin Server BY ConsensusAssumption
<1>1. CASE v # s BY <1>1 DEF VoteStepOf, SameBut, Binding
<1>2. CASE v = s /\ term[s] > t
  <2>1. term'[s] >= term[s] /\ term[s] \in Nat /\ term'[s] \in Nat BY TermsGrow
  <2> QED BY <1>2, <2>1 DEF Binding
<1>3. CASE v = s /\ ~(term[s] > t)
  <2>1. term[s] = t /\ votedFor[s] = c /\ state[s] = "FOLLOWER" BY <1>3 DEF Binding
  <2>2. CASE Quiet(s) BY <1>3, <2>1, <2>2 DEF Quiet, Binding
  <2>3. CASE Stands(s) BY <1>3, <2>1, <2>3 DEF Stands, Binding
  <2>4. CASE Promotes(s)
    <3>1. OwnVote(s) BY DEF ElectionInv
    <3> QED BY <1>0, <1>3, <2>1, <2>4, <3>1 DEF Promotes, OwnVote
  <2>5. CASE MovesOn(s) BY <1>3, <2>1, <2>5 DEF MovesOn, Binding
  <2>6. ASSUME NEW d \in Server, GrantsTo(s, d) PROVE Binding(v, t, c)'
    <3>1. /\ term[s] <= term'[s] /\ votedFor'[s] = d /\ state'[s] = "FOLLOWER"
          /\ term[s] = term'[s] => votedFor[s] \in {None, d}
      BY <2>6, NewGrantFacts
    <3>2. term'[s] \in Nat BY TermsGrow
    <3> QED BY <1>0, <1>3, <2>1, <3>1, <3>2 DEF Binding
  <2>7. ASSUME NEW d \in Server, Counts(s, d) PROVE Binding(v, t, c)'
    BY <2>1, <2>7 DEF Counts
  <2>8. ASSUME NEW d \in Server, YieldsTo(s, d) PROVE Binding(v, t, c)'
    BY <1>3, <2>1, <2>8 DEF YieldsTo, Binding
  <2> QED BY <2>2, <2>3, <2>4, <2>5, <2>6, <2>7, <2>8 DEF VoteStepOf, Moves
<1> QED BY <1>1, <1>2, <1>3

LEMMA GrantsBack ==
    ASSUME NEW s, VoteStep(s), NEW v \in Server, NEW c \in Server, v # c, NEW t \in Nat,
           Grants(v, c, t)'
    PROVE  Grants(v, c, t) \/ (v = s /\ GrantsTo(s, c) /\ term'[s] = t)
<1> USE DEF VoteStep
<1>0. None \notin Server BY ConsensusAssumption
<1>1. CASE GrantOnItsWay(v, c, t)'
  <2>1. \/ Sent(v, c)' = Sent(v, c) \/ Sent(v, c)' = None
        \/ v = s /\ May(s, c, Sent(v, c)')
    BY DEF VoteStepOf, Sends
  <2>2. /\ Sent(v, c)' # None /\ Sent(v, c)'.type = "RequestVoteResponse"
        /\ Sent(v, c)'.granted /\ Sent(v, c)'.term = t
    BY <1>1 DEF GrantOnItsWay
  <2>3. CASE Sent(v, c)' = Sent(v, c)
    BY <2>2, <2>3 DEF Grants, GrantOnItsWay
  <2>4. CASE v = s /\ May(s, c, Sent(v, c)')
    BY <2>2, <2>4 DEF May
  <2> QED BY <2>1, <2>2, <2>3, <2>4
<1>2. CASE GrantCounted(v, c, t)'
  <2>1. state'[c] = "CANDIDATE" /\ term'[c] = t /\ v \in votes'[c] BY <1>2 DEF GrantCounted
  <2>2. CASE c # s
    BY <2>1, <2>2 DEF VoteStepOf, SameBut, Grants, GrantCounted
  <2>3. CASE c = s
    <3>1. CASE Quiet(s) BY <2>1, <2>3, <3>1 DEF Quiet, Grants, GrantCounted
    <3>2. CASE Stands(s) BY <2>1, <2>3, <3>2 DEF Stands
    <3>3. CASE Promotes(s) \/ MovesOn(s) BY <2>1, <2>3, <3>3 DEF Promotes, MovesOn
    <3>4. ASSUME NEW d \in Server, GrantsTo(s, d) PROVE FALSE
      BY <2>1, <2>3, <3>4, NewGrantFacts
    <3>5. ASSUME NEW d \in Server, Counts(s, d) PROVE Grants(v, c, t)
      BY <2>1, <2>3, <3>5 DEF Counts, Grants, GrantCounted
    <3>6. ASSUME NEW d \in Server, YieldsTo(s, d) PROVE FALSE
      BY <2>1, <2>3, <3>6 DEF YieldsTo
    <3> QED BY <3>1, <3>2, <3>3, <3>4, <3>5, <3>6 DEF VoteStepOf, Moves
  <2> QED BY <2>2, <2>3
<1> QED BY <1>1, <1>2 DEF Grants

LEMMA FresherBack ==
    ASSUME NEW s, VoteStep(s), NEW x \in Server, NEW t \in Nat, Fresher(x, t)'
    PROVE  Fresher(x, t)
<1> USE DEF VoteStep
<1>1. term[x] \in Nat /\ term'[x] \in Nat /\ term'[x] >= term[x] BY TermsGrow
<1>2. CASE x # s BY <1>2 DEF VoteStepOf, SameBut, Fresher
<1>3. CASE term'[x] < t BY <1>1, <1>3 DEF Fresher
<1>4. CASE x = s /\ term'[s] = t /\ state'[s] = "CANDIDATE"
  <2>1. CASE Quiet(s) BY <1>4, <2>1 DEF Quiet, Fresher
  <2>2. CASE Stands(s) BY <1>1, <1>4, <2>2 DEF Stands, Fresher
  <2>3. CASE Promotes(s) \/ MovesOn(s) BY <1>4, <2>3 DEF Promotes, MovesOn
  <2>4. ASSUME NEW d \in Server, GrantsTo(s, d) PROVE FALSE BY <1>4, <2>4, NewGrantFacts
  <2>5. ASSUME NEW d \in Server, Counts(s, d) PROVE Fresher(x, t)
    BY <1>4, <2>5 DEF Counts, Fresher
  <2>6. ASSUME NEW d \in Server, YieldsTo(s, d) PROVE FALSE BY <1>4, <2>6 DEF YieldsTo
  <2> QED BY <2>1, <2>2, <2>3, <2>4, <2>5, <2>6 DEF VoteStepOf, Moves
<1> QED BY <1>2, <1>3, <1>4 DEF Fresher

LEMMA FresherNeverLed ==
    ASSUME ElectionInv, NEW x \in Server, NEW t \in Nat, Fresher(x, t)
    PROVE  ~Leads(x, t)
<1>1. term[x] \in Nat BY DEF ElectionInv, VoteType
<1>2. ASSUME NEW b \in Server \ {x}, LeadsBy(x, b, t) PROVE FALSE
  <2>1. Said(x, b) BY DEF ElectionInv
  <2> QED BY <1>1, <1>2, <2>1 DEF Said, LeadsBy, Fresher
<1> QED BY <1>1, <1>2 DEF Leads, Fresher

\* A server becomes a leader by making itself one or by a vote it counts, and
\* either way its own vote is its own.
Crowned(s, t) ==
    /\ term[s] = t /\ term'[s] = t /\ votedFor'[s] = votedFor[s]
    /\ votedFor[s] = s \/ t = 0
    /\ \/ peers[s] = {}
       \/ state[s] = "CANDIDATE" /\ <<t, s>> \in elected'

LEMMA LeadsBack ==
    ASSUME NEW s, VoteStep(s), NEW c \in Server, NEW t \in Nat, Leads(c, t)'
    PROVE  Leads(c, t) \/ (c = s /\ Crowned(s, t))
<1> USE DEF VoteStep
<1>1. ASSUME state'[c] = "LEADER", term'[c] = t
      PROVE  Leads(c, t) \/ (c = s /\ Crowned(s, t))
  <2>1. CASE c # s BY <1>1, <2>1 DEF VoteStepOf, SameBut, Leads
  <2>2. CASE c = s
    <3>0. OwnVote(s) BY DEF ElectionInv
    <3>1. CASE Quiet(s) BY <1>1, <2>2, <3>1 DEF Quiet, Leads
    <3>2. CASE Stands(s) \/ MovesOn(s) BY <1>1, <2>2, <3>2 DEF Stands, MovesOn
    <3>3. CASE Promotes(s) BY <1>1, <2>2, <3>0, <3>3 DEF Promotes, Crowned, OwnVote
    <3>4. ASSUME NEW d \in Server, GrantsTo(s, d) PROVE FALSE
      BY <1>1, <2>2, <3>4, NewGrantFacts
    <3>5. ASSUME NEW d \in Server, Counts(s, d) PROVE Crowned(s, t)
      BY <1>1, <2>2, <3>0, <3>5 DEF Counts, Crowned, OwnVote
    <3>6. ASSUME NEW d \in Server, YieldsTo(s, d) PROVE FALSE
      BY <1>1, <2>2, <3>6 DEF YieldsTo
    <3> QED BY <2>2, <3>1, <3>2, <3>3, <3>4, <3>5, <3>6 DEF VoteStepOf, Moves
  <2> QED BY <2>1, <2>2
<1>2. ASSUME NEW b \in Server \ {c}, LeadsBy(c, b, t)'
      PROVE  Leads(c, t) \/ (state'[c] = "LEADER" /\ term'[c] = t)
  <2>1. /\ Sent(c, b)' # None /\ Sent(c, b)'.type = "AppendEntries" /\ Sent(c, b)'.term = t
    BY <1>2 DEF LeadsBy
  <2>2. \/ Sent(c, b)' = Sent(c, b) \/ Sent(c, b)' = None
        \/ c = s /\ May(s, b, Sent(c, b)')
    BY <1>2 DEF VoteStepOf, Sends
  <2>3. CASE Sent(c, b)' = Sent(c, b)
    BY <2>1, <2>3 DEF Leads, LeadsBy
  <2>4. CASE c = s /\ May(s, b, Sent(c, b)') BY <2>1, <2>4 DEF May
  <2> QED BY <2>1, <2>2, <2>3, <2>4
<1> QED BY <1>1, <1>2 DEF Leads

\* A server that voted for itself takes that back only for another leader of the term.
LEMMA SelfVoteStays ==
    ASSUME NEW s, VoteStep(s), NEW c \in Server, votedFor[c] = c
    PROVE  \/ term'[c] > term[c]
           \/ /\ term'[c] = term[c] /\ votedFor'[c] = c
              /\ state[c] = "LEADER" => state'[c] = "LEADER"
           \/ \E x \in Server \ {c} : Leads(x, term[c])
<1> USE DEF VoteStep
<1>0. None \notin Server /\ term[c] \in Nat /\ term'[c] \in Nat
  BY ConsensusAssumption, TermsGrow
<1>1. CASE c # s BY <1>1 DEF VoteStepOf, SameBut
<1>2. CASE c = s
  <2>1. CASE Quiet(s) BY <1>2, <2>1 DEF Quiet
  <2>2. CASE Stands(s) BY <1>0, <1>2, <2>2 DEF Stands
  <2>3. CASE MovesOn(s) BY <1>2, <2>3 DEF MovesOn
  <2>4. CASE Promotes(s) BY <1>2, <2>4 DEF Promotes
  <2>5. ASSUME NEW d \in Server, GrantsTo(s, d) PROVE term'[c] > term[c]
    <3>1. d # s /\ term[s] <= term'[s] /\ (term[s] = term'[s] => votedFor[s] \in {None, d})
      BY <2>5, NewGrantFacts
    <3> QED BY <1>0, <1>2, <3>1
  <2>6. ASSUME NEW d \in Server, Counts(s, d)
        PROVE  term'[c] = term[c] /\ votedFor'[c] = c /\ state[c] # "LEADER"
    BY <1>2, <2>6 DEF Counts
  <2>7. ASSUME NEW d \in Server, YieldsTo(s, d) PROVE d # c /\ Leads(d, term[c])
    BY <1>2, <2>7 DEF YieldsTo, Leads
  <2> QED BY <2>1, <2>2, <2>3, <2>4, <2>5, <2>6, <2>7 DEF VoteStepOf, Moves
<1> QED BY <1>1, <1>2

-----------------------------------------------------------------------------
(***************************************************************************)
(* The election invariant is kept                                          *)
(***************************************************************************)

LEMMA OwnVoteKept ==
    ASSUME NEW s, VoteStep(s), NEW x \in Server PROVE OwnVote(x)'
<1> USE DEF VoteStep
<1>0. OwnVote(x) /\ term[x] \in Nat /\ None \notin Server
  BY ConsensusAssumption DEF ElectionInv, VoteType
<1>1. CASE x # s BY <1>0, <1>1 DEF VoteStepOf, SameBut, OwnVote
<1>2. CASE x = s
  <2>1. CASE Quiet(s) BY <1>0, <1>2, <2>1 DEF Quiet, Heard, OwnVote
  <2>2. CASE Stands(s) BY <1>0, <1>2, <2>2 DEF Stands, OwnVote
  <2>3. CASE Promotes(s) BY <1>0, <1>2, <2>3 DEF Promotes, OwnVote
  <2>4. CASE MovesOn(s) BY <1>2, <2>4 DEF MovesOn, Heard, OwnVote
  <2>5. ASSUME NEW d \in Server, GrantsTo(s, d) PROVE OwnVote(x)'
    <3>1. state'[s] = "FOLLOWER" BY <2>5, NewGrantFacts
    <3> QED BY <1>2, <2>5, <3>1 DEF GrantsTo, Heard, OwnVote
  <2>6. ASSUME NEW d \in Server, Counts(s, d) PROVE OwnVote(x)'
    BY <1>0, <1>2, <2>6 DEF Counts, Heard, OwnVote
  <2>7. ASSUME NEW d \in Server, YieldsTo(s, d) PROVE OwnVote(x)'
    BY <1>2, <2>7 DEF YieldsTo, Heard, OwnVote
  <2> QED BY <2>1, <2>2, <2>3, <2>4, <2>5, <2>6, <2>7 DEF VoteStepOf, Moves
<1> QED BY <1>1, <1>2

LEMMA SaidKept ==
    ASSUME NEW s, VoteStep(s), NEW a \in Server, NEW b \in Server, a # b PROVE Said(a, b)'
<1> USE DEF VoteStep
<1>1. \/ Sent(a, b)' = Sent(a, b) \/ Sent(a, b)' = None
      \/ a = s /\ May(s, b, Sent(a, b)')
  BY DEF VoteStepOf, Sends
<1>2. term[a] \in Nat /\ term'[a] \in Nat /\ term'[a] >= term[a] BY TermsGrow
<1>3. CASE Sent(a, b)' = None BY <1>3 DEF Said
<1>4. CASE a = s /\ May(s, b, Sent(a, b)') BY <1>2, <1>4 DEF May, Said
<1>5. CASE Sent(a, b)' = Sent(a, b) /\ Sent(a, b) # None
  <2>1. Said(a, b) BY DEF ElectionInv
  <2>2. ASSUME Sent(a, b).type = "AppendEntries", Sent(a, b).term = term'[a]
        PROVE  state'[a] # "CANDIDATE"
    <3>0. PICK t \in Nat : t = term'[a] BY <1>2
    <3>1. Fresher(a, t)' => Fresher(a, t) BY FresherBack
    <3>2. term[a] = term'[a] /\ state[a] # "CANDIDATE" BY <1>2, <1>5, <2>1, <2>2 DEF Said
    <3> QED BY <1>2, <3>0, <3>1, <3>2 DEF Fresher
  <2> QED BY <1>2, <1>5, <2>1, <2>2 DEF Said
<1> QED BY <1>1, <1>3, <1>4, <1>5

LEMMA VotesBindKept ==
    ASSUME NEW s, VoteStep(s) PROVE VotesBind'
<1> USE DEF VoteStep
<1> SUFFICES ASSUME NEW v \in Server, NEW c \in Server, NEW t \in Nat, v # c, Grants(v, c, t)'
             PROVE  Binding(v, t, c)'
  BY DEF VotesBind
<1>1. CASE Grants(v, c, t)
  <2>1. Binding(v, t, c) BY <1>1 DEF ElectionInv, VotesBind
  <2> QED BY <2>1, BindingKept
<1>2. CASE v = s /\ GrantsTo(s, c) /\ term'[s] = t
  BY <1>2, NewGrantFacts DEF Binding
<1> QED BY <1>1, <1>2, GrantsBack

\* A new vote is for the candidate of every vote of that server and term that is
\* still around.
LEMMA NewGrantAgrees ==
    ASSUME NEW s, VoteStep(s), NEW c \in Server, NEW d \in Server, d # s,
           GrantsTo(s, c), Grants(s, d, term'[s])
    PROVE  c = d
<1> USE DEF VoteStep
<1>1. term[s] \in Nat /\ term'[s] \in Nat /\ None \notin Server
  BY ConsensusAssumption, TermsGrow
<1>2. Binding(s, term'[s], d) BY <1>1 DEF ElectionInv, VotesBind
<1>3. term[s] <= term'[s] /\ (term[s] = term'[s] => votedFor[s] \in {None, c})
  BY NewGrantFacts
<1> QED BY <1>1, <1>2, <1>3 DEF Binding

LEMMA VotesOnceKept ==
    ASSUME NEW s, VoteStep(s) PROVE VotesOnce'
<1> USE DEF VoteStep
<1> SUFFICES ASSUME NEW v \in Server, NEW c \in Server, NEW d \in Server, NEW t \in Nat,
                    v # c, v # d, Grants(v, c, t)', Grants(v, d, t)'
             PROVE  c = d
  BY DEF VotesOnce
<1>1. Grants(v, c, t) \/ (v = s /\ GrantsTo(s, c) /\ term'[s] = t) BY GrantsBack
<1>2. Grants(v, d, t) \/ (v = s /\ GrantsTo(s, d) /\ term'[s] = t) BY GrantsBack
<1>3. CASE Grants(v, c, t) /\ Grants(v, d, t) BY <1>3 DEF ElectionInv, VotesOnce
<1>4. CASE v = s /\ GrantsTo(s, c) /\ GrantsTo(s, d) BY <1>4, NewGrantFacts
<1>5. CASE v = s /\ GrantsTo(s, c) /\ term'[s] = t /\ Grants(v, d, t)
  BY <1>5, NewGrantAgrees
<1>6. CASE v = s /\ GrantsTo(s, d) /\ term'[s] = t /\ Grants(v, c, t)
  BY <1>6, NewGrantAgrees
<1> QED BY <1>1, <1>2, <1>3, <1>4, <1>5, <1>6

\* A server that has its own vote in a term grants no other one there.
LEMMA SelfVoterGrantsNone ==
    ASSUME NEW s, VoteStep(s), NEW c \in Server, NEW t \in Nat,
           term[c] > t \/ (term[c] = t /\ votedFor[c] = c),
           \A d \in Server \ {c} : ~Grants(c, d, t)
    PROVE  \A d \in Server \ {c} : ~Grants(c, d, t)'
<1> USE DEF VoteStep
<1> SUFFICES ASSUME NEW d \in Server \ {c}, Grants(c, d, t)' PROVE FALSE
  OBVIOUS
<1>1. c = s /\ GrantsTo(s, d) /\ term'[s] = t BY GrantsBack
<1>2. term[s] <= t /\ (term[s] = t => votedFor[s] \in {None, d}) BY <1>1, NewGrantFacts
<1>3. term[s] \in Nat /\ None \notin Server BY ConsensusAssumption DEF ElectionInv, VoteType
<1> QED BY <1>1, <1>2, <1>3

\* Nor does one that votes for itself now: it is not bound to another.
LEMMA CrownedGrantsNone ==
    ASSUME NEW s, VoteStep(s), NEW t \in Nat, Crowned(s, t), votedFor[s] = s
    PROVE  /\ term'[s] = t /\ votedFor'[s] = s
           /\ \A d \in Server \ {s} : ~Grants(s, d, t) /\ ~Grants(s, d, t)'
<1> USE DEF VoteStep
<1>1. term[s] = t /\ term'[s] = t /\ votedFor'[s] = s BY DEF Crowned
<1>2. \A d \in Server \ {s} : ~Grants(s, d, t)
  <2> SUFFICES ASSUME NEW d \in Server \ {s}, Grants(s, d, t) PROVE FALSE
    OBVIOUS
  <2>1. Binding(s, t, d) BY DEF ElectionInv, VotesBind
  <2> QED BY <1>1, <2>1 DEF Binding
<1>3. \A d \in Server \ {s} : ~Grants(s, d, t)' BY <1>1, <1>2, SelfVoterGrantsNone
<1> QED BY <1>1, <1>2, <1>3

LEMMA NoFourth ==
    ASSUME AtMostThree, NEW a \in Server, NEW b \in Server, NEW c \in Server,
           a # b, c \notin {a, b}, NEW x \in Server
    PROVE  x \in {a, b, c}
<1>1. IsFiniteSet(Server) BY ConsensusAssumption
<1>2. IsFiniteSet({}) /\ Cardinality({}) = 0 BY FS_EmptySet
<1>3. IsFiniteSet({a}) /\ Cardinality({a}) = 1 BY FS_Singleton
<1>4. IsFiniteSet({a} \cup {b}) /\ Cardinality({a} \cup {b}) = 2 BY <1>3, FS_AddElement
<1>5. IsFiniteSet(({a} \cup {b}) \cup {c}) /\ Cardinality(({a} \cup {b}) \cup {c}) = 3
  BY <1>4, FS_AddElement
<1>6. ({a} \cup {b}) \cup {c} \subseteq Server OBVIOUS
<1>7. Cardinality(({a} \cup {b}) \cup {c}) <= Cardinality(Server) BY <1>1, <1>6, FS_Subset
<1>8. Cardinality(Server) = 3
  <2>1. Cardinality(Server) \in Nat BY <1>1, FS_CardinalityType
  <2> QED BY <1>5, <1>7, <2>1 DEF AtMostThree
<1>9. ({a} \cup {b}) \cup {c} = Server BY <1>1, <1>5, <1>6, <1>8, FS_Subset
<1> QED BY <1>9

LEMMA LoneLeaderKept ==
    ASSUME AtMostThree, NEW s, VoteStep(s) PROVE LoneLeader'
<1> USE DEF VoteStep
<1> SUFFICES ASSUME NEW a \in Server, NEW b \in Server, NEW c \in Server, NEW t \in Nat,
                    a # b, c \notin {a, b}, Fresher(a, t)', Fresher(b, t)', Leads(c, t)'
             PROVE  /\ \A d \in Server \ {c} : ~Grants(c, d, t)'
                    /\ term'[c] > t \/ (term'[c] = t /\ votedFor'[c] = c)
  BY DEF LoneLeader
<1>1. Fresher(a, t) /\ Fresher(b, t) BY FresherBack
<1>2. CASE Leads(c, t)
  <2>1. /\ \A d \in Server \ {c} : ~Grants(c, d, t)
        /\ term[c] > t \/ (term[c] = t /\ votedFor[c] = c)
    BY <1>1, <1>2 DEF ElectionInv, LoneLeader
  <2>2. \A d \in Server \ {c} : ~Grants(c, d, t)' BY <2>1, SelfVoterGrantsNone
  <2>3. term[c] \in Nat /\ term'[c] \in Nat /\ term'[c] >= term[c] BY TermsGrow
  <2>4. CASE term[c] > t BY <2>2, <2>3, <2>4
  <2>5. CASE term[c] = t /\ votedFor[c] = c
    <3>1. ASSUME NEW x \in Server \ {c}, Leads(x, t) PROVE FALSE
      <4>1. x \in {a, b} BY NoFourth
      <4> QED BY <1>1, <3>1, <4>1, FresherNeverLed
    <3> QED BY <2>2, <2>5, <3>1, SelfVoteStays
  <2> QED BY <2>1, <2>4, <2>5
<1>3. CASE c = s /\ Crowned(s, t)
  <2>1. t # 0
    <3>1. OwnVote(a) /\ term[a] \in Nat BY DEF ElectionInv, VoteType
    <3> QED BY <1>1, <3>1 DEF OwnVote, Fresher
  <2>2. votedFor[s] = s BY <1>3, <2>1 DEF Crowned
  <2> QED BY <1>3, <2>2, CrownedGrantsNone
<1> QED BY <1>2, <1>3, LeadsBack

\* What a step that counts a winning vote says of the winner.
Wins(s, t) ==
    /\ Crowned(s, t) /\ votedFor[s] = s /\ state[s] = "CANDIDATE" /\ state'[s] = "LEADER"
    /\ \E v \in Server \ {s} : Grants(v, s, t)

LEMMA ElectedBack ==
    ASSUME NEW s, VoteStep(s), NEW t, NEW a, <<t, a>> \in elected'
    PROVE  <<t, a>> \in elected \/ (a = s /\ t \in Nat /\ Wins(s, t))
<1> USE DEF VoteStep
<1>1. CASE elected' = elected BY <1>1
<1>2. ASSUME NEW v \in Server, Counts(s, v), elected' # elected
      PROVE  <<t, a>> \in elected \/ (a = s /\ t \in Nat /\ Wins(s, t))
  <2>1. OwnVote(s) /\ term[s] \in Nat BY DEF ElectionInv, VoteType
  <2>2. /\ v \in Server \ {s} /\ state[s] = "CANDIDATE" /\ GrantOnItsWay(v, s, term[s])
        /\ term'[s] = term[s] /\ votedFor'[s] = votedFor[s]
        /\ state'[s] = "LEADER" /\ elected' = elected \cup {<<term[s], s>>}
    BY <1>2 DEF Counts
  <2>3. CASE <<t, a>> = <<term[s], s>>
    <3>1. t = term[s] /\ a = s BY <2>3
    <3>2. Grants(v, s, t) BY <2>2, <3>1 DEF Grants
    <3> QED BY <2>1, <2>2, <3>1, <3>2 DEF Wins, Crowned, OwnVote
  <2> QED BY <2>2, <2>3
<1> QED BY <1>1, <1>2
        DEF VoteStepOf, Moves, Quiet, Stands, Promotes, MovesOn, GrantsTo, YieldsTo

LEMMA OneWinnerKept ==
    ASSUME NEW s, VoteStep(s), NEW t \in Nat, NEW a \in Server, NEW b \in Server,
           <<t, a>> \in elected', <<t, b>> \in elected'
    PROVE  a = b
<1> USE DEF VoteStep
<1>1. ASSUME NEW w \in Server, Wins(s, t), <<t, w>> \in elected, w # s PROVE FALSE
  <2>1. Fresher(s, t) BY <1>1 DEF Wins, Crowned, Fresher
  <2>2. PICK v \in Server \ {s} : Grants(v, s, t) BY <1>1 DEF Wins
  <2>3. /\ \A d \in Server \ {w} : ~Grants(w, d, t)
        /\ \A c \in Server \ {w, s} : \A d \in Server \ {w, c} : ~Grants(c, d, t)
    BY <1>1, <2>1 DEF ElectionInv, Decided
  <2> QED BY <1>1, <2>2, <2>3
<1>2. <<t, a>> \in elected \/ (a = s /\ Wins(s, t)) BY ElectedBack
<1>3. <<t, b>> \in elected \/ (b = s /\ Wins(s, t)) BY ElectedBack
<1> QED BY <1>1, <1>2, <1>3 DEF ElectionInv

LEMMA DecidedKept ==
    ASSUME AtMostThree, NEW s, VoteStep(s) PROVE Decided'
<1> USE DEF VoteStep
<1> SUFFICES ASSUME NEW a \in Server, NEW b \in Server, NEW t \in Nat,
                    <<t, a>> \in elected', a # b, Fresher(b, t)'
             PROVE  /\ term'[a] > t \/ (term'[a] = t /\ state'[a] = "LEADER" /\ votedFor'[a] = a)
                    /\ \A d \in Server \ {a} : ~Grants(a, d, t)'
                    /\ \A c \in Server \ {a, b} :
                          /\ Binding(c, t, a)' /\ ~Leads(c, t)'
                          /\ \A d \in Server \ {a, c} : ~Grants(c, d, t)'
  BY DEF Decided
<1>0. None \notin Server BY ConsensusAssumption
<1>1. Fresher(b, t) BY FresherBack
<1>2. CASE <<t, a>> \in elected
  <2>1. /\ term[a] > t \/ (term[a] = t /\ state[a] = "LEADER" /\ votedFor[a] = a)
        /\ \A d \in Server \ {a} : ~Grants(a, d, t)
        /\ \A c \in Server \ {a, b} :
              /\ Binding(c, t, a) /\ ~Leads(c, t)
              /\ \A d \in Server \ {a, c} : ~Grants(c, d, t)
    BY <1>1, <1>2 DEF ElectionInv, Decided
  <2>2. term'[a] > t \/ (term'[a] = t /\ state'[a] = "LEADER" /\ votedFor'[a] = a)
    <3>1. CASE term[a] > t BY <3>1, TermsGrow
    <3>2. CASE term[a] = t /\ state[a] = "LEADER" /\ votedFor[a] = a
      <4>1. \A x \in Server \ {a} : ~Leads(x, t) BY <1>1, <2>1, FresherNeverLed
      <4> QED BY <3>2, <4>1, SelfVoteStays
    <3> QED BY <2>1, <3>1, <3>2
  <2>3. \A d \in Server \ {a} : ~Grants(a, d, t)' BY <2>1, SelfVoterGrantsNone
  <2>4. ASSUME NEW c \in Server \ {a, b}
        PROVE  /\ Binding(c, t, a)' /\ ~Leads(c, t)'
               /\ \A d \in Server \ {a, c} : ~Grants(c, d, t)'
    <3>1. Binding(c, t, a) /\ ~Leads(c, t) BY <2>1
    <3>2. Binding(c, t, a)' BY <3>1, BindingKept
    <3>3. ~Leads(c, t)'
      <4> SUFFICES ASSUME c = s, Crowned(s, t) PROVE FALSE
        BY <3>1, LeadsBack
      <4>1. OwnVote(s) BY DEF ElectionInv
      <4> QED BY <1>0, <3>1, <4>1 DEF Crowned, Binding, OwnVote
    <3>4. ASSUME NEW d \in Server \ {a, c}, Grants(c, d, t)' PROVE FALSE
      <4>1. c = s /\ GrantsTo(s, d) /\ term'[s] = t BY <2>1, <3>4, GrantsBack
      <4>2. term[s] <= t /\ (term[s] = t => votedFor[s] \in {None, d})
        BY <4>1, NewGrantFacts
      <4>3. term[s] \in Nat BY DEF ElectionInv, VoteType
      <4> QED BY <1>0, <3>1, <3>4, <4>1, <4>2, <4>3 DEF Binding
    <3> QED BY <3>2, <3>3, <3>4
  <2> QED BY <2>2, <2>3, <2>4
<1>3. CASE a = s /\ Wins(s, t)
  <2>1. /\ Crowned(s, t) /\ votedFor[s] = s /\ state[s] = "CANDIDATE" /\ state'[s] = "LEADER"
        /\ term[s] = t
    BY <1>3 DEF Wins, Crowned
  <2>2. PICK v \in Server \ {s} : Grants(v, s, t) BY <1>3 DEF Wins
  <2>3. /\ term'[s] = t /\ votedFor'[s] = s
        /\ \A d \in Server \ {s} : ~Grants(s, d, t)'
    BY <2>1, CrownedGrantsNone
  <2>4. Binding(v, t, s) BY <2>2 DEF ElectionInv, VotesBind
  <2>5. ASSUME NEW c \in Server \ {a, b}
        PROVE  /\ Binding(c, t, a)' /\ ~Leads(c, t)'
               /\ \A d \in Server \ {a, c} : ~Grants(c, d, t)'
    <3>1. v = c
      <4>1. v \in {b, c} BY <1>3, NoFourth
      <4>2. term[b] \in Nat BY DEF ElectionInv, VoteType
      <4>3. v # b BY <1>1, <2>4, <4>2 DEF Binding, Fresher
      <4> QED BY <4>1, <4>3
    <3>2. Binding(c, t, a)' BY <1>3, <2>4, <3>1, BindingKept
    <3>3. ~Leads(c, t)
      <4>1. Fresher(s, t) BY <2>1 DEF Fresher
      <4> QED BY <1>1, <1>3, <2>2, <3>1, <4>1 DEF ElectionInv, LoneLeader
    <3>4. ~Leads(c, t)' BY <1>3, <3>3, LeadsBack
    <3>5. ASSUME NEW d \in Server \ {a, c}, Grants(c, d, t)' PROVE FALSE
      <4>1. Grants(c, d, t) BY <1>3, <3>5, GrantsBack
      <4> QED BY <1>3, <2>2, <3>1, <3>5, <4>1 DEF ElectionInv, VotesOnce
    <3> QED BY <3>2, <3>4, <3>5
  <2> QED BY <1>3, <2>1, <2>3, <2>5
<1> QED BY <1>2, <1>3, ElectedBack

LEMMA ElectionStep ==
    ASSUME AtMostThree, ElectionInv, [Next]_vars PROVE ElectionInv'
<1>1. CASE UNCHANGED vars
  <2>1. UNCHANGED <<state, term, votedFor, votes, peers, net, elected>>
    BY <1>1 DEF vars, server
  <2>2. VoteType' /\ elected' \subseteq Nat \X Server BY <2>1 DEF ElectionInv, VoteType
  <2>3. \A s \in Server : OwnVote(s)' BY <2>1 DEF ElectionInv, OwnVote
  <2>4. \A a, b \in Server : a # b => Said(a, b)' BY <2>1 DEF ElectionInv, Said, Sent
  <2>5. /\ \A v, c, t : Grants(v, c, t)' <=> Grants(v, c, t)
        /\ \A v, c, t : Binding(v, t, c)' <=> Binding(v, t, c)
        /\ \A c, t : (Leads(c, t)' <=> Leads(c, t)) /\ (Fresher(c, t)' <=> Fresher(c, t))
    BY <2>1 DEF Grants, GrantOnItsWay, GrantCounted, Binding, Leads, LeadsBy, Fresher, Sent
  <2>6. VotesBind' /\ VotesOnce' BY <2>5 DEF ElectionInv, VotesBind, VotesOnce
  <2>7. LoneLeader' BY <2>1, <2>5 DEF ElectionInv, LoneLeader
  <2>8. Decided' BY <2>1, <2>5 DEF ElectionInv, Decided
  <2> QED BY <2>1, <2>2, <2>3, <2>4, <2>6, <2>7, <2>8 DEF ElectionInv
<1>2. ASSUME NEW s \in Server, VoteStepOf(s) PROVE ElectionInv'
  <2>1. VoteStep(s) BY <1>2 DEF VoteStep
  <2>2. VoteType' BY <1>2 DEF VoteType, VoteStepOf, Sends
  <2>3. elected' \subseteq Nat \X Server
    <3>1. elected \subseteq Nat \X Server /\ term[s] \in Nat BY DEF ElectionInv, VoteType
    <3>2. elected' = elected \/ elected' = elected \cup {<<term[s], s>>}
      BY <1>2 DEF VoteStepOf, Moves, Quiet, Stands, Promotes, MovesOn, GrantsTo, Counts, YieldsTo
    <3> QED BY <3>1, <3>2
  <2>4. \A x \in Server : OwnVote(x)' BY <2>1, OwnVoteKept
  <2>5. \A a, b \in Server : a # b => Said(a, b)' BY <2>1, SaidKept
  <2>6. VotesBind' /\ VotesOnce' BY <2>1, VotesBindKept, VotesOnceKept
  <2>7. LoneLeader' /\ Decided' BY <2>1, LoneLeaderKept, DecidedKept
  <2>8. \A t \in Nat, a, b \in Server : <<t, a>> \in elected' /\ <<t, b>> \in elected' => a = b
    BY <2>1, OneWinnerKept
  <2> QED BY <2>2, <2>3, <2>4, <2>5, <2>6, <2>7, <2>8 DEF ElectionInv
<1> QED BY <1>1, <1>2, StepsVote

LEMMA ElectionInit ==
    ASSUME Init PROVE ElectionInv
<1>1. PICK new \in SUBSET Server :
        /\ peers = [s \in Server |-> IF s \in new THEN {} ELSE Others(s)]
        /\ term = [s \in Server |-> IF new = {} \/ s \in new THEN 0 ELSE 1]
  BY DEF Init
<1>2. VoteType BY <1>1 DEF Init, VoteType, Links, Others
<1>3. ASSUME NEW s \in Server PROVE OwnVote(s)
  <2>1. ASSUME peers[s] = {} PROVE term[s] = 0
    <3>1. CASE s \in new BY <1>1, <3>1
    <3>2. CASE s \notin new
      <4>1. Server \ {s} = {} BY <1>1, <2>1, <3>2 DEF Others
      <4>2. new = {} BY <3>2, <4>1
      <4> QED BY <1>1, <4>2
    <3> QED BY <3>1, <3>2
  <2>2. votedFor[s] = None /\ state[s] = "FOLLOWER" BY DEF Init
  <2> QED BY <2>1, <2>2 DEF OwnVote
<1>4. \A a, b \in Server : a # b => Sent(a, b) = None
  <2> SUFFICES ASSUME NEW a \in Server, NEW b \in Server, a # b PROVE net[<<a, b>>] = None
    BY DEF Sent
  <2>1. <<a, b>> \in Links BY DEF Links
  <2>2. net = [l \in Links |-> None] BY DEF Init, Links
  <2> QED BY <2>1, <2>2
<1>5. \A v, c \in Server, t \in Nat : v # c => ~Grants(v, c, t)
  <2>1. \A c \in Server : votes[c] = {} BY DEF Init
  <2> QED BY <1>4, <2>1 DEF Grants, GrantOnItsWay, GrantCounted
<1>6. \A c \in Server, t \in Nat : ~Leads(c, t)
  <2>1. \A c \in Server : state[c] = "FOLLOWER" BY DEF Init
  <2> QED BY <1>4, <2>1 DEF Leads, LeadsBy
<1>7. elected = {} BY DEF Init
<1>8. \A a, b \in Server : a # b => Said(a, b) BY <1>4 DEF Said
<1>9. VotesBind /\ VotesOnce BY <1>5 DEF VotesBind, VotesOnce
<1>10. LoneLeader BY <1>6 DEF LoneLeader
<1>11. Decided BY <1>7 DEF Decided
<1> QED BY <1>2, <1>3, <1>7, <1>8, <1>9, <1>10, <1>11 DEF ElectionInv

LEMMA ElectionInvariant ==
    ASSUME AtMostThree PROVE Spec => []ElectionInv
<1>1. Init => ElectionInv BY ElectionInit
<1>2. ElectionInv /\ [Next]_vars => ElectionInv' BY ElectionStep
<1> QED BY <1>1, <1>2, PTL DEF Spec

\* At most one of up to three Schedulers ever wins the vote of a term, however often
\* peers are forgotten and however often a candidate or a leader that yields votes
\* once more (_handle_request_vote, _handle_append_entries, required_votes).
THEOREM ElectionsAreSafe ==
    ASSUME AtMostThree PROVE Spec => []ElectionSafety
<1>1. ElectionInv => ElectionSafety
  <2> SUFFICES ASSUME ElectionInv, NEW a \in elected, NEW b \in elected, a[1] = b[1]
               PROVE  a = b
    BY DEF ElectionSafety
  <2>1. elected \subseteq Nat \X Server BY DEF ElectionInv
  <2>2. /\ a = <<a[1], a[2]>> /\ a[1] \in Nat /\ a[2] \in Server
        /\ b = <<b[1], b[2]>> /\ b[1] \in Nat /\ b[2] \in Server
    BY <2>1
  <2>3. <<a[1], a[2]>> \in elected /\ <<a[1], b[2]>> \in elected BY <2>2
  <2>4. a[2] = b[2] BY <2>2, <2>3 DEF ElectionInv
  <2> QED BY <2>2, <2>4
<1>2. Spec => []ElectionInv BY ElectionInvariant
<1> QED BY <1>1, <1>2, PTL

-----------------------------------------------------------------------------
(***************************************************************************)
(* Logs, while no server made itself the leader                            *)
(***************************************************************************)

Entry == [term : Nat, change : Change]

Carries(a, b) == Sent(a, b) # None /\ Sent(a, b).type = "AppendEntries"

\* The logs there are: the servers' own, and those under way.
Source(l) ==
    \/ \E s \in Server : l = log[s]
    \/ \E a, b \in Server : a # b /\ Carries(a, b) /\ l = Sent(a, b).entries

Match(l, k) ==
    \A i \in 1..Len(l) :
        i <= Len(k) /\ l[i].term = k[i].term => \A j \in 1..i : l[j] = k[j]

LogType ==
    /\ log \in [Server -> Seq(Entry)]
    /\ \A a, b \in Server : a # b /\ Sent(a, b) # None =>
          /\ Sent(a, b).type = "AppendEntries" => Sent(a, b).entries \in Seq(Entry)
          /\ Sent(a, b).type = "Propose" => Sent(a, b).change \in Change

LeadersWereElected == \A s \in Server : state[s] = "LEADER" => <<term[s], s>> \in elected

\* Whoever won a term has been past its candidacy since.
WinnersMovedOn == \A t \in Nat, p \in Server : <<t, p>> \in elected => ~Fresher(p, t)

\* An entry's term was won by somebody, who has the entries of that term longest.
EntriesAreOfWinners ==
    \A l : Source(l) => \A i \in 1..Len(l) : \E p \in Server : <<l[i].term, p>> \in elected

LeadersAreAhead ==
    \A p \in Server : \A l : state[p] = "LEADER" /\ Source(l) =>
        \A i \in 1..Len(l) : l[i].term = term[p] =>
            i <= Len(log[p]) /\ log[p][i].term = term[p]

SourcesMatch == \A l, k : Source(l) /\ Source(k) => Match(l, k)

LogFacts ==
    /\ LogType /\ LeadersWereElected /\ WinnersMovedOn
    /\ EntriesAreOfWinners /\ LeadersAreAhead /\ SourcesMatch

Keeps(s) == log'[s] = log[s]

FollowsTo(s, from) ==
    /\ from \in Server \ {s} /\ Carries(from, s) /\ log'[s] = Sent(from, s).entries
    /\ state'[s] = "FOLLOWER" /\ term'[s] = Sent(from, s).term

Follows(s) == \E from \in Server : FollowsTo(s, from)

Extends(s) ==
    /\ state[s] = "LEADER" /\ state'[s] = "LEADER" /\ term'[s] = term[s]
    /\ \E c \in Change : log'[s] = Append(log[s], [term |-> term[s], change |-> c])

StaysOrWins(s) ==
    state'[s] = "LEADER" =>
        /\ term'[s] = term[s]
        /\ \/ state[s] = "LEADER"
           \/ state[s] = "CANDIDATE" /\ <<term[s], s>> \in elected' /\ Keeps(s)

\* What s may put on its way, as far as logs go.
Tells(s, b, m) ==
    /\ m.type = "AppendEntries" =>
          /\ m.entries = log'[s] /\ m.term = term'[s] /\ state'[s] = "LEADER"
          /\ m.commit = Len(applied[s])
    /\ m.type = "RequestVote" =>
          /\ m.term = term'[s] /\ state'[s] = "CANDIDATE"
          /\ m.lastIndex = Len(log'[s]) /\ m.lastTerm = LastTerm(log'[s])
    /\ m.type = "AppendEntriesResponse" =>
          /\ m.index = Len(log'[s])
          /\ m.success => FollowsTo(s, b) /\ m.term = term'[s]
    /\ m.type = "Propose" => m.change \in Change

LogSends(s) ==
    \A a, b \in Server : a # b =>
        \/ Sent(a, b)' = Sent(a, b) \/ Sent(a, b)' = None
        \/ a = s /\ Tells(s, b, Sent(a, b)')

LogStepOf(s) ==
    /\ log' \in [Server -> Seq(Entry)] /\ \A x \in Server \ {s} : log'[x] = log[x]
    /\ elected \subseteq elected'
    /\ Keeps(s) \/ Follows(s) \/ Extends(s)
    /\ StaysOrWins(s) /\ LogSends(s)

LEMMA PutTells ==
    ASSUME DOMAIN net = Links, NEW s \in Server, NEW to, NEW m,
           \/ net' \in Puts(net, s, to, m)
           \/ \E from \in Server \ {s} : net' \in Puts(Taken(s, from), s, to, m),
           \A b \in to : b # s => Tells(s, b, m)
    PROVE  LogSends(s)
<1>1. CASE net' \in Puts(net, s, to, m)
  <2>1. \A a, b \in Server : a # b =>
            net'[<<a, b>>] = net[<<a, b>>] \/ (a = s /\ b \in to /\ net'[<<a, b>>] = m)
    BY <1>1, PutFacts
  <2> QED BY <2>1 DEF LogSends, Sent
<1>2. ASSUME NEW from \in Server \ {s}, net' \in Puts(Taken(s, from), s, to, m)
      PROVE  LogSends(s)
  <2> DEFINE n == Taken(s, from)
  <2>1. /\ DOMAIN n = Links
        /\ \A a, b \in Server : a # b => n[<<a, b>>] = net[<<a, b>>] \/ n[<<a, b>>] = None
    BY <1>2, TakeFacts
  <2>2. net' \in Puts(n, s, to, m) BY <1>2
  <2> HIDE DEF n
  <2>3. \A a, b \in Server : a # b =>
            net'[<<a, b>>] = n[<<a, b>>] \/ (a = s /\ b \in to /\ net'[<<a, b>>] = m)
    BY <2>1, <2>2, PutFacts
  <2> QED BY <2>1, <2>3 DEF LogSends, Sent
<1> QED BY <1>1, <1>2

LEMMA HeartbeatTells ==
    ASSUME DOMAIN net = Links, NEW s \in Server, NEW l,
           \/ net' \in Heartbeat(net, s, l)
           \/ \E from \in Server \ {s} : net' \in Heartbeat(Taken(s, from), s, l),
           log'[s] = l, state'[s] = "LEADER", term'[s] = term[s]
    PROVE  LogSends(s)
<1> DEFINE m == AppendEntries(s, term[s], l, commit(s))
<1>1. /\ m.type = "AppendEntries" /\ m.entries = l /\ m.term = term[s]
      /\ m.commit = Len(applied[s])
  BY DEF AppendEntries, commit
<1>2. \/ net' \in Puts(net, s, Others(s), m)
      \/ \E from \in Server \ {s} : net' \in Puts(Taken(s, from), s, Others(s), m)
  BY DEF Heartbeat
<1> HIDE DEF m
<1>3. \A b : Tells(s, b, m) BY <1>1 DEF Tells
<1> QED BY <1>2, <1>3, PutTells

LEMMA TakeTells ==
    ASSUME DOMAIN net = Links, NEW s \in Server, NEW from \in Server \ {s}, net' = Taken(s, from)
    PROVE  LogSends(s)
BY TakeFacts DEF LogSends, Sent

\* A server that votes or steps down keeps its log.
LEMMA KeepsLog ==
    ASSUME LogType, NEW s \in Server, UNCHANGED log, elected \subseteq elected',
           StaysOrWins(s), LogSends(s)
    PROVE  LogStepOf(s)
BY DEF LogStepOf, LogType, Keeps

LEMMA StartElectionLogs ==
    ASSUME VoteType, LogType, NEW s \in Server, StartElection(s) PROVE LogStepOf(s)
<1> DEFINE m == [type |-> "RequestVote", term |-> term[s] + 1,
                 lastIndex |-> Len(log[s]), lastTerm |-> LastTerm(log[s])]
<1>1. /\ m.type = "RequestVote" /\ m.term = term[s] + 1
      /\ m.lastIndex = Len(log[s]) /\ m.lastTerm = LastTerm(log[s])
  OBVIOUS
<1>2. /\ net' \in Puts(net, s, Others(s), m) /\ UNCHANGED <<log, elected>>
      /\ state'[s] = "CANDIDATE" /\ term'[s] = term[s] + 1
  BY DEF StartElection, VoteType
<1> HIDE DEF m
<1>3. \A b : Tells(s, b, m) BY <1>1, <1>2 DEF Tells
<1>4. LogSends(s) BY <1>2, <1>3, PutTells DEF VoteType
<1> QED BY <1>2, <1>4, KeepsLog DEF StaysOrWins

LEMMA SendHeartbeatsLogs ==
    ASSUME VoteType, LogType, NEW s \in Server, SendHeartbeats(s) PROVE LogStepOf(s)
<1>1. /\ net' \in Heartbeat(net, s, log[s]) /\ UNCHANGED <<log, elected, state, term>>
      /\ state[s] = "LEADER"
  BY DEF SendHeartbeats, server
<1>2. LogSends(s) BY <1>1, HeartbeatTells DEF VoteType
<1> QED BY <1>1, <1>2, KeepsLog DEF StaysOrWins

\* A leader that appends and sends its new log.
LEMMA AppendsLog ==
    ASSUME VoteType, LogType, NEW s \in Server, NEW c \in Change, state[s] = "LEADER",
           UNCHANGED <<state, term, elected>>,
           log' = [log EXCEPT ![s] = Append(@, [term |-> term[s], change |-> c])],
           LogSends(s)
    PROVE  LogStepOf(s)
<1>1. [term |-> term[s], change |-> c] \in Entry BY DEF Entry, VoteType
<1>2. log'[s] = Append(log[s], [term |-> term[s], change |-> c]) BY DEF LogType
<1>3. log'[s] \in Seq(Entry) BY <1>1, <1>2 DEF LogType
<1>4. log' \in [Server -> Seq(Entry)] /\ \A x \in Server \ {s} : log'[x] = log[x]
  BY <1>2, <1>3 DEF LogType
<1> QED BY <1>2, <1>4 DEF LogStepOf, Extends, StaysOrWins

LEMMA ProposeAtLeaderLogs ==
    ASSUME VoteType, LogType, NEW s \in Server, NEW c \in Change, ProposeAtLeader(s, c)
    PROVE  LogStepOf(s)
<1> DEFINE l == Append(log[s], [term |-> term[s], change |-> c])
<1>1. /\ net' \in Heartbeat(net, s, l) /\ UNCHANGED <<elected, state, term>>
      /\ state[s] = "LEADER"
      /\ log' = [log EXCEPT ![s] = Append(@, [term |-> term[s], change |-> c])]
  BY DEF ProposeAtLeader
<1>2. log'[s] = l BY <1>1 DEF LogType
<1> HIDE DEF l
<1>3. LogSends(s) BY <1>1, <1>2, HeartbeatTells DEF VoteType
<1> QED BY <1>1, <1>3, AppendsLog

LEMMA ProposeForwardedLogs ==
    ASSUME VoteType, LogType, NEW s \in Server, NEW c \in Change, ProposeForwarded(s, c)
    PROVE  LogStepOf(s)
<1> DEFINE m == [type |-> "Propose", change |-> c]
<1>1. m.type = "Propose" /\ m.change = c OBVIOUS
<1>2. /\ net' \in Puts(net, s, {leaderId[s]}, m) /\ UNCHANGED <<log, elected, state, term>>
  BY DEF ProposeForwarded, server
<1> HIDE DEF m
<1>3. \A b : Tells(s, b, m) BY <1>1 DEF Tells
<1>4. LogSends(s) BY <1>2, <1>3, PutTells DEF VoteType
<1> QED BY <1>2, <1>4, KeepsLog DEF StaysOrWins

LEMMA HandleProposeLogs ==
    ASSUME VoteType, LogType, NEW s \in Server, NEW from \in Others(s), HandlePropose(s, from)
    PROVE  LogStepOf(s)
<1>0. from \in Server \ {s} BY DEF Others
<1> DEFINE c == net[<<from, s>>].change
           l == Append(log[s], [term |-> term[s], change |-> c])
<1>1. UNCHANGED <<elected, state, term>> BY DEF HandlePropose
<1>2. CASE state[s] = "LEADER"
  <2>1. /\ net' \in Heartbeat(Taken(s, from), s, l)
        /\ log' = [log EXCEPT ![s] = l]
    BY <1>2 DEF HandlePropose
  <2>2. c \in Change
    <3>1. Sent(from, s) # None /\ Sent(from, s).type = "Propose"
      BY DEF HandlePropose, Hears, Sent
    <3> QED BY <1>0, <3>1 DEF LogType, Sent
  <2>3. log'[s] = l BY <2>1 DEF LogType
  <2>4. log' = [log EXCEPT ![s] = Append(@, [term |-> term[s], change |-> c])] BY <2>1
  <2> HIDE DEF l, c
  <2>5. LogSends(s) BY <1>0, <1>1, <1>2, <2>1, <2>3, HeartbeatTells DEF VoteType
  <2> QED BY <1>1, <1>2, <2>2, <2>4, <2>5, AppendsLog
<1>3. CASE state[s] # "LEADER"
  <2>1. log' = log /\ net' = Taken(s, from) BY <1>3 DEF HandlePropose
  <2>2. LogSends(s) BY <1>0, <2>1, TakeTells DEF VoteType
  <2> QED BY <1>1, <1>3, <2>1, <2>2, KeepsLog DEF StaysOrWins
<1> QED BY <1>2, <1>3

LEMMA HandleRequestVoteLogs ==
    ASSUME VoteType, LogType, NEW s \in Server, NEW from \in Others(s), HandleRequestVote(s, from),
           NEW t \in Nat, t = Sent(from, s).term
    PROVE  LogStepOf(s)
<1>0. from \in Server \ {s} BY DEF Others
<1>1. PICK m : net' \in Puts(Taken(s, from), s, {from}, m) /\ m.type = "RequestVoteResponse"
  BY DEF HandleRequestVote
<1>2. /\ UNCHANGED <<log, elected>> /\ term' = [term EXCEPT ![s] = Max({@, t})]
      /\ state' = [state EXCEPT ![s] = IF t > term[s] THEN "FOLLOWER" ELSE @]
  BY DEF HandleRequestVote, Newer, Sent
<1>3. \A b : Tells(s, b, m) BY <1>1 DEF Tells
<1>4. LogSends(s) BY <1>0, <1>1, <1>3, PutTells DEF VoteType
<1>5. Max({term[s], t}) = IF term[s] >= t THEN term[s] ELSE t BY MaxFacts DEF VoteType
<1>6. StaysOrWins(s)
  <2>1. CASE t > term[s] BY <1>2, <2>1 DEF StaysOrWins, VoteType
  <2>2. CASE ~(t > term[s])
    <3>1. Max({term[s], t}) = term[s] BY <1>5, <2>2 DEF VoteType
    <3> QED BY <1>2, <2>2, <3>1 DEF StaysOrWins, VoteType
  <2> QED BY <2>1, <2>2
<1> QED BY <1>2, <1>4, <1>6, KeepsLog

LEMMA HandleVoteResponseLogs ==
    ASSUME VoteType, LogType, NEW s \in Server, NEW from \in Others(s), HandleVoteResponse(s, from)
    PROVE  LogStepOf(s)
<1>0. from \in Server \ {s} BY DEF Others
<1>1. UNCHANGED <<log, term>> BY DEF HandleVoteResponse
<1>2. CASE state'[s] = "LEADER" /\ state[s] # "LEADER"
  <2>1. /\ net' \in Heartbeat(Taken(s, from), s, log[s])
        /\ elected' = elected \cup {<<term[s], s>>} /\ state[s] = "CANDIDATE"
    BY <1>2 DEF HandleVoteResponse, VoteType
  <2>2. LogSends(s) BY <1>0, <1>1, <1>2, <2>1, HeartbeatTells DEF VoteType
  <2> QED BY <1>1, <2>1, <2>2, KeepsLog DEF StaysOrWins, Keeps
<1>3. CASE ~(state'[s] = "LEADER" /\ state[s] # "LEADER")
  <2>1. net' = Taken(s, from) /\ elected' = elected /\ (state'[s] = "LEADER" => state[s] = "LEADER")
    BY <1>3 DEF HandleVoteResponse, VoteType
  <2>2. LogSends(s) BY <1>0, <2>1, TakeTells DEF VoteType
  <2> QED BY <1>1, <2>1, <2>2, KeepsLog DEF StaysOrWins
<1> QED BY <1>2, <1>3

LEMMA HandleAppendEntriesLogs ==
    ASSUME VoteType, LogType, NEW s \in Server, NEW from \in Others(s),
           HandleAppendEntries(s, from), NEW t \in Nat, t = Sent(from, s).term
    PROVE  LogStepOf(s)
<1>0. from \in Server \ {s} BY DEF Others
<1> DEFINE m == [type |-> "AppendEntriesResponse", term |-> term'[s],
                 success |-> t >= term[s], index |-> Len(log'[s])]
<1>1. /\ net' \in Puts(Taken(s, from), s, {from}, m)
      /\ m.type = "AppendEntriesResponse" /\ m.index = Len(log'[s])
      /\ m.term = term'[s] /\ (m.success => t >= term[s])
  BY DEF HandleAppendEntries, Sent
<1> HIDE DEF m
<1>2. ASSUME t >= term[s] => FollowsTo(s, from) PROVE LogSends(s)
  <2>1. \A b \in {from} : b # s => Tells(s, b, m) BY <1>1, <1>2 DEF Tells
  <2>2. DOMAIN net = Links BY DEF VoteType
  <2>3. \E x \in Server \ {s} : net' \in Puts(Taken(s, x), s, {from}, m) BY <1>0, <1>1
  <2> QED BY <2>1, <2>2, <2>3, PutTells
<1>4. Max({term[s], t}) = IF term[s] >= t THEN term[s] ELSE t BY MaxFacts DEF VoteType
<1>5. term' = [term EXCEPT ![s] = Max({@, t})] /\ elected' = elected
  BY DEF HandleAppendEntries, Sent
<1>6. CASE t >= term[s]
  <2>1. /\ state' = [state EXCEPT ![s] = "FOLLOWER"]
        /\ log' = [log EXCEPT ![s] = Sent(from, s).entries]
    BY <1>6 DEF HandleAppendEntries, Sent
  <2>2. Carries(from, s) BY DEF HandleAppendEntries, Hears, Carries, Sent
  <2>3. Sent(from, s).entries \in Seq(Entry) BY <1>0, <2>2 DEF LogType, Carries
  <2>4. Max({term[s], t}) = t BY <1>4, <1>6 DEF VoteType
  <2>5. state'[s] = "FOLLOWER" /\ term'[s] = t BY <1>5, <2>1, <2>4 DEF VoteType
  <2>6. /\ log' \in [Server -> Seq(Entry)] /\ \A x \in Server \ {s} : log'[x] = log[x]
        /\ log'[s] = Sent(from, s).entries
    BY <2>1, <2>3 DEF LogType
  <2>7. FollowsTo(s, from) BY <1>0, <2>2, <2>5, <2>6 DEF FollowsTo
  <2>8. Follows(s) BY <1>0, <2>7 DEF Follows
  <2>9. LogSends(s) BY <1>2, <2>7
  <2> QED BY <1>5, <2>5, <2>6, <2>8, <2>9 DEF LogStepOf, StaysOrWins
<1>7. CASE ~(t >= term[s])
  <2>1. UNCHANGED <<state, log>> BY <1>7 DEF HandleAppendEntries, Sent
  <2>2. Max({term[s], t}) = term[s] BY <1>4, <1>7 DEF VoteType
  <2>3. term'[s] = term[s] BY <1>5, <2>2 DEF VoteType
  <2>4. LogSends(s) BY <1>2, <1>7
  <2> QED BY <1>5, <2>1, <2>3, <2>4, KeepsLog DEF StaysOrWins
<1> QED BY <1>6, <1>7

LEMMA HandleAppendResponseLogs ==
    ASSUME VoteType, LogType, NEW s \in Server, NEW from \in Others(s),
           HandleAppendResponse(s, from)
    PROVE  LogStepOf(s)
<1>0. from \in Server \ {s} BY DEF Others
<1>1. UNCHANGED <<log, elected>> /\ net' = Taken(s, from) BY DEF HandleAppendResponse
<1>2. LogSends(s) BY <1>0, <1>1, TakeTells DEF VoteType
<1>3. StaysOrWins(s)
  <2>1. CASE net[<<from, s>>].term > term[s]
    BY <2>1 DEF HandleAppendResponse, StaysOrWins, VoteType
  <2>2. CASE ~(net[<<from, s>>].term > term[s])
    BY <2>2 DEF HandleAppendResponse, StaysOrWins
  <2> QED BY <2>1, <2>2
<1> QED BY <1>1, <1>2, <1>3, KeepsLog

-----------------------------------------------------------------------------
(***************************************************************************)
(* Logs match                                                              *)
(***************************************************************************)

LogStep(s) ==
    /\ s \in Server /\ ElectionInv /\ ElectionInv' /\ LogFacts
    /\ VoteStepOf(s) /\ LogStepOf(s)

\* Only a leader that appends makes a log nobody had.
LEMMA SourceBack ==
    ASSUME NEW s, LogStep(s), NEW l, Source(l)'
    PROVE  Source(l) \/ (Extends(s) /\ l = log'[s])
<1> USE DEF LogStep
<1>1. Source(log'[s]) \/ Extends(s)
  <2>1. CASE Keeps(s) BY <2>1 DEF Keeps, Source
  <2>2. CASE Follows(s) BY <2>2 DEF Follows, FollowsTo, Source
  <2> QED BY <2>1, <2>2 DEF LogStepOf
<1>2. ASSUME NEW x \in Server, l = log'[x] PROVE Source(l) \/ (Extends(s) /\ l = log'[s])
  <2>1. CASE x = s BY <1>1, <1>2, <2>1
  <2>2. CASE x # s BY <1>2, <2>2 DEF LogStepOf, Source
  <2> QED BY <2>1, <2>2
<1>3. ASSUME NEW a \in Server, NEW b \in Server, a # b, Carries(a, b)', l = Sent(a, b)'.entries
      PROVE  Source(l) \/ (Extends(s) /\ l = log'[s])
  <2>1. Sent(a, b)' # None /\ Sent(a, b)'.type = "AppendEntries" BY <1>3 DEF Carries
  <2>2. \/ Sent(a, b)' = Sent(a, b) \/ Sent(a, b)' = None
        \/ a = s /\ Tells(s, b, Sent(a, b)')
    BY <1>3 DEF LogStepOf, LogSends
  <2>3. CASE Sent(a, b)' = Sent(a, b) BY <1>3, <2>1, <2>3 DEF Source, Carries
  <2>4. CASE Tells(s, b, Sent(a, b)')
    <3>1. l = log'[s] BY <1>3, <2>1, <2>4 DEF Tells
    <3> QED BY <1>1, <3>1
  <2> QED BY <2>1, <2>2, <2>3, <2>4
<1> QED BY <1>2, <1>3 DEF Source

LEMMA SourceType ==
    ASSUME LogType, NEW l, Source(l) PROVE l \in Seq(Entry)
BY DEF LogType, Source, Carries

\* The log a leader has after an append.
LEMMA ExtendsFacts ==
    ASSUME NEW s, LogStep(s), Extends(s)
    PROVE  /\ Source(log[s]) /\ log[s] \in Seq(Entry) /\ log'[s] \in Seq(Entry)
           /\ Len(log'[s]) = Len(log[s]) + 1 /\ log'[s][Len(log[s]) + 1].term = term[s]
           /\ \A i \in 1..Len(log[s]) : log'[s][i] = log[s][i]
           /\ <<term[s], s>> \in elected /\ state[s] = "LEADER"
<1> USE DEF LogStep
<1>1. PICK c \in Change : log'[s] = Append(log[s], [term |-> term[s], change |-> c])
  BY DEF Extends
<1>2. log[s] \in Seq(Entry) /\ log'[s] \in Seq(Entry) /\ Source(log[s])
  BY DEF LogFacts, LogType, LogStepOf, Source
<1>3. <<term[s], s>> \in elected /\ state[s] = "LEADER"
  BY DEF Extends, LogFacts, LeadersWereElected
<1>4. [term |-> term[s], change |-> c] \in Entry BY DEF Entry, ElectionInv, VoteType
<1> DEFINE e == [term |-> term[s], change |-> c]
<1>5. e.term = term[s] /\ log'[s] = Append(log[s], e) BY <1>1
<1> HIDE DEF e
<1>6. /\ Len(log'[s]) = Len(log[s]) + 1 /\ log'[s][Len(log[s]) + 1] = e
      /\ \A i \in 1..Len(log[s]) : log'[s][i] = log[s][i]
  BY <1>2, <1>5
<1> QED BY <1>2, <1>3, <1>5, <1>6

LEMMA LogTypeKept ==
    ASSUME NEW s, LogStep(s) PROVE LogType'
<1> USE DEF LogStep
<1>1. log' \in [Server -> Seq(Entry)] BY DEF LogStepOf
<1>2. ASSUME NEW a \in Server, NEW b \in Server, a # b, Sent(a, b)' # None
      PROVE  /\ Sent(a, b)'.type = "AppendEntries" => Sent(a, b)'.entries \in Seq(Entry)
             /\ Sent(a, b)'.type = "Propose" => Sent(a, b)'.change \in Change
  <2>1. Sent(a, b)' = Sent(a, b) \/ Tells(s, b, Sent(a, b)') BY <1>2 DEF LogStepOf, LogSends
  <2>2. CASE Sent(a, b)' = Sent(a, b) BY <1>2, <2>2 DEF LogFacts, LogType
  <2>3. CASE Tells(s, b, Sent(a, b)') BY <1>1, <2>3 DEF Tells
  <2> QED BY <2>1, <2>2, <2>3
<1> QED BY <1>1, <1>2 DEF LogType

LEMMA LeadersWereElectedKept ==
    ASSUME NEW s, LogStep(s) PROVE LeadersWereElected' /\ WinnersMovedOn'
<1> USE DEF LogStep
<1>1. ASSUME NEW x \in Server, state'[x] = "LEADER" PROVE <<term'[x], x>> \in elected'
  <2>1. elected \subseteq elected' BY DEF LogStepOf
  <2>2. CASE x # s
    <3>1. state[x] = "LEADER" /\ term'[x] = term[x] BY <1>1, <2>2 DEF VoteStepOf, SameBut
    <3> QED BY <2>1, <3>1 DEF LogFacts, LeadersWereElected
  <2>3. CASE x = s
    BY <1>1, <2>1, <2>3 DEF LogStepOf, StaysOrWins, LogFacts, LeadersWereElected
  <2> QED BY <2>2, <2>3
<1>2. ASSUME NEW t \in Nat, NEW p \in Server, <<t, p>> \in elected', Fresher(p, t)' PROVE FALSE
  <2>0. VoteStep(s) BY DEF VoteStep
  <2>1. Fresher(p, t) BY <1>2, <2>0, FresherBack
  <2>2. CASE <<t, p>> \in elected BY <2>1, <2>2 DEF LogFacts, WinnersMovedOn
  <2>3. CASE p = s /\ Wins(s, t)
    BY <1>2, <2>3 DEF Wins, Crowned, Fresher
  <2> QED BY <1>2, <2>0, <2>2, <2>3, ElectedBack
<1> QED BY <1>1, <1>2 DEF LeadersWereElected, WinnersMovedOn

LEMMA EntriesAreOfWinnersKept ==
    ASSUME NEW s, LogStep(s) PROVE EntriesAreOfWinners'
<1> USE DEF LogStep
<1>0. elected \subseteq elected' BY DEF LogStepOf
<1>1. ASSUME NEW l, Source(l)', NEW i \in 1..Len(l)
      PROVE  \E p \in Server : <<l[i].term, p>> \in elected
  <2>1. CASE Source(l) BY <1>1, <2>1 DEF LogFacts, EntriesAreOfWinners
  <2>2. CASE Extends(s) /\ l = log'[s]
    <3>1. /\ Source(log[s]) /\ log[s] \in Seq(Entry) /\ log'[s] \in Seq(Entry)
          /\ Len(log'[s]) = Len(log[s]) + 1 /\ log'[s][Len(log[s]) + 1].term = term[s]
          /\ \A j \in 1..Len(log[s]) : log'[s][j] = log[s][j]
          /\ <<term[s], s>> \in elected
      BY <2>2, ExtendsFacts
    <3>2. CASE i \in 1..Len(log[s])
      <4>1. l[i] = log[s][i] BY <2>2, <3>1, <3>2
      <4> QED BY <3>1, <3>2, <4>1 DEF LogFacts, EntriesAreOfWinners
    <3>3. CASE i = Len(log[s]) + 1 BY <2>2, <3>1, <3>3
    <3> QED BY <1>1, <2>2, <3>1, <3>2, <3>3
  <2> QED BY <1>1, <2>1, <2>2, SourceBack
<1> QED BY <1>0, <1>1 DEF EntriesAreOfWinners

LEMMA LeadersAreAheadKept ==
    ASSUME NEW s, LogStep(s) PROVE LeadersAreAhead'
<1> USE DEF LogStep
<1> SUFFICES ASSUME NEW p \in Server, NEW l, state'[p] = "LEADER", Source(l)',
                    NEW i \in 1..Len(l), l[i].term = term'[p]
             PROVE  i <= Len(log'[p]) /\ log'[p][i].term = term'[p]
  BY DEF LeadersAreAhead
<1>0. log \in [Server -> Seq(Entry)] /\ log' \in [Server -> Seq(Entry)]
  BY DEF LogFacts, LogType, LogStepOf
<1>1. Len(log[p]) \in Nat /\ Len(log'[p]) \in Nat BY <1>0
<1>2. CASE state[p] = "LEADER" /\ term'[p] = term[p]
  <2>1. /\ Len(log[p]) <= Len(log'[p])
        /\ \A j \in 1..Len(log[p]) : log'[p][j] = log[p][j]
    <3>1. CASE p # s \/ Keeps(s) BY <1>1, <3>1 DEF LogStepOf, Keeps
    <3>2. CASE p = s /\ Extends(s)
      <4>1. /\ Len(log'[s]) = Len(log[s]) + 1
            /\ \A j \in 1..Len(log[s]) : log'[s][j] = log[s][j]
        BY <3>2, ExtendsFacts
      <4> QED BY <1>1, <3>2, <4>1
    <3>3. CASE p = s /\ Follows(s) BY <3>3 DEF Follows, FollowsTo
    <3> QED BY <3>1, <3>2, <3>3 DEF LogStepOf
  <2>2. CASE Source(l)
    <3>1. i <= Len(log[p]) /\ log[p][i].term = term[p]
      BY <1>2, <2>2 DEF LogFacts, LeadersAreAhead
    <3>2. Len(l) \in Nat BY <2>2, SourceType DEF LogFacts
    <3>3. i \in 1..Len(log[p]) BY <1>1, <3>1, <3>2
    <3> QED BY <1>1, <1>2, <2>1, <3>1, <3>3
  <2>3. CASE Extends(s) /\ l = log'[s]
    <3>1. /\ Source(log[s]) /\ log[s] \in Seq(Entry) /\ log'[s] \in Seq(Entry)
          /\ Len(log'[s]) = Len(log[s]) + 1 /\ log'[s][Len(log[s]) + 1].term = term[s]
          /\ \A j \in 1..Len(log[s]) : log'[s][j] = log[s][j]
          /\ <<term[s], s>> \in elected
      BY <2>3, ExtendsFacts
    <3>2. CASE p = s BY <2>3, <3>1, <3>2
    <3>3. CASE p # s
      <4>1. <<term[p], p>> \in elected BY <1>2 DEF LogFacts, LeadersWereElected
      <4>2. term[p] # term[s]
        BY <3>1, <3>3, <4>1 DEF ElectionInv, VoteType
      <4>3. i \in 1..Len(log[s]) BY <1>2, <2>3, <3>1, <4>2
      <4>4. l[i] = log[s][i] BY <2>3, <3>1, <4>3
      <4>5. i <= Len(log[p]) /\ log[p][i].term = term[p]
        BY <1>2, <3>1, <4>3, <4>4 DEF LogFacts, LeadersAreAhead
      <4>6. i \in 1..Len(log[p]) BY <1>1, <3>1, <4>3, <4>5
      <4> QED BY <1>1, <1>2, <2>1, <4>5, <4>6
    <3> QED BY <3>2, <3>3
  <2> QED BY <2>2, <2>3, SourceBack
<1>3. CASE ~(state[p] = "LEADER" /\ term'[p] = term[p])
  <2>1. /\ p = s /\ state[s] = "CANDIDATE" /\ <<term[s], s>> \in elected' /\ term'[s] = term[s]
    BY <1>3 DEF VoteStepOf, SameBut, LogStepOf, StaysOrWins
  <2>2. ~Extends(s) BY <2>1 DEF Extends
  <2>3. Source(l) BY <2>2, SourceBack
  <2>4. PICK q \in Server : <<l[i].term, q>> \in elected
    BY <2>3 DEF LogFacts, EntriesAreOfWinners
  <2>5. <<term[s], q>> \in elected /\ term[s] \in Nat
    BY <2>1, <2>4 DEF ElectionInv, VoteType
  <2>6. <<term[s], q>> \in elected' BY <2>5 DEF LogStepOf
  <2>7. PICK t \in Nat : t = term[s] BY <2>5
  <2>8. q = s BY <2>1, <2>6, <2>7 DEF ElectionInv
  <2>9. Fresher(s, t) BY <2>1, <2>7 DEF Fresher
  <2> QED BY <2>5, <2>7, <2>8, <2>9 DEF LogFacts, WinnersMovedOn
<1> QED BY <1>2, <1>3

\* A log that grew still matches what the old one matched, where the other has
\* nothing of the new entry's term beyond it.
LEMMA MatchGrown ==
    ASSUME NEW l \in Seq(Entry), NEW n \in Seq(Entry), NEW k \in Seq(Entry),
           Len(n) = Len(l) + 1, \A i \in 1..Len(l) : n[i] = l[i],
           Match(l, k), Match(k, l),
           \A i \in 1..Len(k) : k[i].term = n[Len(l) + 1].term => i <= Len(l)
    PROVE  Match(n, k) /\ Match(k, n)
<1>0. Len(l) \in Nat /\ Len(n) \in Nat /\ Len(k) \in Nat OBVIOUS
<1>1. Match(n, k)
  <2> SUFFICES ASSUME NEW i \in 1..Len(n), i <= Len(k), n[i].term = k[i].term,
                      NEW j \in 1..i
               PROVE  n[j] = k[j]
    BY DEF Match
  <2>1. i \in 1..Len(l) BY <1>0
  <2>2. l[i].term = k[i].term BY <2>1
  <2>3. l[j] = k[j] BY <2>1, <2>2 DEF Match
  <2>4. j \in 1..Len(l) BY <1>0, <2>1
  <2> QED BY <2>3, <2>4
<1>2. Match(k, n)
  <2> SUFFICES ASSUME NEW i \in 1..Len(k), i <= Len(n), n[i].term = k[i].term,
                      NEW j \in 1..i
               PROVE  k[j] = n[j]
    BY DEF Match
  <2>1. i \in 1..Len(l) BY <1>0
  <2>2. l[i].term = k[i].term BY <2>1
  <2>3. l[j] = k[j] BY <1>0, <2>1, <2>2 DEF Match
  <2>4. j \in 1..Len(l) BY <1>0, <2>1
  <2> QED BY <2>3, <2>4
<1> QED BY <1>1, <1>2

LEMMA SourcesMatchKept ==
    ASSUME NEW s, LogStep(s) PROVE SourcesMatch'
<1> USE DEF LogStep
<1>1. ASSUME NEW k, Source(k), Extends(s)
      PROVE  Match(log'[s], k) /\ Match(k, log'[s])
  <2>1. /\ Source(log[s]) /\ log[s] \in Seq(Entry) /\ log'[s] \in Seq(Entry)
        /\ Len(log'[s]) = Len(log[s]) + 1 /\ log'[s][Len(log[s]) + 1].term = term[s]
        /\ \A i \in 1..Len(log[s]) : log'[s][i] = log[s][i]
        /\ state[s] = "LEADER"
    BY <1>1, ExtendsFacts
  <2>2. k \in Seq(Entry) BY <1>1, SourceType DEF LogFacts
  <2>3. Match(log[s], k) /\ Match(k, log[s]) BY <1>1, <2>1 DEF LogFacts, SourcesMatch
  <2>4. \A i \in 1..Len(k) : k[i].term = log'[s][Len(log[s]) + 1].term => i <= Len(log[s])
    BY <1>1, <2>1 DEF LogFacts, LeadersAreAhead
  <2> QED BY <2>1, <2>2, <2>3, <2>4, MatchGrown
<1> SUFFICES ASSUME NEW l, NEW k, Source(l)', Source(k)' PROVE Match(l, k)
  BY DEF SourcesMatch
<1>2. Source(l) \/ (Extends(s) /\ l = log'[s]) BY SourceBack
<1>3. Source(k) \/ (Extends(s) /\ k = log'[s]) BY SourceBack
<1>4. CASE Source(l) /\ Source(k) BY <1>4 DEF LogFacts, SourcesMatch
<1>5. CASE l = k BY <1>5 DEF Match
<1> QED BY <1>1, <1>2, <1>3, <1>4, <1>5

LogInv == ElectionInv /\ ("promoted" \notin excused => LogFacts)

LEMMA LogFactsKept ==
    ASSUME NEW s \in Server, ElectionInv, ElectionInv', LogFacts, VoteStepOf(s), LogStepOf(s)
    PROVE  LogFacts'
<1>1. LogStep(s) BY DEF LogStep
<1> QED BY <1>1, LogTypeKept, LeadersWereElectedKept, EntriesAreOfWinnersKept,
        LeadersAreAheadKept, SourcesMatchKept DEF LogFacts

LEMMA StepsLog ==
    ASSUME ElectionInv, LogFacts, Next, "promoted" \notin excused'
    PROVE  \E s \in Server : VoteStepOf(s) /\ LogStepOf(s)
<1>0. VoteType /\ LogType BY DEF ElectionInv, LogFacts
<1>1. CASE \E s \in Server : StartElection(s) \/ SendHeartbeats(s)
  BY <1>0, <1>1, StartElectionVotes, StartElectionLogs, SendHeartbeatsVotes, SendHeartbeatsLogs
<1>2. ASSUME NEW s \in Server, NEW c \in Change,
             ProposeAtLeader(s, c) \/ ProposeAlone(s, c) \/ ProposeForwarded(s, c)
      PROVE  VoteStepOf(s) /\ LogStepOf(s)
  <2>1. ~ProposeAlone(s, c) BY DEF ProposeAlone
  <2> QED BY <1>0, <1>2, <2>1, ProposeAtLeaderVotes, ProposeAtLeaderLogs,
          ProposeForwardedVotes, ProposeForwardedLogs
<1>3. ASSUME NEW s \in Server, NEW from \in Others(s),
             \/ HandleRequestVote(s, from) \/ HandleVoteResponse(s, from)
             \/ HandleAppendEntries(s, from) \/ HandleAppendResponse(s, from)
             \/ HandlePropose(s, from)
      PROVE  VoteStepOf(s) /\ LogStepOf(s)
  <2>0. from \in Server \ {s} /\ Said(from, s) BY DEF Others, ElectionInv
  <2>1. CASE HandleRequestVote(s, from)
    <3>1. Sent(from, s) # None /\ Sent(from, s).type = "RequestVote"
      BY <2>1 DEF HandleRequestVote, Hears, Sent
    <3>2. Sent(from, s).term \in Nat BY <2>0, <3>1 DEF Said
    <3> QED BY <1>0, <2>1, <3>2, HandleRequestVoteVotes, HandleRequestVoteLogs
  <2>2. CASE HandleVoteResponse(s, from)
    BY <1>0, <2>2, HandleVoteResponseVotes, HandleVoteResponseLogs
  <2>3. CASE HandleAppendEntries(s, from)
    <3>1. Sent(from, s) # None /\ Sent(from, s).type = "AppendEntries"
      BY <2>3 DEF HandleAppendEntries, Hears, Sent
    <3>2. Sent(from, s).term \in Nat BY <2>0, <3>1 DEF Said
    <3> QED BY <1>0, <2>3, <3>2, HandleAppendEntriesVotes, HandleAppendEntriesLogs
  <2>4. CASE HandleAppendResponse(s, from)
    BY <1>0, <2>4, HandleAppendResponseVotes, HandleAppendResponseLogs
  <2>5. CASE HandlePropose(s, from)
    BY <1>0, <2>5, HandleProposeVotes, HandleProposeLogs
  <2> QED BY <1>3, <2>1, <2>2, <2>3, <2>4, <2>5
<1> QED BY <1>1, <1>2, <1>3 DEF Next

LEMMA ExcusesStay ==
    ASSUME [Next]_vars PROVE excused \subseteq excused'
<1>1. CASE UNCHANGED vars BY <1>1 DEF vars
<1>2. ASSUME NEW s \in Server, StartElection(s) \/ SendHeartbeats(s)
      PROVE  excused \subseteq excused'
  BY <1>2 DEF StartElection, SendHeartbeats
<1>3. ASSUME NEW s \in Server, NEW c \in Change,
             ProposeAtLeader(s, c) \/ ProposeAlone(s, c) \/ ProposeForwarded(s, c)
      PROVE  excused \subseteq excused'
  BY <1>3 DEF ProposeAtLeader, ProposeAlone, ProposeForwarded
<1>4. ASSUME NEW s \in Server, NEW from \in Others(s),
             \/ HandleRequestVote(s, from) \/ HandleVoteResponse(s, from)
             \/ HandleAppendEntries(s, from) \/ HandlePropose(s, from)
      PROVE  excused \subseteq excused'
  BY <1>4 DEF HandleRequestVote, HandleVoteResponse, HandleAppendEntries, HandlePropose
<1>5. ASSUME NEW s \in Server, NEW from \in Others(s), HandleAppendResponse(s, from)
      PROVE  excused \subseteq excused'
  <2>1. excused' = excused \/ excused' = excused \cup {"old term"}
    BY <1>5 DEF HandleAppendResponse
  <2> QED BY <2>1
<1> QED BY <1>1, <1>2, <1>3, <1>4, <1>5 DEF Next

LEMMA LogStepKeeps ==
    ASSUME AtMostThree, LogInv, [Next]_vars PROVE LogInv'
<1>1. ElectionInv /\ ElectionInv' BY ElectionStep DEF LogInv
<1>2. ASSUME "promoted" \notin excused' PROVE LogFacts'
  <2>1. LogFacts BY <1>2, ExcusesStay DEF LogInv
  <2>2. CASE UNCHANGED vars
    <3>1. UNCHANGED <<log, net, state, term, elected>> BY <2>2 DEF vars, server
    <3>2. \A l : Source(l)' <=> Source(l) BY <3>1 DEF Source, Carries, Sent
    <3>3. LogType' BY <2>1, <3>1 DEF LogFacts, LogType, Sent
    <3>4. LeadersWereElected' /\ WinnersMovedOn'
      BY <2>1, <3>1 DEF LogFacts, LeadersWereElected, WinnersMovedOn, Fresher
    <3>5. EntriesAreOfWinners' BY <2>1, <3>1, <3>2 DEF LogFacts, EntriesAreOfWinners
    <3>6. LeadersAreAhead' BY <2>1, <3>1, <3>2 DEF LogFacts, LeadersAreAhead
    <3>7. SourcesMatch' BY <2>1, <3>2 DEF LogFacts, SourcesMatch
    <3> QED BY <3>3, <3>4, <3>5, <3>6, <3>7 DEF LogFacts
  <2>3. CASE Next BY <1>1, <1>2, <2>1, <2>3, StepsLog, LogFactsKept
  <2> QED BY <2>2, <2>3
<1> QED BY <1>1, <1>2 DEF LogInv

LEMMA LogInit ==
    ASSUME Init PROVE LogFacts
<1>1. \A a, b \in Server : a # b => Sent(a, b) = None
  <2> SUFFICES ASSUME NEW a \in Server, NEW b \in Server, a # b PROVE net[<<a, b>>] = None
    BY DEF Sent
  <2>1. <<a, b>> \in Links BY DEF Links
  <2>2. net = [l \in Links |-> None] BY DEF Init, Links
  <2> QED BY <2>1, <2>2
<1>2. \A s \in Server : log[s] = <<>> /\ state[s] = "FOLLOWER" BY DEF Init
<1>3. elected = {} /\ log \in [Server -> Seq(Entry)] BY DEF Init
<1>4. \A l : Source(l) => l = <<>> BY <1>1, <1>2 DEF Source, Carries
<1>5. LogType BY <1>1, <1>3 DEF LogType
<1>6. LeadersWereElected /\ WinnersMovedOn
  BY <1>2, <1>3 DEF LeadersWereElected, WinnersMovedOn
<1>7. EntriesAreOfWinners BY <1>4 DEF EntriesAreOfWinners
<1>8. LeadersAreAhead BY <1>2 DEF LeadersAreAhead
<1>9. SourcesMatch BY <1>4 DEF SourcesMatch, Match
<1> QED BY <1>5, <1>6, <1>7, <1>8, <1>9 DEF LogFacts

LEMMA LogInvariant ==
    ASSUME AtMostThree PROVE Spec => []LogInv
<1>1. Init => LogInv BY ElectionInit, LogInit DEF LogInv
<1>2. LogInv /\ [Next]_vars => LogInv' BY LogStepKeeps
<1> QED BY <1>1, <1>2, PTL DEF Spec

\* As long as no server made itself the leader (propose() with no peers), two of up
\* to three logs that hold an entry of one term at one index are the same up to it,
\* although followers take over whole logs and old heartbeats arrive late.
THEOREM LogsMatch ==
    ASSUME AtMostThree PROVE Spec => []LogMatching
<1>1. LogInv => LogMatching
  BY DEF LogInv, LogFacts, SourcesMatch, Source, Match, LogMatching
<1>2. Spec => []LogInv BY LogInvariant
<1> QED BY <1>1, <1>2, PTL

-----------------------------------------------------------------------------
(***************************************************************************)
(* Replication, while no server made itself the leader and every leader    *)
(* counted replicas of an entry of its own term                            *)
(***************************************************************************)

End(l) == l[Len(l)].term

Begins(l, k) == Len(l) <= Len(k) /\ \A i \in 1..Len(l) : l[i] = k[i]

Has(s, l) == Begins(l, log[s])

\* An answer by which q told p that it has taken over so many entries in term t.
Acks(q, p, t) ==
    /\ Sent(q, p) # None /\ Sent(q, p).type = "AppendEntriesResponse"
    /\ Sent(q, p).success /\ Sent(q, p).term = t

TallyType ==
    /\ match \in [Server -> [Server -> Nat]] /\ \A p \in Server : match[p][p] = 0
    /\ applied \in [Server -> Seq(Entry)]
    /\ \A a, b \in Server : a # b /\ Sent(a, b) # None =>
          /\ Sent(a, b).type = "AppendEntries" => Sent(a, b).commit \in Nat
          /\ Sent(a, b).type = "AppendEntriesResponse" => Sent(a, b).index \in Nat

\* Terms only rise along a log, up to that of its server or message.
TermsRise ==
    \A l : Source(l) => \A i, j \in 1..Len(l) : i <= j => l[i].term <= l[j].term

TermsReached ==
    /\ \A s \in Server : \A i \in 1..Len(log[s]) : log[s][i].term <= term[s]
    /\ \A a, b \in Server : a # b /\ Carries(a, b) =>
          \A i \in 1..Len(Sent(a, b).entries) : Sent(a, b).entries[i].term <= Sent(a, b).term

\* The entries of a term follow each other in every log that has a later one.
Chained ==
    \A l, k : Source(l) /\ Source(k) =>
        \A i \in 1..Len(l), j \in 1..Len(k) :
            i <= j /\ l[i].term = k[j].term => k[i].term = l[i].term

\* A request for a vote tells the candidate's log, as long as it is a candidate.
RequestsTell ==
    \A c, v \in Server : c # v /\ Sent(c, v) # None /\ Sent(c, v).type = "RequestVote" =>
        /\ Sent(c, v).term <= term[c]
        /\ Sent(c, v).term = term[c] /\ state[c] = "CANDIDATE" =>
              Sent(c, v).lastIndex = Len(log[c]) /\ Sent(c, v).lastTerm = LastTerm(log[c])

GrantsFollow ==
    /\ \A v, c \in Server, t \in Nat : v # c /\ Grants(v, c, t) => t <= term[c]
    /\ \A t \in Nat, w \in Server : <<t, w>> \in elected =>
          \E v \in Server \ {w} : term[v] >= t

\* What leaders sent, and what comes back.
HeartbeatsGrow ==
    \A a, b \in Server : a # b /\ Carries(a, b) =>
        /\ <<Sent(a, b).term, a>> \in elected
        /\ state[a] = "LEADER" /\ term[a] = Sent(a, b).term => Begins(Sent(a, b).entries, log[a])
        /\ term[b] <= Sent(a, b).term =>
              \A i \in 1..Len(log[b]) : log[b][i].term = Sent(a, b).term =>
                  /\ i <= Len(Sent(a, b).entries)
                  /\ Sent(a, b).entries[i].term = Sent(a, b).term

AcksBounded ==
    \A p, q \in Server : p # q =>
        /\ \A t \in Nat : Acks(q, p, t) => <<t, p>> \in elected
        /\ state[p] = "LEADER" =>
              /\ match[p][q] <= Len(log[p])
              /\ Acks(q, p, term[p]) => Sent(q, p).index <= Len(log[p])

\* Two servers have l, and whoever may still lead beyond its last term has it.
Safe(l) ==
    /\ l \in Seq(Entry) /\ l # <<>>
    /\ \E p, q \in Server : p # q /\ Has(p, l) /\ Has(q, l)
    /\ \A k : Source(k) /\ (\E j \in 1..Len(k) : k[j].term > End(l)) => Begins(l, k)
    /\ \A a, b \in Server : a # b /\ Carries(a, b) /\ Sent(a, b).term > End(l) =>
          Begins(l, Sent(a, b).entries)
    /\ \A p \in Server : state[p] = "LEADER" /\ term[p] > End(l) => Has(p, l)
    /\ \A v, c \in Server :
          v # c /\ state[c] = "CANDIDATE" /\ term[c] > End(l) /\ Grants(v, c, term[c]) =>
              Has(c, l)

\* q has acknowledged l to the leader p of the term l ends in.
Acked(p, q, l) ==
    /\ state[p] = "LEADER" /\ l \in Seq(Entry) /\ l # <<>> /\ Has(p, l) /\ End(l) = term[p]
    /\ \/ match[p][q] >= Len(l)
       \/ Acks(q, p, term[p]) /\ Sent(q, p).index >= Len(l)

AckedIsSafe == \A p, q \in Server : \A l : p # q /\ Acked(p, q, l) => Safe(l)

AppliedIsSafe ==
    /\ \A s \in Server : applied[s] # <<>> => Safe(applied[s]) /\ End(applied[s]) <= term[s]
    /\ \A a, b \in Server : a # b /\ Carries(a, b) /\ Sent(a, b).commit > 0 =>
          \E l : Safe(l) /\ Len(l) = Sent(a, b).commit /\ Begins(l, Sent(a, b).entries)

\* A proposal that waits is in its leader's log, and one that returned is applied there.
ProposalsKept ==
    /\ \A w \in waiting :
          /\ w.by \in Server /\ state[w.by] = "LEADER" /\ w.index \in 1..Len(log[w.by])
          /\ log[w.by][w.index] = w.entry
    /\ \A c \in confirmed :
          c.by \in Server /\ c.index \in 1..Len(applied[c.by])
          /\ applied[c.by][c.index] = c.entry

ReplicationFacts ==
    /\ TallyType /\ TermsRise /\ TermsReached /\ Chained
    /\ RequestsTell /\ GrantsFollow /\ HeartbeatsGrow /\ AcksBounded
    /\ AckedIsSafe /\ AppliedIsSafe /\ ProposalsKept

\* What a step of s does to its counts, its registry and its callers.
MatchStep(s) ==
    /\ match' \in [Server -> [Server -> Nat]] /\ \A x \in Server \ {s} : match'[x] = match[x]
    /\ \A q \in Server :
          \/ match'[s][q] = 0 \/ match'[s][q] = match[s][q]
          \/ /\ q # s /\ state[s] = "LEADER" /\ Acks(q, s, term[s])
             /\ match'[s][q] = Sent(q, s).index
    /\ state'[s] = "LEADER" /\ state[s] # "LEADER" => \A q \in Server : match'[s][q] = 0

CommitsTo(s, n) ==
    /\ state[s] = "LEADER" /\ state'[s] = "LEADER" /\ term'[s] = term[s] /\ Keeps(s)
    /\ n \in 1..Len(log[s]) /\ n > Len(applied[s]) /\ log[s][n].term = term[s]
    /\ \E q \in Server \ {s} :
          match[s][q] >= n \/ (Acks(q, s, term[s]) /\ Sent(q, s).index >= n)
    /\ applied'[s] = AppliedTo(s, log[s], n)

CatchesUp(s) ==
    \E from \in Server :
        /\ FollowsTo(s, from)
        /\ applied'[s] = AppliedTo(s, Sent(from, s).entries, Sent(from, s).commit)

ApplyStep(s) ==
    /\ applied' = [x \in Server |-> applied'[x]]
    /\ \A x \in Server \ {s} : applied'[x] = applied[x]
    /\ applied'[s] = applied[s] \/ CatchesUp(s) \/ \E n \in Nat : CommitsTo(s, n)

WaitStep(s) ==
    /\ \A w \in waiting' :
          \/ w \in waiting /\ (w.by = s /\ state[s] = "LEADER" => state'[s] = "LEADER")
          \/ /\ w.by = s /\ state'[s] = "LEADER"
             /\ w.index = Len(log[s]) + 1 /\ log'[s] = Append(log[s], w.entry)
    /\ \A c \in confirmed' :
          \/ c \in confirmed
          \/ c \in waiting /\ c.by = s /\ \E n \in Nat : CommitsTo(s, n) /\ c.index <= n

TallyStepOf(s) == MatchStep(s) /\ ApplyStep(s) /\ WaitStep(s)

LEMMA SameTally ==
    ASSUME TallyType, NEW s \in Server, UNCHANGED <<match, applied, waiting, confirmed>>,
           state'[s] = "LEADER" => state[s] = "LEADER", state[s] = "LEADER" => state'[s] = "LEADER"
    PROVE  TallyStepOf(s)
BY DEF TallyStepOf, TallyType, MatchStep, ApplyStep, WaitStep

LEMMA ForgottenFacts ==
    ASSUME TallyType, NEW s \in Server
    PROVE  /\ Forgotten(s) \in [Server -> Nat]
           /\ \A q \in Server : Forgotten(s)[q] = 0 \/ Forgotten(s)[q] = match[s][q]
BY DEF Forgotten, TallyType

LEMMA ForgetsOnly ==
    ASSUME TallyType, NEW s \in Server, match' = [match EXCEPT ![s] = Forgotten(s)],
           state'[s] = "LEADER" => state[s] = "LEADER"
    PROVE  MatchStep(s)
BY ForgottenFacts DEF MatchStep, TallyType

LEMMA StartElectionTallies ==
    ASSUME VoteType, TallyType, NEW s \in Server, StartElection(s) PROVE TallyStepOf(s)
<1>1. /\ UNCHANGED <<match, applied, waiting, confirmed>>
      /\ state[s] # "LEADER" /\ state'[s] = "CANDIDATE"
  BY DEF StartElection, VoteType
<1> QED BY <1>1, SameTally

LEMMA SendHeartbeatsTallies ==
    ASSUME TallyType, NEW s \in Server, SendHeartbeats(s) PROVE TallyStepOf(s)
<1>1. UNCHANGED <<match, applied, waiting, confirmed, state>> BY DEF SendHeartbeats, server
<1> QED BY <1>1, SameTally

LEMMA ProposeForwardedTallies ==
    ASSUME TallyType, NEW s \in Server, NEW c \in Change, ProposeForwarded(s, c)
    PROVE  TallyStepOf(s)
<1>1. UNCHANGED <<match, applied, waiting, confirmed, state>> BY DEF ProposeForwarded, server
<1> QED BY <1>1, SameTally

LEMMA ProposeAtLeaderTallies ==
    ASSUME LogType, TallyType, NEW s \in Server, NEW c \in Change, ProposeAtLeader(s, c)
    PROVE  TallyStepOf(s)
<1> DEFINE e == [term |-> term[s], change |-> c]
           w == [by |-> s, index |-> Len(log[s]) + 1, entry |-> e]
<1>1. w.by = s /\ w.index = Len(log[s]) + 1 /\ w.entry = e OBVIOUS
<1>2. /\ UNCHANGED <<match, applied, confirmed, state>> /\ state[s] = "LEADER"
      /\ waiting' = waiting \cup {w} /\ log' = [log EXCEPT ![s] = Append(@, e)]
  BY DEF ProposeAtLeader
<1>3. log'[s] = Append(log[s], e) BY <1>2 DEF LogType
<1> HIDE DEF w
<1>4. MatchStep(s) /\ ApplyStep(s) BY <1>2 DEF MatchStep, ApplyStep, TallyType
<1>5. WaitStep(s) BY <1>1, <1>2, <1>3 DEF WaitStep
<1> QED BY <1>4, <1>5 DEF TallyStepOf

LEMMA HandleProposeTallies ==
    ASSUME TallyType, NEW s \in Server, NEW from \in Others(s), HandlePropose(s, from)
    PROVE  TallyStepOf(s)
<1>1. /\ UNCHANGED <<applied, waiting, confirmed, state>>
      /\ match' = [match EXCEPT ![s] = Forgotten(s)]
  BY DEF HandlePropose
<1>2. MatchStep(s) BY <1>1, ForgetsOnly
<1>3. ApplyStep(s) /\ WaitStep(s) BY <1>1 DEF ApplyStep, WaitStep, TallyType
<1> QED BY <1>2, <1>3 DEF TallyStepOf

LEMMA HandleRequestVoteTallies ==
    ASSUME VoteType, TallyType, NEW s \in Server, NEW from \in Others(s),
           HandleRequestVote(s, from)
    PROVE  TallyStepOf(s)
<1> DEFINE newer == net[<<from, s>>].term > term[s]
<1>1. /\ UNCHANGED <<applied, confirmed>> /\ match' = [match EXCEPT ![s] = Forgotten(s)]
      /\ state' = [state EXCEPT ![s] = IF newer THEN "FOLLOWER" ELSE @]
      /\ waiting' = IF newer THEN StillLed(s) ELSE waiting
  BY DEF HandleRequestVote, Newer
<1> HIDE DEF newer
<1>2. state'[s] = IF newer THEN "FOLLOWER" ELSE state[s] BY <1>1 DEF VoteType
<1>3. MatchStep(s)
  <2>1. state'[s] = "LEADER" => state[s] = "LEADER" BY <1>2
  <2>2. match' = [match EXCEPT ![s] = Forgotten(s)] BY <1>1
  <2> QED BY <2>1, <2>2, ForgetsOnly
<1>4. ApplyStep(s) /\ WaitStep(s) BY <1>1, <1>2 DEF ApplyStep, WaitStep, StillLed, TallyType
<1> QED BY <1>3, <1>4 DEF TallyStepOf

LEMMA HandleVoteResponseTallies ==
    ASSUME VoteType, TallyType, NEW s \in Server, NEW from \in Others(s),
           HandleVoteResponse(s, from)
    PROVE  TallyStepOf(s)
<1> DEFINE m == net[<<from, s>>]
           counts == state[s] = "CANDIDATE" /\ m.term = term[s] /\ m.granted
           poll == votes[s] \cup {from}
           wins == counts /\ Cardinality(poll) >= Quorum(s)'
<1>1. /\ UNCHANGED <<applied, confirmed, waiting>>
      /\ match' = [match EXCEPT ![s] = IF wins THEN [p \in Server |-> 0] ELSE Forgotten(s)]
      /\ state' = [state EXCEPT ![s] = IF wins THEN "LEADER" ELSE @]
  BY DEF HandleVoteResponse
<1>2. wins => state[s] = "CANDIDATE" OBVIOUS
<1> HIDE DEF wins
<1>3. state'[s] = IF wins THEN "LEADER" ELSE state[s] BY <1>1 DEF VoteType
<1>4. MatchStep(s)
  <2>1. CASE wins BY <1>1, <2>1 DEF MatchStep, TallyType
  <2>2. CASE ~wins BY <1>1, <1>3, <2>2, ForgetsOnly
  <2> QED BY <2>1, <2>2
<1>5. ApplyStep(s) /\ WaitStep(s) BY <1>1, <1>2, <1>3 DEF ApplyStep, WaitStep, TallyType
<1> QED BY <1>4, <1>5 DEF TallyStepOf

LEMMA HandleAppendEntriesTallies ==
    ASSUME VoteType, LogType, TallyType, NEW s \in Server, NEW from \in Others(s),
           HandleAppendEntries(s, from), NEW t \in Nat, t = Sent(from, s).term
    PROVE  TallyStepOf(s)
<1>0. from \in Server \ {s} BY DEF Others
<1>1. /\ confirmed' = confirmed /\ match' = [match EXCEPT ![s] = Forgotten(s)]
      /\ term' = [term EXCEPT ![s] = Max({@, t})]
  BY DEF HandleAppendEntries, Sent
<1>2. CASE t >= term[s]
  <2>1. /\ state' = [state EXCEPT ![s] = "FOLLOWER"]
        /\ log' = [log EXCEPT ![s] = Sent(from, s).entries]
        /\ applied' = [applied EXCEPT
                          ![s] = AppliedTo(s, Sent(from, s).entries, Sent(from, s).commit)]
        /\ waiting' = StillLed(s)
    BY <1>2 DEF HandleAppendEntries, Sent
  <2>2. Carries(from, s) BY DEF HandleAppendEntries, Hears, Carries, Sent
  <2>3. Max({term[s], t}) = t BY <1>2, MaxFacts DEF VoteType
  <2>4. state'[s] = "FOLLOWER" /\ term'[s] = t /\ log'[s] = Sent(from, s).entries
    BY <1>1, <2>1, <2>3 DEF VoteType, LogType
  <2>5. FollowsTo(s, from) BY <1>0, <2>2, <2>4 DEF FollowsTo
  <2>6. /\ applied'[s] = AppliedTo(s, Sent(from, s).entries, Sent(from, s).commit)
        /\ \A x \in Server \ {s} : applied'[x] = applied[x]
        /\ applied' = [x \in Server |-> applied'[x]]
    BY <2>1 DEF TallyType
  <2>7. CatchesUp(s) BY <1>0, <2>5, <2>6 DEF CatchesUp
  <2>8. MatchStep(s) BY <1>1, <2>4, ForgetsOnly
  <2>9. ApplyStep(s) BY <2>6, <2>7 DEF ApplyStep
  <2>10. WaitStep(s) BY <1>1, <2>1 DEF WaitStep, StillLed
  <2> QED BY <2>8, <2>9, <2>10 DEF TallyStepOf
<1>3. CASE ~(t >= term[s])
  <2>1. UNCHANGED <<state, applied, waiting>> BY <1>3 DEF HandleAppendEntries, Sent
  <2>2. MatchStep(s) BY <1>1, <2>1, ForgetsOnly
  <2>3. ApplyStep(s) /\ WaitStep(s) BY <1>1, <2>1 DEF ApplyStep, WaitStep, TallyType
  <2> QED BY <2>2, <2>3 DEF TallyStepOf
<1> QED BY <1>2, <1>3

LEMMA GreatestExists ==
    ASSUME NEW b \in Nat, NEW S, S \subseteq 0..b, S # {}
    PROVE  Max(S) \in S
<1>0. ASSUME NEW y \in S PROVE y \in Nat
  <2>1. y \in 0..b OBVIOUS
  <2> QED BY <2>1
<1> DEFINE R == OpToRel(<, Nat)
           T == {b - y : y \in S}
<1>1. IsWellFoundedOn(R, Nat) BY NatLessThanWellFounded
<1>2. R = {ss \in Nat \X Nat : ss[1] < ss[2]} BY DEF OpToRel
<1>3. T \subseteq Nat /\ T # {}
  <2>1. \A y \in S : b - y \in Nat OBVIOUS
  <2> QED BY <2>1
<1> HIDE DEF R
<1>4. PICK x \in T : \A y \in T : ~(<<y, x>> \in R) BY <1>1, <1>3, WFMin
<1>5. PICK g \in S : x = b - g OBVIOUS
<1>6. ASSUME NEW y \in S PROVE g >= y
  <2>1. b - y \in T /\ b - y \in Nat /\ x \in Nat BY <1>3, <1>4
  <2>2. ~(<<b - y, x>> \in R) BY <1>4, <2>1
  <2>3. ~(b - y < x) BY <1>2, <2>1, <2>2
  <2>4. y \in Nat /\ g \in Nat BY <1>0
  <2> QED BY <1>5, <2>1, <2>3, <2>4
<1> QED BY <1>5, <1>6 DEF Max

\* With somebody heard of, the leader alone is no quorum.
LEMMA QuorumNeedsAnother ==
    ASSUME VoteType, NEW s \in Server, peers' \in [Server -> SUBSET Server], Heard(s),
           NEW S, 1 + Cardinality(S) >= Quorum(s)'
    PROVE  S # {}
<1>1. IsFiniteSet(peers'[s])
  BY ConsensusAssumption, FS_Subset
<1>2. Cardinality(peers'[s]) \in Nat /\ Cardinality(peers'[s]) # 0
  BY <1>1, FS_CardinalityType, FS_EmptySet DEF Heard
<1> DEFINE k == Cardinality(peers'[s])
<1>3. Quorum(s)' = (k + 1) \div 2 + 1 BY DEF Quorum
<1>4. k \in Nat /\ k # 0 BY <1>2
<1> HIDE DEF k
<1>5. (k + 1) \div 2 >= 1 BY <1>4
<1>6. (k + 1) \div 2 \in Nat BY <1>4
<1>7. S = {} => Cardinality(S) = 0 BY FS_EmptySet
<1> QED BY <1>3, <1>5, <1>6, <1>7

LEMMA BetweenFacts ==
    ASSUME NEW a \in Nat, NEW b \in Nat, NEW x \in (a + 1)..b
    PROVE  x \in 1..b /\ x \in 0..b /\ x \in Nat /\ x > a
OBVIOUS

LEMMA HandleAppendResponseTallies ==
    ASSUME VoteType, LogType, TallyType, NEW s \in Server, NEW from \in Others(s),
           HandleAppendResponse(s, from), Sent(from, s).term \in Nat,
           excused' = {}
    PROVE  TallyStepOf(s)
<1>0. from \in Server \ {s} BY DEF Others
<1> DEFINE m == net[<<from, s>>]
           counts == state[s] = "LEADER" /\ m.term = term[s] /\ m.success
           matched == IF counts THEN [Forgotten(s) EXCEPT ![from] = m.index] ELSE Forgotten(s)
           ready == IF counts THEN Replicated(s, log[s], matched) ELSE {}
           n == Max(ready)
<1>1. Hears(s, from, "AppendEntriesResponse") BY DEF HandleAppendResponse
<1>2. /\ peers' \in [Server -> SUBSET Server] /\ Heard(s)
      /\ Sent(from, s) # None /\ Sent(from, s).type = "AppendEntriesResponse"
  BY <1>0, <1>1, HearsFacts
<1>3. m = Sent(from, s) BY DEF Sent
<1>4. m.index \in Nat BY <1>0, <1>2, <1>3 DEF TallyType
<1>5. counts => Acks(from, s, term[s]) BY <1>2, <1>3 DEF Acks
<1>6. /\ matched \in [Server -> Nat]
      /\ \A q \in Server : \/ matched[q] = 0 \/ matched[q] = match[s][q]
                           \/ q = from /\ counts /\ matched[q] = m.index
  BY <1>4, ForgottenFacts
<1>7. match' = [match EXCEPT ![s] = matched] /\ log' = log BY DEF HandleAppendResponse
<1>8. /\ m.term > term[s] =>
           /\ state' = [state EXCEPT ![s] = "FOLLOWER"] /\ waiting' = StillLed(s)
           /\ applied' = applied /\ confirmed' = confirmed
      /\ ~(m.term > term[s]) =>
           /\ UNCHANGED <<term, state>>
           /\ ready = {} => UNCHANGED <<applied, waiting, confirmed>>
           /\ ready # {} => /\ Apply(s, log[s], n)
                            /\ log[s][n].term = term[s] \/ excused' # {}
  BY DEF HandleAppendResponse
<1>9. counts => state[s] = "LEADER" OBVIOUS
<1>10. ready # {} => counts /\ ready = Replicated(s, log[s], matched) OBVIOUS
<1> HIDE DEF counts, matched, ready, n
<1>11. state'[s] = "LEADER" => state[s] = "LEADER" BY <1>8 DEF VoteType
<1>12. MatchStep(s)
  <2>1. match'[s] = matched /\ match' \in [Server -> [Server -> Nat]]
        /\ \A x \in Server \ {s} : match'[x] = match[x]
    BY <1>6, <1>7 DEF TallyType
  <2> QED BY <1>0, <1>3, <1>5, <1>6, <1>9, <1>11, <2>1 DEF MatchStep
<1>13. CASE m.term > term[s]
  BY <1>8, <1>12, <1>13 DEF TallyStepOf, ApplyStep, WaitStep, StillLed, TallyType
<1>14. CASE ~(m.term > term[s]) /\ ready = {}
  BY <1>8, <1>12, <1>14 DEF TallyStepOf, ApplyStep, WaitStep, TallyType
<1>15. CASE ~(m.term > term[s]) /\ ready # {}
  <2>0. log[s] \in Seq(Entry) /\ applied[s] \in Seq(Entry) BY DEF LogType, TallyType
  <2>1. Len(log[s]) \in Nat /\ Len(applied[s]) \in Nat BY <2>0
  <2>2. n \in ready
    <3>1. ready \subseteq 0..Len(log[s])
      <4>1. ready \subseteq (Len(applied[s]) + 1)..Len(log[s])
        BY <1>10, <1>15 DEF Replicated, commit
      <4> QED BY <2>1, <4>1, BetweenFacts
    <3> QED BY <1>15, <2>1, <3>1, GreatestExists DEF n
  <2>3. /\ n \in (Len(applied[s]) + 1)..Len(log[s])
        /\ 1 + Cardinality({p \in Server : matched[p] >= n}) >= Quorum(s)'
    BY <1>10, <1>15, <2>2 DEF Replicated, commit
  <2>4. n \in 1..Len(log[s]) /\ n > Len(applied[s]) /\ n \in Nat
    BY <2>1, <2>3, BetweenFacts
  <2>5. {p \in Server : matched[p] >= n} # {} BY <1>2, <2>3, QuorumNeedsAnother
  <2>6. PICK q \in Server : matched[q] >= n BY <2>5
  <2>7. q # s /\ (match[s][q] >= n \/ (Acks(q, s, term[s]) /\ Sent(q, s).index >= n))
    <3>1. match[s][s] = 0 BY DEF TallyType
    <3>2. n > 0 BY <2>4
    <3>3. \/ matched[q] = 0 \/ matched[q] = match[s][q]
          \/ q = from /\ counts /\ matched[q] = m.index
      BY <1>6
    <3>4. matched[q] # 0 BY <2>4, <2>6, <3>2
    <3>5. q # s BY <1>0, <3>1, <3>3, <3>4
    <3> QED BY <1>3, <1>5, <2>6, <3>3, <3>4, <3>5
  <2>8. /\ state[s] = "LEADER" /\ state'[s] = "LEADER" /\ term'[s] = term[s] /\ Keeps(s)
        /\ log[s][n].term = term[s]
    BY <1>7, <1>8, <1>9, <1>10, <1>15 DEF Keeps
  <2>9. /\ applied' = [applied EXCEPT ![s] = AppliedTo(s, log[s], n)]
        /\ waiting' \subseteq waiting
        /\ \A c \in confirmed' : c \in confirmed \/ (c \in waiting /\ c.by = s /\ c.index <= n)
    BY <1>8, <1>15 DEF Apply
  <2>10. /\ applied'[s] = AppliedTo(s, log[s], n)
         /\ \A x \in Server \ {s} : applied'[x] = applied[x]
         /\ applied' = [x \in Server |-> applied'[x]]
    BY <2>9 DEF TallyType
  <2>11. CommitsTo(s, n) BY <2>4, <2>7, <2>8, <2>10 DEF CommitsTo
  <2>12. ApplyStep(s) BY <2>4, <2>10, <2>11 DEF ApplyStep
  <2>13. WaitStep(s) BY <2>4, <2>8, <2>9, <2>11 DEF WaitStep
  <2> QED BY <1>12, <2>12, <2>13 DEF TallyStepOf
<1> QED BY <1>13, <1>14, <1>15

-----------------------------------------------------------------------------
(***************************************************************************)
(* Terms, requests and answers                                             *)
(***************************************************************************)

ReplStep(s) == LogStep(s) /\ LogFacts' /\ ReplicationFacts /\ TallyStepOf(s)

LEMMA ReplStepFacts ==
    ASSUME NEW s, ReplStep(s)
    PROVE  /\ s \in Server /\ LogStep(s) /\ VoteStep(s) /\ VoteStepOf(s) /\ LogStepOf(s)
           /\ MatchStep(s) /\ ApplyStep(s) /\ WaitStep(s)
           /\ ElectionInv /\ ElectionInv' /\ LogFacts /\ LogFacts' /\ ReplicationFacts
BY DEF ReplStep, LogStep, VoteStep, TallyStepOf

LEMMA SentBack ==
    ASSUME NEW s, ReplStep(s), NEW a \in Server, NEW b \in Server, a # b, Sent(a, b)' # None
    PROVE  Sent(a, b)' = Sent(a, b) \/ (a = s /\ Tells(s, b, Sent(a, b)'))
<1>1. LogSends(s) BY ReplStepFacts DEF LogStepOf
<1> QED BY <1>1 DEF LogSends

LEMMA OtherKept ==
    ASSUME NEW s, ReplStep(s), NEW x \in Server \ {s}
    PROVE  /\ state'[x] = state[x] /\ term'[x] = term[x] /\ log'[x] = log[x]
           /\ match'[x] = match[x] /\ applied'[x] = applied[x]
BY ReplStepFacts DEF VoteStepOf, SameBut, LogStepOf, MatchStep, ApplyStep

\* A leader's log only grows while it leads.
LEMMA LeaderGrows ==
    ASSUME NEW s, ReplStep(s), NEW p \in Server, state'[p] = "LEADER", state[p] = "LEADER"
    PROVE  term'[p] = term[p] /\ Begins(log[p], log'[p])
<1>0. s \in Server /\ LogStep(s) /\ LogStepOf(s) BY ReplStepFacts
<1>1. log[p] \in Seq(Entry) /\ log'[p] \in Seq(Entry)
  BY ReplStepFacts DEF LogFacts, LogType, LogStepOf
<1>2. Len(log[p]) \in Nat /\ Len(log'[p]) \in Nat BY <1>1
<1>3. CASE p # s BY <1>2, <1>3, OtherKept DEF Begins
<1>4. CASE p = s
  <2>1. term'[p] = term[p] BY <1>0, <1>4 DEF LogStepOf, StaysOrWins
  <2>2. CASE Keeps(s) BY <1>2, <1>4, <2>1, <2>2 DEF Keeps, Begins
  <2>3. CASE Follows(s) BY <1>4, <2>3 DEF Follows, FollowsTo
  <2>4. CASE Extends(s)
    <3>1. /\ Len(log'[s]) = Len(log[s]) + 1
          /\ \A j \in 1..Len(log[s]) : log'[s][j] = log[s][j]
      BY <1>0, <2>4, ExtendsFacts
    <3> QED BY <1>2, <1>4, <2>1, <3>1 DEF Begins
  <2> QED BY <1>0, <2>2, <2>3, <2>4 DEF LogStepOf
<1> QED BY <1>3, <1>4

\* Whoever becomes the leader had not won its term before.
LEMMA NewLeader ==
    ASSUME NEW s, ReplStep(s), NEW p \in Server, state'[p] = "LEADER", state[p] # "LEADER"
    PROVE  /\ p = s /\ term'[s] = term[s] /\ Keeps(s) /\ <<term[s], s>> \notin elected
           /\ Wins(s, term[s]) /\ state[s] = "CANDIDATE"
<1>1. p = s BY OtherKept
<1>2. /\ term'[s] = term[s] /\ Keeps(s) /\ state[s] = "CANDIDATE"
      /\ <<term[s], s>> \in elected'
  BY <1>1, ReplStepFacts DEF LogStepOf, StaysOrWins
<1>3. term[s] \in Nat /\ s \in Server BY ReplStepFacts DEF ElectionInv, VoteType
<1>4. PICK t \in Nat : t = term[s] BY <1>3
<1>5. Fresher(s, t) BY <1>2, <1>4 DEF Fresher
<1>6. <<t, s>> \notin elected BY <1>3, <1>5, ReplStepFacts DEF LogFacts, WinnersMovedOn
<1>7. VoteStep(s) BY ReplStepFacts
<1>8. Wins(s, t) BY <1>2, <1>4, <1>6, <1>7, ElectedBack
<1> QED BY <1>1, <1>2, <1>4, <1>6, <1>8

\* A candidate has not touched its log.
LEMMA CandidateKeeps ==
    ASSUME NEW s, ReplStep(s), NEW c \in Server, state'[c] = "CANDIDATE"
    PROVE  log'[c] = log[c]
<1>1. CASE c # s BY <1>1, OtherKept
<1>2. CASE c = s
  BY <1>2, ReplStepFacts DEF LogStepOf, Keeps, Follows, FollowsTo, Extends
<1> QED BY <1>1, <1>2

LEMMA EntryFacts ==
    ASSUME NEW l \in Seq(Entry), NEW i \in 1..Len(l)
    PROVE  l[i] \in Entry /\ l[i].term \in Nat
<1>1. l[i] \in Entry OBVIOUS
<1> QED BY <1>1 DEF Entry

LEMMA TermsReachedKept ==
    ASSUME NEW s, ReplStep(s) PROVE TermsReached'
<1>0. s \in Server /\ LogStep(s) /\ VoteStep(s) /\ LogStepOf(s) /\ TermsReached
  BY ReplStepFacts DEF ReplicationFacts
<1>1. ASSUME NEW x \in Server, NEW i \in 1..Len(log'[x]) PROVE log'[x][i].term <= term'[x]
  <2>0. log[x] \in Seq(Entry) /\ log'[x] \in Seq(Entry)
    BY ReplStepFacts DEF LogFacts, LogType, LogStepOf
  <2>1. term[x] \in Nat /\ term'[x] \in Nat /\ term'[x] >= term[x] BY <1>0, TermsGrow
  <2>2. CASE log'[x] = log[x]
    <3>1. log[x][i].term <= term[x] BY <1>0, <1>1, <2>2 DEF TermsReached
    <3>2. log[x][i].term \in Nat BY <1>1, <2>0, <2>2, EntryFacts
    <3> QED BY <2>1, <2>2, <3>1, <3>2
  <2>3. CASE x = s /\ Follows(s)
    <3>1. PICK from \in Server : FollowsTo(s, from) BY <2>3 DEF Follows
    <3> QED BY <1>0, <1>1, <2>3, <3>1 DEF FollowsTo, TermsReached
  <2>4. CASE x = s /\ Extends(s)
    <3>1. /\ Len(log'[s]) = Len(log[s]) + 1 /\ log'[s][Len(log[s]) + 1].term = term[s]
          /\ \A j \in 1..Len(log[s]) : log'[s][j] = log[s][j]
      BY <1>0, <2>4, ExtendsFacts
    <3>2. CASE i = Len(log[s]) + 1 BY <2>1, <2>4, <3>1, <3>2
    <3>3. CASE i # Len(log[s]) + 1
      <4>1. i \in 1..Len(log[s]) BY <1>1, <2>0, <2>4, <3>1, <3>3
      <4>2. log[s][i].term <= term[s] /\ log'[s][i] = log[s][i]
        BY <1>0, <3>1, <4>1 DEF TermsReached
      <4>3. term'[s] = term[s] BY <2>4 DEF Extends
      <4> QED BY <2>4, <4>2, <4>3
    <3> QED BY <3>2, <3>3
  <2>5. CASE x # s BY <2>2, <2>5, OtherKept
  <2> QED BY <1>0, <2>2, <2>3, <2>4, <2>5 DEF LogStepOf, Keeps
<1>2. ASSUME NEW a \in Server, NEW b \in Server, a # b, Carries(a, b)',
             NEW i \in 1..Len(Sent(a, b)'.entries)
      PROVE  Sent(a, b)'.entries[i].term <= Sent(a, b)'.term
  <2>1. Sent(a, b)' # None /\ Sent(a, b)'.type = "AppendEntries" BY <1>2 DEF Carries
  <2>2. CASE Sent(a, b)' = Sent(a, b)
    <3>1. Carries(a, b) BY <2>1, <2>2 DEF Carries
    <3> QED BY <1>0, <1>2, <2>2, <3>1 DEF TermsReached
  <2>3. CASE a = s /\ Tells(s, b, Sent(a, b)')
    <3>1. Sent(a, b)'.entries = log'[s] /\ Sent(a, b)'.term = term'[s] BY <2>1, <2>3 DEF Tells
    <3> QED BY <1>0, <1>1, <1>2, <3>1
  <2> QED BY <1>2, <2>1, <2>2, <2>3, SentBack
<1> QED BY <1>1, <1>2 DEF TermsReached

LEMMA TermsRiseKept ==
    ASSUME NEW s, ReplStep(s) PROVE TermsRise'
<1>0. s \in Server /\ LogStep(s) /\ TermsReached /\ TermsRise
  BY ReplStepFacts DEF ReplicationFacts
<1> SUFFICES ASSUME NEW l, Source(l)', NEW i \in 1..Len(l), NEW j \in 1..Len(l), i <= j
             PROVE  l[i].term <= l[j].term
  BY DEF TermsRise
<1>1. CASE Source(l) BY <1>0, <1>1 DEF TermsRise
<1>2. CASE Extends(s) /\ l = log'[s]
  <2>1. /\ Source(log[s]) /\ log[s] \in Seq(Entry) /\ log'[s] \in Seq(Entry)
        /\ Len(log'[s]) = Len(log[s]) + 1 /\ log'[s][Len(log[s]) + 1].term = term[s]
        /\ \A k \in 1..Len(log[s]) : log'[s][k] = log[s][k]
    BY <1>0, <1>2, ExtendsFacts
  <2>2. Len(log[s]) \in Nat BY <2>1
  <2>3. CASE j \in 1..Len(log[s])
    <3>1. i \in 1..Len(log[s]) BY <2>2, <2>3
    <3>2. log[s][i].term <= log[s][j].term BY <1>0, <2>1, <2>3, <3>1 DEF TermsRise
    <3> QED BY <1>2, <2>1, <2>3, <3>1, <3>2
  <2>4. CASE j = Len(log[s]) + 1
    <3>1. TermsReached' BY TermsReachedKept
    <3>2. l[i].term <= term'[s] BY <1>0, <1>2, <3>1 DEF TermsReached
    <3>3. term'[s] = term[s] BY <1>2 DEF Extends
    <3> QED BY <1>2, <2>1, <2>4, <3>2, <3>3
  <2> QED BY <1>2, <2>1, <2>2, <2>3, <2>4
<1> QED BY <1>0, <1>1, <1>2, SourceBack

ChainedTo(l, k) ==
    \A i \in 1..Len(l), j \in 1..Len(k) :
        i <= j /\ l[i].term = k[j].term => k[i].term = l[i].term

LEMMA ChainGrown ==
    ASSUME NEW l \in Seq(Entry), NEW n \in Seq(Entry), NEW k \in Seq(Entry),
           Len(n) = Len(l) + 1, \A i \in 1..Len(l) : n[i] = l[i],
           ChainedTo(l, k), ChainedTo(k, l),
           \A i \in 1..Len(k) : k[i].term = n[Len(l) + 1].term =>
               i <= Len(l) /\ l[i].term = n[Len(l) + 1].term
    PROVE  ChainedTo(n, k) /\ ChainedTo(k, n)
<1>0. Len(l) \in Nat /\ Len(n) \in Nat /\ Len(k) \in Nat OBVIOUS
<1>1. ChainedTo(n, k)
  <2> SUFFICES ASSUME NEW i \in 1..Len(n), NEW j \in 1..Len(k), i <= j, n[i].term = k[j].term
               PROVE  k[i].term = n[i].term
    BY DEF ChainedTo
  <2>1. i \in 1..Len(l) BY <1>0
  <2> QED BY <2>1 DEF ChainedTo
<1>2. ChainedTo(k, n)
  <2> SUFFICES ASSUME NEW i \in 1..Len(k), NEW j \in 1..Len(n), i <= j, k[i].term = n[j].term
               PROVE  n[i].term = k[i].term
    BY DEF ChainedTo
  <2>1. CASE j = Len(l) + 1
    <3>1. i <= Len(l) /\ l[i].term = k[i].term BY <2>1
    <3>2. i \in 1..Len(l) BY <1>0, <3>1
    <3> QED BY <3>1, <3>2
  <2>2. CASE j # Len(l) + 1
    <3>1. j \in 1..Len(l) /\ i \in 1..Len(l) BY <1>0, <2>2
    <3> QED BY <3>1 DEF ChainedTo
  <2> QED BY <2>1, <2>2
<1> QED BY <1>1, <1>2

LEMMA ChainedKept ==
    ASSUME NEW s, ReplStep(s) PROVE Chained'
<1>0. s \in Server /\ LogStep(s) /\ LogFacts BY ReplStepFacts
<1>1. \A l, k : Source(l) /\ Source(k) => ChainedTo(l, k)
  BY ReplStepFacts DEF ReplicationFacts, Chained, ChainedTo
<1>2. ASSUME NEW k, Source(k), Extends(s)
      PROVE  ChainedTo(log'[s], k) /\ ChainedTo(k, log'[s])
  <2>1. /\ Source(log[s]) /\ log[s] \in Seq(Entry) /\ log'[s] \in Seq(Entry)
        /\ Len(log'[s]) = Len(log[s]) + 1 /\ log'[s][Len(log[s]) + 1].term = term[s]
        /\ \A i \in 1..Len(log[s]) : log'[s][i] = log[s][i]
        /\ state[s] = "LEADER"
    BY <1>0, <1>2, ExtendsFacts
  <2>2. k \in Seq(Entry) BY <1>0, <1>2, SourceType DEF LogFacts
  <2>3. ChainedTo(log[s], k) /\ ChainedTo(k, log[s]) BY <1>1, <1>2, <2>1
  <2>4. \A i \in 1..Len(k) : k[i].term = log'[s][Len(log[s]) + 1].term =>
            i <= Len(log[s]) /\ log[s][i].term = log'[s][Len(log[s]) + 1].term
    BY <1>0, <1>2, <2>1 DEF LogFacts, LeadersAreAhead
  <2> QED BY <2>1, <2>2, <2>3, <2>4, ChainGrown
<1>3. ASSUME NEW l, NEW k, Source(l)', Source(k)' PROVE ChainedTo(l, k)
  <2>1. Source(l) \/ (Extends(s) /\ l = log'[s]) BY <1>0, <1>3, SourceBack
  <2>2. Source(k) \/ (Extends(s) /\ k = log'[s]) BY <1>0, <1>3, SourceBack
  <2>3. CASE l = k BY <2>3 DEF ChainedTo
  <2> QED BY <1>1, <1>2, <2>1, <2>2, <2>3
<1> QED BY <1>3 DEF Chained, ChainedTo

LEMMA RequestsTellKept ==
    ASSUME NEW s, ReplStep(s) PROVE RequestsTell'
<1>0. VoteStep(s) /\ RequestsTell BY ReplStepFacts DEF ReplicationFacts
<1> SUFFICES ASSUME NEW c \in Server, NEW v \in Server, c # v, Sent(c, v)' # None,
                    Sent(c, v)'.type = "RequestVote"
             PROVE  /\ Sent(c, v)'.term <= term'[c]
                    /\ Sent(c, v)'.term = term'[c] /\ state'[c] = "CANDIDATE" =>
                          /\ Sent(c, v)'.lastIndex = Len(log'[c])
                          /\ Sent(c, v)'.lastTerm = LastTerm(log'[c])
  BY DEF RequestsTell
<1>1. term[c] \in Nat /\ term'[c] \in Nat /\ term'[c] >= term[c] BY <1>0, TermsGrow
<1>2. CASE Sent(c, v)' = Sent(c, v)
  <2>1. Said(c, v) BY ReplStepFacts DEF ElectionInv
  <2>2. Sent(c, v).term \in Nat /\ Sent(c, v).term <= term[c]
    BY <1>0, <1>2, <2>1 DEF RequestsTell, Said
  <2>3. ASSUME Sent(c, v).term = term'[c], state'[c] = "CANDIDATE"
        PROVE  /\ Sent(c, v).lastIndex = Len(log'[c]) /\ Sent(c, v).lastTerm = LastTerm(log'[c])
    <3>0. PICK t \in Nat : t = term'[c] BY <1>1
    <3>1. Fresher(c, t)' BY <2>3, <3>0 DEF Fresher
    <3>2. Fresher(c, t) BY <1>0, <3>1, FresherBack
    <3>3. term[c] = t /\ state[c] = "CANDIDATE" BY <1>1, <2>2, <2>3, <3>0, <3>2 DEF Fresher
    <3>4. log'[c] = log[c] BY <2>3, CandidateKeeps
    <3> QED BY <1>0, <1>2, <2>3, <3>0, <3>3, <3>4 DEF RequestsTell
  <2> QED BY <1>1, <1>2, <2>2, <2>3
<1>3. CASE c = s /\ Tells(s, v, Sent(c, v)') BY <1>1, <1>3 DEF Tells
<1> QED BY <1>2, <1>3, SentBack

LEMMA GrantsFollowKept ==
    ASSUME NEW s, ReplStep(s) PROVE GrantsFollow'
<1>0. VoteStep(s) /\ GrantsFollow /\ RequestsTell /\ ElectionInv /\ s \in Server
  BY ReplStepFacts DEF ReplicationFacts
<1>1. ASSUME NEW v \in Server, NEW c \in Server, NEW t \in Nat, v # c, Grants(v, c, t)'
      PROVE  t <= term'[c]
  <2>1. term[c] \in Nat /\ term'[c] \in Nat /\ term'[c] >= term[c] BY <1>0, TermsGrow
  <2>2. t <= term[c]
    <3>1. CASE Grants(v, c, t) BY <1>0, <1>1, <3>1 DEF GrantsFollow
    <3>2. CASE v = s /\ GrantsTo(s, c) /\ term'[s] = t
      BY <1>0, <1>1, <3>2 DEF GrantsTo, Asked, RequestsTell
    <3> QED BY <1>0, <1>1, <3>1, <3>2, GrantsBack
  <2> QED BY <2>1, <2>2
<1>2. ASSUME NEW t \in Nat, NEW w \in Server, <<t, w>> \in elected'
      PROVE  \E v \in Server \ {w} : term'[v] >= t
  <2>1. PICK v \in Server \ {w} : term[v] >= t
    <3>1. CASE <<t, w>> \in elected BY <1>0, <3>1 DEF GrantsFollow
    <3>2. CASE w = s /\ Wins(s, t)
      <4>1. PICK v \in Server \ {s} : Grants(v, s, t) BY <3>2 DEF Wins
      <4>2. Binding(v, t, s) BY <1>0, <4>1 DEF ElectionInv, VotesBind
      <4>3. term[v] >= t BY <4>2, <1>0 DEF Binding, ElectionInv, VoteType
      <4> QED BY <3>2, <4>3
    <3> QED BY <1>0, <1>2, <3>1, <3>2, ElectedBack
  <2>2. term[v] \in Nat /\ term'[v] \in Nat /\ term'[v] >= term[v] BY <1>0, TermsGrow
  <2> QED BY <2>1, <2>2
<1> QED BY <1>1, <1>2 DEF GrantsFollow

LEMMA BeginsTransitive ==
    ASSUME NEW a \in Seq(Entry), NEW b \in Seq(Entry), NEW c \in Seq(Entry),
           Begins(a, b), Begins(b, c)
    PROVE  Begins(a, c)
<1>1. Len(a) \in Nat /\ Len(b) \in Nat /\ Len(c) \in Nat OBVIOUS
<1>2. Len(a) <= Len(c) BY <1>1 DEF Begins
<1>3. \A i \in 1..Len(a) : i \in 1..Len(b) BY <1>1 DEF Begins
<1> QED BY <1>2, <1>3 DEF Begins

LEMMA BeginsItself ==
    ASSUME NEW a \in Seq(Entry) PROVE Begins(a, a)
<1>1. Len(a) \in Nat OBVIOUS
<1> QED BY <1>1 DEF Begins

\* What a leader may have sent by now.
LEMMA HeartbeatsGrowKept ==
    ASSUME NEW s, ReplStep(s) PROVE HeartbeatsGrow'
<1>0. /\ s \in Server /\ VoteStep(s) /\ LogStep(s) /\ LogStepOf(s) /\ HeartbeatsGrow /\ LogFacts
      /\ LogFacts' /\ ElectionInv /\ TermsReached /\ elected \subseteq elected'
  BY ReplStepFacts DEF ReplicationFacts, LogStepOf
<1> SUFFICES ASSUME NEW a \in Server, NEW b \in Server, a # b, Carries(a, b)'
             PROVE  /\ <<Sent(a, b)'.term, a>> \in elected'
                    /\ state'[a] = "LEADER" /\ term'[a] = Sent(a, b)'.term =>
                          Begins(Sent(a, b)'.entries, log'[a])
                    /\ term'[b] <= Sent(a, b)'.term =>
                          \A i \in 1..Len(log'[b]) : log'[b][i].term = Sent(a, b)'.term =>
                              /\ i <= Len(Sent(a, b)'.entries)
                              /\ Sent(a, b)'.entries[i].term = Sent(a, b)'.term
  BY DEF HeartbeatsGrow
<1>1. Sent(a, b)' # None /\ Sent(a, b)'.type = "AppendEntries" BY DEF Carries
<1>2. CASE Sent(a, b)' = Sent(a, b)
  <2> DEFINE m == Sent(a, b)
  <2>1. Carries(a, b) BY <1>1, <1>2 DEF Carries
  <2>2. m.entries \in Seq(Entry) /\ log[a] \in Seq(Entry) /\ log'[a] \in Seq(Entry)
    BY <1>0, <2>1 DEF LogFacts, LogType, Carries
  <2>3. m.term \in Nat
    <3>1. Said(a, b) BY <1>0 DEF ElectionInv
    <3> QED BY <2>1, <3>1 DEF Said, Carries
  <2>4. <<m.term, a>> \in elected BY <1>0, <2>1 DEF HeartbeatsGrow
  <2>5. ASSUME state'[a] = "LEADER", term'[a] = m.term PROVE Begins(m.entries, log'[a])
    <3>1. state[a] = "LEADER"
      <4> SUFFICES ASSUME state[a] # "LEADER" PROVE FALSE
        OBVIOUS
      <4>1. a = s /\ term'[s] = term[s] /\ <<term[s], s>> \notin elected BY <2>5, NewLeader
      <4> QED BY <2>4, <2>5, <4>1
    <3>2. term'[a] = term[a] /\ Begins(log[a], log'[a]) BY <2>5, <3>1, LeaderGrows
    <3>3. Begins(m.entries, log[a]) BY <1>0, <2>1, <2>5, <3>1, <3>2 DEF HeartbeatsGrow
    <3> HIDE DEF m
    <3> QED BY <2>2, <3>2, <3>3, BeginsTransitive
  <2>6. ASSUME term'[b] <= m.term, NEW i \in 1..Len(log'[b]), log'[b][i].term = m.term
        PROVE  i <= Len(m.entries) /\ m.entries[i].term = m.term
    <3>1. term[b] \in Nat /\ term'[b] \in Nat /\ term'[b] >= term[b] BY <1>0, TermsGrow
    <3>2. term[b] <= m.term BY <2>3, <2>6, <3>1
    <3>3. ASSUME i \in 1..Len(log[b]), log[b][i] = log'[b][i]
          PROVE  i <= Len(m.entries) /\ m.entries[i].term = m.term
      BY <1>0, <2>1, <2>6, <3>2, <3>3 DEF HeartbeatsGrow
    <3>4. CASE log'[b] = log[b] BY <2>6, <3>3, <3>4
    <3>5. CASE b = s /\ Follows(s)
      <4>1. PICK x \in Server : FollowsTo(s, x) BY <3>5 DEF Follows
      <4>2. /\ x # s /\ Carries(x, s) /\ log'[s] = Sent(x, s).entries
            /\ term'[s] = Sent(x, s).term
        BY <4>1 DEF FollowsTo
      <4>3. log'[s][i].term <= Sent(x, s).term BY <1>0, <2>6, <3>5, <4>2 DEF TermsReached
      <4>4. m.term = Sent(x, s).term BY <2>3, <2>6, <3>1, <3>5, <4>2, <4>3
      <4>5. <<m.term, x>> \in elected BY <1>0, <4>2, <4>4 DEF HeartbeatsGrow
      <4>6. x = a BY <1>0, <2>3, <2>4, <4>5 DEF ElectionInv
      <4>7. log'[b] = m.entries BY <3>5, <4>2, <4>6
      <4>8. Len(m.entries) \in Nat BY <2>2
      <4> QED BY <2>6, <4>7, <4>8
    <3>6. CASE b = s /\ Extends(s)
      <4>1. /\ Len(log'[s]) = Len(log[s]) + 1 /\ log'[s][Len(log[s]) + 1].term = term[s]
            /\ \A j \in 1..Len(log[s]) : log'[s][j] = log[s][j]
            /\ <<term[s], s>> \in elected /\ log[s] \in Seq(Entry)
        BY <1>0, <3>6, ExtendsFacts
      <4>2. term[s] # m.term
        BY <1>0, <2>3, <2>4, <3>6, <4>1 DEF ElectionInv
      <4>3. Len(log[s]) \in Nat BY <4>1
      <4>4. i \in 1..Len(log[s]) BY <2>6, <3>6, <4>1, <4>2, <4>3
      <4> QED BY <3>3, <3>6, <4>1, <4>4
    <3>7. CASE b # s BY <3>4, <3>7, OtherKept
    <3> QED BY <1>0, <3>4, <3>5, <3>6, <3>7 DEF LogStepOf, Keeps
  <2> QED BY <1>0, <1>2, <2>4, <2>5, <2>6
<1>3. CASE a = s /\ Tells(s, b, Sent(a, b)')
  <2>1. /\ Sent(a, b)'.entries = log'[s] /\ Sent(a, b)'.term = term'[s] /\ state'[s] = "LEADER"
    BY <1>1, <1>3 DEF Tells
  <2>2. <<term'[s], s>> \in elected' BY <1>0, <2>1 DEF LogFacts, LeadersWereElected
  <2>3. Begins(log'[s], log'[s])
    <3>1. log'[s] \in Seq(Entry) BY <1>0 DEF LogStepOf
    <3> QED BY <3>1, BeginsItself
  <2>4. ASSUME NEW i \in 1..Len(log'[b]), log'[b][i].term = term'[s]
        PROVE  i <= Len(log'[s]) /\ log'[s][i].term = term'[s]
    <3>1. PICK l : l = log'[b] OBVIOUS
    <3>2. Source(l)' BY <3>1 DEF Source
    <3> QED BY <1>0, <2>1, <2>4, <3>1, <3>2 DEF LogFacts, LeadersAreAhead
  <2> QED BY <1>3, <2>1, <2>2, <2>3, <2>4
<1> QED BY <1>1, <1>2, <1>3, SentBack

\* An answer of this step is to the heartbeat it took over.
LEMMA NewAck ==
    ASSUME NEW s, ReplStep(s), NEW p \in Server, NEW q \in Server, p # q, NEW t \in Nat,
           Acks(q, p, t)', ~(Acks(q, p, t) /\ Sent(q, p)' = Sent(q, p))
    PROVE  /\ q = s /\ FollowsTo(s, p) /\ t = term'[s] /\ t = Sent(p, s).term
           /\ Sent(q, p)'.index = Len(log'[s]) /\ log'[s] = Sent(p, s).entries
           /\ <<t, p>> \in elected
<1>1. /\ Sent(q, p)' # None /\ Sent(q, p)'.type = "AppendEntriesResponse"
      /\ Sent(q, p)'.success /\ Sent(q, p)'.term = t
  BY DEF Acks
<1>2. Sent(q, p)' # Sent(q, p) BY <1>1 DEF Acks
<1>3. q = s /\ Tells(s, p, Sent(q, p)') BY <1>1, <1>2, SentBack
<1>4. FollowsTo(s, p) /\ t = term'[s] /\ Sent(q, p)'.index = Len(log'[s])
  BY <1>1, <1>3 DEF Tells
<1>5. Carries(p, s) /\ t = Sent(p, s).term /\ log'[s] = Sent(p, s).entries
  BY <1>4 DEF FollowsTo
<1>6. HeartbeatsGrow BY ReplStepFacts DEF ReplicationFacts
<1> QED BY <1>3, <1>4, <1>5, <1>6 DEF HeartbeatsGrow

LEMMA AcksBoundedKept ==
    ASSUME NEW s, ReplStep(s) PROVE AcksBounded'
<1>0. /\ s \in Server /\ VoteStep(s) /\ LogStepOf(s) /\ HeartbeatsGrow /\ AcksBounded /\ LogFacts
      /\ elected \subseteq elected' /\ MatchStep(s) /\ TallyType
  BY ReplStepFacts DEF ReplicationFacts, LogStepOf
<1> SUFFICES ASSUME NEW p \in Server, NEW q \in Server, p # q
             PROVE  /\ \A t \in Nat : Acks(q, p, t)' => <<t, p>> \in elected'
                    /\ state'[p] = "LEADER" =>
                          /\ match'[p][q] <= Len(log'[p])
                          /\ Acks(q, p, term[p])' => Sent(q, p)'.index <= Len(log'[p])
  BY DEF AcksBounded
<1>1. ASSUME NEW t \in Nat, Acks(q, p, t)' PROVE <<t, p>> \in elected'
  <2>1. CASE Acks(q, p, t) BY <1>0, <2>1 DEF AcksBounded
  <2>2. CASE ~Acks(q, p, t) BY <1>0, <1>1, <2>2, NewAck
  <2> QED BY <2>1, <2>2
<1>2. ASSUME state'[p] = "LEADER"
      PROVE  /\ match'[p][q] <= Len(log'[p])
             /\ Acks(q, p, term[p])' => Sent(q, p)'.index <= Len(log'[p])
  <2>0. log[p] \in Seq(Entry) /\ log'[p] \in Seq(Entry) BY <1>0 DEF LogFacts, LogType, LogStepOf
  <2>1. Len(log[p]) \in Nat /\ Len(log'[p]) \in Nat BY <2>0
  <2>2. term[p] \in Nat /\ term'[p] \in Nat BY <1>0, TermsGrow
  <2>3. PICK t \in Nat : t = term'[p] BY <2>2
  <2>4. CASE state[p] = "LEADER"
    <3>1. t = term[p] /\ Len(log[p]) <= Len(log'[p])
      BY <1>2, <2>3, <2>4, LeaderGrows DEF Begins
    <3>2. match[p][q] <= Len(log[p]) /\ (Acks(q, p, t) => Sent(q, p).index <= Len(log[p]))
      BY <1>0, <2>4, <3>1 DEF AcksBounded
    <3>3. match[p][q] \in Nat /\ match'[p][q] \in Nat BY <1>0 DEF TallyType, MatchStep
    <3>4. match'[p][q] <= Len(log[p])
      <4>1. CASE p # s BY <3>2, <4>1, OtherKept
      <4>2. CASE p = s
        <5>1. \/ match'[s][q] = 0 \/ match'[s][q] = match[s][q]
              \/ Acks(q, s, term[s]) /\ match'[s][q] = Sent(q, s).index
          BY <1>0 DEF MatchStep
        <5> QED BY <2>1, <3>1, <3>2, <4>2, <5>1
      <4> QED BY <4>1, <4>2
    <3>5. ASSUME Acks(q, p, t)' PROVE Sent(q, p)'.index <= Len(log'[p])
      <4>1. CASE Acks(q, p, t) /\ Sent(q, p)' = Sent(q, p)
        <5>1. Sent(q, p).index \in Nat BY <1>0, <4>1 DEF TallyType, Acks
        <5> QED BY <2>1, <3>1, <3>2, <4>1, <5>1
      <4>2. CASE ~(Acks(q, p, t) /\ Sent(q, p)' = Sent(q, p))
        <5>1. /\ q = s /\ FollowsTo(s, p) /\ t = Sent(p, s).term
              /\ Sent(q, p)'.index = Len(log'[s]) /\ log'[s] = Sent(p, s).entries
          BY <3>5, <4>2, NewAck
        <5>2. Begins(Sent(p, s).entries, log[p])
          BY <1>0, <2>4, <3>1, <5>1 DEF FollowsTo, HeartbeatsGrow
        <5>3. log'[s] \in Seq(Entry) BY <1>0 DEF LogStepOf
        <5>4. Len(log'[s]) \in Nat BY <5>3
        <5> QED BY <2>1, <3>1, <5>1, <5>2, <5>4 DEF Begins
      <4> QED BY <4>1, <4>2
    <3> QED BY <2>1, <2>3, <3>1, <3>3, <3>4, <3>5
  <2>5. CASE state[p] # "LEADER"
    <3>1. p = s /\ term'[s] = term[s] /\ <<term[s], s>> \notin elected
      BY <1>2, <2>5, NewLeader
    <3>2. match'[p][q] = 0 BY <1>0, <1>2, <2>5, <3>1 DEF MatchStep
    <3>3. ~Acks(q, p, t)'
      <4>1. ~Acks(q, p, t) BY <1>0, <2>3, <3>1 DEF AcksBounded
      <4> QED BY <2>3, <3>1, <4>1, NewAck
    <3> QED BY <2>1, <2>3, <3>1, <3>2, <3>3
  <2> QED BY <2>4, <2>5
<1> QED BY <1>1, <1>2

-----------------------------------------------------------------------------
(***************************************************************************)
(* What two of three have stays with whoever can lead                      *)
(***************************************************************************)

LEMMA LastFacts ==
    ASSUME NEW l \in Seq(Entry), l # <<>>
    PROVE  Len(l) \in Nat \ {0} /\ Len(l) \in 1..Len(l) /\ End(l) \in Nat
<1>1. Len(l) \in Nat /\ Len(l) # 0 OBVIOUS
<1>2. Len(l) \in 1..Len(l) BY <1>1
<1>3. l[Len(l)].term \in Nat BY <1>2, EntryFacts
<1> QED BY <1>1, <1>2, <1>3 DEF End

\* What a log that begins with l has where l ends.
LEMMA BeginsEnd ==
    ASSUME NEW l \in Seq(Entry), l # <<>>, NEW k \in Seq(Entry), Begins(l, k)
    PROVE  /\ Len(k) \in Nat \ {0} /\ Len(l) \in 1..Len(k) /\ k[Len(l)].term = End(l)
           /\ k # <<>>
<1>1. Len(l) \in Nat \ {0} /\ Len(l) \in 1..Len(l) BY LastFacts
<1>2. Len(k) \in Nat OBVIOUS
<1>3. Len(l) <= Len(k) /\ l[Len(l)] = k[Len(l)] BY <1>1 DEF Begins
<1> QED BY <1>1, <1>2, <1>3 DEF End

\* A log that matches one which begins with l begins with l, if it has an entry of
\* the same term there.
LEMMA MatchBegins ==
    ASSUME NEW l \in Seq(Entry), l # <<>>, NEW h \in Seq(Entry), NEW k \in Seq(Entry),
           Begins(l, h), Match(h, k), Len(l) <= Len(k), k[Len(l)].term = End(l)
    PROVE  Begins(l, k)
<1>1. Len(l) \in 1..Len(h) /\ h[Len(l)].term = End(l) BY BeginsEnd
<1>2. \A j \in 1..Len(l) : h[j] = k[j] BY <1>1 DEF Match
<1> QED BY <1>2 DEF Begins

LEMMA SourceOfServer ==
    ASSUME LogFacts, NEW x \in Server
    PROVE  Source(log[x]) /\ log[x] \in Seq(Entry)
BY DEF LogFacts, LogType, Source

LEMMA SourceOfMessage ==
    ASSUME LogFacts, NEW a \in Server, NEW b \in Server, a # b, Carries(a, b)
    PROVE  Source(Sent(a, b).entries) /\ Sent(a, b).entries \in Seq(Entry)
BY DEF LogFacts, LogType, Source, Carries

\* What a server takes over begins with every safe log that its own began with.
LEMMA HolderKept ==
    ASSUME NEW s, ReplStep(s), NEW l, Safe(l), NEW p \in Server, Has(p, l)
    PROVE  Has(p, l)'
<1>0. /\ s \in Server /\ VoteStep(s) /\ LogStep(s) /\ LogStepOf(s) /\ LogFacts /\ HeartbeatsGrow
      /\ TermsReached
  BY ReplStepFacts DEF ReplicationFacts
<1>1. l \in Seq(Entry) /\ l # <<>> BY DEF Safe
<1>2. Len(l) \in Nat \ {0} /\ Len(l) \in 1..Len(l) /\ End(l) \in Nat BY <1>1, LastFacts
<1>3. CASE log'[p] = log[p] BY <1>3 DEF Has
<1>4. CASE p = s /\ Extends(s)
  <2>1. /\ log[s] \in Seq(Entry) /\ log'[s] \in Seq(Entry) /\ Len(log'[s]) = Len(log[s]) + 1
        /\ \A i \in 1..Len(log[s]) : log'[s][i] = log[s][i]
    BY <1>0, <1>4, ExtendsFacts
  <2>2. Begins(log[s], log'[s]) BY <2>1 DEF Begins
  <2> QED BY <1>1, <1>4, <2>1, <2>2, BeginsTransitive DEF Has
<1>5. ASSUME NEW from \in Server, FollowsTo(s, from), p = s PROVE Has(p, l)'
  <2>1. /\ from # s /\ Carries(from, s) /\ log'[s] = Sent(from, s).entries
        /\ term'[s] = Sent(from, s).term
    BY <1>5 DEF FollowsTo
  <2>2. Source(log[s]) /\ log[s] \in Seq(Entry) BY <1>0, SourceOfServer
  <2>3. Source(Sent(from, s).entries) /\ Sent(from, s).entries \in Seq(Entry)
    BY <1>0, <2>1, SourceOfMessage
  <2>4. Len(l) \in 1..Len(log[s]) /\ log[s][Len(l)].term = End(l)
    BY <1>1, <1>5, <2>2, BeginsEnd DEF Has
  <2>5. term[s] \in Nat /\ term'[s] \in Nat /\ term'[s] >= term[s] BY <1>0, TermsGrow
  <2>6. End(l) <= term[s] BY <1>0, <2>4 DEF TermsReached
  <2>7. CASE Sent(from, s).term > End(l)
    <3>1. Begins(l, Sent(from, s).entries) BY <1>0, <2>1, <2>7 DEF Safe
    <3> QED BY <1>5, <2>1, <3>1 DEF Has
  <2>8. CASE Sent(from, s).term = End(l)
    <3>1. Len(l) <= Len(Sent(from, s).entries) /\ Sent(from, s).entries[Len(l)].term = End(l)
      BY <1>0, <2>1, <2>4, <2>5, <2>8 DEF HeartbeatsGrow
    <3>2. Match(log[s], Sent(from, s).entries) BY <1>0, <2>2, <2>3 DEF LogFacts, SourcesMatch
    <3>3. Begins(l, Sent(from, s).entries)
      BY <1>1, <1>5, <2>2, <2>3, <3>1, <3>2, MatchBegins DEF Has
    <3> QED BY <1>5, <2>1, <3>3 DEF Has
  <2> QED BY <1>2, <2>1, <2>5, <2>6, <2>7, <2>8
<1>6. CASE p # s BY <1>3, <1>6, OtherKept
<1> QED BY <1>0, <1>3, <1>4, <1>5, <1>6 DEF LogStepOf, Keeps, Follows

LEMMA SafeSources ==
    ASSUME NEW s, ReplStep(s), NEW l, Safe(l), NEW k, Source(k)',
           NEW j \in 1..Len(k), k[j].term > End(l)
    PROVE  Begins(l, k)
<1>0. s \in Server /\ LogStep(s) BY ReplStepFacts
<1>1. l \in Seq(Entry) BY DEF Safe
<1>2. CASE Source(k) BY <1>2 DEF Safe
<1>3. CASE Extends(s) /\ k = log'[s]
  <2>1. /\ Source(log[s]) /\ log[s] \in Seq(Entry) /\ log'[s] \in Seq(Entry)
        /\ Len(log'[s]) = Len(log[s]) + 1 /\ log'[s][Len(log[s]) + 1].term = term[s]
        /\ \A i \in 1..Len(log[s]) : log'[s][i] = log[s][i]
    BY <1>0, <1>3, ExtendsFacts
  <2>2. Begins(log[s], log'[s]) BY <2>1 DEF Begins
  <2>3. Begins(l, log[s])
    <3>1. CASE j = Len(log[s]) + 1
      <4>1. state[s] = "LEADER" /\ term[s] > End(l) BY <1>3, <2>1, <3>1 DEF Extends
      <4> QED BY <1>0, <4>1 DEF Safe, Has
    <3>2. CASE j # Len(log[s]) + 1
      <4>1. Len(log[s]) \in Nat BY <2>1
      <4>2. j \in 1..Len(log[s]) BY <1>3, <2>1, <3>2, <4>1
      <4>3. log[s][j].term > End(l) BY <1>3, <2>1, <4>2
      <4> QED BY <2>1, <4>2, <4>3 DEF Safe
    <3> QED BY <3>1, <3>2
  <2> QED BY <1>1, <1>3, <2>1, <2>2, <2>3, BeginsTransitive
<1> QED BY <1>0, <1>2, <1>3, SourceBack

LEMMA SafeLeaders ==
    ASSUME NEW s, ReplStep(s), NEW l, Safe(l), NEW p \in Server,
           state'[p] = "LEADER", term'[p] > End(l)
    PROVE  Has(p, l)'
<1>0. s \in Server /\ LogFacts /\ LogStepOf(s) BY ReplStepFacts
<1>1. CASE state[p] = "LEADER"
  <2>1. term'[p] = term[p] BY <1>1, LeaderGrows
  <2>2. Has(p, l) BY <1>1, <2>1 DEF Safe
  <2> QED BY <2>2, HolderKept
<1>2. CASE state[p] # "LEADER"
  <2>1. /\ p = s /\ term'[s] = term[s] /\ Wins(s, term[s]) /\ state[s] = "CANDIDATE"
    BY <1>2, NewLeader
  <2>2. PICK v \in Server \ {s} : Grants(v, s, term[s]) BY <2>1 DEF Wins
  <2>3. Has(s, l) BY <1>0, <2>1, <2>2 DEF Safe
  <2> QED BY <2>1, <2>3, HolderKept
<1> QED BY <1>1, <1>2

\* A voter that has l only votes for a candidate that has it.
LEMMA VotersCompare ==
    ASSUME NEW s, ReplStep(s), NEW l, Safe(l), Has(s, l), NEW c \in Server, GrantsTo(s, c),
           state[c] = "CANDIDATE", term[c] = term'[s]
    PROVE  Has(c, l)
<1>0. /\ s \in Server /\ LogFacts /\ TermsRise /\ Chained /\ RequestsTell
  BY ReplStepFacts DEF ReplicationFacts
<1>1. l \in Seq(Entry) /\ l # <<>> BY DEF Safe
<1>2. Len(l) \in Nat \ {0} /\ Len(l) \in 1..Len(l) /\ End(l) \in Nat BY <1>1, LastFacts
<1>3. /\ Source(log[s]) /\ log[s] \in Seq(Entry) /\ Source(log[c]) /\ log[c] \in Seq(Entry)
  BY <1>0, SourceOfServer
<1>4. /\ Len(l) \in 1..Len(log[s]) /\ log[s][Len(l)].term = End(l) /\ log[s] # <<>>
      /\ Len(log[s]) \in Nat \ {0}
  BY <1>1, <1>3, BeginsEnd DEF Has
<1>5. LastTerm(log[s]) \in Nat /\ LastTerm(log[s]) >= End(l)
  <2>1. Len(log[s]) \in 1..Len(log[s]) BY <1>4
  <2>2. log[s][Len(l)].term <= log[s][Len(log[s])].term BY <1>0, <1>3, <1>4, <2>1 DEF TermsRise
  <2>3. log[s][Len(log[s])].term \in Nat BY <1>3, <2>1, EntryFacts
  <2> QED BY <1>2, <1>4, <2>2, <2>3 DEF LastTerm
<1>6. /\ c # s /\ Sent(c, s) # None /\ Sent(c, s).type = "RequestVote"
      /\ Sent(c, s).term = term'[s] /\ LogOk(s, Sent(c, s))
  BY DEF GrantsTo, Asked
<1>7. Sent(c, s).lastIndex = Len(log[c]) /\ Sent(c, s).lastTerm = LastTerm(log[c])
  BY <1>0, <1>6 DEF RequestsTell
<1>8. \/ LastTerm(log[c]) > LastTerm(log[s])
      \/ LastTerm(log[c]) = LastTerm(log[s]) /\ Len(log[c]) >= Len(log[s])
  BY <1>6, <1>7 DEF LogOk
<1>9. log[c] # <<>> BY <1>4, <1>5, <1>8 DEF LastTerm
<1>10. /\ Len(log[c]) \in Nat \ {0} /\ Len(log[c]) \in 1..Len(log[c]) /\ LastTerm(log[c]) \in Nat
       /\ LastTerm(log[c]) = log[c][Len(log[c])].term
  BY <1>3, <1>9, LastFacts DEF End, LastTerm
<1>11. CASE LastTerm(log[c]) > End(l)
  <2>1. \E j \in 1..Len(log[c]) : log[c][j].term > End(l) BY <1>10, <1>11
  <2> QED BY <1>3, <2>1 DEF Safe, Has
<1>12. CASE ~(LastTerm(log[c]) > End(l))
  <2>1. log[c][Len(log[c])].term = End(l) /\ Len(log[c]) >= Len(log[s])
    BY <1>2, <1>5, <1>8, <1>10, <1>12
  <2>2. Len(l) <= Len(log[c]) BY <1>2, <1>4, <1>10, <2>1
  <2>3. log[c][Len(l)].term = End(l) BY <1>0, <1>3, <1>4, <1>10, <2>1, <2>2 DEF Chained
  <2>4. Match(log[s], log[c]) BY <1>0, <1>3 DEF LogFacts, SourcesMatch
  <2> QED BY <1>1, <1>3, <2>2, <2>3, <2>4, MatchBegins DEF Has
<1> QED BY <1>11, <1>12

LEMMA SafeCandidates ==
    ASSUME AtMostThree, NEW s, ReplStep(s), NEW l, Safe(l), NEW v \in Server, NEW c \in Server,
           v # c, state'[c] = "CANDIDATE", NEW t \in Nat, t = term'[c], t > End(l),
           Grants(v, c, t)'
    PROVE  Has(c, l)'
<1>0. s \in Server /\ VoteStep(s) /\ GrantsFollow BY ReplStepFacts DEF ReplicationFacts
<1>1. CASE Grants(v, c, t)
  <2>1. t <= term[c] BY <1>0, <1>1 DEF GrantsFollow
  <2>2. term[c] \in Nat /\ term'[c] >= term[c] BY <1>0, TermsGrow
  <2>3. term[c] = t BY <2>1, <2>2
  <2>4. Fresher(c, t)' BY DEF Fresher
  <2>5. Fresher(c, t) BY <1>0, <2>4, FresherBack
  <2>6. state[c] = "CANDIDATE" BY <2>3, <2>5 DEF Fresher
  <2>7. Has(c, l) BY <1>1, <2>3, <2>6 DEF Safe
  <2> QED BY <2>7, HolderKept
<1>2. CASE v = s /\ GrantsTo(s, c) /\ term'[s] = t
  <2>1. state[c] = "CANDIDATE" /\ term[c] = t BY <1>2, OtherKept
  <2>2. PICK p, q \in Server : p # q /\ Has(p, l) /\ Has(q, l) BY DEF Safe
  <2>3. CASE c \in {p, q} BY <2>2, <2>3, HolderKept
  <2>4. CASE c \notin {p, q}
    <3>1. s \in {p, q, c} BY <1>0, <2>2, <2>4, NoFourth
    <3>2. Has(s, l) BY <1>2, <2>2, <3>1
    <3>3. Has(c, l) BY <1>2, <2>1, <3>2, VotersCompare
    <3> QED BY <3>3, HolderKept
  <2> QED BY <2>3, <2>4
<1> QED BY <1>0, <1>1, <1>2, GrantsBack

LEMMA SafeKept ==
    ASSUME AtMostThree, NEW s, ReplStep(s), NEW l, Safe(l)
    PROVE  Safe(l)'
<1>0. s \in Server /\ VoteStep(s) BY ReplStepFacts
<1>1. l \in Seq(Entry) /\ l # <<>> BY DEF Safe
<1>2. \E p, q \in Server : p # q /\ Has(p, l)' /\ Has(q, l)' BY HolderKept DEF Safe
<1>3. \A k : Source(k)' /\ (\E j \in 1..Len(k) : k[j].term > End(l)) => Begins(l, k)
  BY SafeSources
<1>4. \A p \in Server : state'[p] = "LEADER" /\ term'[p] > End(l) => Has(p, l)'
  BY SafeLeaders
<1>5. ASSUME NEW a \in Server, NEW b \in Server, a # b, Carries(a, b)', Sent(a, b)'.term > End(l)
      PROVE  Begins(l, Sent(a, b)'.entries)
  <2>1. Sent(a, b)' # None /\ Sent(a, b)'.type = "AppendEntries" BY <1>5 DEF Carries
  <2>2. CASE Sent(a, b)' = Sent(a, b)
    <3>1. Carries(a, b) BY <2>1, <2>2 DEF Carries
    <3> QED BY <1>5, <2>2, <3>1 DEF Safe
  <2>3. CASE a = s /\ Tells(s, b, Sent(a, b)')
    <3>1. Sent(a, b)'.entries = log'[s] /\ Sent(a, b)'.term = term'[s] /\ state'[s] = "LEADER"
      BY <2>1, <2>3 DEF Tells
    <3> QED BY <1>0, <1>4, <1>5, <3>1 DEF Has
  <2> QED BY <1>5, <2>1, <2>2, <2>3, SentBack
<1>6. ASSUME NEW v \in Server, NEW c \in Server, v # c, state'[c] = "CANDIDATE",
             term'[c] > End(l), Grants(v, c, term[c])'
      PROVE  Has(c, l)'
  <2>1. term'[c] \in Nat BY <1>0, TermsGrow
  <2>2. PICK t \in Nat : t = term'[c] BY <2>1
  <2>3. Grants(v, c, t)' BY <1>6, <2>2
  <2> QED BY <1>6, <2>2, <2>3, SafeCandidates
<1> QED BY <1>1, <1>2, <1>3, <1>4, <1>5, <1>6 DEF Safe

-----------------------------------------------------------------------------
(***************************************************************************)
(* What a follower acknowledges is safe                                    *)
(***************************************************************************)

\* While a leader and a follower of its term are in it, no later term was won.
LEMMA NothingLater ==
    ASSUME AtMostThree, NEW s, ReplStep(s), NEW p \in Server, FollowsTo(s, p),
           NEW t \in Nat, term'[s] = t, term[p] = t, NEW u \in Nat, NEW w \in Server,
           <<u, w>> \in elected'
    PROVE  u <= t
<1>0. s \in Server /\ VoteStep(s) /\ LogFacts' /\ p # s BY ReplStepFacts DEF FollowsTo
<1>1. term'[p] = t BY <1>0, OtherKept
<1> SUFFICES ASSUME u > t PROVE FALSE
  OBVIOUS
<1>2. ~Fresher(w, u)' BY <1>0 DEF LogFacts, WinnersMovedOn
<1>3. term'[w] \in Nat BY <1>0, TermsGrow
<1>4. term'[w] >= u BY <1>2, <1>3 DEF Fresher
<1>5. GrantsFollow' BY GrantsFollowKept
<1>6. PICK v \in Server \ {w} : term'[v] >= u BY <1>5 DEF GrantsFollow
<1>7. w \notin {p, s} /\ v \notin {p, s} BY <1>1, <1>4, <1>6
<1> QED BY <1>0, <1>6, <1>7, NoFourth

LEMMA BeginsShorter ==
    ASSUME NEW l \in Seq(Entry), NEW h \in Seq(Entry), NEW n \in Seq(Entry),
           Begins(l, n), Begins(h, n), Len(l) <= Len(h)
    PROVE  Begins(l, h)
<1>1. Len(l) \in Nat /\ Len(h) \in Nat OBVIOUS
<1>2. \A i \in 1..Len(l) : i \in 1..Len(h) BY <1>1
<1> QED BY <1>2 DEF Begins

LEMMA NewAckSafe ==
    ASSUME AtMostThree, NEW s, ReplStep(s), NEW p \in Server, FollowsTo(s, p),
           NEW t \in Nat, term'[s] = t, term[p] = t, state[p] = "LEADER",
           NEW l \in Seq(Entry), l # <<>>, Has(p, l), End(l) = t, Len(l) <= Len(log'[s])
    PROVE  Safe(l)'
<1>0. /\ s \in Server /\ VoteStep(s) /\ LogStepOf(s) /\ LogFacts /\ LogFacts' /\ p # s
      /\ ElectionInv' /\ HeartbeatsGrow
  BY ReplStepFacts DEF FollowsTo, ReplicationFacts
<1>1. term'[p] = t /\ log'[p] = log[p] BY <1>0, OtherKept
<1>2. Carries(p, s) /\ log'[s] = Sent(p, s).entries /\ Sent(p, s).term = t BY DEF FollowsTo
<1>3. Begins(log'[s], log[p]) BY <1>0, <1>2 DEF HeartbeatsGrow
<1>4. log[p] \in Seq(Entry) /\ log'[s] \in Seq(Entry) BY <1>0 DEF LogFacts, LogType, LogStepOf
<1>5. Begins(l, log'[s]) BY <1>3, <1>4, BeginsShorter DEF Has
<1>6. Has(s, l)' /\ Has(p, l)' BY <1>1, <1>5 DEF Has
<1>7. \A u \in Nat, w \in Server : <<u, w>> \in elected' => u <= t BY NothingLater
<1>8. ASSUME NEW k, Source(k)', NEW j \in 1..Len(k), k[j].term > t PROVE FALSE
  <2>1. k \in Seq(Entry)
    <3>1. Source(k) \/ k = log'[s] BY <1>8, ReplStepFacts, SourceBack
    <3>2. CASE Source(k) BY <1>0, <3>2, SourceType DEF LogFacts
    <3> QED BY <1>4, <3>1, <3>2
  <2>2. k[j].term \in Nat BY <2>1, EntryFacts
  <2>3. PICK w \in Server : <<k[j].term, w>> \in elected'
    BY <1>0, <1>8 DEF LogFacts, EntriesAreOfWinners
  <2> QED BY <1>7, <1>8, <2>2, <2>3
<1>9. ASSUME NEW a \in Server, NEW b \in Server, a # b, Carries(a, b)', Sent(a, b)'.term > t
      PROVE  FALSE
  <2>1. HeartbeatsGrow' BY HeartbeatsGrowKept
  <2>2. <<Sent(a, b)'.term, a>> \in elected' BY <1>9, <2>1 DEF HeartbeatsGrow
  <2>3. Said(a, b)' BY <1>0, <1>9 DEF ElectionInv
  <2>4. Sent(a, b)'.term \in Nat BY <1>9, <2>3 DEF Said, Carries
  <2> QED BY <1>7, <1>9, <2>2, <2>4
<1>10. ASSUME NEW x \in Server, state'[x] = "LEADER", term'[x] > t PROVE FALSE
  <2>1. <<term'[x], x>> \in elected' BY <1>0, <1>10 DEF LogFacts, LeadersWereElected
  <2>2. term'[x] \in Nat BY <1>0, TermsGrow
  <2> QED BY <1>7, <1>10, <2>1, <2>2
<1>11. ASSUME NEW v \in Server, NEW c \in Server, v # c, term'[c] > t, Grants(v, c, term[c])'
       PROVE  FALSE
  <2>1. term'[c] \in Nat /\ term'[v] \in Nat BY <1>0, TermsGrow
  <2>2. PICK u \in Nat : u = term'[c] BY <2>1
  <2>3. Grants(v, c, u)' BY <1>11, <2>2
  <2>4. Binding(v, u, c)' BY <1>0, <1>11, <2>3 DEF ElectionInv, VotesBind
  <2>5. term'[v] > t BY <1>11, <2>1, <2>2, <2>4 DEF Binding
  <2>6. c \notin {p, s} /\ v \notin {p, s} BY <1>1, <1>11, <2>5
  <2> QED BY <1>0, <1>11, <2>6, NoFourth
<1> QED BY <1>0, <1>6, <1>8, <1>9, <1>10, <1>11 DEF Safe

\* A new leader has nothing acknowledged yet.
LEMMA NewLeaderUnacked ==
    ASSUME NEW s, ReplStep(s), NEW p \in Server, NEW q \in Server, p # q,
           state'[p] = "LEADER", state[p] # "LEADER", NEW t \in Nat, t = term'[p]
    PROVE  match'[p][q] = 0 /\ ~Acks(q, p, t)'
<1>0. AcksBounded /\ MatchStep(s) BY ReplStepFacts DEF ReplicationFacts
<1>1. p = s /\ term'[s] = term[s] /\ <<term[s], s>> \notin elected BY NewLeader
<1>2. match'[p][q] = 0 BY <1>0, <1>1 DEF MatchStep
<1>3. ~Acks(q, p, t) BY <1>0, <1>1 DEF AcksBounded
<1> QED BY <1>1, <1>2, <1>3, NewAck

LEMMA AckedIsSafeKept ==
    ASSUME AtMostThree, NEW s, ReplStep(s) PROVE AckedIsSafe'
<1>0. /\ s \in Server /\ VoteStep(s) /\ LogStepOf(s) /\ LogFacts /\ AcksBounded /\ AckedIsSafe
      /\ MatchStep(s) /\ TallyType
  BY ReplStepFacts DEF ReplicationFacts
<1> SUFFICES ASSUME NEW p \in Server, NEW q \in Server, NEW l, p # q, Acked(p, q, l)'
             PROVE  Safe(l)'
  BY DEF AckedIsSafe
<1>1. term'[p] \in Nat BY <1>0, TermsGrow
<1>2. PICK t \in Nat : t = term'[p] BY <1>1
<1>3. /\ state'[p] = "LEADER" /\ l \in Seq(Entry) /\ l # <<>> /\ Begins(l, log'[p])
      /\ End(l) = t
      /\ \/ match'[p][q] >= Len(l)
         \/ Acks(q, p, t)' /\ Sent(q, p)'.index >= Len(l)
  BY <1>2 DEF Acked, Has
<1>4. Len(l) \in Nat \ {0} BY <1>3, LastFacts
<1>5. CASE state[p] # "LEADER" BY <1>2, <1>3, <1>4, <1>5, NewLeaderUnacked
<1>6. CASE state[p] = "LEADER"
  <2>1. term[p] = t /\ Begins(log[p], log'[p]) BY <1>2, <1>3, <1>6, LeaderGrows
  <2>2. log[p] \in Seq(Entry) /\ log'[p] \in Seq(Entry)
    BY <1>0 DEF LogFacts, LogType, LogStepOf
  <2>3. Len(log[p]) \in Nat BY <2>2
  <2>4. match[p][q] \in Nat BY <1>0 DEF TallyType
  <2>5. ASSUME match[p][q] >= Len(l) \/ (Acks(q, p, t) /\ Sent(q, p).index >= Len(l))
        PROVE  Safe(l)'
    <3>1. Len(l) <= Len(log[p])
      <4>1. match[p][q] <= Len(log[p]) /\ (Acks(q, p, t) => Sent(q, p).index <= Len(log[p]))
        BY <1>0, <1>6, <2>1 DEF AcksBounded
      <4>2. Acks(q, p, t) => Sent(q, p).index \in Nat BY <1>0 DEF TallyType, Acks
      <4> QED BY <1>4, <2>3, <2>4, <2>5, <4>1, <4>2
    <3>2. Has(p, l) BY <1>3, <2>1, <2>2, <3>1, BeginsShorter DEF Has
    <3>3. Acked(p, q, l) BY <1>3, <1>6, <2>1, <2>5, <3>2 DEF Acked
    <3>4. Safe(l) BY <1>0, <3>3 DEF AckedIsSafe
    <3> QED BY <3>4, SafeKept
  <2>6. CASE match'[p][q] >= Len(l)
    <3>1. CASE p # s BY <2>5, <2>6, <3>1, OtherKept
    <3>2. CASE p = s
      <4>1. \/ match'[s][q] = 0 \/ match'[s][q] = match[s][q]
            \/ Acks(q, s, term[s]) /\ match'[s][q] = Sent(q, s).index
        BY <1>0 DEF MatchStep
      <4> QED BY <1>4, <2>1, <2>5, <2>6, <3>2, <4>1
    <3> QED BY <3>1, <3>2
  <2>7. CASE Acks(q, p, t)' /\ Sent(q, p)'.index >= Len(l)
    <3>1. CASE Acks(q, p, t) /\ Sent(q, p)' = Sent(q, p) BY <2>5, <2>7, <3>1
    <3>2. CASE ~(Acks(q, p, t) /\ Sent(q, p)' = Sent(q, p))
      <4>1. q = s /\ FollowsTo(s, p) /\ t = term'[s] /\ Sent(q, p)'.index = Len(log'[s])
        BY <2>7, <3>2, NewAck
      <4>2. log'[p] = log[p] BY <4>1, OtherKept
      <4>3. log'[s] \in Seq(Entry) BY <1>0 DEF LogStepOf
      <4>4. Len(l) <= Len(log'[s]) BY <1>4, <2>7, <4>1, <4>3
      <4> QED BY <1>3, <1>6, <2>1, <4>1, <4>2, <4>4, NewAckSafe DEF Has
    <3> QED BY <3>1, <3>2
  <2> QED BY <1>3, <2>6, <2>7
<1> QED BY <1>5, <1>6

-----------------------------------------------------------------------------
(***************************************************************************)
(* What registries apply is safe                                           *)
(***************************************************************************)

\* Two safe logs share a server that has both.
LEMMA SafeAgree ==
    ASSUME AtMostThree, LogFacts, NEW l, NEW k, Safe(l), Safe(k), Len(l) <= Len(k)
    PROVE  Begins(l, k)
<1>1. l \in Seq(Entry) /\ k \in Seq(Entry) BY DEF Safe
<1>2. PICK p, q \in Server : p # q /\ Has(p, l) /\ Has(q, l) BY DEF Safe
<1>3. PICK a, b \in Server : a # b /\ Has(a, k) /\ Has(b, k) BY DEF Safe
<1>4. PICK x \in Server : Has(x, l) /\ Has(x, k)
  <2>1. CASE a \in {p, q} BY <1>2, <1>3, <2>1
  <2>2. CASE a \notin {p, q}
    <3>1. b \in {p, q, a} BY <1>2, <2>2, NoFourth
    <3> QED BY <1>2, <1>3, <3>1
  <2> QED BY <2>1, <2>2
<1>5. log[x] \in Seq(Entry) BY SourceOfServer
<1> QED BY <1>1, <1>4, <1>5, BeginsShorter DEF Has

\* AppliedTo with a log that begins with l, up to the length of l.
LEMMA AppliedUpTo ==
    ASSUME NEW s, applied[s] \in Seq(Entry), NEW k \in Seq(Entry), NEW l \in Seq(Entry),
           Begins(l, k), Begins(applied[s], l)
    PROVE  AppliedTo(s, k, Len(l)) = l
<1> DEFINE a == applied[s]
           c == Len(l)
           f == [j \in 1..(c - Len(a)) |-> IF Len(a) + j <= Len(k) THEN k[Len(a) + j] ELSE None]
<1>1. AppliedTo(s, k, c) = a \o f BY DEF AppliedTo, commit
<1>2. a \in Seq(Entry) OBVIOUS
<1> HIDE DEF a
<1>3. Len(a) \in Nat /\ c \in Nat /\ Len(k) \in Nat BY <1>2
<1>4. Len(a) <= c /\ \A i \in 1..Len(a) : a[i] = l[i] BY DEF Begins, a
<1>5. c <= Len(k) /\ \A i \in 1..c : l[i] = k[i] BY DEF Begins
<1>6. c - Len(a) \in Nat BY <1>3, <1>4
<1>7. ASSUME NEW j \in 1..(c - Len(a)) PROVE f[j] = l[Len(a) + j] /\ f[j] \in Entry
  <2>1. Len(a) + j \in 1..c /\ Len(a) + j <= Len(k) BY <1>3, <1>4, <1>5, <1>6
  <2> QED BY <1>5, <2>1
<1>8. f \in Seq(Entry) /\ Len(f) = c - Len(a)
  <2>1. f \in [1..(c - Len(a)) -> Entry] BY <1>7
  <2>2. DOMAIN f = 1..(c - Len(a)) OBVIOUS
  <2>3. PICK d \in Nat : d = c - Len(a) BY <1>6
  <2> HIDE DEF f, c
  <2>4. f \in [1..d -> Entry] /\ DOMAIN f = 1..d BY <2>1, <2>2, <2>3
  <2>5. f \in Seq(Entry) /\ Len(f) = d BY <2>4
  <2> QED BY <2>3, <2>5
<1> HIDE DEF f
<1>9. /\ a \o f \in Seq(Entry) /\ Len(a \o f) = Len(a) + Len(f)
      /\ \A i \in 1..Len(a) + Len(f) : (a \o f)[i] = IF i <= Len(a) THEN a[i] ELSE f[i - Len(a)]
  BY <1>2, <1>8, ConcatProperties
<1>10. Len(a \o f) = c BY <1>3, <1>8, <1>9
<1>11. ASSUME NEW i \in 1..c PROVE (a \o f)[i] = l[i]
  <2>1. (a \o f)[i] = IF i <= Len(a) THEN a[i] ELSE f[i - Len(a)] BY <1>3, <1>8, <1>9
  <2>2. CASE i <= Len(a) BY <1>3, <1>4, <2>1, <2>2
  <2>3. CASE ~(i <= Len(a))
    <3>1. i - Len(a) \in 1..(c - Len(a)) /\ Len(a) + (i - Len(a)) = i BY <1>3, <1>4, <2>3
    <3> QED BY <1>7, <2>1, <2>3, <3>1
  <2> QED BY <2>2, <2>3
<1>12. a \o f = l BY <1>9, <1>10, <1>11, SeqEqual
<1> QED BY <1>1, <1>12

\* A commit index that is not ahead applies nothing.
LEMMA AppliedAlready ==
    ASSUME NEW s, applied[s] \in Seq(Entry), NEW k, NEW c \in Nat, c <= Len(applied[s])
    PROVE  AppliedTo(s, k, c) = applied[s]
<1> DEFINE a == applied[s]
           f == [j \in 1..(c - Len(a)) |-> IF Len(a) + j <= Len(k) THEN k[Len(a) + j] ELSE None]
<1>1. AppliedTo(s, k, c) = a \o f BY DEF AppliedTo, commit
<1>2. Len(a) \in Nat OBVIOUS
<1>3. 1..(c - Len(a)) = {} BY <1>2
<1>4. f = <<>> BY <1>3
<1> QED BY <1>1, <1>4, ConcatEmptySeq

\* What a leader commits is what a follower acknowledged.
LEMMA CommitsResult ==
    ASSUME AtMostThree, NEW s, ReplStep(s), NEW n \in Nat, CommitsTo(s, n)
    PROVE  \E l : /\ Safe(l) /\ applied'[s] = l /\ Begins(applied[s], l) /\ Begins(l, log[s])
                  /\ Len(l) = n /\ End(l) = term[s]
<1>0. /\ s \in Server /\ LogFacts /\ AckedIsSafe /\ AppliedIsSafe /\ TallyType
  BY ReplStepFacts DEF ReplicationFacts
<1>1. log[s] \in Seq(Entry) /\ applied[s] \in Seq(Entry) BY <1>0 DEF LogFacts, LogType, TallyType
<1>2. Len(log[s]) \in Nat /\ Len(applied[s]) \in Nat BY <1>1
<1>3. n \in 1..Len(log[s]) /\ n > Len(applied[s]) /\ log[s][n].term = term[s] BY DEF CommitsTo
<1> DEFINE l == SubSeq(log[s], 1, n)
<1>4. l \in Seq(Entry) /\ Len(l) = n /\ \A i \in 1..n : l[i] = log[s][i]
  <2>1. l = [i \in 1..n |-> log[s][i]] BY <1>1, <1>2, <1>3
  <2>2. \A i \in 1..n : log[s][i] \in Entry BY <1>1, <1>2, <1>3
  <2>3. l \in [1..n -> Entry] /\ DOMAIN l = 1..n BY <2>1, <2>2
  <2>4. \A i \in 1..n : l[i] = log[s][i] BY <2>1
  <2> HIDE DEF l
  <2> QED BY <2>3, <2>4
<1> HIDE DEF l
<1>5. l # <<>> BY <1>3, <1>4
<1>6. Begins(l, log[s]) BY <1>2, <1>3, <1>4 DEF Begins
<1>7. End(l) = term[s] BY <1>3, <1>4 DEF End
<1>8. PICK q \in Server \ {s} : match[s][q] >= n \/ (Acks(q, s, term[s]) /\ Sent(q, s).index >= n)
  BY DEF CommitsTo
<1>9. Acked(s, q, l) BY <1>4, <1>5, <1>6, <1>7, <1>8 DEF Acked, Has, CommitsTo
<1>10. Safe(l) BY <1>0, <1>8, <1>9 DEF AckedIsSafe
<1>11. Begins(applied[s], l)
  <2>1. CASE applied[s] = <<>> BY <1>4, <2>1 DEF Begins
  <2>2. CASE applied[s] # <<>>
    <3>1. Safe(applied[s]) BY <1>0, <2>2 DEF AppliedIsSafe
    <3>2. Len(applied[s]) <= Len(l) BY <1>2, <1>3, <1>4
    <3> QED BY <1>0, <1>10, <3>1, <3>2, SafeAgree
  <2> QED BY <2>1, <2>2
<1>12. applied'[s] = l
  <2>1. applied'[s] = AppliedTo(s, log[s], n) BY DEF CommitsTo
  <2>2. AppliedTo(s, log[s], Len(l)) = l BY <1>1, <1>4, <1>6, <1>11, AppliedUpTo
  <2> QED BY <1>4, <2>1, <2>2
<1> QED BY <1>4, <1>6, <1>7, <1>10, <1>11, <1>12

LEMMA CatchesUpResult ==
    ASSUME AtMostThree, NEW s, ReplStep(s), CatchesUp(s)
    PROVE  \/ applied'[s] = applied[s]
           \/ \E l : Safe(l) /\ applied'[s] = l /\ Begins(applied[s], l) /\ End(l) <= term'[s]
<1>0. /\ s \in Server /\ LogFacts /\ AppliedIsSafe /\ TallyType /\ TermsReached
  BY ReplStepFacts DEF ReplicationFacts
<1>1. PICK from \in Server :
          /\ FollowsTo(s, from)
          /\ applied'[s] = AppliedTo(s, Sent(from, s).entries, Sent(from, s).commit)
  BY DEF CatchesUp
<1>2. from # s /\ Carries(from, s) /\ term'[s] = Sent(from, s).term BY <1>1 DEF FollowsTo
<1>3. Sent(from, s).entries \in Seq(Entry) BY <1>0, <1>2, SourceOfMessage
<1>4. applied[s] \in Seq(Entry) BY <1>0 DEF TallyType
<1>5. Sent(from, s).commit \in Nat BY <1>0, <1>2 DEF TallyType, Carries
<1>6. Len(applied[s]) \in Nat BY <1>4
<1>7. CASE Sent(from, s).commit <= Len(applied[s])
  BY <1>1, <1>4, <1>5, <1>7, AppliedAlready
<1>8. CASE ~(Sent(from, s).commit <= Len(applied[s]))
  <2>1. Sent(from, s).commit > 0 BY <1>5, <1>6, <1>8
  <2>2. PICK l : Safe(l) /\ Len(l) = Sent(from, s).commit /\ Begins(l, Sent(from, s).entries)
    BY <1>0, <1>2, <2>1 DEF AppliedIsSafe
  <2>3. l \in Seq(Entry) /\ l # <<>> BY <2>2 DEF Safe
  <2>4. Begins(applied[s], l)
    <3>1. CASE applied[s] = <<>> BY <2>3, <3>1 DEF Begins
    <3>2. CASE applied[s] # <<>>
      <4>1. Safe(applied[s]) BY <1>0, <3>2 DEF AppliedIsSafe
      <4>2. Len(applied[s]) <= Len(l) BY <1>5, <1>6, <1>8, <2>2
      <4> QED BY <1>0, <2>2, <4>1, <4>2, SafeAgree
    <3> QED BY <3>1, <3>2
  <2>5. applied'[s] = l BY <1>1, <1>3, <1>4, <2>2, <2>3, <2>4, AppliedUpTo
  <2>6. End(l) <= term'[s]
    <3>1. Len(l) \in 1..Len(Sent(from, s).entries) /\ Sent(from, s).entries[Len(l)].term = End(l)
      BY <1>3, <2>2, <2>3, BeginsEnd
    <3> QED BY <1>0, <1>2, <3>1 DEF TermsReached
  <2> QED BY <2>2, <2>4, <2>5, <2>6
<1> QED BY <1>7, <1>8

\* A registry only goes on, to what is safe.
LEMMA RegistryGoesOn ==
    ASSUME AtMostThree, NEW s, ReplStep(s)
    PROVE  \/ applied'[s] = applied[s]
           \/ \E l : Safe(l) /\ applied'[s] = l /\ Begins(applied[s], l) /\ End(l) <= term'[s]
<1>0. s \in Server /\ VoteStep(s) /\ ApplyStep(s) BY ReplStepFacts
<1>1. ASSUME NEW n \in Nat, CommitsTo(s, n)
      PROVE  \E l : Safe(l) /\ applied'[s] = l /\ Begins(applied[s], l) /\ End(l) <= term'[s]
  <2>1. PICK l : Safe(l) /\ applied'[s] = l /\ Begins(applied[s], l) /\ End(l) = term[s]
    BY <1>1, CommitsResult
  <2>2. term'[s] = term[s] /\ term[s] \in Nat BY <1>0, <1>1, TermsGrow DEF CommitsTo
  <2> QED BY <2>1, <2>2
<1> QED BY <1>0, <1>1, CatchesUpResult DEF ApplyStep

\* A leader has what it has applied.
LEMMA LeaderHasApplied ==
    ASSUME AtMostThree, NEW s, ReplStep(s), NEW l, Safe(l), state'[s] = "LEADER",
           End(l) <= term'[s]
    PROVE  Begins(l, log'[s])
<1>0. s \in Server /\ VoteStep(s) /\ LogFacts' /\ LogStepOf(s) BY ReplStepFacts
<1>1. l \in Seq(Entry) /\ l # <<>> BY DEF Safe
<1>2. End(l) \in Nat BY <1>1, LastFacts
<1>3. term'[s] \in Nat BY <1>0, TermsGrow
<1>4. CASE term'[s] > End(l) BY <1>0, <1>4, SafeLeaders DEF Has
<1>5. CASE term'[s] = End(l)
  <2>1. PICK p \in Server : Has(p, l) BY DEF Safe
  <2>2. Has(p, l)' BY <2>1, HolderKept
  <2>3. PICK k : k = log'[p] OBVIOUS
  <2>4. PICK h : h = log'[s] OBVIOUS
  <2>5. Source(k)' /\ Source(h)' /\ k \in Seq(Entry) /\ h \in Seq(Entry)
    BY <1>0, <2>3, <2>4 DEF Source, LogStepOf
  <2>6. Begins(l, k) BY <2>2, <2>3 DEF Has
  <2>7. Len(l) \in 1..Len(k) /\ k[Len(l)].term = End(l) BY <1>1, <2>5, <2>6, BeginsEnd
  <2>8. Len(l) <= Len(h) /\ h[Len(l)].term = End(l)
    BY <1>0, <1>5, <2>4, <2>5, <2>7 DEF LogFacts, LeadersAreAhead
  <2>9. Match(k, h) BY <1>0, <2>5 DEF LogFacts, SourcesMatch
  <2> QED BY <1>1, <2>4, <2>5, <2>6, <2>8, <2>9, MatchBegins
<1> QED BY <1>2, <1>3, <1>4, <1>5

LEMMA AppliedIsSafeKept ==
    ASSUME AtMostThree, NEW s, ReplStep(s) PROVE AppliedIsSafe'
<1>0. /\ s \in Server /\ VoteStep(s) /\ AppliedIsSafe /\ TallyType /\ LogStepOf(s)
  BY ReplStepFacts DEF ReplicationFacts
<1>1. ASSUME NEW x \in Server, applied[x] # <<>>
      PROVE  Safe(applied[x]) /\ End(applied[x]) <= term'[x]
  <2>1. Safe(applied[x]) /\ End(applied[x]) <= term[x] BY <1>0, <1>1 DEF AppliedIsSafe
  <2>2. term[x] \in Nat /\ term'[x] \in Nat /\ term'[x] >= term[x] BY <1>0, TermsGrow
  <2>3. applied[x] \in Seq(Entry) BY <1>0 DEF TallyType
  <2>4. End(applied[x]) \in Nat BY <1>1, <2>3, LastFacts
  <2> QED BY <2>1, <2>2, <2>4
<1>2. ASSUME NEW x \in Server, applied'[x] # <<>>
      PROVE  Safe(applied[x])' /\ End(applied'[x]) <= term'[x]
  <2>1. PICK l : l = applied'[x] OBVIOUS
  <2>2. Safe(l) /\ End(l) <= term'[x]
    <3>1. CASE applied'[x] = applied[x] BY <1>1, <1>2, <2>1, <3>1
    <3>2. CASE applied'[x] # applied[x]
      <4>1. x = s BY <3>2, OtherKept
      <4> QED BY <2>1, <3>2, <4>1, RegistryGoesOn
    <3> QED BY <3>1, <3>2
  <2>3. Safe(l)' BY <2>2, SafeKept
  <2> QED BY <2>1, <2>2, <2>3
<1>3. ASSUME NEW a \in Server, NEW b \in Server, a # b, Carries(a, b)', Sent(a, b)'.commit > 0
      PROVE  \E l : Safe(l)' /\ Len(l) = Sent(a, b)'.commit /\ Begins(l, Sent(a, b)'.entries)
  <2>1. Sent(a, b)' # None /\ Sent(a, b)'.type = "AppendEntries" BY <1>3 DEF Carries
  <2>2. CASE Sent(a, b)' = Sent(a, b)
    <3>1. Carries(a, b) BY <2>1, <2>2 DEF Carries
    <3>2. PICK l : Safe(l) /\ Len(l) = Sent(a, b).commit /\ Begins(l, Sent(a, b).entries)
      BY <1>0, <1>3, <2>2, <3>1 DEF AppliedIsSafe
    <3>3. Safe(l)' BY <3>2, SafeKept
    <3> QED BY <2>2, <3>2, <3>3
  <2>3. CASE a = s /\ Tells(s, b, Sent(a, b)')
    <3>1. /\ Sent(a, b)'.entries = log'[s] /\ state'[s] = "LEADER"
          /\ Sent(a, b)'.commit = Len(applied[s])
      BY <2>1, <2>3 DEF Tells
    <3>2. PICK l : l = applied[s] OBVIOUS
    <3>3. applied[s] # <<>> BY <1>3, <3>1
    <3>4. Safe(l) /\ End(l) <= term'[s] BY <1>0, <1>1, <3>2, <3>3
    <3>5. Begins(l, log'[s]) BY <3>1, <3>4, LeaderHasApplied
    <3>6. Safe(l)' BY <3>4, SafeKept
    <3> QED BY <3>1, <3>2, <3>5, <3>6
  <2> QED BY <1>3, <2>1, <2>2, <2>3, SentBack
<1> QED BY <1>2, <1>3 DEF AppliedIsSafe

-----------------------------------------------------------------------------
(***************************************************************************)
(* Registries agree                                                        *)
(***************************************************************************)

LEMMA TallyTypeKept ==
    ASSUME AtMostThree, NEW s, ReplStep(s) PROVE TallyType'
<1>0. s \in Server /\ MatchStep(s) /\ ApplyStep(s) /\ TallyType /\ LogStepOf(s)
  BY ReplStepFacts DEF ReplicationFacts
<1>1. ASSUME NEW p \in Server PROVE match'[p][p] = 0
  <2>1. match[p][p] = 0 BY <1>0 DEF TallyType
  <2>2. CASE p = s BY <1>0, <2>1, <2>2 DEF MatchStep
  <2>3. CASE p # s BY <2>1, <2>3, OtherKept
  <2> QED BY <2>2, <2>3
<1>2. ASSUME NEW x \in Server PROVE applied'[x] \in Seq(Entry)
  <2>1. applied[x] \in Seq(Entry) BY <1>0 DEF TallyType
  <2>2. CASE x # s BY <2>1, <2>2, OtherKept
  <2>3. CASE x = s
    <3>1. applied'[s] = applied[s] \/ \E l : Safe(l) /\ applied'[s] = l BY RegistryGoesOn
    <3> QED BY <2>1, <2>3, <3>1 DEF Safe
  <2> QED BY <2>2, <2>3
<1>3. ASSUME NEW a \in Server, NEW b \in Server, a # b, Sent(a, b)' # None
      PROVE  /\ Sent(a, b)'.type = "AppendEntries" => Sent(a, b)'.commit \in Nat
             /\ Sent(a, b)'.type = "AppendEntriesResponse" => Sent(a, b)'.index \in Nat
  <2>1. CASE Sent(a, b)' = Sent(a, b) BY <1>0, <1>3, <2>1 DEF TallyType
  <2>2. CASE Tells(s, b, Sent(a, b)')
    <3>1. applied[s] \in Seq(Entry) /\ log'[s] \in Seq(Entry) BY <1>0 DEF TallyType, LogStepOf
    <3>2. Len(applied[s]) \in Nat /\ Len(log'[s]) \in Nat BY <3>1
    <3> QED BY <2>2, <3>2 DEF Tells
  <2> QED BY <1>3, <2>1, <2>2, SentBack
<1>4. match' \in [Server -> [Server -> Nat]] BY <1>0 DEF MatchStep
<1>5. applied' \in [Server -> Seq(Entry)]
  <2>1. applied' = [x \in Server |-> applied'[x]] BY <1>0 DEF ApplyStep
  <2> QED BY <1>2, <2>1
<1> QED BY <1>1, <1>3, <1>4, <1>5 DEF TallyType

LEMMA ProposalsKeptKept ==
    ASSUME AtMostThree, NEW s, ReplStep(s) PROVE ProposalsKept'
<1>0. s \in Server /\ WaitStep(s) /\ ProposalsKept /\ TallyType /\ LogFacts /\ LogStepOf(s)
  BY ReplStepFacts DEF ReplicationFacts
<1>1. ASSUME NEW w \in waiting'
      PROVE  /\ w.by \in Server /\ state'[w.by] = "LEADER" /\ w.index \in 1..Len(log'[w.by])
             /\ log'[w.by][w.index] = w.entry
  <2>1. CASE w \in waiting /\ (w.by = s /\ state[s] = "LEADER" => state'[s] = "LEADER")
    <3>1. /\ w.by \in Server /\ state[w.by] = "LEADER" /\ w.index \in 1..Len(log[w.by])
          /\ log[w.by][w.index] = w.entry
      BY <1>0, <2>1 DEF ProposalsKept
    <3>2. state'[w.by] = "LEADER"
      <4>1. CASE w.by = s BY <2>1, <3>1, <4>1
      <4>2. CASE w.by # s BY <3>1, <4>2, OtherKept
      <4> QED BY <4>1, <4>2
    <3>3. Begins(log[w.by], log'[w.by]) BY <3>1, <3>2, LeaderGrows
    <3>4. log[w.by] \in Seq(Entry) /\ log'[w.by] \in Seq(Entry)
      BY <1>0, <3>1 DEF LogFacts, LogType, LogStepOf
    <3>5. Len(log[w.by]) \in Nat /\ Len(log'[w.by]) \in Nat BY <3>4
    <3>6. w.index \in 1..Len(log'[w.by]) BY <3>1, <3>3, <3>5 DEF Begins
    <3>7. log'[w.by][w.index] = w.entry BY <3>1, <3>3 DEF Begins
    <3> QED BY <3>1, <3>2, <3>6, <3>7
  <2>2. CASE /\ w.by = s /\ state'[s] = "LEADER"
             /\ w.index = Len(log[s]) + 1 /\ log'[s] = Append(log[s], w.entry)
    <3>1. log[s] \in Seq(Entry) BY <1>0 DEF LogFacts, LogType
    <3>2. Len(log'[s]) = Len(log[s]) + 1 /\ log'[s][Len(log[s]) + 1] = w.entry /\ Len(log[s]) \in Nat
      BY <2>2, <3>1
    <3> QED BY <1>0, <2>2, <3>2
  <2> QED BY <1>0, <2>1, <2>2 DEF WaitStep
<1>2. ASSUME NEW c \in confirmed'
      PROVE  /\ c.by \in Server /\ c.index \in 1..Len(applied'[c.by])
             /\ applied'[c.by][c.index] = c.entry
  <2>1. CASE c \in confirmed
    <3>1. /\ c.by \in Server /\ c.index \in 1..Len(applied[c.by])
          /\ applied[c.by][c.index] = c.entry
      BY <1>0, <2>1 DEF ProposalsKept
    <3>2. CASE applied'[c.by] = applied[c.by] BY <3>1, <3>2
    <3>3. CASE applied'[c.by] # applied[c.by]
      <4>1. c.by = s BY <3>1, <3>3, OtherKept
      <4>2. Begins(applied[s], applied'[s]) /\ applied'[s] \in Seq(Entry)
        BY <3>3, <4>1, RegistryGoesOn DEF Safe
      <4>3. applied[s] \in Seq(Entry) BY <1>0 DEF TallyType
      <4>4. Len(applied[s]) \in Nat /\ Len(applied'[s]) \in Nat BY <4>2, <4>3
      <4>5. c.index \in 1..Len(applied'[s]) BY <3>1, <4>1, <4>2, <4>4 DEF Begins
      <4>6. applied'[s][c.index] = c.entry BY <3>1, <4>1, <4>2 DEF Begins
      <4> QED BY <1>0, <4>1, <4>5, <4>6
    <3> QED BY <3>2, <3>3
  <2>2. ASSUME NEW n \in Nat, CommitsTo(s, n), c \in waiting, c.by = s, c.index <= n
        PROVE  c.index \in 1..Len(applied'[s]) /\ applied'[s][c.index] = c.entry
    <3>1. c.index \in 1..Len(log[s]) /\ log[s][c.index] = c.entry
      BY <1>0, <2>2 DEF ProposalsKept
    <3>2. PICK l : applied'[s] = l /\ Begins(l, log[s]) /\ Len(l) = n BY <2>2, CommitsResult
    <3>3. c.index \in 1..n BY <2>2, <3>1
    <3> QED BY <3>1, <3>2, <3>3 DEF Begins
  <2> QED BY <1>0, <2>1, <2>2 DEF WaitStep
<1> QED BY <1>1, <1>2 DEF ProposalsKept

LEMMA ReplicationKept ==
    ASSUME AtMostThree, NEW s, ReplStep(s) PROVE ReplicationFacts'
BY TallyTypeKept, TermsRiseKept, TermsReachedKept, ChainedKept, RequestsTellKept,
   GrantsFollowKept, HeartbeatsGrowKept, AcksBoundedKept, AckedIsSafeKept,
   AppliedIsSafeKept, ProposalsKeptKept
   DEF ReplicationFacts

LEMMA StepsReplicate ==
    ASSUME ElectionInv, LogFacts, TallyType, Next, excused' = {}
    PROVE  \E s \in Server : VoteStepOf(s) /\ LogStepOf(s) /\ TallyStepOf(s)
<1>0. VoteType /\ LogType BY DEF ElectionInv, LogFacts
<1>1. ASSUME NEW s \in Server, StartElection(s) \/ SendHeartbeats(s)
      PROVE  VoteStepOf(s) /\ LogStepOf(s) /\ TallyStepOf(s)
  BY <1>0, <1>1, StartElectionVotes, StartElectionLogs, SendHeartbeatsVotes,
     SendHeartbeatsLogs, StartElectionTallies, SendHeartbeatsTallies
<1>2. ASSUME NEW s \in Server, NEW c \in Change,
             ProposeAtLeader(s, c) \/ ProposeAlone(s, c) \/ ProposeForwarded(s, c)
      PROVE  VoteStepOf(s) /\ LogStepOf(s) /\ TallyStepOf(s)
  <2>1. ~ProposeAlone(s, c) BY DEF ProposeAlone
  <2> QED BY <1>0, <1>2, <2>1, ProposeAtLeaderVotes, ProposeAtLeaderLogs, ProposeForwardedVotes,
          ProposeForwardedLogs, ProposeAtLeaderTallies, ProposeForwardedTallies
<1>3. ASSUME NEW s \in Server, NEW from \in Others(s),
             \/ HandleRequestVote(s, from) \/ HandleVoteResponse(s, from)
             \/ HandleAppendEntries(s, from) \/ HandleAppendResponse(s, from)
             \/ HandlePropose(s, from)
      PROVE  VoteStepOf(s) /\ LogStepOf(s) /\ TallyStepOf(s)
  <2>0. from \in Server \ {s} /\ Said(from, s) BY DEF Others, ElectionInv
  <2>1. CASE HandleRequestVote(s, from)
    <3>1. Sent(from, s) # None /\ Sent(from, s).type = "RequestVote"
      BY <2>1 DEF HandleRequestVote, Hears, Sent
    <3>2. Sent(from, s).term \in Nat BY <2>0, <3>1 DEF Said
    <3> QED BY <1>0, <2>1, <3>2, HandleRequestVoteVotes, HandleRequestVoteLogs,
            HandleRequestVoteTallies
  <2>2. CASE HandleVoteResponse(s, from)
    BY <1>0, <2>2, HandleVoteResponseVotes, HandleVoteResponseLogs, HandleVoteResponseTallies
  <2>3. CASE HandleAppendEntries(s, from)
    <3>1. Sent(from, s) # None /\ Sent(from, s).type = "AppendEntries"
      BY <2>3 DEF HandleAppendEntries, Hears, Sent
    <3>2. Sent(from, s).term \in Nat BY <2>0, <3>1 DEF Said
    <3>3. TallyStepOf(s) BY <1>0, <2>3, <3>2, HandleAppendEntriesTallies
    <3> QED BY <1>0, <2>3, <3>2, <3>3, HandleAppendEntriesVotes, HandleAppendEntriesLogs
  <2>4. CASE HandleAppendResponse(s, from)
    <3>1. Sent(from, s) # None /\ Sent(from, s).type = "AppendEntriesResponse"
      BY <2>4 DEF HandleAppendResponse, Hears, Sent
    <3>2. Sent(from, s).term \in Nat BY <2>0, <3>1 DEF Said
    <3>3. TallyStepOf(s) BY <1>0, <2>4, <3>2, HandleAppendResponseTallies
    <3> QED BY <1>0, <2>4, <3>3, HandleAppendResponseVotes, HandleAppendResponseLogs
  <2>5. CASE HandlePropose(s, from)
    BY <1>0, <2>5, HandleProposeVotes, HandleProposeLogs, HandleProposeTallies
  <2> QED BY <1>3, <2>1, <2>2, <2>3, <2>4, <2>5
<1> QED BY <1>1, <1>2, <1>3 DEF Next

CommitInv == LogInv /\ (excused = {} => ReplicationFacts)

LEMMA StutterReplicates ==
    ASSUME ReplicationFacts, UNCHANGED vars PROVE ReplicationFacts'
<1>1. UNCHANGED <<state, term, log, applied, match, votes, net, waiting, elected, confirmed>>
  BY DEF vars, server
<1>2. /\ \A l : Source(l)' <=> Source(l)
      /\ \A a, b \in Server : Sent(a, b)' = Sent(a, b) /\ (Carries(a, b)' <=> Carries(a, b))
      /\ \A v, c \in Server : \A t : Grants(v, c, t)' <=> Grants(v, c, t)
      /\ \A q, p \in Server : \A t : Acks(q, p, t)' <=> Acks(q, p, t)
      /\ \A p \in Server : \A l : Has(p, l)' <=> Has(p, l)
  BY <1>1 DEF Source, Carries, Sent, Grants, GrantOnItsWay, GrantCounted, Acks, Has
<1>3. TallyType' BY <1>1, <1>2 DEF ReplicationFacts, TallyType
<1>4. TermsRise' /\ TermsReached' BY <1>1, <1>2 DEF ReplicationFacts, TermsRise, TermsReached
<1>5. Chained' BY <1>2 DEF ReplicationFacts, Chained
<1>6. RequestsTell' BY <1>1, <1>2 DEF ReplicationFacts, RequestsTell
<1>7. GrantsFollow' BY <1>1, <1>2 DEF ReplicationFacts, GrantsFollow
<1>8. HeartbeatsGrow' BY <1>1, <1>2 DEF ReplicationFacts, HeartbeatsGrow
<1>9. AcksBounded' BY <1>1, <1>2 DEF ReplicationFacts, AcksBounded
<1>10. ASSUME NEW l PROVE Safe(l)' <=> Safe(l) BY <1>1, <1>2 DEF Safe
<1>11. AckedIsSafe'
  <2>1. ASSUME NEW p \in Server, NEW q \in Server, NEW l PROVE Acked(p, q, l)' <=> Acked(p, q, l)
    BY <1>1, <1>2 DEF Acked
  <2> QED BY <1>10, <2>1 DEF ReplicationFacts, AckedIsSafe
<1>12. AppliedIsSafe' BY <1>1, <1>2, <1>10 DEF ReplicationFacts, AppliedIsSafe
<1>13. ProposalsKept' BY <1>1 DEF ReplicationFacts, ProposalsKept
<1> QED BY <1>3, <1>4, <1>5, <1>6, <1>7, <1>8, <1>9, <1>11, <1>12, <1>13 DEF ReplicationFacts

LEMMA CommitStep ==
    ASSUME AtMostThree, CommitInv, [Next]_vars PROVE CommitInv'
<1>1. LogInv /\ LogInv' BY LogStepKeeps DEF CommitInv
<1>2. ASSUME excused' = {} PROVE ReplicationFacts'
  <2>1. excused = {} BY <1>2, ExcusesStay
  <2>2. ReplicationFacts /\ ElectionInv /\ ElectionInv' /\ LogFacts /\ LogFacts'
    BY <1>1, <1>2, <2>1 DEF CommitInv, LogInv
  <2>3. CASE UNCHANGED vars BY <2>2, <2>3, StutterReplicates
  <2>4. CASE Next
    <3>1. PICK s \in Server : VoteStepOf(s) /\ LogStepOf(s) /\ TallyStepOf(s)
      BY <1>2, <2>2, <2>4, StepsReplicate DEF ReplicationFacts
    <3>2. ReplStep(s) BY <2>2, <3>1 DEF ReplStep, LogStep
    <3> QED BY <3>2, ReplicationKept
  <2> QED BY <2>3, <2>4
<1> QED BY <1>1, <1>2 DEF CommitInv

LEMMA CommitInit ==
    ASSUME Init PROVE ReplicationFacts
<1>1. \A a, b \in Server : a # b => Sent(a, b) = None
  <2> SUFFICES ASSUME NEW a \in Server, NEW b \in Server, a # b PROVE net[<<a, b>>] = None
    BY DEF Sent
  <2>1. <<a, b>> \in Links BY DEF Links
  <2>2. net = [l \in Links |-> None] BY DEF Init, Links
  <2> QED BY <2>1, <2>2
<1>2. \A s \in Server : /\ log[s] = <<>> /\ state[s] = "FOLLOWER" /\ applied[s] = <<>>
                        /\ votes[s] = {}
  BY DEF Init
<1>3. elected = {} /\ waiting = {} /\ confirmed = {} BY DEF Init
<1>4. \A l : Source(l) => l = <<>> BY <1>1, <1>2 DEF Source, Carries
<1>5. \A a, b \in Server : a # b => ~Carries(a, b) BY <1>1 DEF Carries
<1>6. \A a, b \in Server : \A t : a # b => ~Grants(a, b, t) /\ ~Acks(a, b, t)
  BY <1>1, <1>2 DEF Grants, GrantOnItsWay, GrantCounted, Acks
<1>7. TallyType
  <2>1. match \in [Server -> [Server -> Nat]] /\ \A p \in Server : match[p][p] = 0 BY DEF Init
  <2>2. applied \in [Server -> Seq(Entry)] BY DEF Init
  <2> QED BY <1>1, <2>1, <2>2 DEF TallyType
<1>8. TermsRise /\ TermsReached /\ Chained
  BY <1>2, <1>4, <1>5 DEF TermsRise, TermsReached, Chained
<1>9. RequestsTell /\ GrantsFollow /\ HeartbeatsGrow
  BY <1>1, <1>3, <1>5, <1>6 DEF RequestsTell, GrantsFollow, HeartbeatsGrow
<1>10. AcksBounded BY <1>2, <1>6 DEF AcksBounded
<1>11. AckedIsSafe BY <1>2 DEF AckedIsSafe, Acked
<1>12. AppliedIsSafe BY <1>2, <1>5 DEF AppliedIsSafe
<1>13. ProposalsKept BY <1>3 DEF ProposalsKept
<1> QED BY <1>7, <1>8, <1>9, <1>10, <1>11, <1>12, <1>13 DEF ReplicationFacts

LEMMA CommitInvariant ==
    ASSUME AtMostThree PROVE Spec => []CommitInv
<1>1. Init => CommitInv BY ElectionInit, LogInit, CommitInit DEF CommitInv, LogInv
<1>2. CommitInv /\ [Next]_vars => CommitInv' BY CommitStep
<1> QED BY <1>1, <1>2, PTL DEF Spec

LEMMA RegistriesAgree ==
    ASSUME AtMostThree, CommitInv, excused = {}, NEW a \in Server, NEW b \in Server,
           NEW i \in 1..Len(applied[a]), i <= Len(applied[b])
    PROVE  applied[a][i] = applied[b][i]
<1>0. LogFacts /\ TallyType /\ AppliedIsSafe BY DEF CommitInv, LogInv, ReplicationFacts
<1>1. applied[a] \in Seq(Entry) /\ applied[b] \in Seq(Entry) BY <1>0 DEF TallyType
<1>2. Len(applied[a]) \in Nat /\ Len(applied[b]) \in Nat BY <1>1
<1>3. i \in 1..Len(applied[b]) BY <1>2
<1>4. applied[a] # <<>> /\ applied[b] # <<>> BY <1>2, <1>3
<1>5. Safe(applied[a]) /\ Safe(applied[b]) BY <1>0, <1>4 DEF AppliedIsSafe
<1>6. CASE Len(applied[a]) <= Len(applied[b])
  <2>1. Begins(applied[a], applied[b]) BY <1>0, <1>5, <1>6, SafeAgree
  <2> QED BY <2>1 DEF Begins
<1>7. CASE Len(applied[b]) <= Len(applied[a])
  <2>1. Begins(applied[b], applied[a]) BY <1>0, <1>5, <1>7, SafeAgree
  <2> QED BY <1>3, <2>1 DEF Begins
<1> QED BY <1>2, <1>6, <1>7

\* As long as no server made itself the leader and no leader counted replicas of an
\* earlier term's entry (_handle_append_entries_response), no two of up to three
\* registries apply different changes at one index.
THEOREM AppliedLogsAgree ==
    ASSUME AtMostThree PROVE Spec => []AppliedAgree
<1>1. CommitInv => AppliedAgree BY RegistriesAgree DEF AppliedAgree
<1>2. Spec => []CommitInv BY CommitInvariant
<1> QED BY <1>1, <1>2, PTL

\* Under the same two provisos, a propose() that returned while its server had
\* stayed the leader is the entry every registry applies at its index, whatever
\* leaders come later.
THEOREM ConfirmedStays ==
    ASSUME AtMostThree PROVE Spec => []ConfirmedSurvives
<1>1. CommitInv => ConfirmedSurvives
  <2> SUFFICES ASSUME CommitInv, excused = {}, NEW c \in confirmed, NEW s \in Server,
                      c.index <= Len(applied[s])
               PROVE  applied[s][c.index] = c.entry
    BY DEF ConfirmedSurvives
  <2>1. /\ c.by \in Server /\ c.index \in 1..Len(applied[c.by])
        /\ applied[c.by][c.index] = c.entry
    BY DEF CommitInv, ReplicationFacts, ProposalsKept
  <2>2. applied[c.by][c.index] = applied[s][c.index] BY <2>1, RegistriesAgree
  <2> QED BY <2>1, <2>2
<1>2. Spec => []CommitInv BY CommitInvariant
<1> QED BY <1>1, <1>2, PTL
=============================================================================
