--------------------------- MODULE SchedulerFleet ---------------------------
(***************************************************************************)
(* The Scheduler's fleet state: the NodeRegistry and its SQLite            *)
(* write-through, the ZenohRouter that verifies mesh envelopes and ages    *)
(* silent nodes out, the InviteRegistry that admits nodes, and the         *)
(* mint_invite script, which edits the same database from a process of its *)
(* own.                                                                    *)
(*                                                                         *)
(* The store calls never yield to the event loop, so a request handler, a  *)
(* mesh callback or a sweep runs to its end before the next one starts:    *)
(* each is one action.  Every store call is a commit of its own, so a      *)
(* crash can still fall between two commits of one handler; those cuts are *)
(* the actions RegisterCrash*.                                             *)
(*                                                                         *)
(* Time is counted in sweep intervals (30 s, also the node's heartbeat     *)
(* interval).  An age is capped at StaleAfter: no guard tells larger ages  *)
(* apart.                                                                  *)
(***************************************************************************)
EXTENDS Integers

CONSTANTS
    Node,         \* node ids
    Cred,         \* credentials a node may present
    Record,       \* Node payloads (they differ in available_models)
    Code,         \* invite codes
    UseLimits,    \* the max_uses an operator may type
    StaleAfter,   \* node_stale_after_seconds, in sweep intervals
    MaxCrashes,   \* bound on stops of the Scheduler process
    Mortal,       \* hosts that may die for good
    SchemaDrift,  \* TRUE: stored node rows may fail to validate at a boot
    Absent, NoCred, NoCode, NoInvite, NoScript

ASSUME FleetAssumption ==
    /\ StaleAfter \in Nat \ {0}
    /\ MaxCrashes \in Nat
    /\ Mortal \subseteq Node
    /\ UseLimits \subseteq Nat \ {0}
    /\ SchemaDrift \in BOOLEAN
    /\ Absent \notin Record
    /\ NoCred \notin Cred
    /\ NoCode \notin Code
    /\ NoInvite \notin [max: UseLimits, uses: Nat, revoked: BOOLEAN]
    /\ NoScript \notin [code: Code, invite: [max: UseLimits, uses: Nat, revoked: BOOLEAN]]

VARIABLES
    up,            \* the Scheduler process is serving
    session,       \* its Zenoh session opened at start
    sweepDue,      \* the sweep's sleep has elapsed
    nodes,         \* _nodes
    tokens,        \* _node_tokens
    heartbeats,    \* keys of _heartbeats
    telemetry,     \* keys of _telemetry
    mesh,          \* _mesh_nodes
    lastVerified,  \* age of _last_verified_heartbeat[n], or NoReading
    invites,       \* InviteRegistry._invites
    dNodes,        \* table nodes
    dTokens,       \* table node_tokens
    dInvites,      \* table invites
    script,        \* the invite a mint_invite --revoke has loaded
    crashes        \* stops so far

\* History, read by properties only.
VARIABLES
    dead,       \* hosts that will never send anything again
    presented,  \* credential of the latest admitted register request
    quiet,      \* intervals since registration, boot or verified heartbeat
    proven,     \* nodes heard verifiably since registration and boot
    admits,     \* nodes each code has admitted
    lost        \* admissions whose use a crash kept from being recorded

memory == <<nodes, tokens, heartbeats, telemetry, mesh, lastVerified, invites>>
durable == <<dNodes, dTokens, dInvites>>
process == <<up, session, sweepDue, crashes>>
history == <<dead, presented, quiet, proven, admits, lost>>
vars == <<memory, durable, process, script, history>>

NoReading == -1

Invite == [max: UseLimits, uses: Nat, revoked: BOOLEAN]
Snapshot == [code: Code, invite: Invite]

Registered == {n \in Node : nodes[n] # Absent}

-----------------------------------------------------------------------------
(***************************************************************************)
(* InviteCode and InviteRegistry                                           *)
(***************************************************************************)

\* InviteCode.usable
UsableOffByOne(i) == ~i.revoked /\ i.uses <= i.max
Usable(i) == ~i.revoked /\ i.uses < i.max

\* InviteRegistry.enforcing: any code ever loaded, spent and revoked included
EnforcingWhileUsable == \E c \in Code : invites[c] # NoInvite /\ Usable(invites[c])
Enforcing == \E c \in Code : invites[c] # NoInvite

\* InviteRegistry.verify
Verify(c) == c \in Code /\ invites[c] # NoInvite /\ Usable(invites[c])

\* The admission check at the head of register_node
Admitted(c) == Enforcing => Verify(c)

\* InviteRegistry.redeem on a code that verifies
Redeemed(i) == [i EXCEPT !.uses = @ + 1]

-----------------------------------------------------------------------------
(***************************************************************************)
(* Helpers for the registry and the router                                 *)
(***************************************************************************)

\* set_node_token: a request without a credential also clears reachability
MeshAfterTokenKeepsFlag(n, k) == mesh
MeshAfterToken(n, k) == IF k = NoCred THEN mesh \ {n} ELSE mesh

\* set_node_token on the 409 path
ConflictTokenIgnored(n, k) == tokens[n]
ConflictToken(n, k) == k

\* _evict_if_stale: no verified heartbeat on record counts as stale
StaleTooEarly(n) == lastVerified[n] = NoReading \/ lastVerified[n] >= StaleAfter - 1
StaleNeverWithoutReading(n) == lastVerified[n] >= StaleAfter
Stale(n) == lastVerified[n] = NoReading \/ lastVerified[n] >= StaleAfter

\* delete_node: the node's row and its credential's row, in one commit
DeletedTokensKeepCredential(gone) == dTokens
DeletedTokens(gone) == [n \in Node |-> IF n \in gone THEN NoCred ELSE dTokens[n]]

\* An envelope opens iff the node is registered and sealed it with the stored token
Opens(n, k) == nodes[n] # Absent /\ tokens[n] # NoCred /\ tokens[n] = k

\* A monotonic reading grows older; past StaleAfter the guards see no difference
OlderUncapped(age) == IF age = NoReading THEN age ELSE age + 1
Older(age) == IF age = NoReading \/ age >= StaleAfter THEN age ELSE age + 1

\* Every table of the registry forgets the nodes in gone, memory and store
Forget(gone) ==
    /\ nodes' = [n \in Node |-> IF n \in gone THEN Absent ELSE nodes[n]]
    /\ tokens' = [n \in Node |-> IF n \in gone THEN NoCred ELSE tokens[n]]
    /\ heartbeats' = heartbeats \ gone
    /\ telemetry' = telemetry \ gone
    /\ mesh' = mesh \ gone
    /\ dNodes' = [n \in Node |-> IF n \in gone THEN Absent ELSE dNodes[n]]
    /\ dTokens' = DeletedTokens(gone)

-----------------------------------------------------------------------------
Init ==
    /\ up = FALSE /\ session = FALSE /\ sweepDue = FALSE /\ crashes = 0
    /\ nodes = [n \in Node |-> Absent]
    /\ tokens = [n \in Node |-> NoCred]
    /\ heartbeats = {} /\ telemetry = {} /\ mesh = {}
    /\ lastVerified = [n \in Node |-> NoReading]
    /\ invites = [c \in Code |-> NoInvite]
    /\ dNodes = [n \in Node |-> Absent]
    /\ dTokens = [n \in Node |-> NoCred]
    /\ dInvites = [c \in Code |-> NoInvite]
    /\ script = NoScript
    /\ dead = {}
    /\ presented = [n \in Node |-> NoCred]
    /\ quiet = [n \in Node |-> 0]
    /\ proven = {}
    /\ admits = [c \in Code |-> 0]
    /\ lost = [c \in Code |-> 0]

-----------------------------------------------------------------------------
(***************************************************************************)
(* Process lifecycle: main.lifespan                                        *)
(***************************************************************************)

\* load(): nodes and credentials come back, observations do not.  A row that
\* no longer validates is skipped, its credential is loaded all the same.
Boot(opened, unreadable) ==
    /\ ~up
    /\ up' = TRUE
    /\ session' = opened
    /\ sweepDue' = FALSE
    /\ nodes' = [n \in Node |-> IF n \in unreadable THEN Absent ELSE dNodes[n]]
    /\ tokens' = dTokens
    /\ invites' = dInvites
    /\ quiet' = [n \in Node |-> 0]
    /\ UNCHANGED <<heartbeats, telemetry, mesh, lastVerified, durable, script,
                   crashes, dead, presented, proven, admits, lost>>

\* Everything in memory goes with the process.
LoseMemory ==
    /\ crashes < MaxCrashes
    /\ crashes' = crashes + 1
    /\ up' = FALSE /\ session' = FALSE /\ sweepDue' = FALSE
    /\ nodes' = [n \in Node |-> Absent]
    /\ tokens' = [n \in Node |-> NoCred]
    /\ heartbeats' = {} /\ telemetry' = {} /\ mesh' = {}
    /\ lastVerified' = [n \in Node |-> NoReading]
    /\ invites' = [c \in Code |-> NoInvite]
    /\ proven' = {}

\* A shutdown, a redeploy or a crash between two handlers
Stop ==
    /\ up
    /\ LoseMemory
    /\ UNCHANGED <<durable, script, dead, presented, quiet, admits, lost>>

-----------------------------------------------------------------------------
(***************************************************************************)
(* POST /nodes/register.  A refused request (403) changes nothing.         *)
(***************************************************************************)

Redeems(c) == Enforcing /\ c # NoCode

\* 201: token, record and invite use are committed in this order
RegisterNew(n, r, k, c) ==
    /\ up /\ n \notin dead
    /\ Admitted(c)
    /\ nodes[n] = Absent
    /\ tokens' = [tokens EXCEPT ![n] = k]
    /\ dTokens' = [dTokens EXCEPT ![n] = k]
    /\ mesh' = MeshAfterToken(n, k)
    /\ nodes' = [nodes EXCEPT ![n] = r]
    /\ dNodes' = [dNodes EXCEPT ![n] = r]
    /\ IF Redeems(c)
       THEN /\ invites' = [invites EXCEPT ![c] = Redeemed(@)]
            /\ dInvites' = [dInvites EXCEPT ![c] = Redeemed(invites[c])]
            /\ admits' = [admits EXCEPT ![c] = @ + 1]
       ELSE UNCHANGED <<invites, dInvites, admits>>
    /\ presented' = [presented EXCEPT ![n] = k]
    /\ quiet' = [quiet EXCEPT ![n] = 0]
    /\ UNCHANGED <<heartbeats, telemetry, lastVerified, process, script, dead,
                   proven, lost>>

\* 409: the credential is refreshed before the conflict is noticed, and no
\* invite use is burned
RegisterConflict(n, k, c) ==
    /\ up /\ n \notin dead
    /\ Admitted(c)
    /\ nodes[n] # Absent
    /\ tokens' = [tokens EXCEPT ![n] = ConflictToken(n, k)]
    /\ dTokens' = [dTokens EXCEPT ![n] = ConflictToken(n, k)]
    /\ mesh' = MeshAfterToken(n, k)
    /\ presented' = [presented EXCEPT ![n] = k]
    /\ UNCHANGED <<nodes, heartbeats, telemetry, lastVerified, invites, dNodes,
                   dInvites, process, script, dead, quiet, proven, admits, lost>>

\* The process dies after the credential's commit, before the record's
RegisterCrashAfterToken(n, k, c) ==
    /\ up /\ n \notin dead
    /\ Admitted(c)
    /\ nodes[n] = Absent
    /\ LoseMemory
    /\ dTokens' = [dTokens EXCEPT ![n] = k]
    /\ presented' = [presented EXCEPT ![n] = k]
    /\ UNCHANGED <<dNodes, dInvites, script, dead, quiet, admits, lost>>

\* The process dies after the record's commit, before the invite's
RegisterCrashAfterNode(n, r, k, c) ==
    /\ up /\ n \notin dead
    /\ Admitted(c) /\ Redeems(c)
    /\ nodes[n] = Absent
    /\ LoseMemory
    /\ dTokens' = [dTokens EXCEPT ![n] = k]
    /\ dNodes' = [dNodes EXCEPT ![n] = r]
    /\ presented' = [presented EXCEPT ![n] = k]
    /\ admits' = [admits EXCEPT ![c] = @ + 1]
    /\ lost' = [lost EXCEPT ![c] = @ + 1]
    /\ UNCHANGED <<dInvites, script, dead, quiet>>

-----------------------------------------------------------------------------
(***************************************************************************)
(* The other handlers of the HTTP surface                                  *)
(***************************************************************************)

\* DELETE /nodes/{id}; the router's clock is not told
Unregister(n) ==
    /\ up
    /\ nodes[n] # Absent
    /\ Forget({n})
    /\ proven' = proven \ {n}
    /\ UNCHANGED <<lastVerified, invites, dInvites, process, script, dead,
                   presented, quiet, admits, lost>>

\* PUT /nodes/{id}/models
SetAvailableModels(n, r) ==
    /\ up
    /\ nodes[n] # Absent
    /\ nodes' = [nodes EXCEPT ![n] = r]
    /\ dNodes' = [dNodes EXCEPT ![n] = r]
    /\ UNCHANGED <<tokens, heartbeats, telemetry, mesh, lastVerified, invites,
                   dTokens, dInvites, process, script, history>>

\* POST /heartbeat: neither reachability nor the sweep's clock moves
ReceiveHeartbeat(n) ==
    /\ up /\ n \notin dead
    /\ nodes[n] # Absent
    /\ heartbeats' = heartbeats \cup {n}
    /\ UNCHANGED <<nodes, tokens, telemetry, mesh, lastVerified, invites,
                   durable, process, script, history>>

\* schedule_task bumps the chosen node's tracked queue depth
ScheduleTask(n) ==
    /\ up
    /\ nodes[n] # Absent
    /\ telemetry' = telemetry \cup {n}
    /\ UNCHANGED <<nodes, tokens, heartbeats, mesh, lastVerified, invites,
                   durable, process, script, history>>

-----------------------------------------------------------------------------
(***************************************************************************)
(* ZenohRouter.  Its callbacks exist only while the session is open.       *)
(***************************************************************************)

\* _process_heartbeat on an envelope sealed with k
ProcessHeartbeat(n, k) ==
    /\ up /\ session /\ n \notin dead
    /\ Opens(n, k)
    /\ heartbeats' = heartbeats \cup {n}
    /\ mesh' = mesh \cup {n}
    /\ lastVerified' = [lastVerified EXCEPT ![n] = 0]
    /\ quiet' = [quiet EXCEPT ![n] = 0]
    /\ proven' = proven \cup {n}
    /\ UNCHANGED <<nodes, tokens, telemetry, invites, durable, process, script,
                   dead, presented, admits, lost>>

\* _process_telemetry on a fresh envelope sealed with k: reachability, no clock
ProcessTelemetry(n, k) ==
    /\ up /\ session /\ n \notin dead
    /\ Opens(n, k)
    /\ telemetry' = telemetry \cup {n}
    /\ mesh' = mesh \cup {n}
    /\ UNCHANGED <<nodes, tokens, heartbeats, lastVerified, invites, durable,
                   process, script, history>>

\* _evict_if_stale for each node in suspects
EvictIfStale(suspects) ==
    LET gone == {n \in suspects : nodes[n] # Absent /\ Stale(n)}
    IN  /\ Forget(gone)
        /\ lastVerified' = [n \in Node |-> IF n \in gone THEN NoReading
                                                         ELSE lastVerified[n]]
        /\ proven' = proven \ gone
        /\ UNCHANGED <<invites, dInvites, script, dead, presented, quiet,
                       admits, lost>>

\* A dropped liveliness token, which carries no proof of who dropped it
ProcessDeathrattle(n) ==
    /\ up /\ session
    /\ EvictIfStale({n})
    /\ UNCHANGED process

\* One round of _stale_sweep_loop
Sweep ==
    /\ up /\ session /\ sweepDue
    /\ sweepDue' = FALSE
    /\ EvictIfStale(Node)
    /\ UNCHANGED <<up, session, crashes>>

\* One interval passes.  The sweep of the previous one has run: its task only
\* sleeps between rounds.
Tick ==
    /\ up /\ ~sweepDue
    /\ sweepDue' = session
    /\ lastVerified' = [n \in Node |-> Older(lastVerified[n])]
    /\ quiet' = [n \in Node |-> Older(quiet[n])]
    /\ UNCHANGED <<nodes, tokens, heartbeats, telemetry, mesh, invites, durable,
                   up, session, crashes, script, dead, presented, proven, admits,
                   lost>>

-----------------------------------------------------------------------------
(***************************************************************************)
(* scripts/mint_invite.py: loads the table, changes one invite, saves that *)
(* invite.  It never talks to the running Scheduler.                       *)
(***************************************************************************)

MintIssue(c, m) ==
    /\ dInvites[c] = NoInvite
    /\ dInvites' = [dInvites EXCEPT ![c] = [max |-> m, uses |-> 0, revoked |-> FALSE]]
    /\ UNCHANGED <<memory, dNodes, dTokens, process, script, history>>

MintRevokeLoad(c) ==
    /\ script = NoScript
    /\ dInvites[c] # NoInvite
    /\ ~dInvites[c].revoked
    /\ script' = [code |-> c, invite |-> dInvites[c]]
    /\ UNCHANGED <<memory, durable, process, history>>

\* save_invite replaces the whole row with what the script loaded
RevokedCopyStillUsable(s) == s.invite
RevokedCopy(s) == [s.invite EXCEPT !.revoked = TRUE]

MintRevokeSave ==
    /\ script # NoScript
    /\ dInvites' = [dInvites EXCEPT ![script.code] = RevokedCopy(script)]
    /\ script' = NoScript
    /\ UNCHANGED <<memory, dNodes, dTokens, process, history>>

-----------------------------------------------------------------------------
\* The host's machine is gone for good: it sends nothing from now on.
HostDies(n) ==
    /\ n \notin dead
    /\ dead' = dead \cup {n}
    /\ UNCHANGED <<memory, durable, process, script, presented, quiet, proven,
                   admits, lost>>

Credentials == Cred \cup {NoCred}
PresentedCodes == Code \cup {NoCode}

Unreadable == IF SchemaDrift THEN SUBSET {n \in Node : dNodes[n] # Absent}
                             ELSE {{}}

BootSome == \E opened \in BOOLEAN, unreadable \in Unreadable : Boot(opened, unreadable)

HttpStep ==
    \E n \in Node :
        \/ \E k \in Credentials, c \in PresentedCodes :
              \/ RegisterConflict(n, k, c)
              \/ RegisterCrashAfterToken(n, k, c)
              \/ \E r \in Record : \/ RegisterNew(n, r, k, c)
                                   \/ RegisterCrashAfterNode(n, r, k, c)
        \/ Unregister(n)
        \/ \E r \in Record : SetAvailableModels(n, r)
        \/ ReceiveHeartbeat(n)
        \/ ScheduleTask(n)

MeshStep ==
    \E n \in Node :
        \/ \E k \in Cred : ProcessHeartbeat(n, k) \/ ProcessTelemetry(n, k)
        \/ ProcessDeathrattle(n)

ScriptStep ==
    \/ \E c \in Code : MintRevokeLoad(c) \/ \E m \in UseLimits : MintIssue(c, m)
    \/ MintRevokeSave

Next ==
    \/ BootSome
    \/ Stop
    \/ HttpStep
    \/ MeshStep
    \/ Sweep
    \/ Tick
    \/ ScriptStep
    \/ \E n \in Mortal : HostDies(n)

\* The supervisor restarts the service, the clock advances and the sweep task
\* wakes.  Nothing obliges a client, a node or an operator to act.
Fairness == WF_vars(BootSome) /\ WF_vars(Tick) /\ WF_vars(Sweep)

Spec == Init /\ [][Next]_vars
FairSpec == Spec /\ Fairness

-----------------------------------------------------------------------------
(***************************************************************************)
(* Properties                                                              *)
(***************************************************************************)

TypeProcess ==
    /\ up \in BOOLEAN /\ session \in BOOLEAN /\ sweepDue \in BOOLEAN
    /\ crashes \in Nat

TypeMemory ==
    /\ nodes \in [Node -> Record \cup {Absent}]
    /\ tokens \in [Node -> Credentials]
    /\ heartbeats \subseteq Node /\ telemetry \subseteq Node /\ mesh \subseteq Node
    /\ lastVerified \in [Node -> NoReading..StaleAfter]
    /\ invites \in [Code -> Invite \cup {NoInvite}]

TypeDurable ==
    /\ dNodes \in [Node -> Record \cup {Absent}]
    /\ dTokens \in [Node -> Credentials]
    /\ dInvites \in [Code -> Invite \cup {NoInvite}]
    /\ script \in Snapshot \cup {NoScript}

TypeHistory ==
    /\ dead \subseteq Node /\ proven \subseteq Node
    /\ presented \in [Node -> Credentials]
    /\ quiet \in [Node -> 0..StaleAfter]
    /\ admits \in [Code -> Nat] /\ lost \in [Code -> Nat]

\* Every variable holds a value of its type; no age passes StaleAfter, so the
\* sweep's clock is a reading of this process or none.
TypeOK == TypeProcess /\ TypeMemory /\ TypeDurable /\ TypeHistory

\* Write-through: while the Scheduler serves, every record in memory is the one
\* a restart would load, every credential too, and a stored record is missing
\* from memory only if its row could not be read at this boot.
WriteThrough ==
    up => /\ \A n \in Node : nodes[n] # Absent => nodes[n] = dNodes[n]
          /\ tokens = dTokens
          /\ ~SchemaDrift => nodes = dNodes

\* Nothing observed about a node outlives its membership, and whoever dispatch
\* would reach over the mesh has a stored credential to sign the request with.
ObservationsBelongToMembers ==
    /\ heartbeats \cup telemetry \cup mesh \cup proven \subseteq Registered
    /\ \A n \in mesh : tokens[n] # NoCred

\* The credential kept for a registered node, in memory and in the store, is the
\* one its latest admitted register call presented: a 409 refreshes it, and a
\* restart or a crash inside the handler never brings an older one back.
CredentialIsLatest ==
    \A n \in Node :
        /\ nodes[n] # Absent => tokens[n] = presented[n]
        /\ dNodes[n] # Absent => dTokens[n] = presented[n]

\* Liveliness tokens and sweeps never evict a node that was heard verifiably
\* since it registered and since the boot, within the last StaleAfter intervals.
ProvenNodeKept ==
    [][\A n \in proven :
          quiet[n] < StaleAfter /\ nodes[n] # Absent /\ up'
              => nodes'[n] # Absent \/ Unregister(n)]_vars

\* A host that is gone for good leaves the registry, unless the mesh session
\* never opened: then nothing ages nodes out.
DeadHostsAgeOut ==
    \A n \in Node : (n \in dead) ~> (nodes[n] = Absent \/ ~session)

\* A code admits at most max_uses nodes, plus one for each crash between the
\* commit of a node's record and the commit of the use.
AdmissionsBounded ==
    \A c \in Code : dInvites[c] # NoInvite => admits[c] <= dInvites[c].max + lost[c]

\* Unless revoked, a stored invite accounts for every admission whose redeem ran:
\* no restart and no concurrent mint_invite makes a spent code usable again.
UsesAccountForAdmissions ==
    \A c \in Code : dInvites[c] # NoInvite /\ ~dInvites[c].revoked
                        => dInvites[c].uses + lost[c] = admits[c]

\* Once the Scheduler has loaded any invite, no node enters the registry without
\* a code's use being counted, however many codes are spent or revoked.
EveryAdmissionCounted ==
    [][\A n \in Node :
          (\E c \in Code : invites[c] # NoInvite) /\ nodes[n] = Absent /\ nodes'[n] # Absent
              => \E c \in Code : admits'[c] = admits[c] + 1]_vars

(***************************************************************************)
(* What comments and docs say and the code does not do                     *)
(***************************************************************************)

\* core/config.py: a node is evicted after "three missed heartbeats", so never
\* before StaleAfter intervals have passed since it registered, since the
\* Scheduler booted and since it was last heard.
EvictedOnlyAfterSilence ==
    [][\A n \in Node :
          nodes[n] # Absent /\ nodes'[n] = Absent /\ up'
              => quiet[n] >= StaleAfter \/ Unregister(n)]_vars
=============================================================================
