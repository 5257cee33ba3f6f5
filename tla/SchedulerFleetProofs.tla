------------------------ MODULE SchedulerFleetProofs ------------------------
(***************************************************************************)
(* Proofs about SchedulerFleet, for every set of nodes, credentials,       *)
(* records and codes, every StaleAfter and every number of crashes.        *)
(***************************************************************************)
EXTENDS SchedulerFleet, TLAPS

\* A stopped Scheduler has nothing in memory: the next boot starts from the store.
EmptyWhenDown ==
    ~up => /\ nodes = [n \in Node |-> Absent]
           /\ tokens = [n \in Node |-> NoCred]
           /\ heartbeats = {} /\ telemetry = {} /\ mesh = {} /\ proven = {}
           /\ invites = [c \in Code |-> NoInvite]

\* The inductive invariant of the registry
FleetInv ==
    /\ TypeOK
    /\ EmptyWhenDown
    /\ WriteThrough
    /\ ObservationsBelongToMembers
    /\ CredentialIsLatest

\* A copy of an invite, wherever it is held, agrees with the stored one on its
\* limit and never shows more uses than the limit.
CopyOf(i, d) == d # NoInvite /\ i.max = d.max /\ i.uses <= i.max

\* The inductive invariant of invite admission: the Scheduler's own copy of an
\* unrevoked invite accounts for every admission, because only the Scheduler
\* counts uses; mint_invite can only put back a stale count together with a
\* revocation.
InviteInv ==
    /\ TypeOK
    /\ EmptyWhenDown
    /\ UsesAccountForAdmissions
    /\ AdmissionsBounded
    /\ \A c \in Code :
          /\ dInvites[c] = NoInvite => admits[c] = 0 /\ lost[c] = 0
          /\ dInvites[c] # NoInvite => dInvites[c].uses <= dInvites[c].max
          /\ invites[c] # NoInvite => CopyOf(invites[c], dInvites[c])
          /\ invites[c] # NoInvite /\ ~invites[c].revoked
                => invites[c].uses + lost[c] = admits[c]
    /\ script # NoScript => CopyOf(script.invite, dInvites[script.code])

\* Losing the memory leaves well-typed, empty tables.
LEMMA LoseMemoryTypes == ASSUME TypeOK, LoseMemory PROVE TypeProcess' /\ TypeMemory'
<1>1. crashes' \in Nat
  BY FleetAssumption DEF LoseMemory, TypeOK, TypeProcess
<1>2. TypeProcess'
  BY <1>1 DEF LoseMemory, TypeProcess
<1>3. TypeMemory'
  BY FleetAssumption DEF LoseMemory, TypeMemory, NoReading, Credentials
<1> QED BY <1>2, <1>3

\* TypeOK is preserved by every step.
LEMMA TypeStep == TypeOK /\ [Next]_vars => TypeOK'
<1> SUFFICES ASSUME TypeOK, [Next]_vars PROVE TypeOK'
  OBVIOUS
<1> USE FleetAssumption DEF TypeOK, memory, durable, process, history
<1>1. ASSUME NEW opened \in BOOLEAN, NEW unreadable \in Unreadable,
             Boot(opened, unreadable)
      PROVE  TypeOK'
  <2>1. TypeProcess' /\ TypeMemory'
    BY <1>1 DEF TypeProcess, TypeMemory, TypeDurable, Credentials, Invite, NoReading, Boot, Unreadable
  <2>2. TypeDurable'
    BY <1>1 DEF TypeDurable, TypeMemory, Credentials, Invite, Boot, Unreadable
  <2>3. TypeHistory'
    BY <1>1 DEF TypeHistory, PresentedCodes, Credentials, Boot, Unreadable
  <2> QED BY <2>1, <2>2, <2>3
<1>2. ASSUME Stop
      PROVE  TypeOK'
  <2>1. TypeProcess' /\ TypeMemory'
    BY <1>2, LoseMemoryTypes DEF Stop
  <2>2. TypeDurable'
    BY <1>2 DEF TypeDurable, TypeMemory, Credentials, Invite, Stop
  <2>3. TypeHistory'
    BY <1>2 DEF TypeHistory, PresentedCodes, Credentials, Stop, LoseMemory
  <2> QED BY <2>1, <2>2, <2>3
<1>3. ASSUME NEW n \in Node, NEW r \in Record, NEW k \in Credentials,
             NEW c \in PresentedCodes, RegisterNew(n, r, k, c)
      PROVE  TypeOK'
  <2>1. TypeProcess' /\ TypeMemory'
    BY <1>3 DEF TypeProcess, TypeMemory, TypeDurable, Credentials, Invite, NoReading, RegisterNew, MeshAfterToken, Redeems, Admitted, Verify, Redeemed
  <2>2. TypeDurable'
    BY <1>3 DEF TypeDurable, TypeMemory, Credentials, Invite, RegisterNew, MeshAfterToken, Redeems, Admitted, Verify, Redeemed
  <2>3. TypeHistory'
    BY <1>3 DEF TypeHistory, PresentedCodes, Credentials, RegisterNew, MeshAfterToken, Redeems, Admitted, Verify, Redeemed
  <2> QED BY <2>1, <2>2, <2>3
<1>4. ASSUME NEW n \in Node, NEW k \in Credentials, NEW c \in PresentedCodes,
             RegisterConflict(n, k, c)
      PROVE  TypeOK'
  BY <1>4 DEF TypeProcess, TypeMemory, TypeDurable, TypeHistory, Invite, Snapshot,
     Credentials, PresentedCodes, NoReading, RegisterConflict, MeshAfterToken, ConflictToken
<1>5. ASSUME NEW n \in Node, NEW k \in Credentials, NEW c \in PresentedCodes,
             RegisterCrashAfterToken(n, k, c)
      PROVE  TypeOK'
  <2>1. TypeProcess' /\ TypeMemory'
    BY <1>5, LoseMemoryTypes DEF RegisterCrashAfterToken
  <2>2. TypeDurable'
    BY <1>5 DEF TypeDurable, TypeMemory, Credentials, Invite, RegisterCrashAfterToken
  <2>3. TypeHistory'
    BY <1>5 DEF TypeHistory, PresentedCodes, Credentials, RegisterCrashAfterToken, LoseMemory
  <2> QED BY <2>1, <2>2, <2>3
<1>6. ASSUME NEW n \in Node, NEW r \in Record, NEW k \in Credentials,
             NEW c \in PresentedCodes, RegisterCrashAfterNode(n, r, k, c)
      PROVE  TypeOK'
  <2>1. TypeProcess' /\ TypeMemory'
    BY <1>6, LoseMemoryTypes DEF RegisterCrashAfterNode
  <2>2. TypeDurable'
    BY <1>6 DEF TypeDurable, TypeMemory, Credentials, Invite, RegisterCrashAfterNode, Redeems, Admitted, Verify
  <2>3. TypeHistory'
    BY <1>6 DEF TypeHistory, PresentedCodes, Credentials, RegisterCrashAfterNode, LoseMemory, Redeems, Admitted, Verify
  <2> QED BY <2>1, <2>2, <2>3
<1>7. ASSUME NEW n \in Node, Unregister(n)
      PROVE  TypeOK'
  BY <1>7 DEF TypeProcess, TypeMemory, TypeDurable, TypeHistory, Invite, Snapshot,
     Credentials, PresentedCodes, NoReading, Unregister, Forget, DeletedTokens
<1>8. ASSUME NEW n \in Node, NEW r \in Record, SetAvailableModels(n, r)
      PROVE  TypeOK'
  BY <1>8 DEF TypeProcess, TypeMemory, TypeDurable, TypeHistory, Invite, Snapshot,
     Credentials, PresentedCodes, NoReading, SetAvailableModels
<1>9. ASSUME NEW n \in Node, ReceiveHeartbeat(n)
      PROVE  TypeOK'
  BY <1>9 DEF TypeProcess, TypeMemory, TypeDurable, TypeHistory, Invite, Snapshot,
     Credentials, PresentedCodes, NoReading, ReceiveHeartbeat
<1>10. ASSUME NEW n \in Node, ScheduleTask(n)
      PROVE  TypeOK'
  BY <1>10 DEF TypeProcess, TypeMemory, TypeDurable, TypeHistory, Invite, Snapshot,
     Credentials, PresentedCodes, NoReading, ScheduleTask
<1>11. ASSUME NEW n \in Node, NEW k \in Cred, ProcessHeartbeat(n, k)
      PROVE  TypeOK'
  BY <1>11 DEF TypeProcess, TypeMemory, TypeDurable, TypeHistory, Invite, Snapshot,
     Credentials, PresentedCodes, NoReading, ProcessHeartbeat, Opens
<1>12. ASSUME NEW n \in Node, NEW k \in Cred, ProcessTelemetry(n, k)
      PROVE  TypeOK'
  BY <1>12 DEF TypeProcess, TypeMemory, TypeDurable, TypeHistory, Invite, Snapshot,
     Credentials, PresentedCodes, NoReading, ProcessTelemetry, Opens
<1>13. ASSUME NEW n \in Node, ProcessDeathrattle(n)
      PROVE  TypeOK'
  <2>1. TypeProcess' /\ TypeMemory'
    BY <1>13 DEF TypeProcess, TypeMemory, TypeDurable, Credentials, Invite, NoReading, ProcessDeathrattle, EvictIfStale, Forget, DeletedTokens
  <2>2. TypeDurable'
    BY <1>13 DEF TypeDurable, TypeMemory, Credentials, Invite, ProcessDeathrattle, EvictIfStale, Forget, DeletedTokens
  <2>3. TypeHistory'
    BY <1>13 DEF TypeHistory, PresentedCodes, Credentials, ProcessDeathrattle, EvictIfStale, Forget, DeletedTokens
  <2> QED BY <2>1, <2>2, <2>3
<1>14. ASSUME Sweep
      PROVE  TypeOK'
  <2>1. TypeProcess'
    BY <1>14 DEF TypeProcess, Sweep
  <2>2. TypeMemory'
    BY <1>14 DEF TypeMemory, Credentials, NoReading, Sweep, EvictIfStale, Forget
  <2>3. TypeDurable'
    BY <1>14 DEF TypeDurable, Credentials, Sweep, EvictIfStale, Forget, DeletedTokens
  <2>4. TypeHistory'
    BY <1>14 DEF TypeHistory, Sweep, EvictIfStale
  <2> QED BY <2>1, <2>2, <2>3, <2>4
<1>15. ASSUME Tick
      PROVE  TypeOK'
  BY <1>15 DEF TypeProcess, TypeMemory, TypeDurable, TypeHistory, Invite, Snapshot,
     Credentials, PresentedCodes, NoReading, Tick, Older
<1>16. ASSUME NEW c \in Code, NEW m \in UseLimits, MintIssue(c, m)
      PROVE  TypeOK'
  BY <1>16 DEF TypeProcess, TypeMemory, TypeDurable, TypeHistory, Invite, Snapshot,
     Credentials, PresentedCodes, NoReading, MintIssue
<1>17. ASSUME NEW c \in Code, MintRevokeLoad(c)
      PROVE  TypeOK'
  BY <1>17 DEF TypeProcess, TypeMemory, TypeDurable, TypeHistory, Invite, Snapshot,
     Credentials, PresentedCodes, NoReading, MintRevokeLoad
<1>18. ASSUME MintRevokeSave
      PROVE  TypeOK'
  BY <1>18 DEF TypeProcess, TypeMemory, TypeDurable, TypeHistory, Invite, Snapshot,
     Credentials, PresentedCodes, NoReading, MintRevokeSave, RevokedCopy
<1>19. ASSUME NEW n \in Mortal, HostDies(n)
      PROVE  TypeOK'
  BY <1>19 DEF TypeProcess, TypeMemory, TypeDurable, TypeHistory, Invite, Snapshot,
     Credentials, PresentedCodes, NoReading, HostDies
<1>20. ASSUME UNCHANGED vars
      PROVE  TypeOK'
  BY <1>20 DEF TypeProcess, TypeMemory, TypeDurable, TypeHistory, Invite, Snapshot,
     Credentials, PresentedCodes, NoReading, vars
<1> QED
  BY <1>1, <1>2, <1>3, <1>4, <1>5, <1>6, <1>7, <1>8, <1>9, <1>10,
          <1>11, <1>12, <1>13, <1>14, <1>15, <1>16, <1>17, <1>18, <1>19, <1>20 DEF Next, BootSome, HttpStep, MeshStep, ScriptStep

\* The initial state is well typed.
LEMMA InitTypes == Init => TypeOK
<1> SUFFICES ASSUME Init PROVE TypeOK
  OBVIOUS
<1>1. TypeProcess
  BY DEF Init, TypeProcess
<1>2. TypeMemory
  BY FleetAssumption DEF Init, TypeMemory, Credentials, NoReading
<1>3. TypeDurable
  BY DEF Init, TypeDurable, Credentials
<1>4. TypeHistory
  BY FleetAssumption DEF Init, TypeHistory, Credentials, PresentedCodes
<1> QED BY <1>1, <1>2, <1>3, <1>4 DEF TypeOK

\* Every reachable state of the Scheduler's fleet is well typed: no table of the
\* registry or of the store ever holds anything but its declared contents.
THEOREM TypeCorrect == Spec => []TypeOK
  BY InitTypes, TypeStep, PTL DEF Spec

\* The registry's inductive invariant is preserved by every step.
LEMMA FleetStep == FleetInv /\ TypeOK' /\ [Next]_vars => FleetInv'
<1> SUFFICES ASSUME FleetInv, TypeOK', [Next]_vars PROVE FleetInv'
  OBVIOUS
<1> USE FleetAssumption DEF FleetInv, TypeOK, TypeProcess, TypeMemory, TypeDurable,
        TypeHistory, memory, durable, process, history
<1>1. ASSUME NEW opened \in BOOLEAN, NEW unreadable \in Unreadable,
             Boot(opened, unreadable)
      PROVE  FleetInv'
  BY <1>1 DEF EmptyWhenDown, WriteThrough, ObservationsBelongToMembers, Registered,
     CredentialIsLatest, Boot, Unreadable
<1>2. ASSUME Stop
      PROVE  FleetInv'
  BY <1>2 DEF EmptyWhenDown, WriteThrough, ObservationsBelongToMembers, Registered,
     CredentialIsLatest, Stop, LoseMemory
<1>3. ASSUME NEW n \in Node, NEW r \in Record, NEW k \in Credentials,
             NEW c \in PresentedCodes, RegisterNew(n, r, k, c)
      PROVE  FleetInv'
  <2>1. EmptyWhenDown'
    BY <1>3 DEF EmptyWhenDown, EmptyWhenDown, RegisterNew, MeshAfterToken, Redeems, Admitted, Verify, Redeemed
  <2>2. WriteThrough'
    BY <1>3 DEF EmptyWhenDown, WriteThrough, RegisterNew, MeshAfterToken, Redeems, Admitted, Verify, Redeemed
  <2>3. ObservationsBelongToMembers'
    BY <1>3 DEF EmptyWhenDown, ObservationsBelongToMembers, Registered, RegisterNew, MeshAfterToken, Redeems, Admitted, Verify, Redeemed
  <2>4. CredentialIsLatest'
    BY <1>3 DEF EmptyWhenDown, CredentialIsLatest, WriteThrough, RegisterNew, MeshAfterToken, Redeems, Admitted, Verify, Redeemed
  <2> QED BY <2>1, <2>2, <2>3, <2>4
<1>4. ASSUME NEW n \in Node, NEW k \in Credentials, NEW c \in PresentedCodes,
             RegisterConflict(n, k, c)
      PROVE  FleetInv'
  BY <1>4 DEF EmptyWhenDown, WriteThrough, ObservationsBelongToMembers, Registered,
     CredentialIsLatest, RegisterConflict, MeshAfterToken, ConflictToken
<1>5. ASSUME NEW n \in Node, NEW k \in Credentials, NEW c \in PresentedCodes,
             RegisterCrashAfterToken(n, k, c)
      PROVE  FleetInv'
  BY <1>5 DEF EmptyWhenDown, WriteThrough, ObservationsBelongToMembers, Registered,
     CredentialIsLatest, RegisterCrashAfterToken, LoseMemory
<1>6. ASSUME NEW n \in Node, NEW r \in Record, NEW k \in Credentials,
             NEW c \in PresentedCodes, RegisterCrashAfterNode(n, r, k, c)
      PROVE  FleetInv'
  BY <1>6 DEF EmptyWhenDown, WriteThrough, ObservationsBelongToMembers, Registered,
     CredentialIsLatest, RegisterCrashAfterNode, LoseMemory, Redeems, Admitted, Verify
<1>7. ASSUME NEW n \in Node, Unregister(n)
      PROVE  FleetInv'
  BY <1>7 DEF EmptyWhenDown, WriteThrough, ObservationsBelongToMembers, Registered,
     CredentialIsLatest, Unregister, Forget, DeletedTokens
<1>8. ASSUME NEW n \in Node, NEW r \in Record, SetAvailableModels(n, r)
      PROVE  FleetInv'
  <2>1. EmptyWhenDown'
    BY <1>8 DEF EmptyWhenDown, EmptyWhenDown, SetAvailableModels
  <2>2. WriteThrough'
    BY <1>8 DEF EmptyWhenDown, WriteThrough, SetAvailableModels
  <2>3. ObservationsBelongToMembers'
    BY <1>8 DEF EmptyWhenDown, ObservationsBelongToMembers, Registered, SetAvailableModels
  <2>4. CredentialIsLatest'
    BY <1>8 DEF EmptyWhenDown, CredentialIsLatest, WriteThrough, SetAvailableModels
  <2> QED BY <2>1, <2>2, <2>3, <2>4
<1>9. ASSUME NEW n \in Node, ReceiveHeartbeat(n)
      PROVE  FleetInv'
  BY <1>9 DEF EmptyWhenDown, WriteThrough, ObservationsBelongToMembers, Registered,
     CredentialIsLatest, ReceiveHeartbeat
<1>10. ASSUME NEW n \in Node, ScheduleTask(n)
      PROVE  FleetInv'
  BY <1>10 DEF EmptyWhenDown, WriteThrough, ObservationsBelongToMembers, Registered,
     CredentialIsLatest, ScheduleTask
<1>11. ASSUME NEW n \in Node, NEW k \in Cred, ProcessHeartbeat(n, k)
      PROVE  FleetInv'
  BY <1>11 DEF EmptyWhenDown, WriteThrough, ObservationsBelongToMembers, Registered,
     CredentialIsLatest, ProcessHeartbeat, Opens
<1>12. ASSUME NEW n \in Node, NEW k \in Cred, ProcessTelemetry(n, k)
      PROVE  FleetInv'
  BY <1>12 DEF EmptyWhenDown, WriteThrough, ObservationsBelongToMembers, Registered,
     CredentialIsLatest, ProcessTelemetry, Opens
<1>13. ASSUME NEW n \in Node, ProcessDeathrattle(n)
      PROVE  FleetInv'
  BY <1>13 DEF EmptyWhenDown, WriteThrough, ObservationsBelongToMembers, Registered,
     CredentialIsLatest, ProcessDeathrattle, EvictIfStale, Forget, DeletedTokens
<1>14. ASSUME Sweep
      PROVE  FleetInv'
  BY <1>14 DEF EmptyWhenDown, WriteThrough, ObservationsBelongToMembers, Registered,
     CredentialIsLatest, Sweep, EvictIfStale, Forget, DeletedTokens
<1>15. ASSUME Tick
      PROVE  FleetInv'
  BY <1>15 DEF EmptyWhenDown, WriteThrough, ObservationsBelongToMembers, Registered,
     CredentialIsLatest, Tick, Older
<1>16. ASSUME NEW c \in Code, NEW m \in UseLimits, MintIssue(c, m)
      PROVE  FleetInv'
  BY <1>16 DEF EmptyWhenDown, WriteThrough, ObservationsBelongToMembers, Registered,
     CredentialIsLatest, MintIssue
<1>17. ASSUME NEW c \in Code, MintRevokeLoad(c)
      PROVE  FleetInv'
  BY <1>17 DEF EmptyWhenDown, WriteThrough, ObservationsBelongToMembers, Registered,
     CredentialIsLatest, MintRevokeLoad
<1>18. ASSUME MintRevokeSave
      PROVE  FleetInv'
  BY <1>18 DEF EmptyWhenDown, WriteThrough, ObservationsBelongToMembers, Registered,
     CredentialIsLatest, MintRevokeSave, RevokedCopy
<1>19. ASSUME NEW n \in Mortal, HostDies(n)
      PROVE  FleetInv'
  BY <1>19 DEF EmptyWhenDown, WriteThrough, ObservationsBelongToMembers, Registered,
     CredentialIsLatest, HostDies
<1>20. ASSUME UNCHANGED vars
      PROVE  FleetInv'
  BY <1>20 DEF EmptyWhenDown, WriteThrough, ObservationsBelongToMembers, Registered,
     CredentialIsLatest, vars
<1> QED
  BY <1>1, <1>2, <1>3, <1>4, <1>5, <1>6, <1>7, <1>8, <1>9, <1>10,
     <1>11, <1>12, <1>13, <1>14, <1>15, <1>16, <1>17, <1>18, <1>19, <1>20
     DEF Next, BootSome, HttpStep, MeshStep, ScriptStep

\* The registry's inductive invariant holds in every reachable state.
LEMMA FleetReachable == Spec => []FleetInv
<1>1. Init => FleetInv
  BY InitTypes DEF Init, FleetInv, EmptyWhenDown, WriteThrough,
     ObservationsBelongToMembers, Registered, CredentialIsLatest
<1> QED BY <1>1, TypeCorrect, FleetStep, PTL DEF Spec

\* While the Scheduler serves, a restart would load the registry it has: no order of
\* handlers, evictions, crashes inside register_node and unreadable rows separates
\* NodeRegistry's tables from the store's.
THEOREM RegistryWrittenThrough == Spec => []WriteThrough
<1>1. FleetInv => WriteThrough BY DEF FleetInv
<1> QED BY <1>1, FleetReachable, PTL

\* Heartbeats, telemetry and mesh reachability are only ever held for registered
\* nodes, and reachability only with a credential to sign requests with.
THEOREM ObservationsOfMembers == Spec => []ObservationsBelongToMembers
<1>1. FleetInv => ObservationsBelongToMembers BY DEF FleetInv
<1> QED BY <1>1, FleetReachable, PTL

\* Neither a restart nor a crash inside register_node brings back a credential older
\* than the one the node last presented.
THEOREM CredentialsLatest == Spec => []CredentialIsLatest
<1>1. FleetInv => CredentialIsLatest BY DEF FleetInv
<1> QED BY <1>1, FleetReachable, PTL

\* An admission whose use is lost moves both sides of the account by one.
LEMMA LostUse ==
    ASSUME NEW a \in Nat, NEW l \in Nat, NEW m \in Nat, NEW u \in Nat, a <= m + l
    PROVE  a + 1 <= m + (l + 1) /\ (u + l = a => u + (l + 1) = a + 1)
  OBVIOUS

\* The admission invariant is preserved by every step.
LEMMA InviteStep == InviteInv /\ TypeOK' /\ [Next]_vars => InviteInv'
<1> SUFFICES ASSUME InviteInv, TypeOK', [Next]_vars PROVE InviteInv'
  OBVIOUS
<1> USE FleetAssumption DEF InviteInv, TypeOK, TypeProcess, TypeMemory, TypeDurable,
        TypeHistory, memory, durable, process, history, EmptyWhenDown,
        UsesAccountForAdmissions, AdmissionsBounded, CopyOf
<1>1. ASSUME NEW opened \in BOOLEAN, NEW unreadable \in Unreadable,
             Boot(opened, unreadable)
      PROVE  InviteInv'
  BY <1>1 DEF Boot, Unreadable
<1>2. ASSUME Stop
      PROVE  InviteInv'
  BY <1>2 DEF Stop, LoseMemory
<1>3. ASSUME NEW n \in Node, NEW r \in Record, NEW k \in Credentials,
             NEW c \in PresentedCodes, RegisterNew(n, r, k, c)
      PROVE  InviteInv'
  <2>1. CASE ~Redeems(c)
    BY <1>3, <2>1 DEF RegisterNew
  <2>2. CASE Redeems(c)
    <3> DEFINE new == Redeemed(invites[c])
    <3>1. /\ c \in Code /\ invites[c] # NoInvite /\ invites[c] \in Invite
          /\ ~invites[c].revoked /\ invites[c].uses < invites[c].max
      BY <1>3, <2>2 DEF RegisterNew, Redeems, Admitted, Verify, Usable
    <3>2. /\ new.max = invites[c].max /\ new.uses = invites[c].uses + 1
          /\ new.revoked = invites[c].revoked /\ new \in Invite
      BY <3>1 DEF Redeemed, Invite
    <3>3. /\ dInvites[c] # NoInvite /\ invites[c].max = dInvites[c].max
          /\ invites[c].uses + lost[c] = admits[c]
      BY <3>1
    <3>4. /\ invites' = [invites EXCEPT ![c] = new]
          /\ dInvites' = [dInvites EXCEPT ![c] = new]
          /\ admits' = [admits EXCEPT ![c] = @ + 1]
          /\ lost' = lost /\ up' = up /\ up /\ script' = script
      BY <1>3, <2>2 DEF RegisterNew
    <3> HIDE DEF new
    <3>5. \A d \in Code : d # c => /\ invites'[d] = invites[d] /\ dInvites'[d] = dInvites[d]
                                  /\ admits'[d] = admits[d] /\ lost'[d] = lost[d]
      BY <3>4
    <3>6. /\ invites'[c] = new /\ dInvites'[c] = new
          /\ admits'[c] = admits[c] + 1 /\ lost'[c] = lost[c]
      BY <3>1, <3>4
    <3>7. new # NoInvite
      BY <3>2 DEF Invite
    <3>8. admits[c] \in Nat /\ lost[c] \in Nat /\ invites[c].uses \in Nat /\ invites[c].max \in Nat
      BY <3>1 DEF Invite
    <3>9. UsesAccountForAdmissions' /\ AdmissionsBounded'
      <4>1. ASSUME NEW d \in Code, d # c
            PROVE  /\ dInvites'[d] # NoInvite => admits'[d] <= dInvites'[d].max + lost'[d]
                   /\ dInvites'[d] # NoInvite /\ ~dInvites'[d].revoked
                         => dInvites'[d].uses + lost'[d] = admits'[d]
        BY <3>5, <4>1
      <4>2. /\ admits'[c] <= dInvites'[c].max + lost'[c]
            /\ dInvites'[c].uses + lost'[c] = admits'[c]
        BY <3>1, <3>2, <3>3, <3>6, <3>8
      <4> QED BY <4>1, <4>2
    <3>10. script' # NoScript => CopyOf(script.invite, dInvites[script.code])'
      BY <3>2, <3>3, <3>4, <3>5, <3>6, <3>7 DEF Snapshot
    <3> QED BY <3>1, <3>2, <3>3, <3>4, <3>5, <3>6, <3>7, <3>8, <3>9, <3>10
  <2> QED BY <2>1, <2>2
<1>4. ASSUME NEW n \in Node, NEW k \in Credentials, NEW c \in PresentedCodes,
             RegisterConflict(n, k, c)
      PROVE  InviteInv'
  BY <1>4 DEF RegisterConflict, MeshAfterToken, ConflictToken
<1>5. ASSUME NEW n \in Node, NEW k \in Credentials, NEW c \in PresentedCodes,
             RegisterCrashAfterToken(n, k, c)
      PROVE  InviteInv'
  BY <1>5 DEF RegisterCrashAfterToken, LoseMemory
<1>6. ASSUME NEW n \in Node, NEW r \in Record, NEW k \in Credentials,
             NEW c \in PresentedCodes, RegisterCrashAfterNode(n, r, k, c)
      PROVE  InviteInv'
  <2>1. /\ c \in Code /\ invites[c] # NoInvite /\ invites[c] \in Invite
        /\ ~invites[c].revoked /\ invites[c].uses < invites[c].max
    BY <1>6 DEF RegisterCrashAfterNode, Redeems, Admitted, Verify, Usable
  <2>2. /\ dInvites[c] # NoInvite /\ invites[c].max = dInvites[c].max
        /\ invites[c].uses + lost[c] = admits[c]
        /\ admits[c] \in Nat /\ lost[c] \in Nat /\ invites[c].uses \in Nat
    BY <2>1 DEF Invite
  <2>3. /\ up' = FALSE /\ invites' = [d \in Code |-> NoInvite]
        /\ dInvites' = dInvites /\ script' = script
        /\ admits' = [admits EXCEPT ![c] = @ + 1] /\ lost' = [lost EXCEPT ![c] = @ + 1]
    BY <1>6 DEF RegisterCrashAfterNode, LoseMemory
  <2>4. EmptyWhenDown'
    BY <1>6 DEF RegisterCrashAfterNode, LoseMemory
  <2>5. UsesAccountForAdmissions' /\ AdmissionsBounded'
    <3>1. ASSUME NEW d \in Code, d # c
          PROVE  admits'[d] = admits[d] /\ lost'[d] = lost[d] /\ dInvites'[d] = dInvites[d]
      BY <2>3, <3>1
    <3>2. admits'[c] = admits[c] + 1 /\ lost'[c] = lost[c] + 1 /\ dInvites'[c] = dInvites[c]
      BY <2>1, <2>3
    <3>3. /\ dInvites[c].max \in Nat /\ dInvites[c].uses \in Nat
          /\ admits[c] <= dInvites[c].max + lost[c]
          /\ ~dInvites[c].revoked => dInvites[c].uses + lost[c] = admits[c]
      BY <2>1, <2>2 DEF Invite
    <3>4. /\ admits[c] + 1 <= dInvites[c].max + (lost[c] + 1)
          /\ ~dInvites[c].revoked => dInvites[c].uses + (lost[c] + 1) = admits[c] + 1
      <4> HIDE FleetAssumption DEF InviteInv, TypeOK, EmptyWhenDown,
               UsesAccountForAdmissions, AdmissionsBounded, CopyOf
      <4> QED BY <2>2, <3>3, LostUse
    <3>5. /\ admits'[c] <= dInvites'[c].max + lost'[c]
          /\ ~dInvites'[c].revoked => dInvites'[c].uses + lost'[c] = admits'[c]
      BY <3>2, <3>4
    <3> QED BY <3>1, <3>5
  <2> QED BY <2>2, <2>3, <2>4, <2>5
<1>7. ASSUME NEW n \in Node, Unregister(n)
      PROVE  InviteInv'
  BY <1>7 DEF Unregister, Forget, DeletedTokens
<1>8. ASSUME NEW n \in Node, NEW r \in Record, SetAvailableModels(n, r)
      PROVE  InviteInv'
  BY <1>8 DEF SetAvailableModels
<1>9. ASSUME NEW n \in Node, ReceiveHeartbeat(n)
      PROVE  InviteInv'
  BY <1>9 DEF ReceiveHeartbeat
<1>10. ASSUME NEW n \in Node, ScheduleTask(n)
      PROVE  InviteInv'
  BY <1>10 DEF ScheduleTask
<1>11. ASSUME NEW n \in Node, NEW k \in Cred, ProcessHeartbeat(n, k)
      PROVE  InviteInv'
  BY <1>11 DEF ProcessHeartbeat, Opens
<1>12. ASSUME NEW n \in Node, NEW k \in Cred, ProcessTelemetry(n, k)
      PROVE  InviteInv'
  BY <1>12 DEF ProcessTelemetry, Opens
<1>13. ASSUME NEW n \in Node, ProcessDeathrattle(n)
      PROVE  InviteInv'
  BY <1>13 DEF ProcessDeathrattle, EvictIfStale, Forget, DeletedTokens
<1>14. ASSUME Sweep
      PROVE  InviteInv'
  BY <1>14 DEF Sweep, EvictIfStale, Forget, DeletedTokens
<1>15. ASSUME Tick
      PROVE  InviteInv'
  BY <1>15 DEF Tick, Older
<1>16. ASSUME NEW c \in Code, NEW m \in UseLimits, MintIssue(c, m)
      PROVE  InviteInv'
  BY <1>16 DEF MintIssue, Invite, Snapshot, Usable
<1>17. ASSUME NEW c \in Code, MintRevokeLoad(c)
      PROVE  InviteInv'
  BY <1>17 DEF MintRevokeLoad, Invite, Snapshot, Usable
<1>18. ASSUME MintRevokeSave
      PROVE  InviteInv'
  <2> DEFINE c == script.code
             new == RevokedCopy(script)
  <2>1. /\ c \in Code /\ script.invite \in Invite /\ CopyOf(script.invite, dInvites[c])
    BY <1>18 DEF MintRevokeSave, Snapshot
  <2>2. /\ new.max = script.invite.max /\ new.uses = script.invite.uses
        /\ new.revoked = TRUE /\ new \in Invite
    BY <2>1 DEF RevokedCopy, Invite
  <2>3. /\ dInvites' = [dInvites EXCEPT ![c] = new] /\ script' = NoScript
        /\ invites' = invites /\ admits' = admits /\ lost' = lost
    BY <1>18 DEF MintRevokeSave
  <2>4. new # NoInvite
    BY <2>2 DEF Invite
  <2>5. EmptyWhenDown'
    BY <1>18 DEF MintRevokeSave
  <2> HIDE DEF c, new
  <2>6. UsesAccountForAdmissions' /\ AdmissionsBounded'
    BY <2>1, <2>2, <2>3, <2>4
  <2> QED BY <2>1, <2>2, <2>3, <2>4, <2>5, <2>6
<1>19. ASSUME NEW n \in Mortal, HostDies(n)
      PROVE  InviteInv'
  BY <1>19 DEF HostDies
<1>20. ASSUME UNCHANGED vars
      PROVE  InviteInv'
  BY <1>20 DEF vars
<1> QED
  BY <1>1, <1>2, <1>3, <1>4, <1>5, <1>6, <1>7, <1>8, <1>9, <1>10,
     <1>11, <1>12, <1>13, <1>14, <1>15, <1>16, <1>17, <1>18, <1>19, <1>20
     DEF Next, BootSome, HttpStep, MeshStep, ScriptStep

\* The admission invariant holds in every reachable state.
LEMMA InviteReachable == Spec => []InviteInv
<1>1. Init => InviteInv
  BY InitTypes DEF Init, InviteInv, EmptyWhenDown, AdmissionsBounded, UsesAccountForAdmissions
<1> QED BY <1>1, TypeCorrect, InviteStep, PTL DEF Spec

\* Under any interleaving of the Scheduler and mint_invite, and with any number of
\* restarts, a code admits at most max_uses nodes plus one per crash inside
\* register_node.
THEOREM InviteAdmission == Spec => []AdmissionsBounded
<1>1. InviteInv => AdmissionsBounded BY DEF InviteInv
<1> QED BY <1>1, InviteReachable, PTL

\* An unrevoked stored invite accounts for every admission whose use was redeemed,
\* whatever mint_invite loads and writes back.
THEOREM InviteUsesCounted == Spec => []UsesAccountForAdmissions
<1>1. InviteInv => UsesAccountForAdmissions BY DEF InviteInv
<1> QED BY <1>1, InviteReachable, PTL

-----------------------------------------------------------------------------
\* The reading _evict_if_stale looks at is never older than the silence since the
\* node was last heard: what makes a proven node safe from sweeps.
ClockInv == \A n \in proven : lastVerified[n] # NoReading /\ lastVerified[n] <= quiet[n]

\* A registration or a boot restarts the silence of nodes that are not proven only,
\* and an eviction forgets the reading of nodes that it takes out of proven.
LEMMA ClockStep == FleetInv /\ ClockInv /\ [Next]_vars => ClockInv'
<1> SUFFICES ASSUME FleetInv, ClockInv, [Next]_vars PROVE ClockInv'
  OBVIOUS
<1> USE FleetAssumption DEF ClockInv, NoReading, TypeOK, TypeMemory, TypeHistory, TypeProcess
<1>0. TypeOK /\ EmptyWhenDown /\ ObservationsBelongToMembers
  BY DEF FleetInv
<1>1. ASSUME NEW opened \in BOOLEAN, NEW unreadable \in Unreadable, Boot(opened, unreadable)
      PROVE  ClockInv'
  BY <1>0, <1>1 DEF Boot, EmptyWhenDown
<1>2. CASE LoseMemory
  BY <1>2 DEF LoseMemory
<1>3. ASSUME NEW n \in Node, NEW r \in Record, NEW k \in Credentials,
             NEW c \in PresentedCodes, RegisterNew(n, r, k, c)
      PROVE  ClockInv'
  <2>1. n \notin proven
    BY <1>0, <1>3 DEF RegisterNew, ObservationsBelongToMembers, Registered
  <2> QED BY <1>0, <1>3, <2>1 DEF RegisterNew
<1>4. ASSUME NEW n \in Node, NEW k \in Credentials, NEW c \in PresentedCodes,
             RegisterConflict(n, k, c)
      PROVE  ClockInv'
  BY <1>4 DEF RegisterConflict
<1>5. ASSUME NEW n \in Node, Unregister(n) PROVE ClockInv'
  BY <1>5 DEF Unregister
<1>6. ASSUME NEW n \in Node, NEW k \in Cred, ProcessHeartbeat(n, k) PROVE ClockInv'
  BY <1>0, <1>6 DEF ProcessHeartbeat
<1>7. ASSUME NEW suspects \in SUBSET Node, EvictIfStale(suspects) PROVE ClockInv'
  BY <1>0, <1>7 DEF EvictIfStale
<1>8. CASE Tick
  <2>1. ASSUME NEW n \in proven PROVE (lastVerified[n] # NoReading /\ lastVerified[n] <= quiet[n])'
    <3>1. n \in Node /\ lastVerified[n] \in 0..StaleAfter /\ quiet[n] \in 0..StaleAfter
      BY <1>0
    <3>2. /\ lastVerified'[n] = Older(lastVerified[n])
          /\ quiet'[n] = Older(quiet[n])
      BY <1>8, <3>1 DEF Tick
    <3> QED BY <3>1, <3>2 DEF Older
  <2> QED BY <1>8, <2>1 DEF Tick
<1>9. CASE UNCHANGED <<proven, lastVerified, quiet>>
  BY <1>9
<1>10. CASE HttpStep
  BY <1>2, <1>3, <1>4, <1>5, <1>9, <1>10
     DEF HttpStep, history, RegisterCrashAfterToken, RegisterCrashAfterNode,
         SetAvailableModels, ReceiveHeartbeat, ScheduleTask
<1>11. CASE MeshStep \/ Sweep
  BY <1>6, <1>7, <1>9, <1>11 DEF MeshStep, Sweep, history, ProcessTelemetry, ProcessDeathrattle
<1>12. CASE ScriptStep \/ \E n \in Mortal : HostDies(n)
  BY <1>9, <1>12
     DEF ScriptStep, memory, history, MintIssue, MintRevokeLoad, MintRevokeSave, HostDies
<1>13. CASE UNCHANGED vars
  BY <1>9, <1>13 DEF vars, memory, history
<1> QED
  BY <1>1, <1>2, <1>8, <1>10, <1>11, <1>12, <1>13 DEF Next, BootSome, Stop

\* A proven node leaves the registry only by its own DELETE or with the process.
LEMMA ProvenStays ==
    ASSUME FleetInv, ClockInv, [Next]_vars, NEW n \in proven,
           quiet[n] < StaleAfter, nodes[n] # Absent, up'
    PROVE  nodes'[n] # Absent \/ Unregister(n)
<1>0. n \in Node /\ ~Stale(n)
  BY FleetAssumption DEF FleetInv, ClockInv, TypeOK, TypeHistory, TypeMemory, Stale, NoReading
<1>1. ASSUME NEW opened \in BOOLEAN, NEW unreadable \in Unreadable, Boot(opened, unreadable)
      PROVE  FALSE
  BY <1>1 DEF FleetInv, EmptyWhenDown, Boot
<1>2. CASE LoseMemory
  BY <1>2 DEF LoseMemory
<1>3. ASSUME NEW m \in Node, NEW r \in Record, nodes' = [nodes EXCEPT ![m] = r]
      PROVE  nodes'[n] # Absent
  BY <1>0, <1>3, FleetAssumption DEF FleetInv, TypeOK, TypeMemory
<1>4. ASSUME NEW m \in Node, Unregister(m) PROVE nodes'[n] # Absent \/ Unregister(n)
  BY <1>0, <1>4 DEF Unregister, Forget
<1>5. ASSUME NEW suspects \in SUBSET Node, EvictIfStale(suspects) PROVE nodes'[n] # Absent
  BY <1>0, <1>5 DEF EvictIfStale, Forget
<1>6. CASE UNCHANGED nodes
  BY <1>6
<1>7. CASE HttpStep
  BY <1>2, <1>3, <1>4, <1>6, <1>7
     DEF HttpStep, RegisterNew, RegisterConflict, RegisterCrashAfterToken,
         RegisterCrashAfterNode, SetAvailableModels, ReceiveHeartbeat, ScheduleTask
<1>8. CASE MeshStep \/ Sweep
  BY <1>5, <1>6, <1>8
     DEF MeshStep, Sweep, ProcessHeartbeat, ProcessTelemetry, ProcessDeathrattle
<1>9. CASE Tick \/ ScriptStep \/ \E m \in Mortal : HostDies(m)
  BY <1>6, <1>9
     DEF Tick, ScriptStep, memory, MintIssue, MintRevokeLoad, MintRevokeSave, HostDies
<1>10. CASE UNCHANGED vars
  BY <1>6, <1>10 DEF vars, memory
<1> QED
  BY <1>1, <1>2, <1>7, <1>8, <1>9, <1>10 DEF Next, BootSome, Stop

\* Neither a sweep nor a liveliness token that anyone may drop evicts a node heard
\* verifiably within the last StaleAfter intervals (_evict_if_stale).
THEOREM ProvenKept == Spec => ProvenNodeKept
<1>1. Init => ClockInv
  BY DEF Init, ClockInv
<1>2. FleetInv /\ ClockInv /\ [Next]_vars
        => [\A n \in proven : quiet[n] < StaleAfter /\ nodes[n] # Absent /\ up'
                => nodes'[n] # Absent \/ Unregister(n)]_vars
  BY ProvenStays
<1> QED BY <1>1, <1>2, ClockStep, FleetReachable, PTL DEF Spec, ProvenNodeKept

-----------------------------------------------------------------------------
\* A node that enters the registry of a Scheduler that enforces invites does so by
\* RegisterNew, with a code that verified: loading is no way in, because a Scheduler
\* that is down has no invites in memory.
LEMMA EntryIsCounted ==
    ASSUME FleetInv, [Next]_vars, Enforcing, NEW n \in Node,
           nodes[n] = Absent, nodes'[n] # Absent
    PROVE  \E c \in Code : admits'[c] = admits[c] + 1
<1>1. ASSUME NEW opened \in BOOLEAN, NEW unreadable \in Unreadable, Boot(opened, unreadable)
      PROVE  FALSE
  BY <1>1 DEF FleetInv, EmptyWhenDown, Boot, Enforcing
<1>2. CASE LoseMemory
  BY <1>2 DEF LoseMemory
<1>3. ASSUME NEW m \in Node, NEW r \in Record, NEW k \in Credentials,
             NEW c \in PresentedCodes, RegisterNew(m, r, k, c)
      PROVE  \E d \in Code : admits'[d] = admits[d] + 1
  <2>1. c \in Code /\ Redeems(c)
    BY <1>3, FleetAssumption DEF RegisterNew, Admitted, Verify, Redeems
  <2>2. admits' = [admits EXCEPT ![c] = @ + 1] /\ admits \in [Code -> Nat]
    BY <1>3, <2>1 DEF RegisterNew, FleetInv, TypeOK, TypeHistory
  <2> QED BY <2>1, <2>2
<1>4. ASSUME NEW m \in Node, NEW r \in Record, SetAvailableModels(m, r) PROVE FALSE
  BY <1>4 DEF SetAvailableModels, FleetInv, TypeOK, TypeMemory
<1>5. ASSUME NEW gone, Forget(gone) PROVE FALSE
  BY <1>5 DEF Forget
<1>6. CASE UNCHANGED nodes
  BY <1>6
<1>7. CASE HttpStep
  BY <1>2, <1>3, <1>4, <1>5, <1>6, <1>7
     DEF HttpStep, RegisterConflict, RegisterCrashAfterToken, RegisterCrashAfterNode,
         Unregister, ReceiveHeartbeat, ScheduleTask
<1>8. CASE MeshStep \/ Sweep
  BY <1>5, <1>6, <1>8
     DEF MeshStep, Sweep, EvictIfStale, ProcessHeartbeat, ProcessTelemetry, ProcessDeathrattle
<1>9. CASE Tick \/ ScriptStep \/ \E m \in Mortal : HostDies(m)
  BY <1>6, <1>9
     DEF Tick, ScriptStep, memory, MintIssue, MintRevokeLoad, MintRevokeSave, HostDies
<1>10. CASE UNCHANGED vars
  BY <1>6, <1>10 DEF vars, memory
<1> QED
  BY <1>1, <1>2, <1>7, <1>8, <1>9, <1>10 DEF Next, BootSome, Stop

\* Once any invite was loaded, no node enters the registry unless a code's use is
\* counted: spending or revoking every code closes the registry and never opens it.
THEOREM AdmissionsCounted == Spec => EveryAdmissionCounted
<1>1. FleetInv /\ [Next]_vars
        => [\A n \in Node :
              (\E c \in Code : invites[c] # NoInvite) /\ nodes[n] = Absent /\ nodes'[n] # Absent
                  => \E c \in Code : admits'[c] = admits[c] + 1]_vars
  BY EntryIsCounted DEF Enforcing
<1> QED BY <1>1, FleetReachable, PTL DEF Spec, EveryAdmissionCounted
=============================================================================
