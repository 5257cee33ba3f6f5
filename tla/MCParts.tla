------------------------------- MODULE MCParts -------------------------------
(***************************************************************************)
(* Six parts that share no state with each other, checked in one run: the  *)
(* behaviours are those of the part chosen in the initial state.  The rate *)
(* limiter's and the transport's definitions and properties are those of   *)
(* their modules; the other parts are instances.                           *)
(***************************************************************************)
EXTENDS RateLimiter, StreamTransport, TLC

CONSTANTS
    Request, None, Skew, NonceCapacity, Drift, MaxClock, MaxRestarts,
    Prompt, CacheCapacity, MaxInfers,
    Key, NoKey, KeyFile, MaxTtl, MaxHours, MaxTokens, MaxKeyTime,
    Task, Branch, Nobody, MaxOps, LogCapacity, LogLimit

ASSUME PartsAssumption ==
    /\ Skew \in Nat /\ NonceCapacity \in Nat \ {0}
    /\ Prompt \subseteq Seq(UNION {{p[i] : i \in DOMAIN p} : p \in Prompt})
    /\ MaxTtl \in Nat
    /\ Nobody \notin Branch
    /\ {LogCapacity, LogLimit} \subseteq Nat

VARIABLES
    part,
    clock, stamp, seen, serving, answered, claimed, restarts,
    prompts, trie, calls, infers,
    time, slot, keyPath, file, made, credentials, quit,
    task, worktrees, disk, listed, refs, ops, mixed, lines, buffer, viewer

\* Two branch names that keep the same letters share a directory.
MCDir == [b \in Branch |-> IF b = "feature/a" THEN "featurea" ELSE b]

Mesh == INSTANCE MeshServer
Cache == INSTANCE PrefixCache
Keys == INSTANCE Gateway
    WITH now <- time, path <- keyPath, tokens <- credentials, MaxTime <- MaxKeyTime
Box == INSTANCE Sandbox WITH Dir <- MCDir

\* Keys are alike.
Symmetry == Permutations(Key)

MCPrompt == {<<"a">>, <<"b">>, <<"a", "a">>, <<"a", "b">>, <<"a", "a", "b">>}

meshVars == <<clock, stamp, seen, serving, answered, claimed, restarts>>
cacheVars == <<prompts, trie, calls, infers>>
keyVars == <<time, slot, keyPath, file, made, credentials, quit>>
boxVars == <<task, worktrees, disk, listed, refs, ops, mixed, lines, buffer, viewer>>

partsVars == <<part, meshVars, cacheVars, streamVars, keyVars, boxVars, vars>>

PartsInit ==
    /\ part \in {"mesh server", "prefix cache", "stream", "gateway", "sandbox", "limiter"}
    /\ Mesh!Init /\ Cache!Init /\ StreamInit /\ Keys!Init /\ Box!Init /\ Init

PartsNext ==
    /\ UNCHANGED part
    /\ \/ /\ part = "mesh server" /\ Mesh!Next
          /\ UNCHANGED <<cacheVars, streamVars, keyVars, boxVars, vars>>
       \/ /\ part = "prefix cache" /\ Cache!Next
          /\ UNCHANGED <<meshVars, streamVars, keyVars, boxVars, vars>>
       \/ /\ part = "stream" /\ StreamNext
          /\ UNCHANGED <<meshVars, cacheVars, keyVars, boxVars, vars>>
       \/ /\ part = "gateway" /\ Keys!Next
          /\ UNCHANGED <<meshVars, cacheVars, streamVars, boxVars, vars>>
       \/ /\ part = "sandbox" /\ Box!Next
          /\ UNCHANGED <<meshVars, cacheVars, streamVars, keyVars, vars>>
       \/ /\ part = "limiter" /\ Next
          /\ UNCHANGED <<meshVars, cacheVars, streamVars, keyVars, boxVars>>

PartsSpec == PartsInit /\ [][PartsNext]_partsVars

-----------------------------------------------------------------------------
\* The nonce cache at its limit: a request runs twice only under a flood of genuine
\* ones (MeshServer).
RepeatNeedsFlood == Mesh!RepeatNeedsFlood

\* A damaged copy of a request never uses up its nonce (MeshServer).
NonceSpentByService == Mesh!NonceSpentByService

\* Eviction and re-insertion leave the trie with exactly the cached prompts
\* (PrefixCache).
TrieIsExact == Cache!TrieIsExact

\* A credential that verified when it was issued verifies until it expires, through
\* every rotation of the keys (Gateway).
CredentialSurvivesRotation == Keys!CredentialSurvivesRotation

\* A recorded worktree holds its own branch's files (Sandbox).
WorktreeIsOwn == Box!WorktreeIsOwn

\* A log stream shows one run of lines without gaps or repeats (Sandbox).
StreamIsContiguous == Box!StreamIsContiguous
=============================================================================
