----------------------------- MODULE PrefixCache -----------------------------
(***************************************************************************)
(* The node's prompt cache (node.core.radix_cache.RadixTrieCache) and the  *)
(* /infer route that uses it.                                              *)
(*                                                                         *)
(* A trie node is named by the tokens on its path from the root, so a trie *)
(* is a set of token sequences; the root is left out.  lookup_prefix and   *)
(* insert_prefix never suspend, so each is one step; the inference between *)
(* them is not, and other requests may evict what a lookup found.          *)
(***************************************************************************)
EXTENDS Naturals, Sequences, FiniteSets, SequencesExt

CONSTANTS
    Prompt,        \* prompts, as sequences of tokens
    CacheCapacity, \* distinct prompts kept
    MaxInfers      \* bound on requests

VARIABLES
    prompts,     \* the OrderedDict: least recently used first
    trie,        \* the trie's nodes
    calls,       \* requests that wait for Ollama
    infers       \* requests so far

cacheVars == <<prompts, trie, calls, infers>>

\* _get_common_prefix_length, as the prefix itself
Common(p, q) ==
    LongestCommonPrefix({p, q})

-----------------------------------------------------------------------------
(***************************************************************************)
(* The trie                                                                *)
(***************************************************************************)

\* _search_trie descends while a child's whole path matches: to the longest node
\* that is a prefix of the prompt.
SearchTrie(p) ==
    LET met == {n \in trie \cup {<<>>} : IsPrefix(n, p)}
    IN  CHOOSE n \in met : \A m \in met : Len(m) <= Len(n)

\* _insert_node follows the child that shares a token, splits it where the two
\* part, and adds the rest as a node of its own.
Insert(t, p) ==
    LET shared == {Common(n, p) : n \in t}
        split == {s \in shared : s # <<>> /\ \A x \in shared : Len(x) <= Len(s)}
    IN  (t \cup split \cup {p}) \ {<<>>}

RebuildTrie(ps) ==
    LET built[i \in 0..Len(ps)] == IF i = 0 THEN {} ELSE Insert(built[i - 1], ps[i])
    IN  built[Len(ps)]

\* The members of a sequence that are in a set, in their order
Those(s, kept) ==
    LET those[i \in 0..Len(s)] ==
            IF i = 0 THEN <<>>
            ELSE IF s[i] \in kept THEN Append(those[i - 1], s[i]) ELSE those[i - 1]
    IN  those[Len(s)]

\* move_to_end of every cached prompt that extends the prefix, in their order
Touched(prefix) ==
    LET extending == {p \in ToSet(prompts) : IsPrefix(prefix, p)}
    IN  Those(prompts, ToSet(prompts) \ extending) \o Those(prompts, extending)

-----------------------------------------------------------------------------
(***************************************************************************)
(* lookup_prefix and insert_prefix                                         *)
(***************************************************************************)

AfterLookup(prefix) == IF prefix = <<>> THEN prompts ELSE Touched(prefix)

Newest(p) == Append(Those(prompts, ToSet(prompts) \ {p}), p)

InsertWithoutRebuild(p) ==
    IF Len(Newest(p)) > CacheCapacity
    THEN prompts' = Tail(Newest(p)) /\ trie' = Insert(trie, p)
    ELSE prompts' = Newest(p) /\ trie' = Insert(trie, p)
InsertPrefix(p) ==
    IF Len(Newest(p)) > CacheCapacity
    THEN prompts' = Tail(Newest(p)) /\ trie' = RebuildTrie(Tail(Newest(p)))
    ELSE prompts' = Newest(p) /\ trie' = Insert(trie, p)

-----------------------------------------------------------------------------
(***************************************************************************)
(* POST /infer                                                             *)
(***************************************************************************)

\* Only what follows the cached prefix is sent to the model.
Infer(p) ==
    /\ infers < MaxInfers
    /\ prompts' = AfterLookup(SearchTrie(p))
    /\ calls' = calls \cup {[prompt |-> p, id |-> infers,
                             suffix |-> SubSeq(p, Len(SearchTrie(p)) + 1, Len(p))]}
    /\ infers' = infers + 1
    /\ UNCHANGED trie

\* The answer came, or a stream that had begun ended, failed or was abandoned: its
\* finally clause inserts the prompt all the same.
InferDone(c) ==
    /\ InsertPrefix(c.prompt)
    /\ calls' = calls \ {c}
    /\ UNCHANGED infers

\* OllamaError before an answer, or a stream whose response was never begun
InferFailed(c) ==
    /\ calls' = calls \ {c}
    /\ UNCHANGED <<prompts, trie, infers>>

Init == prompts = <<>> /\ trie = {} /\ calls = {} /\ infers = 0

Next ==
    \/ \E p \in Prompt : Infer(p)
    \/ \E c \in calls : InferDone(c) \/ InferFailed(c)

-----------------------------------------------------------------------------
\* Whatever the order of insertions, lookups and evictions, the trie holds the
\* cached prompts and the points where two of them part, and nothing of a prompt
\* that was evicted: a prefix found is a prefix of a prompt cached now, and none
\* that two cached prompts share is missed.
TrieIsExact ==
    LET cached == ToSet(prompts)
    IN  trie = (cached \cup {Common(p, q) : p, q \in cached}) \ {<<>>}
=============================================================================
