----------------------------- MODULE PartsProofs -----------------------------
(***************************************************************************)
(* The parts that share no state: the credentials of the gateway, the log  *)
(* streams and worktrees of the sandbox, the nonces of the mesh server and *)
(* the trie of the prefix cache, each for every value of its constants.  A *)
(* step of the run is a step of one part and leaves the variables of the   *)
(* others alone, so each invariant is about one part.                      *)
(***************************************************************************)
EXTENDS MCParts, SequenceTheorems, FiniteSetTheorems, WellFoundedInduction, TLAPS

-----------------------------------------------------------------------------
(***************************************************************************)
(* The gateway: credentials through a rotation of the keys                 *)
(***************************************************************************)

KeysType ==
    /\ time \in Nat
    /\ slot \in [Keys!Kid -> Key \cup {NoKey}]
    /\ keyPath \in [Keys!Kid -> Key \cup {NoKey, KeyFile}]
    /\ file \in Key \cup {NoKey}
    /\ made \subseteq Key
    /\ quit \in [Key -> Nat]

\* A credential of the endpoint that verified when it was signed, and is still good,
\* was signed with a key that is deployed; that key either signs still, or stopped
\* signing late enough that nobody may retire it before the credential expires.
Covered(tok) ==
    /\ tok.key \in Key \ {NoKey}
    /\ \E kid \in Keys!Kid : slot[kid] = tok.key
    /\ \/ tok.key \in Keys!Signing(keyPath, file)
       \/ tok.exp <= quit[tok.key] + MaxTtl

Live(tok) == tok.issuer = "endpoint" /\ tok.deployed /\ time < tok.exp

CredentialInv ==
    /\ KeysType
    /\ \A tok \in credentials :
          /\ tok.exp \in Nat
          /\ tok.issuer = "endpoint" => tok.exp <= time + MaxTtl
          /\ Live(tok) => Covered(tok)

LEMMA SigningFacts ==
    ASSUME KeysType, NEW f \in Key \cup {NoKey},
           NEW p \in [Keys!Kid -> Key \cup {NoKey, KeyFile}]
    PROVE  /\ Keys!Signing(p, f) \subseteq Key \ {NoKey}
           /\ Keys!QuitAfter(p, f) \in [Key -> Nat]
           /\ \A k \in Key : /\ k \in Keys!Signing(keyPath, file) \ Keys!Signing(p, f)
                                   => Keys!QuitAfter(p, f)[k] = time
                             /\ k \notin Keys!Signing(keyPath, file)
                                   => Keys!QuitAfter(p, f)[k] = quit[k]
BY DEF KeysType, Keys!Signing, Keys!SigningKey, Keys!QuitAfter

\* A signature keeps the invariant: it takes the keys as they are, and the endpoint
\* cuts what it is asked for to the cap.
LEMMA SignKeeps ==
    ASSUME CredentialInv, NEW key \in Key \ {NoKey}, NEW kid, NEW ttl \in Nat, NEW issuer,
           issuer = "endpoint" =>
               ttl <= MaxTtl /\ key \in Keys!Signing(keyPath, file),
           Keys!Sign(key, kid, ttl, issuer)
    PROVE  CredentialInv'
<1> DEFINE new == [key |-> key, kid |-> kid, exp |-> time + ttl, issuer |-> issuer,
                   deployed |-> key \in Range(slot)]
<1>1. /\ credentials' = credentials \cup {new}
      /\ UNCHANGED <<time, slot, keyPath, file, made, quit>>
  BY DEF Keys!Sign, Keys!Range, Range
<1>2. KeysType' BY <1>1 DEF CredentialInv, KeysType
<1>3. /\ new.key = key /\ new.exp = time + ttl /\ new.issuer = issuer
      /\ new.deployed = (key \in Range(slot))
  OBVIOUS
<1> HIDE DEF new
<1>4. /\ new.exp \in Nat
      /\ new.issuer = "endpoint" => new.exp <= time + MaxTtl
  BY <1>3, PartsAssumption DEF CredentialInv, KeysType
<1>5. ASSUME Live(new) PROVE Covered(new)
  <2>1. issuer = "endpoint" /\ key \in Range(slot) BY <1>3, <1>5 DEF Live
  <2>2. \E x \in Keys!Kid : slot[x] = key BY <2>1 DEF Range, CredentialInv, KeysType
  <2> QED BY <1>3, <2>1, <2>2 DEF Covered
<1>6. ASSUME NEW tok \in credentials' PROVE Live(tok)' = Live(tok) /\ Covered(tok)' = Covered(tok)
  BY <1>1 DEF Live, Covered, Keys!Signing, Keys!SigningKey
<1>7. ASSUME NEW tok \in credentials'
      PROVE  /\ tok.exp \in Nat
             /\ tok.issuer = "endpoint" => tok.exp <= time' + MaxTtl
             /\ Live(tok)' => Covered(tok)'
  <2>1. CASE tok = new BY <2>1, <1>1, <1>4, <1>5, <1>6
  <2>2. CASE tok \in credentials BY <2>2, <1>1, <1>6 DEF CredentialInv
  <2> QED BY <2>1, <2>2, <1>1
<1> QED BY <1>2, <1>7 DEF CredentialInv

\* Moving on to other keys keeps the invariant: a key that stops signing does so now,
\* and what it signed expires within the cap.
LEMMA MoveKeeps ==
    ASSUME CredentialInv,
           NEW public \in [Keys!Kid -> Key \cup {NoKey}],
           NEW private \in [Keys!Kid -> Key \cup {NoKey, KeyFile}],
           NEW f \in Key \cup {NoKey},
           \A k \in (Range(slot) \ Range(public)) \ {NoKey} : Keys!Spent(k),
           slot' = public, keyPath' = private, file' = f,
           quit' = Keys!QuitAfter(private, f),
           made' \subseteq Key, UNCHANGED <<time, credentials>>
    PROVE  CredentialInv'
<1>1. /\ Keys!Signing(private, f) \subseteq Key \ {NoKey}
      /\ quit' \in [Key -> Nat]
      /\ \A k \in Key : /\ k \in Keys!Signing(keyPath, file) \ Keys!Signing(private, f)
                              => quit'[k] = time
                        /\ k \notin Keys!Signing(keyPath, file) => quit'[k] = quit[k]
  BY SigningFacts DEF CredentialInv
<1>2. KeysType' BY <1>1 DEF CredentialInv, KeysType
<1>3. Keys!Signing(keyPath, file)' = Keys!Signing(private, f)
  BY DEF Keys!Signing, Keys!SigningKey
<1>4. ASSUME NEW tok \in credentials, Live(tok) PROVE Covered(tok)'
  <2>1. /\ tok.exp \in Nat /\ tok.exp <= time + MaxTtl /\ time < tok.exp
        /\ Covered(tok)
    BY <1>4 DEF CredentialInv, Live
  <2>2. PICK kid \in Keys!Kid : slot[kid] = tok.key BY <2>1 DEF Covered
  <2>3. tok.key \in Range(slot) BY <2>2 DEF Range, CredentialInv, KeysType
  <2>4. /\ tok.key \in Key \ {NoKey}
        /\ quit[tok.key] \in Nat /\ time \in Nat
    BY <2>1 DEF Covered, CredentialInv, KeysType
  <2>5. ~Keys!Spent(tok.key)
    BY <2>1, <2>4, PartsAssumption DEF Keys!Spent, Covered
  <2>6. tok.key \in Range(public) BY <2>3, <2>4, <2>5
  <2>7. \E x \in Keys!Kid : slot'[x] = tok.key BY <2>6 DEF Range
  <2>8. \/ tok.key \in Keys!Signing(keyPath, file)'
        \/ tok.exp <= quit'[tok.key] + MaxTtl
    BY <1>1, <1>3, <2>1, <2>4 DEF Covered
  <2> QED BY <2>4, <2>7, <2>8 DEF Covered
<1>5. \A tok \in credentials : Live(tok)' = Live(tok) BY DEF Live
<1> QED BY <1>2, <1>4, <1>5 DEF CredentialInv

LEMMA CredentialStep ==
    ASSUME CredentialInv, Keys!Next \/ UNCHANGED keyVars
    PROVE  CredentialInv'
<1>1. ASSUME NEW kid \in Keys!Kid, NEW hours \in 1..MaxHours,
             Keys!IssueCredential(kid, hours)
      PROVE  CredentialInv'
  <2> DEFINE key == Keys!SigningKey(keyPath, file, kid)
             ttl == Keys!LifetimeOf(hours)
  <2>1. key # NoKey /\ Keys!Sign(key, kid, ttl, "endpoint")
    BY <1>1 DEF Keys!IssueCredential
  <2>2. key \in Keys!Signing(keyPath, file) BY <2>1 DEF Keys!Signing
  <2>3. Keys!Signing(keyPath, file) \subseteq Key \ {NoKey}
    BY SigningFacts DEF CredentialInv, KeysType
  <2>4. ttl \in Nat /\ ttl <= MaxTtl BY PartsAssumption DEF Keys!LifetimeOf
  <2> HIDE DEF key, ttl
  <2> QED BY <2>1, <2>2, <2>3, <2>4, SignKeeps
<1>2. ASSUME NEW kid \in Keys!Kid, NEW hours \in 1..MaxHours, Keys!Mint(kid, hours)
      PROVE  CredentialInv'
  <2>1. /\ file \in Key \ {NoKey} /\ Keys!Sign(file, kid, hours, "script")
        /\ hours \in Nat /\ "script" # "endpoint"
    BY <1>2 DEF Keys!Mint, CredentialInv, KeysType
  <2> QED BY <2>1, SignKeeps
<1>3. ASSUME NEW k \in Key, NEW force \in BOOLEAN, Keys!GenerateKeypair(k, force)
      PROVE  CredentialInv'
  <2>1. /\ slot' = slot /\ keyPath' = keyPath /\ file' = k
        /\ quit' = Keys!QuitAfter(keyPath, k)
        /\ made' \subseteq Key /\ UNCHANGED <<time, credentials>>
    BY <1>3 DEF Keys!GenerateKeypair, CredentialInv, KeysType
  <2>2. /\ slot \in [Keys!Kid -> Key \cup {NoKey}]
        /\ keyPath \in [Keys!Kid -> Key \cup {NoKey, KeyFile}]
    BY DEF CredentialInv, KeysType
  <2>3. \A x \in (Range(slot) \ Range(slot)) \ {NoKey} : Keys!Spent(x) OBVIOUS
  <2> QED BY <2>1, <2>2, <2>3, MoveKeeps
<1>4. ASSUME NEW public \in [Keys!Kid -> made \cup {NoKey}],
             NEW private \in [Keys!Kid -> made \cup {NoKey, KeyFile}],
             Keys!Deploy(public, private)
      PROVE  CredentialInv'
  <2>1. /\ public \in [Keys!Kid -> Key \cup {NoKey}]
        /\ private \in [Keys!Kid -> Key \cup {NoKey, KeyFile}]
        /\ file \in Key \cup {NoKey}
    BY DEF CredentialInv, KeysType
  <2>2. /\ slot' = public /\ keyPath' = private /\ file' = file
        /\ quit' = Keys!QuitAfter(private, file)
        /\ made' \subseteq Key /\ UNCHANGED <<time, credentials>>
    BY <1>4 DEF Keys!Deploy, CredentialInv, KeysType
  <2>3. \A x \in (Range(slot) \ Range(public)) \ {NoKey} : Keys!Spent(x)
    BY <1>4 DEF Keys!Deploy, Keys!Range, Range
  <2> QED BY <2>1, <2>2, <2>3, MoveKeeps
<1>5. ASSUME Keys!Tick PROVE CredentialInv'
  <2>1. /\ time' = time + 1
        /\ UNCHANGED <<slot, keyPath, file, made, credentials, quit>>
    BY <1>5 DEF Keys!Tick
  <2>2. KeysType' BY <2>1 DEF CredentialInv, KeysType
  <2>3. ASSUME NEW tok \in credentials
        PROVE  /\ tok.exp \in Nat
               /\ tok.issuer = "endpoint" => tok.exp <= time' + MaxTtl
               /\ Live(tok)' => Covered(tok)'
    <3>1. Covered(tok)' = Covered(tok)
      BY <2>1 DEF Covered, Keys!Signing, Keys!SigningKey
    <3>2. time \in Nat /\ tok.exp \in Nat BY DEF CredentialInv, KeysType
    <3>3. Live(tok)' => Live(tok) BY <2>1, <3>2 DEF Live
    <3> QED BY <2>1, <3>1, <3>2, <3>3, PartsAssumption DEF CredentialInv
  <2> QED BY <2>1, <2>2, <2>3 DEF CredentialInv
<1>6. CASE UNCHANGED keyVars
  <2>1. UNCHANGED <<time, slot, keyPath, file, made, credentials, quit>>
    BY <1>6 DEF keyVars
  <2>2. KeysType' BY <2>1 DEF CredentialInv, KeysType
  <2>3. \A tok \in credentials : Live(tok)' = Live(tok) /\ Covered(tok)' = Covered(tok)
    BY <2>1 DEF Live, Covered, Keys!Signing, Keys!SigningKey
  <2> QED BY <2>1, <2>2, <2>3 DEF CredentialInv
<1> QED BY <1>1, <1>2, <1>3, <1>4, <1>5, <1>6 DEF Keys!Next

\* A credential from the endpoint that verified when it was issued verifies until it
\* expires, through every rotation that keeps a key deployed for the cap after it last
\* signed: the kid orders the keys verify_jwt tries and excludes none.
THEOREM RotationKeepsCredentials == PartsSpec => []CredentialSurvivesRotation
<1>1. ASSUME PartsInit PROVE CredentialInv
  <2>1. Keys!Init BY <1>1 DEF PartsInit
  <2> QED BY <2>1 DEF Keys!Init, CredentialInv, KeysType
<1>2. CredentialInv /\ [PartsNext]_partsVars => CredentialInv'
  <2> SUFFICES ASSUME CredentialInv, [PartsNext]_partsVars PROVE CredentialInv'
    OBVIOUS
  <2>1. Keys!Next \/ UNCHANGED keyVars BY DEF PartsNext, partsVars
  <2> QED BY <2>1, CredentialStep
<1>3. CredentialInv => CredentialSurvivesRotation
  BY DEF CredentialInv, CredentialSurvivesRotation, Keys!CredentialSurvivesRotation,
         Keys!DecodeWithAny, Keys!Decodes, Covered, Live
<1> QED BY <1>1, <1>2, <1>3, PTL DEF PartsSpec

-----------------------------------------------------------------------------
(***************************************************************************)
(* The sandbox: the log streams                                            *)
(***************************************************************************)

\* A sequence of consecutive lines that ends with the last one written.
EndsAt(s, n) == s \in Seq(Int) /\ \A i \in 1..Len(s) : s[i] = n - Len(s) + i

Shown(v) == (v.got \o v.replay) \o v.queue

LogInv ==
    /\ lines \in Nat
    /\ EndsAt(buffer, lines)
    /\ viewer \in [open : BOOLEAN, replay : Seq(Int), queue : Seq(Int), got : Seq(Int)]
    /\ EndsAt(Shown(viewer), lines)
    /\ ~viewer.open => viewer.got = <<>> /\ viewer.replay = <<>> /\ viewer.queue = <<>>

\* One more line.
LEMMA EndsAppend ==
    ASSUME NEW n \in Nat, NEW s, EndsAt(s, n)
    PROVE  EndsAt(Append(s, n + 1), n + 1)
<1>1. s \in Seq(Int) /\ Len(s) \in Nat /\ n + 1 \in Int BY LenProperties DEF EndsAt
<1>2. /\ Append(s, n + 1) \in Seq(Int) /\ Len(Append(s, n + 1)) = Len(s) + 1
      /\ \A i \in 1..Len(s) : Append(s, n + 1)[i] = s[i]
      /\ Append(s, n + 1)[Len(s) + 1] = n + 1
  BY <1>1, AppendProperties
<1> QED BY <1>1, <1>2 DEF EndsAt

\* The last few lines of a run of lines.
LEMMA EndsLast ==
    ASSUME NEW n \in Nat, NEW s, EndsAt(s, n), NEW k \in Nat
    PROVE  EndsAt(Box!LastOf(s, k), n)
<1> DEFINE m == IF Len(s) > k THEN Len(s) - k + 1 ELSE 1
           t == SubSeq(s, m, Len(s))
<1>1. s \in Seq(Int) /\ Len(s) \in Nat /\ \A i \in 1..Len(s) : s[i] \in Int
  BY LenProperties, ElementOfSeq DEF EndsAt
<1>2. m \in 1..Len(s) + 1 BY <1>1
<1> HIDE DEF m
<1>3. m \in Int /\ Len(s) \in Int /\ \A i \in m..Len(s) : s[i] \in Int BY <1>1, <1>2
<1>4. /\ t \in Seq(Int)
      /\ Len(t) = IF m <= Len(s) THEN Len(s) - m + 1 ELSE 0
      /\ \A i \in 1..Len(s) - m + 1 : t[i] = s[m + i - 1]
  BY <1>3, SubSeqProperties
<1>5. Box!LastOf(s, k) = t BY DEF Box!LastOf, m
<1> HIDE DEF t
<1>6. Len(t) = Len(s) - m + 1 BY <1>1, <1>2, <1>4
<1>7. ASSUME NEW i \in 1..Len(t) PROVE t[i] = n - Len(t) + i
  <2>1. m + i - 1 \in 1..Len(s) BY <1>1, <1>2, <1>6
  <2>2. t[i] = s[m + i - 1] BY <1>4, <1>6
  <2>3. s[m + i - 1] = n - Len(s) + (m + i - 1) BY <2>1 DEF EndsAt
  <2> QED BY <1>1, <1>2, <1>6, <2>2, <2>3
<1> QED BY <1>4, <1>5, <1>7 DEF EndsAt

LEMMA Regroup ==
    ASSUME NEW a \in Seq(Int), NEW b \in Seq(Int), NEW c \in Seq(Int)
    PROVE  (a \o b) \o c = a \o (b \o c)
BY ConcatAssociative

\* A line put at the end of the second of two sequences is put at the end of both.
LEMMA JoinAppend ==
    ASSUME NEW a \in Seq(Int), NEW b \in Seq(Int), NEW x \in Int
    PROVE  a \o Append(b, x) = Append(a \o b, x)
<1> DEFINE v == <<x>>
<1>1. Append(b, x) = b \o v /\ v \in Seq(Int) BY AppendIsConcat
<1>2. a \o b \in Seq(Int) BY ConcatProperties
<1>3. Append(a \o b, x) = (a \o b) \o v BY <1>2, AppendIsConcat
<1> HIDE DEF v
<1>4. (a \o b) \o v = a \o (b \o v) BY <1>1, Regroup
<1> QED BY <1>1, <1>3, <1>4

\* A line moved from the head of a sequence to the end of the one before it.
LEMMA JoinHead ==
    ASSUME NEW a \in Seq(Int), NEW b \in Seq(Int), b # <<>>
    PROVE  /\ Append(a, Head(b)) \in Seq(Int) /\ Tail(b) \in Seq(Int)
           /\ Append(a, Head(b)) \o Tail(b) = a \o b
<1> DEFINE v == <<Head(b)>>
<1>1. Head(b) \in Int /\ Tail(b) \in Seq(Int) BY HeadTailProperties
<1>2. Append(a, Head(b)) \in Seq(Int) BY <1>1, AppendProperties
<1>3. Append(a, Head(b)) = a \o v /\ v \in Seq(Int) BY <1>1, AppendIsConcat
<1>4. v \o Tail(b) = b
  <2>1. Len(b) \in Nat \ {0} BY EmptySeq
  <2>2. 1 \in 1..Len(b) /\ Len(b) \in 1..Len(b) BY <2>1
  <2>3. SubSeq(b, 1, Len(b)) = <<b[1]>> \o SubSeq(b, 1 + 1, Len(b))
    BY <2>2, SubSeqRecursiveFirst
  <2>4. SubSeq(b, 1, Len(b)) = b BY SubSeqFull
  <2>5. Tail(b) = SubSeq(b, 2, Len(b)) BY TailIsSubSeq
  <2>6. Head(b) = b[1] BY <2>1
  <2> QED BY <2>3, <2>4, <2>5, <2>6
<1> DEFINE w == Tail(b)
<1>5. a \in Seq(Int) /\ v \in Seq(Int) /\ w \in Seq(Int) BY <1>1, <1>3
<1> HIDE DEF v, w
<1>6. (a \o v) \o w = a \o (v \o w) BY <1>5, Regroup
<1> QED BY <1>1, <1>2, <1>3, <1>4, <1>6 DEF w

\* The same run of lines shown is the same invariant.
LEMMA LogKept ==
    ASSUME LogInv, UNCHANGED <<lines, buffer>>,
           viewer' \in [open : BOOLEAN, replay : Seq(Int), queue : Seq(Int), got : Seq(Int)],
           viewer'.open, Shown(viewer') = Shown(viewer)
    PROVE  LogInv'
<1>1. Shown(viewer)' = Shown(viewer') BY DEF Shown
<1> QED BY <1>1 DEF LogInv, EndsAt

LEMMA LogStep ==
    ASSUME LogInv, Box!Next \/ UNCHANGED boxVars
    PROVE  LogInv'
<1>1. CASE UNCHANGED <<lines, buffer, viewer>> BY <1>1 DEF LogInv, EndsAt, Shown
<1> DEFINE g == viewer.got
           r == viewer.replay
           q == viewer.queue
<1>2. /\ lines \in Nat /\ EndsAt(buffer, lines) /\ EndsAt((g \o r) \o q, lines)
      /\ g \in Seq(Int) /\ r \in Seq(Int) /\ q \in Seq(Int) /\ viewer.open \in BOOLEAN
      /\ viewer = [open |-> viewer.open, replay |-> r, queue |-> q, got |-> g]
      /\ ~viewer.open => g = <<>> /\ r = <<>> /\ q = <<>>
  BY DEF LogInv, Shown
<1>3. g \o r \in Seq(Int) BY <1>2, ConcatProperties
<1>4. CASE Box!AddLog
  <2>1. /\ lines' = lines + 1
        /\ buffer' = Box!LastOf(Append(buffer, lines + 1), LogCapacity)
        /\ viewer' = [viewer EXCEPT !.queue = Box!Queued(lines + 1)]
    BY <1>4 DEF Box!AddLog
  <2>2. EndsAt(Append(buffer, lines + 1), lines + 1) BY <1>2, EndsAppend
  <2> DEFINE b == Append(buffer, lines + 1)
  <2>0. lines + 1 \in Nat /\ lines + 1 \in Int /\ LogCapacity \in Nat
    BY <1>2, PartsAssumption
  <2> HIDE DEF b
  <2>3. EndsAt(Box!LastOf(b, LogCapacity), lines + 1)
    BY <2>0, <2>2, EndsLast DEF b
  <2>7. lines' \in Nat /\ EndsAt(buffer, lines)' BY <2>0, <2>1, <2>3 DEF b, EndsAt
  <2> HIDE DEF g, r, q
  <2>4. /\ viewer'.got = g /\ viewer'.replay = r /\ viewer'.open = viewer.open
        /\ viewer'.queue = Box!Queued(lines + 1)
    BY <1>2, <2>1
  <2>5. CASE viewer.open
    <3>1. viewer'.queue = Append(q, lines + 1) BY <2>4, <2>5 DEF Box!Queued, q
    <3>2. Append(q, lines + 1) \in Seq(Int) BY <1>2, AppendProperties
    <3> DEFINE a == g \o r
    <3>0. a \in Seq(Int) BY <1>3
    <3> HIDE DEF a
    <3>3. a \o Append(q, lines + 1) = Append(a \o q, lines + 1)
      BY <1>2, <2>0, <3>0, JoinAppend
    <3>4. EndsAt(Append((g \o r) \o q, lines + 1), lines + 1) BY <1>2, EndsAppend
    <3>5. viewer' = [open |-> TRUE, replay |-> r, queue |-> Append(q, lines + 1), got |-> g]
      BY <1>2, <2>1, <2>5, <3>1 DEF Box!Queued, g, r, q
    <3>6. EndsAt(Shown(viewer)', lines') BY <2>1, <2>4, <3>1, <3>3, <3>4 DEF Shown, a
    <3>7. viewer' \in [open : BOOLEAN, replay : Seq(Int), queue : Seq(Int), got : Seq(Int)]
      BY <1>2, <3>2, <3>5
    <3>8. viewer'.open BY <2>4, <2>5
    <3> QED BY <2>7, <3>6, <3>7, <3>8 DEF LogInv
  <2>6. CASE ~viewer.open
    <3>2. viewer' = viewer BY <1>2, <2>1, <2>6 DEF Box!Queued, g, r, q
    <3>3. g = <<>> /\ r = <<>> /\ q = <<>> BY <1>2, <2>6
    <3>4. (<<>> \o <<>>) \o <<>> = <<>>
      <4>1. <<>> \in Seq(Int) BY EmptySeq
      <4> QED BY <4>1, ConcatEmptySeq
    <3>5. Shown(viewer)' = <<>> BY <3>2, <3>3, <3>4 DEF Shown, g, r, q
    <3>6. EndsAt(Shown(viewer)', lines') BY <3>5, EmptySeq DEF EndsAt
    <3>7. viewer' \in [open : BOOLEAN, replay : Seq(Int), queue : Seq(Int), got : Seq(Int)]
      BY <3>2 DEF LogInv
    <3>8. viewer'.got = <<>> /\ viewer'.replay = <<>> /\ viewer'.queue = <<>>
      BY <3>2, <3>3 DEF g, r, q
    <3> QED BY <2>7, <3>6, <3>7, <3>8 DEF LogInv
  <2> QED BY <2>5, <2>6
<1>5. CASE Box!OpenStream
  <2>1. /\ UNCHANGED <<lines, buffer>>
        /\ viewer' = [open |-> TRUE, replay |-> Box!LastOf(buffer, LogLimit),
                      queue |-> <<>>, got |-> <<>>]
    BY <1>5 DEF Box!OpenStream
  <2>2. EndsAt(Box!LastOf(buffer, LogLimit), lines) BY <1>2, EndsLast, PartsAssumption
  <2>3. Box!LastOf(buffer, LogLimit) \in Seq(Int) /\ <<>> \in Seq(Int)
    BY <2>2, EmptySeq DEF EndsAt
  <2>4. (<<>> \o Box!LastOf(buffer, LogLimit)) \o <<>> = Box!LastOf(buffer, LogLimit)
    BY <2>3, ConcatEmptySeq
  <2>5. Shown(viewer)' = Box!LastOf(buffer, LogLimit) BY <2>1, <2>4 DEF Shown
  <2>6. viewer' \in [open : BOOLEAN, replay : Seq(Int), queue : Seq(Int), got : Seq(Int)]
    BY <2>1, <2>3
  <2> QED BY <1>2, <2>1, <2>2, <2>5, <2>6 DEF LogInv, EndsAt
<1>6. CASE Box!Yield
  <2>1. viewer.open /\ UNCHANGED <<lines, buffer>> BY <1>6 DEF Box!Yield
  <2>2. CASE /\ r # <<>>
             /\ viewer' = [viewer EXCEPT !.replay = Tail(@),
                                         !.got = Append(@, Head(viewer.replay))]
    <3>1. viewer' = [open |-> TRUE, replay |-> Tail(r), queue |-> q,
                     got |-> Append(g, Head(r))]
      BY <1>2, <2>1, <2>2
    <3>2. /\ Append(g, Head(r)) \in Seq(Int) /\ Tail(r) \in Seq(Int)
          /\ Append(g, Head(r)) \o Tail(r) = g \o r
      BY <1>2, <2>2, JoinHead
    <3>3. Shown(viewer') = Shown(viewer) BY <3>1, <3>2 DEF Shown
    <3> QED BY <1>2, <2>1, <3>1, <3>2, <3>3, LogKept
  <2>3. CASE /\ r = <<>> /\ q # <<>>
             /\ viewer' = [viewer EXCEPT !.queue = Tail(@),
                                         !.got = Append(@, Head(viewer.queue))]
    <3>1. viewer' = [open |-> TRUE, replay |-> <<>>, queue |-> Tail(q),
                     got |-> Append(g, Head(q))]
      BY <1>2, <2>1, <2>3
    <3>2. /\ Append(g, Head(q)) \in Seq(Int) /\ Tail(q) \in Seq(Int)
          /\ Append(g, Head(q)) \o Tail(q) = g \o q
      BY <1>2, <2>3, JoinHead
    <3>3. g \o r = g /\ Append(g, Head(q)) \o <<>> = Append(g, Head(q))
      BY <1>2, <2>3, <3>2, ConcatEmptySeq
    <3>4. Shown(viewer') = Shown(viewer) BY <3>1, <3>2, <3>3 DEF Shown
    <3>5. <<>> \in Seq(Int) BY EmptySeq
    <3> QED BY <1>2, <2>1, <3>1, <3>2, <3>4, <3>5, LogKept
  <2> QED BY <1>6, <2>2, <2>3 DEF Box!Yield
<1>7. CASE Box!CloseStream
  <2>1. /\ UNCHANGED <<lines, buffer>>
        /\ viewer' = [open |-> FALSE, replay |-> <<>>, queue |-> <<>>, got |-> <<>>]
    BY <1>7 DEF Box!CloseStream
  <2>2. <<>> \in Seq(Int) /\ Len(<<>>) = 0 BY EmptySeq
  <2>3. (<<>> \o <<>>) \o <<>> = <<>> BY <2>2, ConcatEmptySeq
  <2>4. Shown(viewer)' = <<>> BY <2>1, <2>3 DEF Shown
  <2>5. viewer' \in [open : BOOLEAN, replay : Seq(Int), queue : Seq(Int), got : Seq(Int)]
    BY <2>1, <2>2
  <2> QED BY <1>2, <2>1, <2>2, <2>4, <2>5 DEF LogInv, EndsAt
<1> HIDE DEF g, r, q
<1>8. ASSUME NEW t \in Task, NEW b \in Branch,
             Box!CreateWorktree(t, b) \/ Box!CleanupWorktree(t, b) \/ Box!ExecuteInSandbox(t, b)
      PROVE  UNCHANGED <<lines, buffer, viewer>>
  BY <1>8 DEF Box!CreateWorktree, Box!CleanupWorktree, Box!ExecuteInSandbox, Box!Begin,
              Box!logVars
<1>9. ASSUME NEW t \in Task,
             \/ Box!Remove(t) \/ Box!Prune(t) \/ Box!CheckRef(t) \/ Box!Added(t)
             \/ Box!Record(t) \/ Box!AddRefused(t) \/ Box!AddFails(t)
             \/ \E deleted \in BOOLEAN : Box!Delete(t, deleted)
      PROVE  UNCHANGED <<lines, buffer, viewer>>
  BY <1>9 DEF Box!Remove, Box!Prune, Box!CheckRef, Box!Added, Box!Record, Box!AddRefused,
              Box!AddFails, Box!Delete, Box!logVars
<1>10. ASSUME NEW t \in Task, NEW printed \in BOOLEAN, Box!ExecutionEnds(t, printed)
       PROVE  Box!AddLog \/ UNCHANGED <<lines, buffer, viewer>>
  BY <1>10 DEF Box!ExecutionEnds, Box!logVars
<1>11. ASSUME UNCHANGED boxVars PROVE UNCHANGED <<lines, buffer, viewer>>
  BY <1>11 DEF boxVars
<1> QED BY <1>1, <1>4, <1>5, <1>6, <1>7, <1>8, <1>9, <1>10, <1>11 DEF Box!Next

\* What a log stream has shown, replays and has queued is one run of lines without a
\* gap or a repeat up to the last line written, whatever is logged while it replays.
THEOREM StreamsAreContiguous == PartsSpec => []StreamIsContiguous
<1>1. ASSUME PartsInit PROVE LogInv
  <2>1. /\ lines = 0 /\ buffer = <<>>
        /\ viewer = [open |-> FALSE, replay |-> <<>>, queue |-> <<>>, got |-> <<>>]
    BY <1>1 DEF PartsInit, Box!Init
  <2>2. <<>> \in Seq(Int) /\ Len(<<>>) = 0 BY EmptySeq
  <2>3. (<<>> \o <<>>) \o <<>> = <<>> BY <2>2, ConcatEmptySeq
  <2>4. Shown(viewer) = <<>> BY <2>1, <2>3 DEF Shown
  <2>5. viewer \in [open : BOOLEAN, replay : Seq(Int), queue : Seq(Int), got : Seq(Int)]
    BY <2>1, <2>2
  <2> QED BY <2>1, <2>2, <2>4, <2>5 DEF LogInv, EndsAt
<1>2. LogInv /\ [PartsNext]_partsVars => LogInv'
  <2> SUFFICES ASSUME LogInv, [PartsNext]_partsVars PROVE LogInv'
    OBVIOUS
  <2>1. Box!Next \/ UNCHANGED boxVars BY DEF PartsNext, partsVars
  <2> QED BY <2>1, LogStep
<1>3. ASSUME LogInv PROVE StreamIsContiguous
  <2>1. EndsAt(Shown(viewer), lines) BY <1>3 DEF LogInv
  <2>2. DOMAIN Shown(viewer) = 1..Len(Shown(viewer)) BY <2>1, LenProperties DEF EndsAt
  <2>3. \A i \in DOMAIN Shown(viewer) : Shown(viewer)[i] = lines - Len(Shown(viewer)) + i
    BY <2>1, <2>2 DEF EndsAt
  <2> QED BY <2>3 DEF StreamIsContiguous, Box!StreamIsContiguous, Shown
<1> QED BY <1>1, <1>2, <1>3, PTL DEF PartsSpec

-----------------------------------------------------------------------------
(***************************************************************************)
(* The sandbox: the worktrees                                              *)
(***************************************************************************)

Cleaning == {"remove", "prune", "delete"}
Adding == {"check", "add", "prune again", "retry"}

TaskState == [pc : {"idle", "running", "added"} \cup Cleaning \cup Adding,
              branch : Branch \cup {Nobody}, then : {"nothing", "create"}, fresh : BOOLEAN]

\* Two tasks that change one directory are on record as mixed.  Where nobody mixed
\* and no name is shared, a task in the middle of adding its branch knows that the
\* branch is not recorded, and one that has added it finds its files in place.
BoxType ==
    /\ task \in [Task -> TaskState]
    /\ \A t \in Task : task[t].pc # "idle" => task[t].branch \in Branch
    /\ disk \in [Box!Directory -> Branch \cup {Nobody}]
    /\ worktrees \subseteq Branch

MixedOnRecord ==
    \A t, u \in Task :
        t # u /\ Box!Changes(t) /\ Box!Changes(u) /\ Box!Here(t) = Box!Here(u)
            => Box!Here(t) \in mixed

OwnOrBusy ==
    \A b \in worktrees :
        \/ disk[MCDir[b]] = b
        \/ MCDir[b] \in Box!Shared \cup mixed
        \/ \E t \in Task : Box!Changes(t) /\ Box!Here(t) = MCDir[b]

AddingKnows(t) ==
    Box!Changes(t) /\ Box!Here(t) \notin Box!Shared \cup mixed =>
        /\ task[t].pc \in Adding => task[t].branch \notin worktrees
        /\ task[t].pc = "added" => disk[Box!Here(t)] = task[t].branch

BoxInv ==
    /\ BoxType /\ MixedOnRecord /\ OwnOrBusy
    /\ \A t \in Task : AddingKnows(t)

LEMMA Directories ==
    /\ \A b \in Branch : MCDir[b] \in Box!Directory
    /\ \A b, c \in Branch : MCDir[b] = MCDir[c] /\ b # c => MCDir[b] \in Box!Shared
BY DEF Box!Directory, Box!Shared

\* What a task in an operation may do: change the files of its own directory and the
\* record of its own branch, and finish only when the two agree.
LEMMA TaskMoves ==
    ASSUME BoxInv, NEW t \in Task, NEW n \in TaskState,
           task' = [task EXCEPT ![t] = n], task[t].pc # "idle",
           n.pc = "idle" \/ n.branch = task[t].branch,
           n.pc # "running", n.pc # "idle" => Box!Changes(t),
           mixed' = mixed,
           disk' \in [Box!Directory -> Branch \cup {Nobody}],
           \A d \in Box!Directory : d # Box!Here(t) => disk'[d] = disk[d],
           worktrees' \subseteq Branch,
           \A c \in Branch : c # task[t].branch => (c \in worktrees' <=> c \in worktrees),
           Box!Changes(t) \/ UNCHANGED <<disk, worktrees>>,
           Box!Here(t) \notin Box!Shared \cup mixed =>
               /\ n.pc \in Adding => task[t].branch \notin worktrees'
               /\ n.pc = "added" => disk'[Box!Here(t)] = task[t].branch
               /\ n.pc = "idle" /\ Box!Changes(t) /\ task[t].branch \in worktrees'
                      => disk'[Box!Here(t)] = task[t].branch
    PROVE  BoxInv'
<1> DEFINE b == task[t].branch
           d == MCDir[b]
<1>1. /\ b \in Branch /\ d \in Box!Directory /\ Box!Here(t) = d
  BY Directories DEF BoxInv, BoxType, Box!Here
<1>2. /\ \A u \in Task : u # t => task'[u] = task[u]
      /\ task'[t] = n
  BY DEF BoxInv, BoxType
<1>3. BoxType'
  <2>1. task' \in [Task -> TaskState] BY DEF BoxInv, BoxType
  <2>2. ASSUME NEW u \in Task, task'[u].pc # "idle" PROVE task'[u].branch \in Branch
    BY <1>1, <1>2, <2>2 DEF BoxInv, BoxType
  <2> QED BY <2>1, <2>2 DEF BoxType, Box!Directory
<1>4. \A u \in Task : u # t => Box!Changes(u)' = Box!Changes(u) /\ Box!Here(u)' = Box!Here(u)
  BY <1>2 DEF Box!Changes, Box!Here
<1>5. Box!Changes(t)' = (n.pc \notin {"idle", "running"}) BY <1>2 DEF Box!Changes
<1>6. Box!Changes(t)' => Box!Changes(t) /\ Box!Here(t)' = d
  BY <1>1, <1>2, <1>5 DEF Box!Here
<1>7. Box!Shared' = Box!Shared BY DEF Box!Shared, Box!Directory
<1>8. MixedOnRecord' BY <1>1, <1>4, <1>6 DEF MixedOnRecord, BoxInv
<1>9. OwnOrBusy'
  <2> SUFFICES ASSUME NEW c \in worktrees', MCDir[c] \notin Box!Shared \cup mixed
               PROVE  \/ disk'[MCDir[c]] = c
                      \/ \E u \in Task : Box!Changes(u)' /\ Box!Here(u)' = MCDir[c]
    BY <1>7 DEF OwnOrBusy
  <2>1. CASE c = b
    <3>1. CASE Box!Changes(t)' BY <2>1, <3>1, <1>6
    <3>2. CASE ~Box!Changes(t)' /\ Box!Changes(t)
      <4>1. n.pc = "idle" BY <3>2, <1>5
      <4> QED BY <2>1, <3>2, <4>1, <1>1
    <3>3. CASE ~Box!Changes(t)
      <4>1. UNCHANGED <<disk, worktrees>> BY <3>3
      <4>2. \/ disk[d] = b
            \/ \E u \in Task : Box!Changes(u) /\ Box!Here(u) = d
        BY <2>1, <4>1 DEF BoxInv, OwnOrBusy
      <4> QED BY <2>1, <3>3, <4>1, <4>2, <1>4
    <3> QED BY <3>1, <3>2, <3>3
  <2>2. CASE c # b
    <3>1. c \in worktrees /\ c \in Branch BY <2>2, <1>1
    <3>2. MCDir[c] # d /\ MCDir[c] \in Box!Directory BY <2>2, <3>1, <1>1, Directories
    <3>3. disk'[MCDir[c]] = disk[MCDir[c]] BY <3>2, <1>1
    <3>4. \/ disk[MCDir[c]] = c
          \/ \E u \in Task : Box!Changes(u) /\ Box!Here(u) = MCDir[c]
      BY <3>1 DEF BoxInv, OwnOrBusy
    <3> QED BY <3>2, <3>3, <3>4, <1>1, <1>4
  <2> QED BY <2>1, <2>2
<1>10. ASSUME NEW u \in Task PROVE AddingKnows(u)'
  <2>1. CASE u = t
    BY <2>1, <1>1, <1>2, <1>5, <1>6, <1>7 DEF AddingKnows
  <2>2. CASE u # t
    <3> SUFFICES ASSUME Box!Changes(u), Box!Here(u) \notin Box!Shared \cup mixed
                 PROVE  /\ task[u].pc \in Adding => task[u].branch \notin worktrees'
                        /\ task[u].pc = "added" => disk'[Box!Here(u)] = task[u].branch
      BY <2>2, <1>2, <1>4, <1>7 DEF AddingKnows
    <3>1. /\ task[u].pc \in Adding => task[u].branch \notin worktrees
          /\ task[u].pc = "added" => disk[Box!Here(u)] = task[u].branch
      BY DEF BoxInv, AddingKnows
    <3>2. /\ task[u].branch \in Branch /\ Box!Here(u) = MCDir[task[u].branch]
          /\ Box!Here(u) \in Box!Directory
      BY Directories DEF BoxInv, BoxType, Box!Here, Box!Changes
    <3>3. CASE Box!Changes(t)
      <4>1. Box!Here(u) # d BY <2>2, <3>3, <1>1 DEF BoxInv, MixedOnRecord
      <4> QED BY <3>1, <3>2, <4>1, <1>1
    <3>4. CASE ~Box!Changes(t) BY <3>1, <3>4
    <3> QED BY <3>3, <3>4
  <2> QED BY <2>1, <2>2
<1> QED BY <1>3, <1>8, <1>9, <1>10 DEF BoxInv

\* An operation begins: whoever is in its directory already is on record from now on.
LEMMA TaskBegins ==
    ASSUME BoxInv, NEW t \in Task, NEW b \in Branch,
           NEW pc \in {"remove", "check", "running"}, NEW then \in {"nothing", "create"},
           pc = "check" => disk[MCDir[b]] = Nobody,
           Box!Begin(t, b, pc, then)
    PROVE  BoxInv'
<1> DEFINE n == [pc |-> pc, branch |-> b, then |-> then, fresh |-> FALSE]
           d == MCDir[b]
<1>1. /\ task[t] = Box!Idle /\ task' = [task EXCEPT ![t] = n]
      /\ mixed' = IF pc # "running" /\ \E u \in Task \ {t} : Box!Changes(u) /\ Box!Here(u) = d
                  THEN mixed \cup {d} ELSE mixed
      /\ UNCHANGED <<worktrees, disk>>
  BY DEF Box!Begin, Box!gitVars
<1>2. n \in TaskState /\ n.pc = pc /\ n.branch = b BY DEF TaskState, Cleaning, Adding
<1> HIDE DEF n
<1>3. /\ \A u \in Task : u # t => task'[u] = task[u]
      /\ task'[t] = n
  BY <1>1 DEF BoxInv, BoxType
<1>4. BoxType'
  <2>1. task' \in [Task -> TaskState] BY <1>1, <1>2 DEF BoxInv, BoxType
  <2>2. ASSUME NEW u \in Task, task'[u].pc # "idle" PROVE task'[u].branch \in Branch
    BY <1>2, <1>3, <2>2 DEF BoxInv, BoxType
  <2> QED BY <1>1, <2>1, <2>2 DEF BoxInv, BoxType, Box!Directory
<1>5. \A u \in Task : u # t => Box!Changes(u)' = Box!Changes(u) /\ Box!Here(u)' = Box!Here(u)
  BY <1>3 DEF Box!Changes, Box!Here
<1>6. /\ Box!Changes(t)' = (pc # "running") /\ Box!Here(t)' = d
      /\ ~Box!Changes(t)
  BY <1>1, <1>2, <1>3 DEF Box!Changes, Box!Here, Box!Idle
<1>7. Box!Shared' = Box!Shared BY DEF Box!Shared, Box!Directory
<1>8. mixed \subseteq mixed' BY <1>1
<1>9. \A u \in Task : u # t /\ pc # "running" /\ Box!Changes(u) /\ Box!Here(u) = d => d \in mixed'
  BY <1>1
<1>10. MixedOnRecord' BY <1>5, <1>6, <1>8, <1>9 DEF MixedOnRecord, BoxInv
<1>11. OwnOrBusy'
  <2> SUFFICES ASSUME NEW c \in worktrees, MCDir[c] \notin Box!Shared \cup mixed'
               PROVE  \/ disk[MCDir[c]] = c
                      \/ \E u \in Task : Box!Changes(u)' /\ Box!Here(u)' = MCDir[c]
    BY <1>1, <1>7 DEF OwnOrBusy
  <2>1. \/ disk[MCDir[c]] = c
        \/ \E u \in Task : Box!Changes(u) /\ Box!Here(u) = MCDir[c]
    BY <1>8 DEF BoxInv, OwnOrBusy
  <2> QED BY <2>1, <1>5, <1>6
<1>12. ASSUME NEW u \in Task PROVE AddingKnows(u)'
  <2>1. CASE u # t
    <3>1. AddingKnows(u) BY DEF BoxInv
    <3> QED BY <2>1, <3>1, <1>1, <1>3, <1>5, <1>7, <1>8 DEF AddingKnows
  <2>2. CASE u = t
    <3>1. ASSUME pc = "check", d \notin Box!Shared \cup mixed', b \in worktrees PROVE FALSE
      <4>1. disk[d] # b BY <3>1, PartsAssumption
      <4>2. \E v \in Task : Box!Changes(v) /\ Box!Here(v) = d
        BY <3>1, <4>1, <1>8 DEF BoxInv, OwnOrBusy
      <4> QED BY <3>1, <4>2, <1>6, <1>9
    <3>2. /\ task'[t].pc = pc /\ task'[t].branch = b /\ pc # "added"
          /\ pc \in Adding => pc = "check"
      BY <1>2, <1>3 DEF Adding
    <3>3. Box!Here(t)' = d /\ worktrees' = worktrees BY <1>1, <1>6
    <3> HIDE DEF d
    <3> QED BY <2>2, <3>1, <3>2, <3>3, <1>7 DEF AddingKnows
  <2> QED BY <2>1, <2>2
<1> QED BY <1>4, <1>10, <1>11, <1>12 DEF BoxInv

LEMMA BoxStep ==
    ASSUME BoxInv, Box!Next \/ UNCHANGED boxVars
    PROVE  BoxInv'
<1>1. ASSUME NEW t \in Task, NEW b \in Branch,
             Box!CreateWorktree(t, b) \/ Box!CleanupWorktree(t, b) \/ Box!ExecuteInSandbox(t, b)
      PROVE  BoxInv'
  BY <1>1, TaskBegins
     DEF Box!CreateWorktree, Box!CleanupWorktree, Box!ExecuteInSandbox
<1>2. ASSUME NEW t \in Task, task[t].pc # "idle"
      PROVE  /\ task[t] \in TaskState /\ Box!Here(t) \in Box!Directory
             /\ task[t].branch \in Branch /\ Box!Here(t) = MCDir[task[t].branch]
             /\ AddingKnows(t)
             /\ disk \in [Box!Directory -> Branch \cup {Nobody}] /\ worktrees \subseteq Branch
             /\ task \in [Task -> TaskState]
  BY <1>2, Directories DEF BoxInv, BoxType, Box!Here
<1>3. ASSUME NEW t \in Task, Box!Remove(t) PROVE BoxInv'
  <2> DEFINE n == [task[t] EXCEPT !.pc = "prune"]
  <2>1. /\ task[t].pc = "remove" /\ task' = [task EXCEPT ![t].pc = "prune"]
        /\ UNCHANGED <<worktrees, mixed>>
        /\ disk' = IF listed[Box!Here(t)] # Nobody THEN [disk EXCEPT ![Box!Here(t)] = Nobody]
                   ELSE disk
    BY <1>3 DEF Box!Remove, Box!Goto
  <2>2. n \in TaskState /\ n.pc = "prune" /\ n.branch = task[t].branch
    BY <1>2, <2>1 DEF TaskState, Cleaning
  <2>3. task' = [task EXCEPT ![t] = n] BY <2>1
  <2>4. Box!Changes(t) BY <2>1 DEF Box!Changes
  <2>5. /\ disk' \in [Box!Directory -> Branch \cup {Nobody}]
        /\ \A d \in Box!Directory : d # Box!Here(t) => disk'[d] = disk[d]
    BY <1>2, <2>1
  <2> HIDE DEF n
  <2> QED BY <1>2, <2>1, <2>2, <2>3, <2>4, <2>5, TaskMoves DEF Adding
<1>4. ASSUME NEW t \in Task, Box!Prune(t) PROVE BoxInv'
  <2> DEFINE pc == IF task[t].pc = "prune" THEN "delete" ELSE "retry"
             n == [task[t] EXCEPT !.pc = pc]
  <2>1. /\ task[t].pc \in {"prune", "prune again"} /\ task' = [task EXCEPT ![t].pc = pc]
        /\ UNCHANGED <<worktrees, disk, mixed>>
    BY <1>4 DEF Box!Prune, Box!Goto
  <2>2. n \in TaskState /\ n.pc = pc /\ n.branch = task[t].branch
    BY <1>2, <2>1 DEF TaskState, Cleaning, Adding
  <2>3. task' = [task EXCEPT ![t] = n] BY <2>1
  <2>4. Box!Changes(t) BY <2>1 DEF Box!Changes
  <2>5. n.pc \in Adding => task[t].pc \in Adding
    <3> HIDE DEF n
    <3>1. CASE task[t].pc = "prune" BY <2>2, <3>1 DEF Adding
    <3>2. CASE task[t].pc = "prune again" BY <3>2 DEF Adding
    <3> QED BY <2>1, <3>1, <3>2
  <2>6. n.pc \in {"delete", "retry"} BY <2>2
  <2> HIDE DEF n, pc
  <2> QED BY <1>2, <2>1, <2>2, <2>3, <2>4, <2>5, <2>6, TaskMoves DEF AddingKnows
<1>5. ASSUME NEW t \in Task, NEW deleted \in BOOLEAN, Box!Delete(t, deleted) PROVE BoxInv'
  <2> DEFINE n == IF task[t].then = "create" THEN [task[t] EXCEPT !.pc = "check"] ELSE Box!Idle
  <2>1. /\ task[t].pc = "delete" /\ task' = [task EXCEPT ![t] = n]
        /\ worktrees' = worktrees \ {task[t].branch} /\ mixed' = mixed
        /\ disk' = IF deleted THEN [disk EXCEPT ![Box!Here(t)] = Nobody] ELSE disk
    BY <1>5 DEF Box!Delete, Box!Popped
  <2>2. /\ n \in TaskState /\ n.pc \in {"idle", "check"}
        /\ n.pc # "idle" => n.branch = task[t].branch
    BY <1>2, <2>1 DEF TaskState, Adding, Box!Idle
  <2>3. Box!Changes(t) BY <2>1 DEF Box!Changes
  <2>4. /\ disk' \in [Box!Directory -> Branch \cup {Nobody}]
        /\ \A d \in Box!Directory : d # Box!Here(t) => disk'[d] = disk[d]
    BY <1>2, <2>1
  <2> HIDE DEF n
  <2> QED BY <1>2, <2>1, <2>2, <2>3, <2>4, TaskMoves
<1>6. ASSUME NEW t \in Task, Box!CheckRef(t) PROVE BoxInv'
  <2> DEFINE n == [task[t] EXCEPT !.pc = "add", !.fresh = task[t].branch \notin refs]
  <2>1. /\ task[t].pc = "check"
        /\ task' = [task EXCEPT ![t].pc = "add", ![t].fresh = task[t].branch \notin refs]
        /\ UNCHANGED <<worktrees, disk, mixed>>
    BY <1>6 DEF Box!CheckRef, Box!gitVars
  <2>2. n \in TaskState /\ n.pc = "add" /\ n.branch = task[t].branch
    BY <1>2, <2>1 DEF TaskState, Adding
  <2>3. task' = [task EXCEPT ![t] = n] BY <1>2, <2>1
  <2>4. Box!Changes(t) BY <2>1 DEF Box!Changes
  <2> HIDE DEF n
  <2> QED BY <1>2, <2>1, <2>2, <2>3, <2>4, TaskMoves DEF AddingKnows, Adding
<1>7. ASSUME NEW t \in Task, Box!Added(t) PROVE BoxInv'
  <2> DEFINE n == [task[t] EXCEPT !.pc = "added"]
  <2>1. /\ task[t].pc \in {"add", "retry"} /\ task' = [task EXCEPT ![t].pc = "added"]
        /\ UNCHANGED <<worktrees, mixed>>
        /\ disk' = [disk EXCEPT ![Box!Here(t)] = task[t].branch]
    BY <1>7 DEF Box!Added, Box!Goto
  <2>2. n \in TaskState /\ n.pc = "added" /\ n.branch = task[t].branch
    BY <1>2, <2>1 DEF TaskState, Adding
  <2>3. task' = [task EXCEPT ![t] = n] BY <2>1
  <2>4. Box!Changes(t) BY <2>1 DEF Box!Changes
  <2>5. /\ disk' \in [Box!Directory -> Branch \cup {Nobody}]
        /\ \A d \in Box!Directory : d # Box!Here(t) => disk'[d] = disk[d]
        /\ disk'[Box!Here(t)] = task[t].branch
    BY <1>2, <2>1
  <2> HIDE DEF n
  <2> QED BY <1>2, <2>1, <2>2, <2>3, <2>4, <2>5, TaskMoves DEF Adding
<1>8. ASSUME NEW t \in Task, Box!Record(t) PROVE BoxInv'
  <2> DEFINE n == Box!Idle
  <2>1. /\ task[t].pc = "added" /\ task' = [task EXCEPT ![t] = n]
        /\ UNCHANGED <<disk, mixed>> /\ worktrees' = worktrees \cup {task[t].branch}
    BY <1>8 DEF Box!Record
  <2>2. n \in TaskState /\ n.pc = "idle" BY DEF TaskState, Box!Idle
  <2>3. Box!Changes(t) BY <2>1 DEF Box!Changes
  <2> HIDE DEF n
  <2> QED BY <1>2, <2>1, <2>2, <2>3, TaskMoves DEF AddingKnows, Adding
<1>9. ASSUME NEW t \in Task, Box!AddRefused(t) PROVE BoxInv'
  <2> DEFINE n == IF task[t].pc = "add" THEN [task[t] EXCEPT !.pc = "prune again"]
                  ELSE Box!Idle
  <2>1. /\ task[t].pc \in {"add", "retry"} /\ task' = [task EXCEPT ![t] = n]
        /\ UNCHANGED <<worktrees, disk, mixed>>
    BY <1>9 DEF Box!AddRefused
  <2>2. /\ n \in TaskState /\ n.pc \in {"idle", "prune again"}
        /\ n.pc # "idle" => n.branch = task[t].branch
    BY <1>2, <2>1 DEF TaskState, Adding, Box!Idle
  <2>3. Box!Changes(t) /\ task[t].pc \in Adding BY <2>1 DEF Box!Changes, Adding
  <2> HIDE DEF n
  <2> QED BY <1>2, <2>1, <2>2, <2>3, TaskMoves DEF AddingKnows
<1>10. ASSUME NEW t \in Task, Box!AddFails(t) PROVE BoxInv'
  <2> DEFINE n == Box!Idle
  <2>1. /\ task[t].pc \in {"add", "retry"} /\ task' = [task EXCEPT ![t] = n]
        /\ UNCHANGED <<worktrees, disk, mixed>>
    BY <1>10 DEF Box!AddFails, Box!gitVars
  <2>2. n \in TaskState /\ n.pc = "idle" BY DEF TaskState, Box!Idle
  <2>3. Box!Changes(t) /\ task[t].pc \in Adding BY <2>1 DEF Box!Changes, Adding
  <2> HIDE DEF n
  <2> QED BY <1>2, <2>1, <2>2, <2>3, TaskMoves DEF AddingKnows, Adding
<1>11. ASSUME NEW t \in Task, NEW printed \in BOOLEAN, Box!ExecutionEnds(t, printed)
       PROVE  BoxInv'
  <2> DEFINE n == Box!Idle
  <2>1. /\ task[t].pc = "running" /\ task' = [task EXCEPT ![t] = n]
        /\ UNCHANGED <<worktrees, disk, mixed>>
    BY <1>11 DEF Box!ExecutionEnds, Box!gitVars
  <2>2. n \in TaskState /\ n.pc = "idle" BY DEF TaskState, Box!Idle
  <2>3. ~Box!Changes(t) BY <2>1 DEF Box!Changes
  <2> HIDE DEF n
  <2> QED BY <1>2, <2>1, <2>2, <2>3, TaskMoves DEF Adding
<1>12. ASSUME UNCHANGED <<task, worktrees, disk, mixed>> PROVE BoxInv'
  BY <1>12 DEF BoxInv, BoxType, MixedOnRecord, OwnOrBusy, AddingKnows, Box!Changes, Box!Here,
               Box!Shared, Box!Directory
<1>13. ASSUME Box!OpenStream \/ Box!Yield \/ Box!CloseStream \/ UNCHANGED boxVars
       PROVE  UNCHANGED <<task, worktrees, disk, mixed>>
  BY <1>13 DEF Box!OpenStream, Box!Yield, Box!CloseStream, Box!gitVars, boxVars
<1> QED
  BY <1>1, <1>3, <1>4, <1>5, <1>6, <1>7, <1>8, <1>9, <1>10, <1>11, <1>12, <1>13 DEF Box!Next

\* A recorded worktree holds its own branch's files, whatever git refused, pruned or
\* left behind, unless its name is cut down to another branch's, two creations or
\* cleanups were once in its directory together, or one is in it now.
THEOREM WorktreesAreOwn == PartsSpec => []WorktreeIsOwn
<1>1. ASSUME PartsInit PROVE BoxInv
  <2>1. /\ task = [t \in Task |-> Box!Idle] /\ worktrees = {}
        /\ disk = [d \in Box!Directory |-> Nobody]
    BY <1>1 DEF PartsInit, Box!Init
  <2>2. Box!Idle \in TaskState /\ Box!Idle.pc = "idle" BY DEF TaskState, Box!Idle
  <2>3. BoxType BY <2>1, <2>2 DEF BoxType
  <2>4. \A t \in Task : ~Box!Changes(t) BY <2>1, <2>2 DEF Box!Changes
  <2> QED BY <2>1, <2>3, <2>4 DEF BoxInv, MixedOnRecord, OwnOrBusy, AddingKnows
<1>2. BoxInv /\ [PartsNext]_partsVars => BoxInv'
  <2> SUFFICES ASSUME BoxInv, [PartsNext]_partsVars PROVE BoxInv'
    OBVIOUS
  <2>1. Box!Next \/ UNCHANGED boxVars BY DEF PartsNext, partsVars
  <2> QED BY <2>1, BoxStep
<1>3. BoxInv => WorktreeIsOwn
  BY DEF BoxInv, OwnOrBusy, WorktreeIsOwn, Box!WorktreeIsOwn, Box!Busy
<1> QED BY <1>1, <1>2, <1>3, PTL DEF PartsSpec

-----------------------------------------------------------------------------
(***************************************************************************)
(* The mesh server: nonces                                                 *)
(***************************************************************************)

Cached(r) == \E i \in 1..Len(seen) : seen[i] = r

\* The claimed requests that keep r from being the oldest, or came when it was.
Rivals(r) == {q \in claimed \ {r} : stamp[q] >= stamp[r] - 2 * Skew}

Flood(r) == {q \in claimed \ {r} : stamp[q] - stamp[r] \in (-2 * Skew)..(2 * Skew)}

NonceType ==
    /\ clock \in Nat
    /\ stamp \in [Request -> Int \cup {None}]
    /\ answered \in [Request -> Nat]
    /\ claimed \subseteq Request /\ IsFiniteSet(claimed)
    /\ seen \in Seq(Request)
    /\ \A i, j \in 1..Len(seen) : seen[i] = seen[j] => i = j

\* A claimed nonce was fresh when it was claimed, so its timestamp is no later than
\* the clock allows now; and it is in the cache still, or was evicted as the oldest
\* of a full one.
NonceInv ==
    /\ NonceType
    /\ \A i \in 1..Len(seen) : seen[i] \in claimed /\ answered[seen[i]] > 0
    /\ \A q \in claimed : /\ stamp[q] # None /\ stamp[q] \in Int
                          /\ -Skew <= stamp[q] /\ stamp[q] <= clock + Skew
    /\ \A r \in Request : answered[r] > 0 => r \in claimed
    /\ \A r \in claimed : Cached(r) \/ Cardinality(Rivals(r)) >= NonceCapacity
    /\ \A r \in Request : answered[r] > 1 => Cardinality(Flood(r)) >= NonceCapacity

LEMMA LeastNumber ==
    ASSUME NEW T, T \subseteq Nat, T # {}
    PROVE  \E x \in T : \A y \in T : x <= y
<1> DEFINE R == OpToRel(<, Nat)
<1>1. IsWellFoundedOn(R, Nat) BY NatLessThanWellFounded
<1>2. R = {ss \in Nat \X Nat : ss[1] < ss[2]} BY DEF OpToRel
<1> HIDE DEF R
<1>3. PICK x \in T : \A y \in T : ~(<<y, x>> \in R) BY <1>1, WFMin
<1>4. ASSUME NEW y \in T PROVE x <= y
  <2>1. x \in Nat /\ y \in Nat OBVIOUS
  <2>2. ~(<<y, x>> \in R) BY <1>3
  <2>3. ~(y < x) BY <1>2, <2>1, <2>2
  <2> QED BY <2>1, <2>3
<1> QED BY <1>4

NoRepeats(s) == \A i, j \in 1..Len(s) : s[i] = s[j] => i = j

\* What is left of a sequence when its k-th entry is taken out.
AllBut(t, s, k) ==
    /\ NoRepeats(t)
    /\ \A i \in 1..Len(t) : \E j \in 1..Len(s) : t[i] = s[j]
    /\ \A j \in 1..Len(s) : j # k => \E i \in 1..Len(t) : t[i] = s[j]

\* An entry taken out of a sequence without repeats.
LEMMA RemoveOne ==
    ASSUME NEW S, NEW s \in Seq(S), NEW k \in 1..Len(s),
           NoRepeats(s)
    PROVE  /\ Mesh!RemoveAt(s, k) \in Seq(S)
           /\ AllBut(Mesh!RemoveAt(s, k), s, k)
<1> DEFINE a == SubSeq(s, 1, k - 1)
           b == SubSeq(s, k + 1, Len(s))
           t == Mesh!RemoveAt(s, k)
<1>1. Len(s) \in Nat /\ \A i \in 1..Len(s) : s[i] \in S BY LenProperties, ElementOfSeq
<1>2. a \in Seq(S) /\ Len(a) = k - 1 /\ \A i \in 1..k - 1 : a[i] = s[i]
  <2>1. 1 \in Int /\ k - 1 \in Int /\ \A i \in 1..k - 1 : s[i] \in S BY <1>1
  <2>2. /\ a \in Seq(S)
        /\ Len(a) = IF 1 <= k - 1 THEN k - 1 - 1 + 1 ELSE 0
        /\ \A i \in 1..(k - 1) - 1 + 1 : a[i] = s[1 + i - 1]
    BY <2>1, SubSeqProperties
  <2> HIDE DEF a
  <2> QED BY <1>1, <2>2
<1>3. b \in Seq(S) /\ Len(b) = Len(s) - k /\ \A i \in 1..Len(s) - k : b[i] = s[k + i]
  <2>1. k + 1 \in Int /\ Len(s) \in Int /\ \A i \in k + 1..Len(s) : s[i] \in S BY <1>1
  <2>2. /\ b \in Seq(S)
        /\ Len(b) = IF k + 1 <= Len(s) THEN Len(s) - (k + 1) + 1 ELSE 0
        /\ \A i \in 1..Len(s) - (k + 1) + 1 : b[i] = s[k + 1 + i - 1]
    BY <2>1, SubSeqProperties
  <2> HIDE DEF b
  <2> QED BY <1>1, <2>2
<1>4. t = a \o b BY DEF Mesh!RemoveAt
<1> HIDE DEF a, b, t
<1>5. /\ t \in Seq(S) /\ Len(t) = Len(a) + Len(b)
      /\ \A i \in 1..Len(a) + Len(b) : t[i] = IF i <= Len(a) THEN a[i] ELSE b[i - Len(a)]
  <2>1. a \in Seq(S) /\ b \in Seq(S) BY <1>2, <1>3
  <2> DEFINE u == a \o b
  <2>2. /\ u \in Seq(S) /\ Len(u) = Len(a) + Len(b)
        /\ \A i \in 1..Len(a) + Len(b) : u[i] = IF i <= Len(a) THEN a[i] ELSE b[i - Len(a)]
    BY <2>1, ConcatProperties
  <2> HIDE DEF u
  <2>3. t = u BY <1>4 DEF u
  <2> QED BY <2>2, <2>3
<1>6. Len(t) = Len(s) - 1 BY <1>1, <1>2, <1>3, <1>5
<1>7. ASSUME NEW i \in 1..Len(t)
      PROVE  \/ i < k /\ t[i] = s[i]
             \/ i >= k /\ i + 1 \in 1..Len(s) /\ t[i] = s[i + 1]
  <2>1. CASE i < k BY <1>1, <1>2, <1>3, <1>5, <2>1
  <2>2. CASE i >= k
    <3> DEFINE j == i - (k - 1)
    <3>1. j \in 1..Len(s) - k /\ k + j = i + 1 BY <1>1, <1>2, <1>3, <1>5, <2>2
    <3>2. t[i] = b[j] BY <1>1, <1>2, <1>3, <1>5, <2>2
    <3> HIDE DEF j
    <3> QED BY <1>1, <1>3, <2>2, <3>1, <3>2
  <2> QED BY <1>1, <2>1, <2>2
<1>8. ASSUME NEW i \in 1..Len(t), NEW j \in 1..Len(t), t[i] = t[j] PROVE i = j
  <2> DEFINE x == IF i < k THEN i ELSE i + 1
             y == IF j < k THEN j ELSE j + 1
  <2>1. k \in Int /\ i \in Int /\ j \in Int BY <1>1, <1>6
  <2>2. x \in 1..Len(s) /\ t[i] = s[x] BY <1>1, <1>6, <1>7
  <2>3. y \in 1..Len(s) /\ t[j] = s[y] BY <1>1, <1>6, <1>7
  <2>4. x = y => i = j BY <2>1
  <2> HIDE DEF x, y
  <2>5. x = y BY <1>8, <2>2, <2>3 DEF NoRepeats
  <2> QED BY <2>4, <2>5
<1>9. \A i \in 1..Len(t) : \E j \in 1..Len(s) : t[i] = s[j] BY <1>1, <1>6, <1>7
<1>10. ASSUME NEW j \in 1..Len(s), j # k PROVE \E i \in 1..Len(t) : t[i] = s[j]
  <2>1. CASE j < k
    <3>1. j \in 1..Len(t) BY <1>1, <1>6, <2>1
    <3> QED BY <3>1, <1>7, <2>1
  <2>2. CASE j > k
    <3> DEFINE i == j - 1
    <3>1. i \in 1..Len(t) /\ i >= k /\ i + 1 = j BY <1>1, <1>6, <2>2
    <3> HIDE DEF i
    <3>2. t[i] = s[j] BY <3>1, <1>7
    <3> QED BY <3>1, <3>2
  <2> QED BY <1>10, <1>1, <2>1, <2>2
<1> QED BY <1>5, <1>8, <1>9, <1>10 DEF AllBut, NoRepeats, t

\* A cache with an entry has an oldest one.
LEMMA OldestFacts ==
    ASSUME NonceInv, Len(seen) > 0
    PROVE  /\ Mesh!Oldest \in 1..Len(seen)
           /\ \A j \in 1..Len(seen) : stamp[seen[Mesh!Oldest]] <= stamp[seen[j]]
<1>1. /\ Len(seen) \in Nat /\ DOMAIN seen = 1..Len(seen)
      /\ \A i \in 1..Len(seen) : seen[i] \in Request
  BY LenProperties, ElementOfSeq DEF NonceInv, NonceType
<1>2. \A i \in 1..Len(seen) : stamp[seen[i]] \in Int /\ -Skew <= stamp[seen[i]]
  BY DEF NonceInv
<1> DEFINE A == {stamp[seen[i]] + Skew : i \in 1..Len(seen)}
<1>3. A \subseteq Nat /\ A # {} BY <1>1, <1>2, PartsAssumption
<1> HIDE DEF A
<1>4. PICK x \in A : \A y \in A : x <= y BY <1>3, LeastNumber
<1> DEFINE B == {i \in 1..Len(seen) : stamp[seen[i]] + Skew = x}
<1>5. B \subseteq Nat /\ B # {} BY <1>1, <1>4 DEF A
<1> HIDE DEF B
<1>6. PICK i \in B : \A j \in B : i <= j BY <1>5, LeastNumber
<1>7. i \in 1..Len(seen) /\ stamp[seen[i]] + Skew = x BY <1>6 DEF B
<1>8. \A j \in 1..Len(seen) : /\ stamp[seen[i]] <= stamp[seen[j]]
                              /\ stamp[seen[i]] = stamp[seen[j]] => i <= j
  <2> SUFFICES ASSUME NEW j \in 1..Len(seen)
               PROVE  /\ stamp[seen[i]] <= stamp[seen[j]]
                      /\ stamp[seen[i]] = stamp[seen[j]] => i <= j
    OBVIOUS
  <2>1. stamp[seen[j]] + Skew \in A BY DEF A
  <2>2. x <= stamp[seen[j]] + Skew BY <2>1, <1>4
  <2>3. stamp[seen[i]] <= stamp[seen[j]] BY <2>2, <1>2, <1>7, PartsAssumption
  <2>4. stamp[seen[i]] = stamp[seen[j]] => j \in B BY <1>7 DEF B
  <2> QED BY <2>3, <2>4, <1>6
<1> DEFINE P(o) == \A j \in DOMAIN seen : /\ stamp[seen[o]] <= stamp[seen[j]]
                                          /\ stamp[seen[o]] = stamp[seen[j]] => o <= j
<1>9. i \in DOMAIN seen /\ P(i) BY <1>1, <1>7, <1>8
<1>10. Mesh!Oldest = CHOOSE o \in DOMAIN seen : P(o) BY DEF Mesh!Oldest
<1> HIDE DEF P
<1>11. Mesh!Oldest \in DOMAIN seen /\ P(Mesh!Oldest) BY <1>9, <1>10
<1> QED BY <1>1, <1>11 DEF P

\* The cache after claim: one entry may have gone, and then as many others as the
\* cache holds stand between the evicted request and a second run of it.
LEMMA ClaimFacts ==
    ASSUME NonceInv, NEW r \in Request, ~Cached(r), stamp[r] \in Int,
           clock - stamp[r] \in (-Skew)..Skew
    PROVE  LET t == Append(Mesh!Evicted, r)
           IN  /\ t \in Seq(Request)
               /\ \A i, j \in 1..Len(t) : t[i] = t[j] => i = j
               /\ \A i \in 1..Len(t) : t[i] = r \/ \E j \in 1..Len(seen) : t[i] = seen[j]
               /\ \E i \in 1..Len(t) : t[i] = r
               /\ \A j \in 1..Len(seen) :
                     \/ \E i \in 1..Len(t) : t[i] = seen[j]
                     \/ Cardinality({q \in (claimed \cup {r}) \ {seen[j]} :
                                        stamp[q] >= stamp[seen[j]] - 2 * Skew}) >= NonceCapacity
<1> DEFINE e == Mesh!Evicted
           t == Append(e, r)
<1>0. /\ seen \in Seq(Request) /\ Len(seen) \in Nat
      /\ \A i, j \in 1..Len(seen) : seen[i] = seen[j] => i = j
      /\ \A i \in 1..Len(seen) : seen[i] \in Request
  BY LenProperties, ElementOfSeq DEF NonceInv, NonceType
<1>1. /\ e \in Seq(Request)
      /\ \A i, j \in 1..Len(e) : e[i] = e[j] => i = j
      /\ \A i \in 1..Len(e) : \E j \in 1..Len(seen) : e[i] = seen[j]
      /\ \A j \in 1..Len(seen) :
            \/ \E i \in 1..Len(e) : e[i] = seen[j]
            \/ Cardinality({q \in (claimed \cup {r}) \ {seen[j]} :
                               stamp[q] >= stamp[seen[j]] - 2 * Skew}) >= NonceCapacity
  <2>1. CASE ~(Len(seen) >= NonceCapacity)
    <3>1. e = seen BY <2>1 DEF Mesh!Evicted
    <3> QED BY <1>0, <3>1
  <2>2. CASE Len(seen) >= NonceCapacity
    <3> DEFINE o == Mesh!Oldest
    <3>1. Len(seen) > 0 BY <1>0, <2>2, PartsAssumption
    <3>2. o \in 1..Len(seen) /\ \A j \in 1..Len(seen) : stamp[seen[o]] <= stamp[seen[j]]
      BY <3>1, OldestFacts
    <3>3. e = Mesh!RemoveAt(seen, o) BY <2>2 DEF Mesh!Evicted
    <3> HIDE DEF o, e
    <3>4. /\ e \in Seq(Request)
          /\ \A i, j \in 1..Len(e) : e[i] = e[j] => i = j
          /\ \A i \in 1..Len(e) : \E j \in 1..Len(seen) : e[i] = seen[j]
          /\ \A j \in 1..Len(seen) : j # o => \E i \in 1..Len(e) : e[i] = seen[j]
      <4>1. seen \in Seq(Request) /\ o \in 1..Len(seen) BY <1>0, <3>2
      <4>2. NoRepeats(seen) BY <1>0 DEF NoRepeats
      <4>3. e \in Seq(Request) /\ AllBut(e, seen, o) BY <3>3, <4>1, <4>2, RemoveOne
      <4> QED BY <4>3 DEF AllBut, NoRepeats
    <3> DEFINE x == seen[o]
               R == {q \in (claimed \cup {r}) \ {x} : stamp[q] >= stamp[x] - 2 * Skew}
               f == [i \in 1..Len(seen) |-> IF i = o THEN r ELSE seen[i]]
    <3>5. IsFiniteSet(R)
      <4>1. IsFiniteSet(claimed) BY DEF NonceInv, NonceType
      <4>2. IsFiniteSet(claimed \cup {r}) BY <4>1, FS_AddElement
      <4>3. R \in SUBSET (claimed \cup {r}) OBVIOUS
      <4> HIDE DEF R
      <4> QED BY <4>2, <4>3, FS_Subset
    <3>6. /\ x \in claimed /\ x # r /\ stamp[x] \in Int /\ stamp[x] <= clock + Skew
          /\ clock \in Nat
      BY <3>2 DEF NonceInv, NonceType, Cached
    <3>7. r \in R BY <3>6, PartsAssumption
    <3>8. ASSUME NEW i \in 1..Len(seen), i # o PROVE seen[i] \in R /\ seen[i] # r
      <4>1. seen[i] \in claimed /\ stamp[seen[i]] \in Int /\ seen[i] # r
        BY DEF NonceInv, Cached
      <4>2. seen[i] # x BY <1>0, <3>2, <3>8
      <4>3. stamp[seen[i]] >= stamp[x] - 2 * Skew
        <5>1. stamp[x] <= stamp[seen[i]] BY <3>2
        <5>2. Skew \in Nat BY PartsAssumption
        <5> HIDE DEF x
        <5> QED BY <3>6, <4>1, <5>1, <5>2
      <4> QED BY <4>1, <4>2, <4>3
    <3> HIDE DEF R
    <3>9. f \in [1..Len(seen) -> R] BY <3>7, <3>8
    <3>10. ASSUME NEW i \in 1..Len(seen), NEW j \in 1..Len(seen), f[i] = f[j] PROVE i = j
      BY <1>0, <3>8, <3>10
    <3>11. f \in Injection(1..Len(seen), R)
      <4> HIDE DEF f
      <4> QED BY <3>9, <3>10 DEF Injection, IsInjective
    <3>12. Cardinality(1..Len(seen)) <= Cardinality(R)
      <4> HIDE DEF f
      <4> QED BY <3>5, <3>11, FS_Injection
    <3>13. Cardinality(1..Len(seen)) = Len(seen) BY <1>0, <3>1, FS_Interval
    <3>14. Cardinality(R) >= NonceCapacity
      <4>1. Cardinality(R) \in Nat BY <3>5, FS_CardinalityType
      <4> QED BY <1>0, <2>2, <3>12, <3>13, <4>1, PartsAssumption
    <3> QED BY <3>4, <3>14 DEF R
  <2> QED BY <2>1, <2>2
<1> HIDE DEF e
<1>2. Len(e) \in Nat BY <1>1, LenProperties
<1>3. /\ t \in Seq(Request) /\ Len(t) = Len(e) + 1
      /\ \A i \in 1..Len(e) : t[i] = e[i]
      /\ t[Len(e) + 1] = r
  BY <1>1, AppendProperties
<1> HIDE DEF t
<1>4. ASSUME NEW i \in 1..Len(e) PROVE i \in 1..Len(t) /\ t[i] = e[i] /\ e[i] # r
  <2>1. i \in 1..Len(t) /\ t[i] = e[i] BY <1>2, <1>3
  <2>2. PICK j \in 1..Len(seen) : e[i] = seen[j] BY <1>1
  <2> QED BY <2>1, <2>2 DEF Cached
<1>5. \A i \in 1..Len(t) : i \in 1..Len(e) \/ i = Len(e) + 1 BY <1>2, <1>3
<1>6. Len(e) + 1 \in 1..Len(t) BY <1>2, <1>3
<1>7. \A i, j \in 1..Len(t) : t[i] = t[j] => i = j
  <2> SUFFICES ASSUME NEW i \in 1..Len(t), NEW j \in 1..Len(t), t[i] = t[j] PROVE i = j
    OBVIOUS
  <2> QED BY <1>1, <1>3, <1>4, <1>5
<1>8. \A i \in 1..Len(t) : t[i] = r \/ \E j \in 1..Len(seen) : t[i] = seen[j]
  BY <1>1, <1>3, <1>5
<1>9. \E i \in 1..Len(t) : t[i] = r BY <1>3, <1>6
<1>10. ASSUME NEW j \in 1..Len(seen), NEW i \in 1..Len(e), e[i] = seen[j]
       PROVE  \E k \in 1..Len(t) : t[k] = seen[j]
  BY <1>4, <1>10
<1>11. \A j \in 1..Len(seen) :
          \/ \E i \in 1..Len(t) : t[i] = seen[j]
          \/ Cardinality({q \in (claimed \cup {r}) \ {seen[j]} :
                             stamp[q] >= stamp[seen[j]] - 2 * Skew}) >= NonceCapacity
  BY <1>1, <1>10
<1> QED BY <1>3, <1>7, <1>8, <1>9, <1>11 DEF t, e

\* More claims never make a set of claimed requests smaller.
LEMMA MoreRivals ==
    ASSUME NonceInv, NonceType', claimed \subseteq claimed',
           \A q \in claimed : stamp'[q] = stamp[q],
           NEW r \in claimed
    PROVE  /\ Cardinality(Rivals(r)) >= NonceCapacity
                  => Cardinality(Rivals(r)') >= NonceCapacity
           /\ Cardinality(Flood(r)) >= NonceCapacity
                  => Cardinality(Flood(r)') >= NonceCapacity
<1>1. IsFiniteSet(claimed') /\ NonceCapacity \in Nat BY PartsAssumption DEF NonceType
<1>2. /\ Rivals(r)' \in SUBSET claimed' /\ Flood(r)' \in SUBSET claimed'
      /\ Rivals(r) \in SUBSET Rivals(r)' /\ Flood(r) \in SUBSET Flood(r)'
  BY DEF Rivals, Flood
<1>3. IsFiniteSet(Rivals(r)') /\ IsFiniteSet(Flood(r)') BY <1>1, <1>2, FS_Subset
<1>4. /\ Cardinality(Rivals(r)) <= Cardinality(Rivals(r)')
      /\ Cardinality(Flood(r)) <= Cardinality(Flood(r)')
  BY <1>2, <1>3, FS_Subset
<1>5. IsFiniteSet(Rivals(r)) /\ IsFiniteSet(Flood(r)) BY <1>2, <1>3, FS_Subset
<1>6. /\ Cardinality(Rivals(r)) \in Nat /\ Cardinality(Rivals(r)') \in Nat
      /\ Cardinality(Flood(r)) \in Nat /\ Cardinality(Flood(r)') \in Nat
  BY <1>3, <1>5, FS_CardinalityType
<1> QED BY <1>1, <1>4, <1>6

\* A request is run: its nonce was not in the cache.
LEMMA ServeKeeps ==
    ASSUME NonceInv, NEW r \in Request, NEW copy, Mesh!Serve(r, copy)
    PROVE  NonceInv'
<1> DEFINE t == Append(Mesh!Evicted, r)
<1>1. /\ stamp[r] # None /\ copy = "whole" /\ clock - stamp[r] \in (-Skew)..Skew
      /\ seen' = t /\ claimed' = claimed \cup {r}
      /\ answered' = [answered EXCEPT ![r] = IF @ = 2 THEN 2 ELSE @ + 1]
      /\ UNCHANGED <<clock, stamp>>
  BY DEF Mesh!Serve, Mesh!Claims, Mesh!Fresh
<1>2. /\ seen \in Seq(Request) /\ Len(seen) \in Nat
      /\ answered \in [Request -> Nat] /\ stamp[r] \in Int /\ clock \in Nat
      /\ DOMAIN seen = 1..Len(seen)
  BY <1>1, LenProperties DEF NonceInv, NonceType
<1>3. ~Cached(r)
  BY <1>2 DEF Mesh!Serve, Mesh!Unused, Mesh!Range, Cached
<1>4. /\ t \in Seq(Request)
      /\ \A i, j \in 1..Len(t) : t[i] = t[j] => i = j
      /\ \A i \in 1..Len(t) : t[i] = r \/ \E j \in 1..Len(seen) : t[i] = seen[j]
      /\ \E i \in 1..Len(t) : t[i] = r
      /\ \A j \in 1..Len(seen) :
            \/ \E i \in 1..Len(t) : t[i] = seen[j]
            \/ Cardinality({q \in (claimed \cup {r}) \ {seen[j]} :
                               stamp[q] >= stamp[seen[j]] - 2 * Skew}) >= NonceCapacity
  BY <1>1, <1>2, <1>3, ClaimFacts
<1> HIDE DEF t
<1>5. /\ answered' \in [Request -> Nat]
      /\ answered'[r] > 0
      /\ answered'[r] > 1 => answered[r] > 0
      /\ \A q \in Request : q # r => answered'[q] = answered[q]
  BY <1>1, <1>2
<1>6. NonceType'
  <2>1. IsFiniteSet(claimed') BY <1>1, FS_AddElement DEF NonceInv, NonceType
  <2> QED BY <1>1, <1>4, <1>5, <2>1 DEF NonceInv, NonceType
<1>7. \A q \in claimed : stamp'[q] = stamp[q] BY <1>1
<1>8. ASSUME NEW i \in 1..Len(seen') PROVE seen'[i] \in claimed' /\ answered'[seen'[i]] > 0
  <2>1. seen'[i] = r \/ \E j \in 1..Len(seen) : seen'[i] = seen[j] BY <1>1, <1>4
  <2>2. CASE seen'[i] = r BY <2>2, <1>1, <1>5
  <2>3. ASSUME NEW j \in 1..Len(seen), seen'[i] = seen[j], seen[j] # r
        PROVE  seen'[i] \in claimed' /\ answered'[seen'[i]] > 0
    <3>1. seen[j] \in claimed /\ answered[seen[j]] > 0 /\ seen[j] \in Request
      BY DEF NonceInv, NonceType
    <3> QED BY <2>3, <3>1, <1>1, <1>5
  <2> QED BY <2>1, <2>2, <2>3
<1>9. ASSUME NEW q \in claimed'
      PROVE  /\ stamp'[q] # None /\ stamp'[q] \in Int
             /\ -Skew <= stamp'[q] /\ stamp'[q] <= clock' + Skew
  <2>1. CASE q = r BY <2>1, <1>1, <1>2, PartsAssumption
  <2>2. CASE q \in claimed BY <2>2, <1>1 DEF NonceInv
  <2> QED BY <1>1, <2>1, <2>2
<1>10. ASSUME NEW q \in Request, answered'[q] > 0 PROVE q \in claimed'
  BY <1>1, <1>5, <1>10 DEF NonceInv
<1>11. ASSUME NEW q \in claimed' PROVE Cached(q)' \/ Cardinality(Rivals(q)') >= NonceCapacity
  <2>1. CASE q = r BY <2>1, <1>1, <1>4 DEF Cached
  <2>2. ASSUME NEW j \in 1..Len(seen), q = seen[j]
        PROVE  Cached(q)' \/ Cardinality(Rivals(q)') >= NonceCapacity
    <3>1. Rivals(q)' = {x \in (claimed \cup {r}) \ {seen[j]} :
                            stamp[x] >= stamp[seen[j]] - 2 * Skew}
      BY <2>2, <1>1 DEF Rivals
    <3>2. \/ \E i \in 1..Len(t) : t[i] = seen[j]
          \/ Cardinality(Rivals(q)') >= NonceCapacity
      BY <1>4, <3>1
    <3> QED BY <2>2, <3>2, <1>1 DEF Cached
  <2>3. CASE q \in claimed /\ ~Cached(q)
    <3>1. Cardinality(Rivals(q)) >= NonceCapacity BY <2>3 DEF NonceInv
    <3> QED BY <2>3, <3>1, <1>1, <1>6, <1>7, MoreRivals
  <2> QED BY <1>1, <2>1, <2>2, <2>3 DEF Cached
<1>12. ASSUME NEW q \in Request, answered'[q] > 1
       PROVE  Cardinality(Flood(q)') >= NonceCapacity
  <2>1. CASE q # r
    <3>1. answered[q] > 1 /\ answered[q] > 0 BY <2>1, <1>2, <1>5, <1>12
    <3>2. q \in claimed /\ Cardinality(Flood(q)) >= NonceCapacity BY <3>1 DEF NonceInv
    <3> QED BY <3>2, <1>1, <1>6, <1>7, MoreRivals
  <2>2. CASE q = r
    <3>1. r \in claimed BY <2>2, <1>5, <1>12 DEF NonceInv
    <3>2. Cardinality(Rivals(r)) >= NonceCapacity BY <3>1, <1>3 DEF NonceInv
    <3>3. Rivals(r) = Flood(r)
      <4>1. ASSUME NEW x \in claimed
            PROVE  stamp[x] >= stamp[r] - 2 * Skew
                       <=> stamp[x] - stamp[r] \in (-2 * Skew)..(2 * Skew)
        <5>1. stamp[x] \in Int /\ stamp[x] <= clock + Skew BY DEF NonceInv
        <5>2. Skew \in Nat BY PartsAssumption
        <5>3. stamp[r] \in Int /\ clock \in Int /\ clock - stamp[r] <= Skew BY <5>2, <1>1, <1>2
        <5> QED BY <5>1, <5>2, <5>3
      <4> QED BY <4>1 DEF Rivals, Flood
    <3>4. Cardinality(Flood(r)) >= NonceCapacity BY <3>2, <3>3
    <3> QED BY <2>2, <3>1, <3>4, <1>1, <1>6, <1>7, MoreRivals
  <2> QED BY <2>1, <2>2
<1> QED BY <1>6, <1>8, <1>9, <1>10, <1>11, <1>12 DEF NonceInv

\* No step but a claim touches what the cache and the claims are about, except that
\* the clock may move on and that a request may be built that nobody claimed yet.
LEMMA NonceQuiet ==
    ASSUME NonceInv, NonceType', clock <= clock', UNCHANGED <<seen, answered, claimed>>,
           \A q \in claimed : stamp'[q] = stamp[q]
    PROVE  NonceInv'
<1>1. \A r \in Request : answered'[r] > 0 => r \in claimed BY DEF NonceInv
<1>2. \A r \in claimed : Cached(r)' = Cached(r) BY DEF Cached
<1>3. claimed \subseteq claimed' OBVIOUS
<1>4. \A r \in claimed : Cached(r)' \/ Cardinality(Rivals(r)') >= NonceCapacity
  BY <1>2, <1>3, MoreRivals DEF NonceInv
<1>5. ASSUME NEW r \in Request, answered'[r] > 1
      PROVE  Cardinality(Flood(r)') >= NonceCapacity
  <2>1. answered[r] \in Nat /\ answered[r] > 1 BY <1>5 DEF NonceInv, NonceType
  <2>2. r \in claimed /\ Cardinality(Flood(r)) >= NonceCapacity BY <2>1 DEF NonceInv
  <2> QED BY <2>2, <1>3, MoreRivals
<1>6. ASSUME NEW q \in claimed
      PROVE  /\ stamp'[q] # None /\ stamp'[q] \in Int
             /\ -Skew <= stamp'[q] /\ stamp'[q] <= clock' + Skew
  <2>1. clock \in Nat /\ clock' \in Nat BY DEF NonceInv, NonceType
  <2>2. Skew \in Nat BY PartsAssumption
  <2>3. /\ stamp[q] # None /\ stamp[q] \in Int
        /\ -Skew <= stamp[q] /\ stamp[q] <= clock + Skew
    BY DEF NonceInv
  <2> QED BY <2>1, <2>2, <2>3
<1>7. \A i \in 1..Len(seen') : seen'[i] \in claimed' /\ answered'[seen'[i]] > 0
  BY DEF NonceInv
<1> QED BY <1>1, <1>4, <1>5, <1>6, <1>7 DEF NonceInv

LEMMA NonceStep ==
    ASSUME NonceInv, Mesh!Next \/ UNCHANGED meshVars
    PROVE  NonceInv'
<1>1. ASSUME NEW r \in Request, NEW ts \in (clock - Drift)..(clock + Drift), Mesh!Build(r, ts)
      PROVE  NonceInv'
  <2>1. /\ stamp[r] = None /\ ts \in Int /\ stamp' = [stamp EXCEPT ![r] = ts]
        /\ UNCHANGED <<clock, seen, answered, claimed>>
    BY <1>1 DEF Mesh!Build
  <2>2. NonceType' BY <2>1 DEF NonceInv, NonceType
  <2>3. \A q \in claimed : stamp'[q] = stamp[q]
    BY <2>1 DEF NonceInv, NonceType
  <2>4. clock <= clock' BY <2>1 DEF NonceInv, NonceType
  <2> QED BY <2>1, <2>2, <2>3, <2>4, NonceQuiet
<1>2. ASSUME NEW r \in Request, NEW copy \in Mesh!Copy, Mesh!Serve(r, copy) PROVE NonceInv'
  BY <1>2, ServeKeeps
<1>3. ASSUME UNCHANGED <<clock, stamp, seen, answered, claimed>> PROVE NonceInv'
  <2>1. NonceType' /\ clock <= clock' BY <1>3 DEF NonceInv, NonceType
  <2> QED BY <1>3, <2>1, NonceQuiet
<1>4. CASE Mesh!Restart
  <2>1. /\ seen' = <<>> /\ claimed' = {} /\ answered' = [r \in Request |-> 0]
        /\ UNCHANGED <<clock, stamp>>
    BY <1>4 DEF Mesh!Restart
  <2>2. <<>> \in Seq(Request) /\ Len(<<>>) = 0 BY EmptySeq
  <2>3. NonceType' BY <2>1, <2>2, FS_EmptySet DEF NonceInv, NonceType
  <2>4. \A i \in 1..Len(seen') : FALSE BY <2>1, <2>2
  <2> QED BY <2>1, <2>3, <2>4 DEF NonceInv
<1>5. CASE Mesh!Tick
  <2>1. clock' = clock + 1 /\ UNCHANGED <<stamp, seen, answered, claimed>>
    BY <1>5 DEF Mesh!Tick
  <2>2. NonceType' /\ clock <= clock' BY <2>1 DEF NonceInv, NonceType
  <2> QED BY <2>1, <2>2, NonceQuiet
<1>6. ASSUME NEW r \in Request, NEW copy \in Mesh!Copy, Mesh!Refuse(r, copy) PROVE NonceInv'
  BY <1>3, <1>6 DEF Mesh!Refuse, Mesh!serverVars
<1>7. CASE Mesh!Stop BY <1>3, <1>7 DEF Mesh!Stop
<1>8. CASE UNCHANGED meshVars BY <1>3, <1>8 DEF meshVars
<1> QED BY <1>1, <1>2, <1>4, <1>5, <1>6, <1>7, <1>8 DEF Mesh!Next

\* PartsSpec keeps the invariant of the nonces.
LEMMA NonceInvariant == PartsSpec => []NonceInv
<1>1. ASSUME PartsInit PROVE NonceInv
  <2>1. /\ clock = 0 /\ stamp = [r \in Request |-> None] /\ seen = <<>>
        /\ answered = [r \in Request |-> 0] /\ claimed = {}
    BY <1>1 DEF PartsInit, Mesh!Init
  <2>2. <<>> \in Seq(Request) /\ Len(<<>>) = 0 BY EmptySeq
  <2>3. NonceType BY <2>1, <2>2, FS_EmptySet DEF NonceType
  <2>4. \A i \in 1..Len(seen) : FALSE BY <2>1, <2>2
  <2> QED BY <2>1, <2>3, <2>4 DEF NonceInv
<1>2. NonceInv /\ [PartsNext]_partsVars => NonceInv'
  <2> SUFFICES ASSUME NonceInv, [PartsNext]_partsVars PROVE NonceInv'
    OBVIOUS
  <2>1. Mesh!Next \/ UNCHANGED meshVars BY DEF PartsNext, partsVars
  <2> QED BY <2>1, NonceStep
<1> QED BY <1>1, <1>2, PTL DEF PartsSpec

\* Every nonce in a node's cache was spent by running its request: a damaged copy
\* never uses up the nonce of the request it was made from.
THEOREM NoncesSpentByService == PartsSpec => []NonceSpentByService
<1>1. ASSUME NonceInv PROVE NonceSpentByService
  <2>1. DOMAIN seen = 1..Len(seen) BY <1>1, LenProperties DEF NonceInv, NonceType
  <2> QED BY <1>1, <2>1 DEF NonceInv, NonceSpentByService, Mesh!NonceSpentByService
<1> QED BY <1>1, NonceInvariant, PTL

\* One server runs a request twice only if it claimed at least as many others as its
\* cache holds with timestamps within two freshness windows of the request's.
THEOREM RepeatsNeedAFlood == PartsSpec => []RepeatNeedsFlood
<1>1. ASSUME NonceInv PROVE RepeatNeedsFlood
  <2>1. \A r \in Request :
           Flood(r) = {q \in claimed \ {r} : stamp[q] - stamp[r] \in (-2 * Skew)..(2 * Skew)}
    BY DEF Flood
  <2>2. \A r \in Request : answered[r] > 1 => Cardinality(Flood(r)) >= NonceCapacity
    BY <1>1 DEF NonceInv
  <2>3. \A S : Mesh!Cardinality(S) = Cardinality(S) BY DEF Mesh!Cardinality, Cardinality
  <2> QED BY <2>1, <2>2, <2>3 DEF RepeatNeedsFlood, Mesh!RepeatNeedsFlood
<1> QED BY <1>1, NonceInvariant, PTL
-----------------------------------------------------------------------------
(***************************************************************************)
(* The prefix cache: one prompt more keeps a trie exact, and what lookups  *)
(* and insertions leave of the cached prompts.  Induction is by the least  *)
(* counterexample, and what is defined by recursion exists because its     *)
(* initial segments do.                                                    *)
(***************************************************************************)

Token == UNION {{p[i] : i \in DOMAIN p} : p \in Prompt}

\* The first n tokens of two prompts are the same.
Agree(p, q, n) == n <= Len(p) /\ n <= Len(q) /\ \A i \in 1..n : p[i] = q[i]

\* The trie of a set of prompts (TrieIsExact).
Exact(t, C) == t = (C \cup {Cache!Common(a, b) : a, b \in C}) \ {<<>>}

\* Whatever is true of 0, and of i + 1 if of i, is true up to k.
LEMMA UpTo ==
    ASSUME NEW k \in Nat, NEW S, 0 \in S, \A i \in Nat : i < k /\ i \in S => i + 1 \in S
    PROVE  \A i \in 0..k : i \in S
<1> SUFFICES ASSUME NEW b \in 0..k, b \notin S PROVE FALSE OBVIOUS
<1> DEFINE T == {i \in 0..k : i \notin S}
<1>1. T \subseteq Nat /\ T # {} OBVIOUS
<1> HIDE DEF T
<1>2. PICK x \in T : \A y \in T : x <= y BY <1>1, LeastNumber
<1>3. x \in 0..k /\ x \notin S /\ x # 0 BY <1>2 DEF T
<1>4. x - 1 \in 0..k /\ x - 1 \notin T BY <1>1, <1>2, <1>3
<1>5. x - 1 \in S BY <1>4 DEF T
<1> QED BY <1>3, <1>4, <1>5

Steps(h, k, V) == h \in [1..k -> [V -> V]]

Runs(g, h, k, a, V) ==
    g \in [0..k -> V] /\ g[0] = a /\ \A i \in 1..k : g[i] = h[i][g[i - 1]]

\* A running value over 1..k, each from the one before it by h, exists.
LEMMA RunExists ==
    ASSUME NEW k \in Nat, NEW V, NEW a \in V, NEW h, Steps(h, k, V)
    PROVE  \E g : Runs(g, h, k, a, V)
<1> DEFINE Run(g, n) == g[0] = a /\ \A i \in 1..n : g[i] = h[i][g[i - 1]]
           S == {n \in 0..k : \E g \in [0..n -> V] : Run(g, n)}
<1>1. 0 \in S
  <2>1. [i \in 0..0 |-> a] \in [0..0 -> V] OBVIOUS
  <2>2. Run([i \in 0..0 |-> a], 0) OBVIOUS
  <2> HIDE DEF Run
  <2> QED BY <2>1, <2>2
<1>2. ASSUME NEW n \in Nat, n < k, n \in S PROVE n + 1 \in S
  <2>1. PICK g \in [0..n -> V] : Run(g, n) BY <1>2
  <2> DEFINE v == h[n + 1][g[n]]
             e == [i \in 0..n + 1 |-> IF i <= n THEN g[i] ELSE v]
  <2>2. v \in V /\ \A i \in 0..n : g[i] \in V
    <3>1. n + 1 \in 1..k /\ n \in 0..n BY <1>2
    <3>2. h[n + 1] \in [V -> V] /\ g[n] \in V BY <3>1 DEF Steps
    <3> QED BY <3>2
  <2>3. v = h[n + 1][g[n]] OBVIOUS
  <2> HIDE DEF v
  <2>4. e \in [0..n + 1 -> V] BY <2>2
  <2>5. e[n + 1] = v /\ \A i \in 0..n : e[i] = g[i] BY <1>2
  <2>6. e[0] = a BY <2>1, <2>5
  <2>7. ASSUME NEW i \in 1..n + 1 PROVE e[i] = h[i][e[i - 1]]
    <3> HIDE DEF e
    <3>1. CASE i = n + 1
      <4>1. n \in 0..n /\ i - 1 = n BY <3>1
      <4> QED BY <2>3, <2>5, <3>1, <4>1
    <3>2. CASE i <= n
      <4>1. i \in 1..n /\ i \in 0..n /\ i - 1 \in 0..n BY <3>2
      <4>2. e[i] = g[i] /\ e[i - 1] = g[i - 1] BY <2>5, <4>1
      <4> QED BY <2>1, <4>1, <4>2
    <3> QED BY <3>1, <3>2
  <2> HIDE DEF e
  <2>8. Run(e, n + 1) BY <2>6, <2>7
  <2> HIDE DEF Run
  <2> QED BY <1>2, <2>4, <2>8
<1> HIDE DEF S
<1>3. \A n \in Nat : n < k /\ n \in S => n + 1 \in S BY <1>2
<1>4. \A n \in 0..k : n \in S BY <1>1, <1>3, UpTo
<1>5. k \in S BY <1>4
<1>6. PICK g \in [0..k -> V] : Run(g, k) BY <1>5 DEF S
<1> QED BY <1>6 DEF Runs

\* IsPrefix, token by token.
LEMMA PrefixMeans ==
    ASSUME NEW T, NEW s \in Seq(T), NEW t \in Seq(T)
    PROVE  Cache!IsPrefix(s, t) <=> Agree(s, t, Len(s))
<1>1. /\ Len(s) \in Nat /\ \A i \in 1..Len(s) : s[i] \in T
      /\ Len(t) \in Nat /\ \A i \in 1..Len(t) : t[i] \in T
  BY LenProperties, ElementOfSeq
<1> SUFFICES ASSUME Len(s) <= Len(t)
             PROVE  SubSeq(s, 1, Len(s)) = SubSeq(t, 1, Len(s)) <=> Agree(s, t, Len(s))
  BY <1>1 DEF Cache!IsPrefix, Agree
<1> DEFINE a == SubSeq(s, 1, Len(s))
           b == SubSeq(t, 1, Len(s))
<1>2. a \in Seq(T) /\ Len(a) = Len(s) /\ \A i \in 1..Len(s) : a[i] = s[i]
  <2>1. 1 \in Int /\ Len(s) \in Int /\ \A i \in 1..Len(s) : s[i] \in T BY <1>1
  <2>2. /\ a \in Seq(T)
        /\ Len(a) = IF 1 <= Len(s) THEN Len(s) - 1 + 1 ELSE 0
        /\ \A i \in 1..Len(s) - 1 + 1 : a[i] = s[1 + i - 1]
    BY <2>1, SubSeqProperties
  <2> HIDE DEF a
  <2> QED BY <1>1, <2>2
<1>3. b \in Seq(T) /\ Len(b) = Len(s) /\ \A i \in 1..Len(s) : b[i] = t[i]
  <2>1. 1 \in Int /\ Len(s) \in Int /\ \A i \in 1..Len(s) : t[i] \in T BY <1>1
  <2>2. /\ b \in Seq(T)
        /\ Len(b) = IF 1 <= Len(s) THEN Len(s) - 1 + 1 ELSE 0
        /\ \A i \in 1..Len(s) - 1 + 1 : b[i] = t[1 + i - 1]
    BY <2>1, SubSeqProperties
  <2> HIDE DEF b
  <2> QED BY <1>1, <2>2
<1> HIDE DEF a, b
<1>4. a = b <=> \A i \in 1..Len(s) : a[i] = b[i] BY <1>2, <1>3, SeqEqual
<1>5. a = b <=> Agree(s, t, Len(s)) BY <1>1, <1>2, <1>3, <1>4 DEF Agree
<1> QED BY <1>5 DEF a, b

\* Common is a prefix of both, and no common prefix is longer.
LEMMA CommonFacts ==
    ASSUME NEW T, NEW p \in Seq(T), NEW q \in Seq(T)
    PROVE  /\ Cache!Common(p, q) \in Seq(T)
           /\ Agree(Cache!Common(p, q), p, Len(Cache!Common(p, q)))
           /\ Agree(Cache!Common(p, q), q, Len(Cache!Common(p, q)))
           /\ \A n \in Nat : Agree(p, q, n) => n <= Len(Cache!Common(p, q))
<1> DEFINE C == Cache!CommonPrefixes({p, q})
           c == Cache!Common(p, q)
           M == {n \in Nat : Agree(p, q, n)}
<1>1. /\ Len(p) \in Nat /\ \A i \in 1..Len(p) : p[i] \in T
      /\ Len(q) \in Nat /\ \A i \in 1..Len(q) : q[i] \in T
  BY LenProperties, ElementOfSeq
<1>2. PICK m \in M : \A n \in M : n <= m
  <2> DEFINE D == {Len(p) - n : n \in M}
  <2>1. 0 \in M /\ \A n \in M : n \in Nat /\ n <= Len(p) BY <1>1 DEF Agree
  <2> HIDE DEF M
  <2>2. D \subseteq Nat /\ D # {} BY <1>1, <2>1
  <2> HIDE DEF D
  <2>3. PICK x \in D : \A y \in D : x <= y BY <2>2, LeastNumber
  <2>4. PICK m \in M : x = Len(p) - m BY <2>3 DEF D
  <2>5. ASSUME NEW n \in M PROVE n <= m
    <3>1. Len(p) - n \in D BY DEF D
    <3>2. x <= Len(p) - n BY <2>3, <3>1
    <3> QED BY <1>1, <2>1, <2>4, <3>2
  <2> QED BY <2>5
<1>3. m \in Nat /\ Agree(p, q, m) /\ \A n \in Nat : Agree(p, q, n) => n <= m BY <1>2
<1> HIDE DEF M
<1> DEFINE longest == SubSeq(p, 1, m)
<1>4. /\ longest \in Seq(T) /\ Len(longest) = m
      /\ \A i \in 1..m : longest[i] = p[i]
  <2>1. 1 \in Int /\ m \in Int /\ \A i \in 1..m : p[i] \in T BY <1>1, <1>3 DEF Agree
  <2>2. /\ longest \in Seq(T)
        /\ Len(longest) = IF 1 <= m THEN m - 1 + 1 ELSE 0
        /\ \A i \in 1..m - 1 + 1 : longest[i] = p[1 + i - 1]
    BY <2>1, SubSeqProperties
  <2> HIDE DEF longest
  <2> QED BY <1>3, <2>2
<1>5. longest \in Cache!Prefixes(p)
  <2>1. m \in 0..Len(p) BY <1>1, <1>3 DEF Agree
  <2> QED BY <2>1 DEF Cache!Prefixes
<1> HIDE DEF longest
<1>6. Cache!IsPrefix(longest, p) /\ Cache!IsPrefix(longest, q)
  <2>1. Agree(longest, p, m) /\ Agree(longest, q, m) BY <1>3, <1>4 DEF Agree
  <2> QED BY <1>4, <2>1, PrefixMeans
<1>7. longest \in C BY <1>5, <1>6 DEF Cache!CommonPrefixes
<1>8. ASSUME NEW x \in C
      PROVE  /\ x \in Seq(T) /\ Len(x) \in Nat /\ Agree(x, p, Len(x)) /\ Agree(x, q, Len(x))
             /\ Len(x) <= m
  <2>1. /\ \E s \in {p, q} : x \in Cache!Prefixes(s)
        /\ Cache!IsPrefix(x, p) /\ Cache!IsPrefix(x, q)
    BY DEF Cache!CommonPrefixes
  <2>2. PICK s \in {p, q} : \E l \in 0..Len(s) : x = SubSeq(s, 1, l)
    BY <2>1 DEF Cache!Prefixes
  <2>3. PICK l \in 0..Len(s) : x = SubSeq(s, 1, l) BY <2>2
  <2>4. x \in Seq(T)
    <3>1. 1 \in Int /\ l \in Int /\ \A i \in 1..l : s[i] \in T BY <1>1
    <3>2. SubSeq(s, 1, l) \in Seq(T) BY <3>1, SubSeqProperties
    <3> QED BY <2>3, <3>2
  <2>5. Len(x) \in Nat BY <2>4, LenProperties
  <2>6. Agree(x, p, Len(x)) /\ Agree(x, q, Len(x)) BY <2>1, <2>4, PrefixMeans
  <2>7. Agree(p, q, Len(x)) BY <2>5, <2>6 DEF Agree
  <2> QED BY <1>3, <2>4, <2>5, <2>6, <2>7
<1>9. \A x \in C : Len(x) <= Len(longest) BY <1>4, <1>8
<1>10. c \in C /\ \A x \in C : Len(x) <= Len(c)
  <2>1. c = CHOOSE y \in C : \A x \in C : Len(x) <= Len(y)
    BY DEF Cache!Common, Cache!LongestCommonPrefix
  <2> HIDE DEF C, c
  <2> QED BY <1>7, <1>9, <2>1
<1> HIDE DEF C, c
<1>11. m <= Len(c) BY <1>4, <1>7, <1>10
<1>12. ASSUME NEW n \in Nat, Agree(p, q, n) PROVE n <= Len(c)
  BY <1>3, <1>8, <1>10, <1>11, <1>12
<1> QED BY <1>8, <1>10, <1>12 DEF c

\* and is the only sequence of which that is true.
LEMMA CommonIs ==
    ASSUME NEW T, NEW p \in Seq(T), NEW q \in Seq(T), NEW c \in Seq(T),
           Agree(c, p, Len(c)), Agree(c, q, Len(c)),
           \A n \in Nat : Agree(p, q, n) => n <= Len(c)
    PROVE  Cache!Common(p, q) = c
<1> DEFINE d == Cache!Common(p, q)
<1>1. /\ d \in Seq(T) /\ Agree(d, p, Len(d)) /\ Agree(d, q, Len(d))
      /\ \A n \in Nat : Agree(p, q, n) => n <= Len(d)
  BY CommonFacts
<1> HIDE DEF d
<1>2. Len(c) \in Nat /\ Len(d) \in Nat BY <1>1, LenProperties
<1>3. Agree(p, q, Len(c)) /\ Agree(p, q, Len(d)) BY <1>1, <1>2 DEF Agree
<1>4. Len(c) = Len(d) BY <1>1, <1>2, <1>3
<1>5. \A i \in 1..Len(c) : c[i] = d[i] BY <1>1, <1>4 DEF Agree
<1>6. c = d BY <1>1, <1>4, <1>5, SeqEqual
<1> QED BY <1>6 DEF d

\* One prompt more: what a descent with one split adds is where the prompt parts
\* from each of those cached.
LEMMA InsertKeepsExact ==
    ASSUME NEW T, NEW C \in SUBSET Seq(T), NEW p \in Seq(T), NEW t, Exact(t, C)
    PROVE  Exact(Cache!Insert(t, p), C \cup {p})
<1> DEFINE c(a, b) == Cache!Common(a, b)
           shared == {c(n, p) : n \in t}
           split == {s \in shared : s # <<>> /\ \A x \in shared : Len(x) <= Len(s)}
           D == C \cup {p}
           U == {c(a, b) : a, b \in C}
           W == {c(a, p) : a \in C}
           X == {c(a, b) : a, b \in D}
<1>1. \A a, b \in Seq(T) :
         /\ c(a, b) \in Seq(T) /\ Agree(c(a, b), a, Len(c(a, b))) /\ Agree(c(a, b), b, Len(c(a, b)))
         /\ \A n \in Nat : Agree(a, b, n) => n <= Len(c(a, b))
  BY CommonFacts
<1>2. \A a, b, s \in Seq(T) :
         /\ Agree(s, a, Len(s)) /\ Agree(s, b, Len(s))
         /\ \A n \in Nat : Agree(a, b, n) => n <= Len(s)
         => c(a, b) = s
  BY CommonIs
<1>3. Cache!Insert(t, p) = (t \cup split \cup {p}) \ {<<>>} BY DEF Cache!Insert
<1>4. t = (C \cup {c(a, b) : a, b \in C}) \ {<<>>} BY DEF Exact
<1> HIDE DEF c
<1>5. \A s \in Seq(T) : /\ Len(s) \in Nat
                        /\ Len(s) = 0 <=> s = <<>>
  BY LenProperties, EmptySeq
<1>6. \A a \in Seq(T) : c(a, a) = a
  <2> SUFFICES ASSUME NEW a \in Seq(T) PROVE c(a, a) = a OBVIOUS
  <2>1. Agree(a, a, Len(a)) /\ \A n \in Nat : Agree(a, a, n) => n <= Len(a)
    BY <1>5 DEF Agree
  <2> QED BY <1>2, <2>1
<1>7. \A a, b \in Seq(T) : c(a, b) = c(b, a)
  <2> SUFFICES ASSUME NEW a \in Seq(T), NEW b \in Seq(T) PROVE c(a, b) = c(b, a) OBVIOUS
  <2>1. \A n \in Nat : Agree(a, b, n) => Agree(b, a, n) BY DEF Agree
  <2>2. \A n \in Nat : Agree(a, b, n) => n <= Len(c(b, a)) BY <1>1, <2>1
  <2> QED BY <1>1, <1>2, <2>2
<1>8. ASSUME NEW n \in t
      PROVE  n \in Seq(T) /\ n # <<>> /\ \E x, y \in C : n = c(x, y)
  <2>1. n \in C \/ \E x, y \in C : n = c(x, y) BY <1>4
  <2>2. \E x, y \in C : n = c(x, y) BY <1>6, <2>1
  <2> QED BY <1>1, <1>4, <2>2
<1>9. \A s \in shared : s \in Seq(T) /\ Len(s) \in Nat
  BY <1>1, <1>5, <1>8
\* Where p parts from a cached prompt is a node already, or where it is split.
<1>10. ASSUME NEW a \in C, c(a, p) # <<>> PROVE c(a, p) \in t \cup split
  <2> DEFINE s == c(a, p)
  <2>1. a \in Seq(T) OBVIOUS
  <2>2. /\ s \in Seq(T) /\ Len(s) \in Nat /\ s # <<>> /\ Len(s) # 0
        /\ Agree(s, a, Len(s)) /\ Agree(s, p, Len(s))
    BY <1>1, <1>5, <1>10, <2>1
  <2>3. a # <<>> BY <1>5, <2>1, <2>2 DEF Agree
  <2>4. s \in shared BY <1>4, <2>3
  <2> SUFFICES ASSUME s \notin split PROVE s \in t OBVIOUS
  <2>5. PICK l \in shared : ~(Len(l) <= Len(s)) BY <2>2, <2>4
  <2>6. PICK n \in t : l = c(n, p) BY <2>5
  <2>7. PICK x \in C, y \in C : n = c(x, y) BY <1>8
  <2>8. n \in Seq(T) /\ x \in Seq(T) BY <1>8
  <2>9. /\ l \in Seq(T) /\ Len(l) \in Nat /\ Len(l) > Len(s)
        /\ Agree(l, n, Len(l)) /\ Agree(l, p, Len(l)) /\ Agree(n, x, Len(n))
    BY <1>1, <1>9, <2>2, <2>5, <2>6, <2>7, <2>8
  <2>10. Agree(p, x, Len(l)) BY <1>5, <2>8, <2>9 DEF Agree
  <2>11. Agree(s, x, Len(s)) BY <1>5, <2>2, <2>8, <2>9, <2>10 DEF Agree
  <2>12. ASSUME NEW k \in Nat, Agree(a, x, k) PROVE k <= Len(s)
    <3> SUFFICES ASSUME k > Len(s) PROVE FALSE BY <2>2
    <3>1. Len(s) + 1 \in Nat /\ Len(s) + 1 <= k /\ Len(s) + 1 <= Len(l) BY <2>2, <2>9
    <3>2. Agree(a, p, Len(s) + 1)
      <4> DEFINE m == Len(s) + 1
      <4>1. m \in Nat /\ m <= k /\ m <= Len(l) /\ Len(a) \in Nat /\ Len(p) \in Nat
            /\ Len(x) \in Nat
        BY <1>5, <2>1, <2>8, <3>1
      <4> HIDE DEF m
      <4>2. Agree(a, p, m) BY <2>9, <2>10, <2>12, <4>1 DEF Agree
      <4> QED BY <4>2 DEF m
    <3>3. Len(s) + 1 <= Len(s) BY <1>1, <2>1, <3>1, <3>2
    <3> QED BY <2>2, <3>3
  <2>13. c(a, x) = s BY <1>2, <2>1, <2>2, <2>8, <2>11, <2>12
  <2> QED BY <1>4, <2>2, <2>13
\* A node that is split off is where p parts from a cached prompt.
<1>11. ASSUME NEW s \in split PROVE \E a \in C : s = c(a, p)
  <2>1. PICK n \in t : s = c(n, p) OBVIOUS
  <2>2. PICK x \in C, y \in C : n = c(x, y) BY <1>8
  <2>3. n \in Seq(T) /\ x \in Seq(T) /\ s \in Seq(T) /\ s # <<>> BY <1>8, <1>9
  <2>4. Agree(s, n, Len(s)) /\ Agree(s, p, Len(s)) /\ Agree(n, x, Len(n))
    BY <1>1, <2>1, <2>2, <2>3
  <2>5. Agree(s, x, Len(s)) BY <1>5, <2>3, <2>4 DEF Agree
  <2>6. x # <<>> BY <1>5, <2>3, <2>5 DEF Agree
  <2>7. c(x, p) \in shared BY <1>4, <2>6
  <2>8. Len(c(x, p)) <= Len(s) BY <2>7
  <2>9. \A k \in Nat : Agree(x, p, k) => k <= Len(s)
    <3>1. Len(c(x, p)) \in Nat /\ Len(s) \in Nat BY <1>9, <2>7
    <3>2. \A k \in Nat : Agree(x, p, k) => k <= Len(c(x, p)) BY <1>1, <2>3
    <3> QED BY <2>8, <3>1, <3>2
  <2>10. s = c(x, p) BY <1>2, <2>3, <2>4, <2>5, <2>9
  <2> QED BY <2>10
<1>12. X = U \cup W \cup {p}
  <2>1. \A a \in C : c(p, a) = c(a, p) BY <1>7
  <2>2. c(p, p) = p BY <1>6
  <2> QED BY <2>1, <2>2
<1>13. split \subseteq W BY <1>11
<1>14. W \ {<<>>} \subseteq t \cup split
  <2> HIDE DEF split
  <2> QED BY <1>10
<1>15. t = (C \cup U) \ {<<>>} BY <1>4
<1>16. Exact(Cache!Insert(t, p), D) <=> Cache!Insert(t, p) = (D \cup X) \ {<<>>}
  BY DEF Exact, c
<1> HIDE DEF split, U, W, X
<1>17. (t \cup split \cup {p}) \ {<<>>} = (D \cup X) \ {<<>>}
  BY <1>12, <1>13, <1>14, <1>15
<1> QED BY <1>3, <1>16, <1>17

\* _rebuild_trie inserts the cached prompts one after the other into an empty trie.
LEMMA RebuildIsExact ==
    ASSUME NEW T, NEW ps \in Seq(Seq(T))
    PROVE  Exact(Cache!RebuildTrie(ps), Cache!ToSet(ps))
<1> DEFINE k == Len(ps)
           V == SUBSET Seq(T)
           P(f) == f = [i \in 0..Len(ps) |->
                            IF i = 0 THEN {} ELSE Cache!Insert(f[i - 1], ps[i])]
           h == [i \in 1..k |-> [x \in V |-> Cache!Insert(x, ps[i])]]
           built == CHOOSE f : P(f)
<1>1. k \in Nat /\ DOMAIN ps = 1..k /\ \A i \in 1..k : ps[i] \in Seq(T)
  BY LenProperties, ElementOfSeq
<1>2. Steps(h, k, V)
  <2>1. ASSUME NEW i \in 1..k, NEW x \in V PROVE Cache!Insert(x, ps[i]) \in V
    <3>1. \A n \in x : Cache!Common(n, ps[i]) \in Seq(T) BY <1>1, CommonFacts
    <3> QED BY <1>1, <3>1 DEF Cache!Insert
  <2> QED BY <2>1 DEF Steps
<1>3. \A i \in 1..k, x \in V : h[i][x] = Cache!Insert(x, ps[i]) OBVIOUS
<1>4. {} \in V OBVIOUS
<1> HIDE DEF h, V
<1>5. PICK g : Runs(g, h, k, {}, V)
  <2> HIDE DEF k
  <2>1. k \in Nat BY <1>1
  <2> QED BY <1>2, <1>4, <2>1, RunExists
<1>6. P(g)
  <2>0. g \in [0..k -> V] BY <1>5 DEF Runs
  <2>1. ASSUME NEW i \in 0..k
        PROVE  g[i] = IF i = 0 THEN {} ELSE Cache!Insert(g[i - 1], ps[i])
    <3>1. CASE i = 0 BY <1>5, <3>1 DEF Runs
    <3>2. CASE i # 0
      <4>1. i \in 1..k /\ i - 1 \in 0..k BY <1>1, <3>2
      <4>2. g[i - 1] \in V BY <1>5, <4>1 DEF Runs
      <4> HIDE DEF k
      <4> QED BY <1>3, <1>5, <3>2, <4>1, <4>2 DEF Runs
    <3> QED BY <3>1, <3>2
  <2> QED BY <2>0, <2>1
<1>7. P(built)
  <2> HIDE DEF P
  <2> QED BY <1>6
<1>8. Cache!RebuildTrie(ps) = built[k] BY DEF Cache!RebuildTrie
<1> HIDE DEF built
<1>9. \A i \in 0..k : built[i] = IF i = 0 THEN {} ELSE Cache!Insert(built[i - 1], ps[i])
  BY <1>7
<1> HIDE DEF P, k
<1> DEFINE First(i) == {ps[j] : j \in 1..i}
           S == {i \in 0..k : Exact(built[i], First(i))}
<1>10. 0 \in S
  <2>1. built[0] = {} /\ First(0) = {} BY <1>1, <1>9
  <2>2. Exact({}, {}) BY DEF Exact
  <2> HIDE DEF First
  <2>3. Exact(built[0], First(0)) BY <2>1, <2>2
  <2>4. 0 \in 0..k BY <1>1
  <2> QED BY <2>3, <2>4
<1>11. ASSUME NEW i \in Nat, i < k, i \in S PROVE i + 1 \in S
  <2>1. i + 1 \in 1..k /\ i + 1 \in 0..k /\ i + 1 # 0 /\ (i + 1) - 1 = i BY <1>1, <1>11
  <2>2. built[i + 1] = Cache!Insert(built[i], ps[i + 1]) BY <1>9, <2>1
  <2>3. First(i) \in SUBSET Seq(T) /\ ps[i + 1] \in Seq(T) BY <1>1, <2>1
  <2>4. Exact(built[i], First(i)) BY <1>11
  <2>5. First(i + 1) = First(i) \cup {ps[i + 1]} BY <1>1, <2>1
  <2> HIDE DEF First
  <2>6. Exact(Cache!Insert(built[i], ps[i + 1]), First(i) \cup {ps[i + 1]})
    BY <2>3, <2>4, InsertKeepsExact
  <2> QED BY <2>1, <2>2, <2>5, <2>6
<1>12. \A i \in Nat : i < k /\ i \in S => i + 1 \in S BY <1>11
<1>13. First(k) = Cache!ToSet(ps) BY <1>1 DEF Cache!ToSet
<1> HIDE DEF First
<1>14. k \in 0..k BY <1>1
<1>15. k \in S
  <2> HIDE DEF S
  <2>1. \A i \in 0..k : i \in S BY <1>1, <1>10, <1>12, UpTo
  <2> QED BY <1>14, <2>1
<1> QED BY <1>8, <1>13, <1>15

\* What sequences hold after Append and concatenation.
LEMMA AppendMembers ==
    ASSUME NEW T, NEW s \in Seq(T), NEW e \in T
    PROVE  Append(s, e) \in Seq(T) /\ Cache!ToSet(Append(s, e)) = Cache!ToSet(s) \cup {e}
<1> DEFINE u == Append(s, e)
<1>1. Len(s) \in Nat /\ DOMAIN s = 1..Len(s) BY LenProperties
<1>2. /\ u \in Seq(T) /\ Len(u) = Len(s) + 1
      /\ \A i \in 1..Len(s) : u[i] = s[i]
      /\ u[Len(s) + 1] = e
  BY AppendProperties
<1> HIDE DEF u
<1>3. DOMAIN u = 1..Len(s) + 1 BY <1>2, LenProperties
<1>4. {u[i] : i \in 1..Len(s) + 1} = {s[i] : i \in 1..Len(s)} \cup {e}
  <2>1. ASSUME NEW i \in 1..Len(s) + 1 PROVE u[i] \in {s[j] : j \in 1..Len(s)} \cup {e}
    <3>1. CASE i = Len(s) + 1 BY <1>2, <3>1
    <3>2. CASE i # Len(s) + 1
      <4>1. i \in 1..Len(s) BY <1>1, <3>2
      <4> QED BY <1>2, <4>1
    <3> QED BY <3>1, <3>2
  <2>2. ASSUME NEW i \in 1..Len(s) PROVE s[i] \in {u[j] : j \in 1..Len(s) + 1}
    <3>1. i \in 1..Len(s) + 1 /\ u[i] = s[i] BY <1>1, <1>2
    <3> QED BY <3>1
  <2>3. e \in {u[j] : j \in 1..Len(s) + 1}
    <3>1. Len(s) + 1 \in 1..Len(s) + 1 BY <1>1
    <3> QED BY <1>2, <3>1
  <2> QED BY <2>1, <2>2, <2>3
<1>5. Cache!ToSet(u) = Cache!ToSet(s) \cup {e} BY <1>1, <1>3, <1>4 DEF Cache!ToSet
<1> QED BY <1>2, <1>5 DEF u

LEMMA ConcatMembers ==
    ASSUME NEW T, NEW s \in Seq(T), NEW t \in Seq(T)
    PROVE  s \o t \in Seq(T) /\ Cache!ToSet(s \o t) = Cache!ToSet(s) \cup Cache!ToSet(t)
<1> DEFINE u == s \o t
<1>1. /\ Len(s) \in Nat /\ DOMAIN s = 1..Len(s)
      /\ Len(t) \in Nat /\ DOMAIN t = 1..Len(t)
  BY LenProperties
<1>2. /\ u \in Seq(T) /\ Len(u) = Len(s) + Len(t)
      /\ \A i \in 1..Len(s) + Len(t) : u[i] = IF i <= Len(s) THEN s[i] ELSE t[i - Len(s)]
  BY ConcatProperties
<1> HIDE DEF u
<1>3. DOMAIN u = 1..Len(s) + Len(t) BY <1>2, LenProperties
<1>4. {u[i] : i \in 1..Len(s) + Len(t)} = {s[i] : i \in 1..Len(s)} \cup {t[i] : i \in 1..Len(t)}
  <2>1. ASSUME NEW i \in 1..Len(s) + Len(t)
        PROVE  u[i] \in {s[j] : j \in 1..Len(s)} \cup {t[j] : j \in 1..Len(t)}
    <3>1. CASE i <= Len(s)
      <4>1. i \in 1..Len(s) /\ u[i] = s[i] BY <1>1, <1>2, <3>1
      <4> QED BY <4>1
    <3>2. CASE i > Len(s)
      <4>1. i - Len(s) \in 1..Len(t) /\ u[i] = t[i - Len(s)] BY <1>1, <1>2, <3>2
      <4> QED BY <4>1
    <3> QED BY <1>1, <3>1, <3>2
  <2>2. ASSUME NEW i \in 1..Len(s) PROVE s[i] \in {u[j] : j \in 1..Len(s) + Len(t)}
    <3>1. i \in 1..Len(s) + Len(t) /\ u[i] = s[i] BY <1>1, <1>2
    <3> QED BY <3>1
  <2>3. ASSUME NEW i \in 1..Len(t) PROVE t[i] \in {u[j] : j \in 1..Len(s) + Len(t)}
    <3> DEFINE j == Len(s) + i
    <3>1. j \in 1..Len(s) + Len(t) /\ ~(j <= Len(s)) /\ j - Len(s) = i BY <1>1
    <3> HIDE DEF j
    <3>2. u[j] = t[i] BY <1>2, <3>1
    <3> QED BY <3>1, <3>2
  <2> QED BY <2>1, <2>2, <2>3
<1>5. Cache!ToSet(u) = Cache!ToSet(s) \cup Cache!ToSet(t) BY <1>1, <1>3, <1>4 DEF Cache!ToSet
<1> QED BY <1>2, <1>5 DEF u

\* What a selection from the cached prompts holds.
LEMMA ThoseMembers ==
    ASSUME NEW T, NEW s \in Seq(T), NEW kept
    PROVE  /\ Cache!Those(s, kept) \in Seq(T)
           /\ Cache!ToSet(Cache!Those(s, kept)) = Cache!ToSet(s) \cap kept
<1> DEFINE k == Len(s)
           V == Seq(T)
           Next1(x, i) == IF s[i] \in kept THEN Append(x, s[i]) ELSE x
           P(f) == f = [i \in 0..Len(s) |->
                            IF i = 0 THEN <<>>
                            ELSE IF s[i] \in kept THEN Append(f[i - 1], s[i]) ELSE f[i - 1]]
           h == [i \in 1..k |-> [x \in V |-> Next1(x, i)]]
           those == CHOOSE f : P(f)
<1>1. k \in Nat /\ DOMAIN s = 1..k /\ \A i \in 1..k : s[i] \in T
  BY LenProperties, ElementOfSeq
<1>2. Steps(h, k, V)
  <2>1. ASSUME NEW i \in 1..k, NEW x \in V PROVE Next1(x, i) \in V
    BY <1>1, AppendProperties
  <2> HIDE DEF Next1
  <2> QED BY <2>1 DEF Steps
<1>3. \A i \in 1..k, x \in V : h[i][x] = Next1(x, i)
  <2> HIDE DEF Next1
  <2> QED OBVIOUS
<1>4. <<>> \in V BY EmptySeq
<1> HIDE DEF h
<1>5. PICK g : Runs(g, h, k, <<>>, V)
  <2> HIDE DEF k, V
  <2>1. k \in Nat BY <1>1
  <2> QED BY <1>2, <1>4, <2>1, RunExists
<1>6. P(g)
  <2>0. g \in [0..k -> V] BY <1>5 DEF Runs
  <2>1. ASSUME NEW i \in 0..k PROVE g[i] = IF i = 0 THEN <<>> ELSE Next1(g[i - 1], i)
    <3>1. CASE i = 0 BY <1>5, <3>1 DEF Runs
    <3>2. CASE i # 0
      <4>1. i \in 1..k /\ i - 1 \in 0..k BY <1>1, <3>2
      <4> HIDE DEF k, V, Next1
      <4>2. g[i - 1] \in V BY <2>0, <4>1
      <4>3. g[i] = h[i][g[i - 1]] BY <1>5, <4>1 DEF Runs
      <4> QED BY <1>3, <3>2, <4>1, <4>2, <4>3
    <3> QED BY <3>1, <3>2
  <2> QED BY <2>0, <2>1
<1>7. P(those)
  <2> HIDE DEF P
  <2> QED BY <1>6
<1>8. Cache!Those(s, kept) = those[k] BY DEF Cache!Those
<1> HIDE DEF those
<1>9. \A i \in 0..k : those[i] = IF i = 0 THEN <<>> ELSE Next1(those[i - 1], i) BY <1>7
<1> HIDE DEF P, k
<1> DEFINE First(i) == {s[j] : j \in 1..i}
           Good(i) == those[i] \in Seq(T) /\ Cache!ToSet(those[i]) = First(i) \cap kept
           S == {i \in 0..k : Good(i)}
<1>10. 0 \in S
  <2>1. those[0] = <<>> /\ First(0) = {} /\ 0 \in 0..k BY <1>1, <1>9
  <2>2. Cache!ToSet(<<>>) = {} BY EmptySeq DEF Cache!ToSet
  <2> QED BY <1>4, <2>1, <2>2
<1>11. ASSUME NEW i \in Nat, i < k, i \in S PROVE i + 1 \in S
  <2>1. i + 1 \in 1..k /\ i + 1 \in 0..k /\ i + 1 # 0 /\ (i + 1) - 1 = i BY <1>1, <1>11
  <2>2. those[i + 1] = Next1(those[i], i + 1)
    <3> HIDE DEF Next1
    <3> QED BY <1>9, <2>1
  <2>3. those[i] \in Seq(T) /\ Cache!ToSet(those[i]) = First(i) \cap kept BY <1>11
  <2>4. First(i + 1) = First(i) \cup {s[i + 1]} BY <1>1, <2>1
  <2> HIDE DEF First
  <2>5. CASE s[i + 1] \in kept
    <3>1. those[i + 1] = Append(those[i], s[i + 1]) BY <2>2, <2>5
    <3>2. s[i + 1] \in T BY <1>1, <2>1
    <3>3. /\ Append(those[i], s[i + 1]) \in Seq(T)
          /\ Cache!ToSet(Append(those[i], s[i + 1])) = Cache!ToSet(those[i]) \cup {s[i + 1]}
      BY <2>3, <3>2, AppendMembers
    <3> QED BY <2>1, <2>3, <2>4, <2>5, <3>1, <3>3
  <2>6. CASE s[i + 1] \notin kept
    <3>1. those[i + 1] = those[i] BY <2>2, <2>6
    <3> QED BY <2>1, <2>3, <2>4, <2>6, <3>1
  <2> QED BY <2>5, <2>6
<1>12. \A i \in Nat : i < k /\ i \in S => i + 1 \in S BY <1>11
<1>13. First(k) = Cache!ToSet(s) BY <1>1 DEF Cache!ToSet
<1> HIDE DEF First
<1>14. k \in S
  <2> HIDE DEF S
  <2>1. \A i \in 0..k : i \in S BY <1>1, <1>10, <1>12, UpTo
  <2> QED BY <1>1, <2>1
<1> QED BY <1>8, <1>13, <1>14

\* The inductive strengthening of TrieIsExact.
CacheInv ==
    /\ prompts \in Seq(Prompt)
    /\ \A c \in calls : c.prompt \in Prompt
    /\ Exact(trie, Cache!ToSet(prompts))

LEMMA CacheStep ==
    ASSUME CacheInv, Cache!Next \/ UNCHANGED cacheVars
    PROVE  CacheInv'
<1> DEFINE cached == Cache!ToSet(prompts)
<1>1. Prompt \subseteq Seq(Token) BY PartsAssumption DEF Token
<1>2. prompts \in Seq(Prompt) /\ Exact(trie, cached) BY DEF CacheInv
<1>3. cached \subseteq Prompt
  <2>1. DOMAIN prompts = 1..Len(prompts) /\ \A i \in 1..Len(prompts) : prompts[i] \in Prompt
    BY <1>2, LenProperties, ElementOfSeq
  <2> QED BY <2>1 DEF Cache!ToSet
\* A lookup reorders the cached prompts and no more.
<1>4. ASSUME NEW p \in Prompt, Cache!Infer(p) PROVE CacheInv'
  <2>1. /\ prompts' = Cache!AfterLookup(Cache!SearchTrie(p)) /\ trie' = trie
        /\ \A c \in calls' : c \in calls \/ c.prompt = p
    BY <1>4 DEF Cache!Infer
  <2>2. \A x : Cache!Touched(x) \in Seq(Prompt) /\ Cache!ToSet(Cache!Touched(x)) = cached
    <3> SUFFICES ASSUME NEW x
                 PROVE  /\ Cache!Touched(x) \in Seq(Prompt)
                        /\ Cache!ToSet(Cache!Touched(x)) = cached
      OBVIOUS
    <3> DEFINE e == {q \in cached : Cache!IsPrefix(x, q)}
               a == Cache!Those(prompts, cached \ e)
               b == Cache!Those(prompts, e)
    <3>1. Cache!Touched(x) = a \o b BY DEF Cache!Touched
    <3>2. e \subseteq cached OBVIOUS
    <3> HIDE DEF e
    <3>3. /\ a \in Seq(Prompt) /\ Cache!ToSet(a) = cached \cap (cached \ e)
          /\ b \in Seq(Prompt) /\ Cache!ToSet(b) = cached \cap e
      BY <1>2, ThoseMembers
    <3> HIDE DEF a, b
    <3>4. a \o b \in Seq(Prompt) /\ Cache!ToSet(a \o b) = Cache!ToSet(a) \cup Cache!ToSet(b)
      BY <3>3, ConcatMembers
    <3> QED BY <3>1, <3>2, <3>3, <3>4
  <2>3. prompts' \in Seq(Prompt) /\ Cache!ToSet(prompts') = cached
    BY <1>2, <2>1, <2>2 DEF Cache!AfterLookup
  <2>5. Exact(trie', Cache!ToSet(prompts')) BY <1>2, <2>1, <2>3
  <2>6. \A c \in calls' : c.prompt \in Prompt BY <2>1 DEF CacheInv
  <2>7. Exact(trie, Cache!ToSet(prompts))' BY <2>5 DEF Exact, Cache!ToSet
  <2> QED BY <2>3, <2>6, <2>7 DEF CacheInv
\* An insertion adds its prompt, or evicts the oldest and builds the trie anew.
<1>5. ASSUME NEW c \in calls, Cache!InferDone(c) PROVE CacheInv'
  <2> DEFINE p == c.prompt
             new == Cache!Newest(p)
  <2>1. p \in Prompt BY DEF CacheInv
  <2>2. Cache!InsertPrefix(p) /\ calls' \subseteq calls BY <1>5 DEF Cache!InferDone
  <2> HIDE DEF p
  <2>3. new \in Seq(Prompt) /\ Cache!ToSet(new) = cached \cup {p}
    <3> DEFINE a == Cache!Those(prompts, cached \ {p})
    <3>1. new = Append(a, p) BY DEF Cache!Newest
    <3>2. a \in Seq(Prompt) /\ Cache!ToSet(a) = cached \cap (cached \ {p})
      BY <1>2, ThoseMembers
    <3> HIDE DEF a, new
    <3>3. Append(a, p) \in Seq(Prompt) /\ Cache!ToSet(Append(a, p)) = Cache!ToSet(a) \cup {p}
      BY <2>1, <3>2, AppendMembers
    <3> QED BY <3>1, <3>2, <3>3
  <2>4. /\ prompts' \in Seq(Prompt)
        /\ Exact(trie', Cache!ToSet(prompts'))
    <3>1. CASE Len(new) > CacheCapacity
      <4>1. prompts' = Tail(new) /\ trie' = Cache!RebuildTrie(Tail(new))
        BY <2>2, <3>1 DEF Cache!InsertPrefix
      <4>2. Tail(new) \in Seq(Prompt)
        <5> HIDE DEF new
        <5>1. CASE new = <<>>
          <6>1. FALSE
            <7>1. Cache!ToSet(<<>>) = {} BY EmptySeq DEF Cache!ToSet
            <7> QED BY <2>3, <5>1, <7>1
          <6> QED BY <6>1
        <5>2. CASE new # <<>> BY <2>3, <5>2, HeadTailProperties
        <5> QED BY <5>1, <5>2
      <4>3. Tail(new) \in Seq(Seq(Token))
        <5> HIDE DEF new
        <5> DEFINE u == Tail(new)
        <5>1. u \in Seq(Prompt) BY <4>2
        <5> HIDE DEF u
        <5>2. /\ Len(u) \in Nat /\ \A i \in 1..Len(u) : u[i] \in Seq(Token)
              /\ u = [i \in 1..Len(u) |-> u[i]]
          BY <1>1, <5>1, LenProperties, ElementOfSeq
        <5>3. u \in Seq(Seq(Token)) BY <5>2, IsASeq
        <5> QED BY <5>3 DEF u
      <4>4. Exact(Cache!RebuildTrie(Tail(new)), Cache!ToSet(Tail(new)))
        BY <4>3, RebuildIsExact
      <4> HIDE DEF new
      <4> QED BY <4>1, <4>2, <4>4
    <3>2. CASE ~(Len(new) > CacheCapacity)
      <4>1. prompts' = new /\ trie' = Cache!Insert(trie, p)
        BY <2>2, <3>2 DEF Cache!InsertPrefix
      <4>2. cached \in SUBSET Seq(Token) /\ p \in Seq(Token) BY <1>1, <1>3, <2>1
      <4> HIDE DEF cached, new
      <4>3. Exact(Cache!Insert(trie, p), cached \cup {p})
        BY <1>2, <4>2, InsertKeepsExact
      <4> QED BY <2>3, <4>1, <4>3
    <3> QED BY <3>1, <3>2
  <2> QED BY <2>2, <2>4 DEF CacheInv, Exact, Cache!ToSet
<1>6. ASSUME NEW c \in calls, Cache!InferFailed(c) PROVE CacheInv'
  BY <1>6 DEF Cache!InferFailed, CacheInv, Exact, Cache!ToSet
<1>7. CASE UNCHANGED cacheVars
  BY <1>7 DEF cacheVars, CacheInv, Exact, Cache!ToSet
<1> QED BY <1>4, <1>5, <1>6, <1>7 DEF Cache!Next

\* Whatever the order of lookups, insertions and evictions, and whatever a lookup
\* found meanwhile evicted, the trie is that of the cached prompts.
THEOREM TriesAreExact == PartsSpec => []TrieIsExact
<1>1. PartsInit => CacheInv
  <2> SUFFICES ASSUME PartsInit PROVE CacheInv OBVIOUS
  <2>1. prompts = <<>> /\ trie = {} /\ calls = {} BY DEF PartsInit, Cache!Init
  <2>2. <<>> \in Seq(Prompt) /\ Cache!ToSet(<<>>) = {} BY EmptySeq DEF Cache!ToSet
  <2>3. Exact({}, {}) BY DEF Exact
  <2> QED BY <2>1, <2>2, <2>3 DEF CacheInv
<1>2. CacheInv /\ [PartsNext]_partsVars => CacheInv'
  <2> SUFFICES ASSUME CacheInv, [PartsNext]_partsVars PROVE CacheInv' OBVIOUS
  <2>1. Cache!Next \/ UNCHANGED cacheVars BY DEF PartsNext, partsVars
  <2> QED BY <2>1, CacheStep
<1>3. CacheInv => TrieIsExact
  BY DEF CacheInv, Exact, TrieIsExact, Cache!TrieIsExact
<1> QED BY <1>1, <1>2, <1>3, PTL DEF PartsSpec
=============================================================================
