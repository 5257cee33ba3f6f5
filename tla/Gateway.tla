------------------------------- MODULE Gateway -------------------------------
(***************************************************************************)
(* Requester credentials: POST /v1/credentials and scripts/mint_token.py   *)
(* sign them, verify_jwt of scheduler.api.ingress accepts or refuses them, *)
(* and an operator rotates the keys by redeploying the Scheduler.          *)
(*                                                                         *)
(* The public keys and the paths of the private keys are settings, read    *)
(* once when the application is built.  A private key is read from its     *)
(* path at every issuance, so generating a key pair over the file changes  *)
(* what a running Scheduler signs with and not what it verifies with.      *)
(*                                                                         *)
(* The operator is external: a deployment never drops a public key before  *)
(* every credential signed with it within the cap has expired ("retire the *)
(* old one once the last token minted under it has expired").              *)
(***************************************************************************)
EXTENDS Naturals, FiniteSets, Functions

CONSTANTS
    Key,         \* key pairs
    NoKey,
    KeyFile,     \* the path generate_keypair writes to
    MaxTtl,      \* credential_max_ttl_hours
    MaxHours,    \* bound on the lifetimes asked for
    MaxTokens,   \* bound on credentials
    MaxTime      \* bound on time

Kid == {"primary", "secondary"}

VARIABLES
    now,
    slot,        \* app.state.jwt_public_key and jwt_public_key_secondary
    path,        \* jwt_private_key_path and jwt_private_key_path_secondary: the
                 \* key file, or a copy of some key
    file,        \* the key in the key file, or NoKey
    made,        \* keys generated so far
    tokens,      \* the credentials in circulation
    quit         \* when each key last stopped signing

gatewayVars == <<now, slot, path, file, made, tokens, quit>>

\* _signing_key
SigningKey(p, f, kid) == IF p[kid] = KeyFile THEN f ELSE p[kid]
Signing(p, f) == {SigningKey(p, f, kid) : kid \in Kid} \ {NoKey}

-----------------------------------------------------------------------------
(***************************************************************************)
(* verify_jwt                                                              *)
(***************************************************************************)

\* jwt.decode: the signature, then the expiry
Decodes(tok, key) == key # NoKey /\ tok.key = key /\ now < tok.exp

\* _decode_with_any: the kid orders the keys that are tried, it excludes none
DecodeNamed(tok) == IF tok.kid \in Kid THEN Decodes(tok, slot[tok.kid])
                    ELSE \E kid \in Kid : Decodes(tok, slot[kid])
DecodeWithAny(tok) == \E kid \in Kid : Decodes(tok, slot[kid])

-----------------------------------------------------------------------------
(***************************************************************************)
(* Signing                                                                 *)
(***************************************************************************)

\* deployed is history: whether the key verified when the credential was signed
Sign(key, kid, ttl, issuer) ==
    /\ Cardinality(tokens) < MaxTokens
    /\ tokens' = tokens \cup {[key |-> key, kid |-> kid, exp |-> now + ttl,
                               issuer |-> issuer, deployed |-> key \in Range(slot)]}
    /\ UNCHANGED <<now, slot, path, file, made, quit>>

\* issue_credential: a lifetime above the cap is cut to it; a kid without a key is 503
LifetimeOf(ttl) == IF ttl < MaxTtl THEN ttl ELSE MaxTtl

IssueCredential(kid, ttl) ==
    /\ SigningKey(path, file, kid) # NoKey
    /\ Sign(SigningKey(path, file, kid), kid, LifetimeOf(ttl), "endpoint")

\* mint: the key file, any kid and any lifetime
Mint(kid, hours) ==
    /\ file # NoKey
    /\ Sign(file, kid, hours, "script")

-----------------------------------------------------------------------------
(***************************************************************************)
(* Keys and deployments                                                    *)
(***************************************************************************)

QuitAfter(p, f) ==
    [k \in Key |-> IF k \in Signing(path, file) \ Signing(p, f) THEN now ELSE quit[k]]

\* generate_keypair, which overwrites the key file only with --force
GenerateKeypair(k, force) ==
    /\ k \notin made
    /\ file = NoKey \/ force
    /\ made' = made \cup {k}
    /\ file' = k
    /\ quit' = QuitAfter(path, k)
    /\ UNCHANGED <<now, slot, path, tokens>>

Spent(k) == k \notin Signing(path, file) /\ now >= quit[k] + MaxTtl

\* create_app with new settings
Deploy(public, private) ==
    /\ <<public, private>> # <<slot, path>>
    /\ \A k \in (Range(slot) \ Range(public)) \ {NoKey} : Spent(k)
    /\ Signing(private, file) \subseteq Range(public)
    /\ slot' = public
    /\ path' = private
    /\ quit' = QuitAfter(private, file)
    /\ UNCHANGED <<now, file, made, tokens>>

Tick ==
    /\ now < MaxTime
    /\ now' = now + 1
    /\ UNCHANGED <<slot, path, file, made, tokens, quit>>

Init ==
    /\ now = 0
    /\ slot = [kid \in Kid |-> NoKey]
    /\ path = [kid \in Kid |-> NoKey]
    /\ file = NoKey
    /\ made = {}
    /\ tokens = {}
    /\ quit = [k \in Key |-> 0]

Next ==
    \/ \E kid \in Kid, hours \in 1..MaxHours : IssueCredential(kid, hours) \/ Mint(kid, hours)
    \/ \E k \in Key, force \in BOOLEAN : GenerateKeypair(k, force)
    \/ \E public \in [Kid -> made \cup {NoKey}],
          private \in [Kid -> made \cup {NoKey, KeyFile}] : Deploy(public, private)
    \/ Tick

-----------------------------------------------------------------------------
\* A credential from the endpoint that verified when it was issued verifies until it
\* expires, whatever slots the keys move through and whichever key signs: rotation
\* is a sequence and not an outage.
CredentialSurvivesRotation ==
    \A tok \in tokens :
        tok.issuer = "endpoint" /\ tok.deployed /\ now < tok.exp => DecodeWithAny(tok)
=============================================================================
