---------------------------- MODULE Authentication ----------------------------
(***************************************************************************)
(* internal/auth and simulator/auth.go: one request's way through the      *)
(* authentication chain and the access policy.                             *)
(*                                                                         *)
(* authorize takes a snapshot of the chain and then asks HTTP Digest, the  *)
(* WS-Security UsernameToken and, when it is configured, JWT in turn; the  *)
(* first that succeeds names the caller, and the others must not fail.     *)
(* Meanwhile the clock moves, the users change in the store every chain    *)
(* reads, and a reload replaces the chain by one with a new nonce key and  *)
(* an empty nonce cache.                                                   *)
(*                                                                         *)
(* One user stands for all: requests meet only in the nonce cache, whose   *)
(* key does not hold the user.  Hashes are not computed: a digest is right *)
(* when it was made with the nonce, the time and the password it claims.   *)
(* The cache knows a UsernameToken's nonce as it is written in base64; its *)
(* digest is over the bytes, which may be written in more ways than one.   *)
(***************************************************************************)
EXTENDS AccessPolicy, Integers, FiniteSets

CONSTANTS
    Clients,       \* callers of the ONVIF services
    Parties,       \* the sets of clients that call at the same time
    Requests,      \* Requests[c]: the requests client c makes
    Records,       \* the records the user may have
    Settings,      \* the settings a reload may bring
    Nonces,        \* the nonces of UsernameTokens, as they are written
    Decoded,       \* Decoded[n]: the bytes n stands for
    None,          \* stands for "no record", "no nonce", "no role"
    Skew,          \* MaxClockSkew of the UsernameToken
    NonceTTL,      \* NonceTTL of the digest
    MaxSize,       \* maxSize of the nonce cache
    MaxTime,       \* bound: the clock stops there
    MaxRebuilds,   \* bound: rebuilds of the chain
    MaxChanges     \* bound: changes of the user's record

Record == [right : BOOLEAN, role : Roles]
Bearer == [expires : Nat, trusted : BOOLEAN, roles : SUBSET Roles]
Bytes == {Decoded[n] : n \in Nonces}
RequestType ==
    [http : {"none", "digest", "broken", "bearer"}, token : {"none", "digest", "broken"},
     nonce : Nonces, made : Bytes, created : Nat, bearer : Bearer, class : AccessClasses]
Epochs == 0 .. MaxRebuilds
Times == 0 .. MaxTime

ASSUME AuthAssumption ==
    /\ Parties \subseteq SUBSET Clients
    /\ Requests \in [Clients -> SUBSET RequestType]
    /\ Records \subseteq Record
    /\ Settings \subseteq [enabled : BOOLEAN, jwt : BOOLEAN]
    /\ Nonces # {}
    /\ None \notin Record \cup Roles \cup [epoch : Epochs, issued : Times]
    /\ Skew \in Nat \ {0}
    /\ NonceTTL \in Nat \ {0}
    /\ MaxSize \in Nat \ {0}
    /\ MaxTime \in Nat
    /\ MaxRebuilds \in Nat
    /\ MaxChanges \in Nat

VARIABLES
    now,        \* the clock
    record,     \* the user's record in auth.MutableUserStore
    chain,      \* authChain and authEnabled; `epoch` tells one chain from another
    seen,       \* seen[e]: NonceCache.seen of chain e
    pc,         \* where the request of each client stands
    req,        \* req[c]: the request
    snap,       \* snap[c]: the chain it goes through
    caller,     \* caller[c]: the roles of the principal found so far, or None
    checked,    \* checked[c]: when the timestamp of its UsernameToken was checked
    offer,      \* offer[c]: the digest nonce in the challenge of the answer
    verdict,    \* verdict[c]: the answer
    nonce,      \* nonce[c]: the digest nonce client c holds
    changes,    \* changes of the record so far
    window,     \* history: the records the user has had during c's request
    accepted,   \* history: <<epoch, nonce, created>> of each UsernameToken accepted
    crowded     \* history: chains whose cache has dropped a live entry

request == <<req, snap>>
vars == <<now, record, chain, seen, pc, request, caller, checked, offer, verdict, nonce,
          changes, window, accepted, crowded>>
world == <<now, record, chain, nonce, changes, window>>

At(c, label) == pc[c] = label
Goto(c, label) == pc' = [pc EXCEPT ![c] = label]

-----------------------------------------------------------------------------
(* The request and its end *)

NonceOf(e) == [epoch |-> e, issued |-> now]

\* A digest client that holds no nonce yet sends no credentials.
Sent(c, r) == IF r.http = "digest" /\ nonce[c] = None THEN [r EXCEPT !.http = "none"] ELSE r

\* authorize: with authentication off, and for a class that needs none, nothing is asked.
Begin(c) ==
    /\ At(c, "idle")
    /\ \E r \in Requests[c] : req' = [req EXCEPT ![c] = Sent(c, r)]
    /\ snap' = [snap EXCEPT ![c] = chain]
    /\ window' = [window EXCEPT ![c] = {record}]
    /\ IF chain.enabled /\ req'[c].class # "PreAuth"
       THEN Goto(c, "digest") /\ UNCHANGED verdict
       ELSE Goto(c, "answered") /\ verdict' = [verdict EXCEPT ![c] = "granted"]
    /\ UNCHANGED <<now, record, chain, seen, caller, checked, offer, nonce, changes, accepted,
                   crowded>>

\* An answer of 401, with the challenge the digest authenticator made, if it made one.
Refuse(c) == Goto(c, "answered") /\ verdict' = [verdict EXCEPT ![c] = "refused"]

\* The first scheme that succeeds names the caller.
Recognised(c, roles) ==
    /\ caller' = [caller EXCEPT ![c] = IF @ = None THEN roles ELSE @]
    /\ UNCHANGED verdict

SomeNonce == CHOOSE n \in Nonces : TRUE
NoRequest == [http |-> "none", token |-> "none",
              nonce |-> SomeNonce, made |-> Decoded[SomeNonce], created |-> 0,
              bearer |-> [expires |-> 0, trusted |-> FALSE, roles |-> {}], class |-> "PreAuth"]
FirstChain == [epoch |-> 0, enabled |-> TRUE, jwt |-> FALSE]

\* What a request held is gone once it is answered.
Forget(c) ==
    /\ Goto(c, "idle")
    /\ req' = [req EXCEPT ![c] = NoRequest]
    /\ snap' = [snap EXCEPT ![c] = FirstChain]
    /\ caller' = [caller EXCEPT ![c] = None]
    /\ checked' = [checked EXCEPT ![c] = 0]
    /\ offer' = [offer EXCEPT ![c] = None]
    /\ verdict' = [verdict EXCEPT ![c] = "none"]
    /\ window' = [window EXCEPT ![c] = {}]
    /\ UNCHANGED <<now, record, chain, seen, changes, accepted, crowded>>

\* The client takes the nonce of the challenge a refusal brings, unless it is lost.
Receive(c) ==
    /\ At(c, "answered")
    /\ Forget(c)
    /\ nonce' = [nonce EXCEPT ![c] =
           IF verdict[c] = "refused" /\ offer[c] # None THEN offer[c] ELSE @]

Lose(c) ==
    /\ At(c, "answered")
    /\ Forget(c)
    /\ UNCHANGED nonce

-----------------------------------------------------------------------------
(* digestAuth.Authenticate *)

\* verifyNonce: made with this chain's key, and not too old.
NonceValid(c) == nonce[c].epoch = snap[c].epoch
NonceFresh(c) == now - nonce[c].issued <= NonceTTL
Answers(c) ==
    /\ req[c].http = "digest"
    /\ NonceValid(c)
    /\ NonceFresh(c)
    /\ record # None
    /\ record.right

MutDigest(c) ==
    /\ At(c, "digest")
    /\ CASE req[c].http = "none" ->
                /\ offer' = [offer EXCEPT ![c] = NonceOf(snap[c].epoch)]
                /\ Goto(c, "token")
                /\ UNCHANGED <<caller, verdict>>
         [] req[c].http = "bearer" -> Goto(c, "token") /\ UNCHANGED <<offer, caller, verdict>>
         [] req[c].http \in {"digest", "broken"} ->
                IF Answers(c)
                THEN /\ Recognised(c, {record.role})
                     /\ Goto(c, "token")
                     /\ UNCHANGED offer
                ELSE Refuse(c) /\ UNCHANGED <<caller, offer>>
    /\ UNCHANGED <<world, seen, request, checked, accepted, crowded>>

Digest(c) ==
    /\ At(c, "digest")
    /\ CASE req[c].http = "none" ->
                /\ offer' = [offer EXCEPT ![c] = NonceOf(snap[c].epoch)]
                /\ Goto(c, "token")
                /\ UNCHANGED <<caller, verdict>>
         [] req[c].http = "bearer" -> Goto(c, "token") /\ UNCHANGED <<offer, caller, verdict>>
         [] req[c].http \in {"digest", "broken"} ->
                IF Answers(c)
                THEN /\ Recognised(c, {record.role})
                     /\ Goto(c, "token")
                     /\ UNCHANGED offer
                ELSE /\ offer' = [offer EXCEPT ![c] = NonceOf(snap[c].epoch)]
                     /\ Refuse(c)
                     /\ UNCHANGED caller
    /\ UNCHANGED <<world, seen, request, checked, accepted, crowded>>

-----------------------------------------------------------------------------
(* usernameTokenAuth.authenticate *)

Apart(a, b) == IF a > b THEN a - b ELSE b - a

\* readToken and verifyTimestamp.  A token that cannot be read, or whose password is sent
\* as text, is refused here or by verifyPassword, and leaves no trace in either case.
MutToken(c) ==
    /\ At(c, "token")
    /\ IF req[c].token = "none" \/ caller[c] # None
       THEN Goto(c, "bearer") /\ UNCHANGED <<verdict, checked>>
       ELSE IF req[c].token = "broken" \/ Apart(now, req[c].created) > Skew
       THEN Refuse(c) /\ UNCHANGED checked
       ELSE Goto(c, "nonce") /\ checked' = [checked EXCEPT ![c] = now] /\ UNCHANGED verdict
    /\ UNCHANGED <<world, seen, request, caller, offer, accepted, crowded>>

Token(c) ==
    /\ At(c, "token")
    /\ IF req[c].token = "none" THEN Goto(c, "bearer") /\ UNCHANGED <<verdict, checked>>
       ELSE IF req[c].token = "broken" \/ Apart(now, req[c].created) > Skew
       THEN Refuse(c) /\ UNCHANGED checked
       ELSE Goto(c, "nonce") /\ checked' = [checked EXCEPT ![c] = now] /\ UNCHANGED verdict
    /\ UNCHANGED <<world, seen, request, caller, offer, accepted, crowded>>

\* NonceCache.Add: what is left after pruning; whether the pair is in it; and, when the
\* cache is full, one oldest entry less.
MutTTL == Skew
TTL == 2 * Skew
Pruned(s) == {e \in s : e.at >= now - TTL}
Replayed(s, n, t) == \E e \in Pruned(s) : e.nonce = n /\ e.created = t
Full(s) == Cardinality(Pruned(s)) >= MaxSize
Roomy(s) ==
    IF Full(s)
    THEN {Pruned(s) \ {e} : e \in {x \in Pruned(s) : \A y \in Pruned(s) : x.at <= y.at}}
    ELSE {Pruned(s)}
Remembered(s, n, t) ==
    {kept \cup {[nonce |-> n, created |-> t, at |-> now]} : kept \in Roomy(s)}

\* verifyPasswordDigest: the digest is compared with one over the decoded nonce.  A nonce
\* that is no base64 decodes to what no digest was made with.
Matches(c) == record.right /\ req[c].made = Decoded[req[c].nonce]

\* Lookup, then verifyPassword: nonce, as it is written, and time are recorded before the
\* password is compared.
Nonce(c) ==
    LET e == snap[c].epoch
        n == req[c].nonce
        t == req[c].created
    IN /\ At(c, "nonce")
       /\ \/ /\ record = None
             /\ Refuse(c)
             /\ UNCHANGED <<seen, caller, accepted, crowded>>
          \/ /\ record # None
             /\ Replayed(seen[e], n, t)
             /\ seen' = [seen EXCEPT ![e] = Pruned(@)]
             /\ Refuse(c)
             /\ UNCHANGED <<caller, accepted, crowded>>
          \/ /\ record # None
             /\ ~Replayed(seen[e], n, t)
             /\ \E s \in Remembered(seen[e], n, t) : seen' = [seen EXCEPT ![e] = s]
             /\ crowded' = IF Full(seen[e]) THEN crowded \cup {e} ELSE crowded
             /\ IF Matches(c)
                THEN /\ Recognised(c, {record.role})
                     /\ accepted' = accepted \cup {<<e, n, t>>}
                     /\ Goto(c, "bearer")
                ELSE Refuse(c) /\ UNCHANGED <<caller, accepted>>
       /\ checked' = [checked EXCEPT ![c] = 0]
       /\ UNCHANGED <<world, request, offer>>

-----------------------------------------------------------------------------
(* jwtAuth.Authenticate, and the policy *)

\* `trusted` stands for the signature, the issuer, the audience, the user name claim and
\* the transport.
JWT(c) ==
    /\ At(c, "bearer")
    /\ LET b == req[c].bearer
       IN IF ~snap[c].jwt \/ req[c].http # "bearer"
          THEN Goto(c, "policy") /\ UNCHANGED <<caller, verdict>>
          ELSE IF b.trusted /\ now < b.expires
          THEN Recognised(c, b.roles) /\ Goto(c, "policy")
          ELSE Refuse(c) /\ UNCHANGED caller
    /\ UNCHANGED <<world, seen, request, checked, offer, accepted, crowded>>

Policy(c) ==
    /\ At(c, "policy")
    /\ IF caller[c] = None THEN Refuse(c)
       ELSE /\ Goto(c, "answered")
            /\ verdict' = [verdict EXCEPT ![c] =
                   IF Allow(caller[c], req[c].class) THEN "granted" ELSE "forbidden"]
    /\ UNCHANGED <<world, seen, request, caller, checked, offer, accepted, crowded>>

Request(c) ==
    Begin(c) \/ Digest(c) \/ Token(c) \/ Nonce(c) \/ JWT(c) \/ Policy(c)

-----------------------------------------------------------------------------
(* The world around *)

Tick ==
    /\ now < MaxTime
    /\ now' = now + 1
    /\ UNCHANGED <<record, chain, seen, pc, request, caller, checked, offer, verdict, nonce,
                   changes, window, accepted, crowded>>

\* SyncFromConfig puts the user in, changes it or takes it out.
SyncFromConfig(r) ==
    /\ changes < MaxChanges
    /\ r # record
    /\ record' = r
    /\ changes' = changes + 1
    /\ window' = [c \in Clients |-> IF At(c, "idle") THEN {} ELSE window[c] \cup {r}]
    /\ UNCHANGED <<now, chain, seen, pc, request, caller, checked, offer, verdict, nonce,
                   accepted, crowded>>

\* rebuildAuthChain
Rebuild(cfg) ==
    /\ chain.epoch < MaxRebuilds
    /\ chain' = [epoch |-> chain.epoch + 1, enabled |-> cfg.enabled, jwt |-> cfg.jwt]
    /\ UNCHANGED <<now, record, seen, pc, request, caller, checked, offer, verdict, nonce,
                   changes, window, accepted, crowded>>

Init ==
    /\ now = 0
    /\ record \in Records
    /\ chain \in {[FirstChain EXCEPT !.enabled = on] : on \in BOOLEAN}
    /\ seen = [e \in Epochs |-> {}]
    /\ \E party \in Parties : pc = [c \in Clients |-> IF c \in party THEN "idle" ELSE "absent"]
    /\ req = [c \in Clients |-> NoRequest]
    /\ snap = [c \in Clients |-> FirstChain]
    /\ caller = [c \in Clients |-> None]
    /\ checked = [c \in Clients |-> 0]
    /\ offer = [c \in Clients |-> None]
    /\ verdict = [c \in Clients |-> "none"]
    /\ nonce = [c \in Clients |-> None]
    /\ changes = 0
    /\ window = [c \in Clients |-> {}]
    /\ accepted = {}
    /\ crowded = {}

Next ==
    \/ \E c \in Clients : Request(c) \/ Receive(c) \/ Lose(c)
    \/ Tick
    \/ \E r \in Records \cup {None} : SyncFromConfig(r)
    \/ \E cfg \in Settings : Rebuild(cfg)

\* A request that arrived is served to its end, a client keeps asking, and not every
\* answer is lost.
Fairness == \A c \in Clients : WF_vars(Request(c)) /\ SF_vars(Receive(c))

Spec == Init /\ [][Next]_vars /\ Fairness

-----------------------------------------------------------------------------
(* Properties *)

NonceType == [epoch : Epochs, issued : Times]
Chain == [epoch : Epochs, enabled : BOOLEAN, jwt : BOOLEAN]
Entry == [nonce : Nonces, created : Nat, at : Times]

\* Every variable keeps its type, and no nonce cache outgrows its maximum (NonceCache.Add).
TypeOK ==
    /\ now \in Times
    /\ record \in Record \cup {None}
    /\ chain \in Chain
    /\ seen \in [Epochs -> SUBSET Entry]
    /\ pc \in [Clients -> {"absent", "idle", "digest", "token", "nonce", "bearer", "policy", "answered"}]
    /\ req \in [Clients -> RequestType]
    /\ snap \in [Clients -> Chain]
    /\ caller \in [Clients -> (SUBSET Roles) \cup {None}]
    /\ checked \in [Clients -> Times]
    /\ offer \in [Clients -> NonceType \cup {None}]
    /\ verdict \in [Clients -> {"none", "granted", "refused", "forbidden"}]
    /\ nonce \in [Clients -> NonceType \cup {None}]
    /\ changes \in 0 .. MaxChanges
    /\ window \in [Clients -> SUBSET (Record \cup {None})]
    /\ accepted \in SUBSET (Epochs \X Nonces \X Nat)
    /\ crowded \in SUBSET Epochs
    /\ \A e \in Epochs : IsFiniteSet(seen[e]) /\ Cardinality(seen[e]) <= MaxSize

\* What may have made client c known: its password was right, or its token was trusted.
Vouched(c) ==
    {{r.role} : r \in {x \in window[c] \ {None} : x.right}}
        \cup (IF req[c].http = "bearer" /\ req[c].bearer.trusted /\ snap[c].jwt
              THEN {req[c].bearer.roles} ELSE {})
Pair(c) == <<snap[c].epoch, req[c].nonce, req[c].created>>
Asked(c) == snap[c].enabled /\ req[c].class # "PreAuth"

\* authorize, Chain.Authenticate: an answer follows from one record the user had, or one
\* token that was good, while the request was served, whatever the users and the chain
\* became meanwhile; and no UsernameToken is passed over because another scheme succeeded.
DecisionJustified ==
    \A c \in Clients : At(c, "answered") =>
        /\ verdict[c] = "granted" /\ Asked(c) =>
               /\ \E roles \in Vouched(c) : Allow(roles, req[c].class)
               /\ req[c].token # "broken"
               /\ req[c].token = "digest" => Pair(c) \in accepted
        /\ verdict[c] = "forbidden" =>
               Asked(c) /\ \E roles \in Vouched(c) : ~Allow(roles, req[c].class)
        /\ verdict[c] = "refused" => Asked(c)

\* NonceCache: a chain accepts a pair of a nonce, as it is written, and a time once, as long
\* as its cache never had to drop an entry for want of room, and for a token recorded at the
\* time its age was checked.
TokenAcceptedOnce ==
    [][\A c \in Clients : At(c, "nonce") /\ pc'[c] = "bearer" /\ checked[c] = now =>
           Pair(c) \notin accepted \/ snap[c].epoch \in crowded]_vars

\* nonce_cache.go says more: the same nonce and time pass once.  That holds of the text of a
\* nonce and not of its bytes, which a client that writes them in another way sends again:
\* no run checks this, and the README says why it fails.
BytesAcceptedOnce ==
    [][\A c \in Clients : At(c, "nonce") /\ pc'[c] = "bearer" /\ checked[c] = now =>
           \/ \A n \in Nonces : Decoded[n] = Decoded[req[c].nonce] =>
                  <<snap[c].epoch, n, req[c].created>> \notin accepted
           \/ snap[c].epoch \in crowded]_vars

\* Every refusal of a digest brings a nonce that will do: a client that answers the
\* challenges, whose password is right from some time on, is not refused for ever, neither
\* after a nonce grew old nor after the chain was replaced.
DigestClientServed ==
    \A c \in {d \in Clients : Requests[d] # {} /\ \A r \in Requests[d] :
                                      r.http = "digest" /\ r.token = "none"} :
        <>[](record # None /\ record.right) /\ ~At(c, "absent")
            => []<>(At(c, "answered") /\ verdict[c] # "refused")
=============================================================================
