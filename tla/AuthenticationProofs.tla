------------------------- MODULE AuthenticationProofs -------------------------
(***************************************************************************)
(* Proofs about Authentication, for any clients, requests, lifetimes and   *)
(* sizes of the nonce cache.                                               *)
(***************************************************************************)
EXTENDS Authentication, FiniteSetTheorems, TLAPS

(* Types *)

USE DEF Pair

\* The constants and what stands for "nothing yet" have their types.
LEMMA SmallTypes ==
    /\ FirstChain \in Chain
    /\ NoRequest \in RequestType
    /\ Epochs \subseteq Int /\ Times \subseteq Int /\ 0 \in Times
    /\ \A c \in Clients : \A r \in Requests[c] : r \in RequestType
<1>1. SomeNonce \in Nonces /\ Decoded[SomeNonce] \in Bytes
  BY AuthAssumption DEF SomeNonce, Bytes
<1> QED
  BY <1>1, AuthAssumption DEF FirstChain, Chain, NoRequest, RequestType, Bearer, Epochs,
     Times, AccessClasses

\* A challenge made now is a nonce.
LEMMA NonceTypes ==
    ASSUME TypeOK, NEW c \in Clients
    PROVE  NonceOf(snap[c].epoch) \in NonceType
  BY DEF TypeOK, NonceOf, NonceType, Chain

\* NonceCache.Add: one entry more than what is left, and never more than MaxSize.
LEMMA CacheBounded ==
    ASSUME NEW s, s \in SUBSET Entry, IsFiniteSet(s), Cardinality(s) <= MaxSize,
           now \in Times
    PROVE  /\ Pruned(s) \subseteq s
           /\ IsFiniteSet(Pruned(s)) /\ Cardinality(Pruned(s)) <= MaxSize
           /\ \A n \in Nonces, t \in Nat : \A q \in Remembered(s, n, t) :
                  q \in SUBSET Entry /\ IsFiniteSet(q) /\ Cardinality(q) <= MaxSize
<1>1. Pruned(s) \subseteq s
  BY DEF Pruned
<1>2. /\ IsFiniteSet(Pruned(s)) /\ Cardinality(Pruned(s)) <= Cardinality(s)
      /\ Cardinality(s) \in Nat /\ Cardinality(Pruned(s)) \in Nat
  BY <1>1, FS_Subset, FS_CardinalityType
<1>3. Cardinality(Pruned(s)) <= MaxSize /\ MaxSize \in Nat
  BY <1>2, AuthAssumption
<1>4. ASSUME NEW n \in Nonces, NEW t \in Nat, NEW q \in Remembered(s, n, t)
      PROVE  q \in SUBSET Entry /\ IsFiniteSet(q) /\ Cardinality(q) <= MaxSize
  <2> DEFINE x == [nonce |-> n, created |-> t, at |-> now]
  <2>1. PICK kept \in Roomy(s) : q = kept \cup {x}
    BY <1>4 DEF Remembered
  <2>2. /\ kept \subseteq Pruned(s) /\ IsFiniteSet(kept)
        /\ Cardinality(kept) \in Nat /\ Cardinality(kept) < MaxSize
    <3>1. CASE Full(s)
      <4>1. PICK e \in Pruned(s) : kept = Pruned(s) \ {e}
        BY <2>1, <3>1 DEF Roomy
      <4>2. IsFiniteSet(kept) /\ Cardinality(kept) = Cardinality(Pruned(s)) - 1
        BY <1>2, <4>1, FS_RemoveElement
      <4> QED
        BY <1>2, <1>3, <4>1, <4>2, FS_CardinalityType
    <3>2. CASE ~Full(s)
      BY <1>2, <1>3, <2>1, <3>2 DEF Roomy, Full
    <3> QED
      BY <3>1, <3>2
  <2>3. IsFiniteSet(q) /\ (Cardinality(q) = Cardinality(kept) \/ Cardinality(q) = Cardinality(kept) + 1)
    BY <2>1, <2>2, FS_AddElement
  <2>4. x \in Entry
    BY DEF Entry
  <2> QED
    BY <1>1, <1>3, <2>1, <2>2, <2>3, <2>4
<1> QED
  BY <1>1, <1>2, <1>3, <1>4

\* A request is taken with the chain there is.
LEMMA BeginTypes ==
    ASSUME TypeOK, NEW c \in Clients, Begin(c)
    PROVE  TypeOK'
<1> USE SmallTypes DEF TypeOK
<1>1. PICK r \in Requests[c] : req' = [req EXCEPT ![c] = Sent(c, r)]
  BY DEF Begin
<1>2. Sent(c, r) \in RequestType
  <2>1. r \in RequestType
    BY SmallTypes
  <2>2. [r EXCEPT !.http = "none"] \in RequestType
    BY <2>1 DEF RequestType
  <2> QED
    BY <2>1, <2>2 DEF Sent
<1>3. /\ req' \in [Clients -> RequestType] /\ snap' \in [Clients -> Chain]
      /\ window' \in [Clients -> SUBSET (Record \cup {None})]
  BY <1>1, <1>2 DEF Begin
<1>4. /\ pc' \in [Clients -> {"absent", "idle", "digest", "token", "nonce", "bearer",
                              "policy", "answered"}]
      /\ verdict' \in [Clients -> {"none", "granted", "refused", "forbidden"}]
  BY DEF Begin, Goto
<1> QED
  BY <1>3, <1>4 DEF Begin

\* An answer that is read or lost leaves the client as it was before it asked.
LEMMA ForgetTypes ==
    ASSUME TypeOK, NEW c \in Clients, Receive(c) \/ Lose(c)
    PROVE  TypeOK'
<1> USE SmallTypes DEF TypeOK
<1>1. Forget(c)
  BY DEF Receive, Lose
<1>2. nonce' \in [Clients -> NonceType \cup {None}]
  BY DEF Receive, Lose
<1>3. /\ req' \in [Clients -> RequestType] /\ snap' \in [Clients -> Chain]
      /\ caller' \in [Clients -> (SUBSET Roles) \cup {None}]
      /\ checked' \in [Clients -> Times] /\ offer' \in [Clients -> NonceType \cup {None}]
  BY <1>1 DEF Forget
<1>4. /\ pc' \in [Clients -> {"absent", "idle", "digest", "token", "nonce", "bearer",
                              "policy", "answered"}]
      /\ verdict' \in [Clients -> {"none", "granted", "refused", "forbidden"}]
      /\ window' \in [Clients -> SUBSET (Record \cup {None})]
  BY <1>1 DEF Forget, Goto
<1> QED
  BY <1>1, <1>2, <1>3, <1>4 DEF Forget

\* The schemes without a cache, and the policy, leave every variable in its type.
LEMMA StepTypes ==
    ASSUME TypeOK, NEW c \in Clients, Digest(c) \/ Token(c) \/ JWT(c) \/ Policy(c)
    PROVE  TypeOK'
<1> USE DEF TypeOK
<1>1. /\ pc' \in [Clients -> {"absent", "idle", "digest", "token", "nonce", "bearer",
                              "policy", "answered"}]
      /\ verdict' \in [Clients -> {"none", "granted", "refused", "forbidden"}]
  <2>1. CASE Digest(c)
    BY <2>1 DEF Digest, Goto, Refuse, Recognised, RequestType
  <2>2. CASE Token(c)
    BY <2>2 DEF Token, Goto, Refuse
  <2>3. CASE JWT(c)
    BY <2>3 DEF JWT, Goto, Refuse, Recognised
  <2>4. CASE Policy(c)
    BY <2>4 DEF Policy, Goto, Refuse
  <2> QED
    BY <2>1, <2>2, <2>3, <2>4
<1>2. caller' \in [Clients -> (SUBSET Roles) \cup {None}]
  <2>1. CASE Digest(c)
    <3>1. Answers(c) => {record.role} \in SUBSET Roles
      BY DEF Answers, Record
    <3> QED
      BY <2>1, <3>1 DEF Digest, Recognised, RequestType
  <2>2. CASE JWT(c)
    <3>1. req[c].bearer.roles \in SUBSET Roles
      BY DEF RequestType, Bearer
    <3> QED
      BY <2>2, <3>1 DEF JWT, Recognised
  <2> QED
    BY <2>1, <2>2 DEF Token, Policy
<1>3. offer' \in [Clients -> NonceType \cup {None}]
  BY NonceTypes DEF Digest, Token, JWT, Policy, RequestType
<1>4. checked' \in [Clients -> Times]
  BY DEF Digest, Token, JWT, Policy
<1> QED
  BY <1>1, <1>2, <1>3, <1>4 DEF Digest, Token, JWT, Policy, world, request

\* The step that reads and fills the nonce cache.
LEMMA NonceStepTypes ==
    ASSUME TypeOK, NEW c \in Clients, Nonce(c)
    PROVE  TypeOK'
<1> DEFINE e == snap[c].epoch
           n == req[c].nonce
           t == req[c].created
<1> USE DEF TypeOK
<1>1. e \in Epochs /\ n \in Nonces /\ t \in Nat
  BY DEF Chain, RequestType
<1>2. seen' \in [Epochs -> SUBSET Entry]
      /\ \A k \in Epochs : IsFiniteSet(seen'[k]) /\ Cardinality(seen'[k]) <= MaxSize
  <2>1. \/ seen' = seen
        \/ \E q \in {Pruned(seen[e])} \cup Remembered(seen[e], n, t) : seen' = [seen EXCEPT ![e] = q]
    BY <1>1 DEF Nonce
  <2>2. \A q \in {Pruned(seen[e])} \cup Remembered(seen[e], n, t) :
            q \in SUBSET Entry /\ IsFiniteSet(q) /\ Cardinality(q) <= MaxSize
    BY <1>1, CacheBounded
  <2> QED
    BY <1>1, <2>1, <2>2
<1>3. /\ pc' \in [Clients -> {"absent", "idle", "digest", "token", "nonce", "bearer",
                              "policy", "answered"}]
      /\ verdict' \in [Clients -> {"none", "granted", "refused", "forbidden"}]
  BY DEF Nonce, Goto, Refuse, Recognised
<1>4. caller' \in [Clients -> (SUBSET Roles) \cup {None}]
  <2>1. record # None => {record.role} \in SUBSET Roles
    BY DEF Record
  <2> QED
    BY <2>1 DEF Nonce, Recognised
<1>5. accepted' \in SUBSET (Epochs \X Nonces \X Nat) /\ crowded' \in SUBSET Epochs
  BY <1>1 DEF Nonce
<1>6. checked' \in [Clients -> Times]
  BY SmallTypes DEF Nonce
<1> QED
  BY <1>2, <1>3, <1>4, <1>5, <1>6 DEF Nonce, world, request

\* Every variable keeps its type, and no nonce cache outgrows its maximum, whatever the
\* requests, the clock and the configuration do.
THEOREM AuthTypeCorrect == Spec => []TypeOK
<1>1. Init => TypeOK
  <2> SUFFICES ASSUME Init PROVE TypeOK
    OBVIOUS
  <2>1. IsFiniteSet({}) /\ Cardinality({}) = 0
    BY FS_EmptySet
  <2>2. record \in Record /\ chain \in Chain
    <3>1. [FirstChain EXCEPT !.enabled = TRUE] \in Chain
          /\ [FirstChain EXCEPT !.enabled = FALSE] \in Chain
      BY SmallTypes DEF FirstChain, Chain
    <3>2. PICK on \in BOOLEAN : chain = [FirstChain EXCEPT !.enabled = on]
      BY DEF Init
    <3>3. record \in Record
      BY AuthAssumption DEF Init
    <3> QED
      BY <3>1, <3>2, <3>3
  <2>3. pc \in [Clients -> {"absent", "idle", "digest", "token", "nonce", "bearer",
                            "policy", "answered"}]
    BY DEF Init
  <2> QED
    BY <2>1, <2>2, <2>3, SmallTypes, AuthAssumption DEF Init, TypeOK
<1>2. TypeOK /\ [Next]_vars => TypeOK'
  <2> SUFFICES ASSUME TypeOK, [Next]_vars PROVE TypeOK'
    OBVIOUS
  <2>1. ASSUME NEW c \in Clients, Request(c) PROVE TypeOK'
    BY <2>1, BeginTypes, StepTypes, NonceStepTypes DEF Request
  <2>2. ASSUME NEW c \in Clients, Receive(c) \/ Lose(c) PROVE TypeOK'
    BY <2>2, ForgetTypes
  <2>3. CASE Tick
    BY <2>3, AuthAssumption DEF Tick, TypeOK, Times, request
  <2>4. ASSUME NEW r \in Records \cup {None}, SyncFromConfig(r) PROVE TypeOK'
    <3>1. r \in Record \cup {None}
      BY AuthAssumption
    <3>2. changes' \in 0 .. MaxChanges
      BY <2>4, AuthAssumption DEF SyncFromConfig, TypeOK
    <3>3. window' \in [Clients -> SUBSET (Record \cup {None})]
      BY <2>4, <3>1 DEF SyncFromConfig, TypeOK
    <3> QED
      BY <2>4, <3>1, <3>2, <3>3 DEF SyncFromConfig, TypeOK, request
  <2>5. ASSUME NEW cfg \in Settings, Rebuild(cfg) PROVE TypeOK'
    <3>1. chain' \in Chain
      BY <2>5, AuthAssumption DEF Rebuild, TypeOK, Chain, Epochs
    <3> QED
      BY <2>5, <3>1 DEF Rebuild, TypeOK, request
  <2>6. CASE UNCHANGED vars
    BY <2>6 DEF vars, request, TypeOK
  <2> QED
    BY <2>1, <2>2, <2>3, <2>4, <2>5, <2>6 DEF Next
<1> QED
  BY <1>1, <1>2, PTL DEF Spec

-----------------------------------------------------------------------------
(* Decisions *)

\* While a request is served, the record the user has is one of those it had meanwhile; the
\* request is one that is asked for credentials; the caller found so far was vouched for;
\* and none of the schemes that are behind it has failed.
Sound(c) ==
    /\ pc[c] \notin {"absent", "idle"} => record \in window[c]
    /\ pc[c] \in {"digest", "token", "nonce", "bearer", "policy"} => Asked(c)
    /\ pc[c] \in {"idle", "digest"} => caller[c] = None
    /\ pc[c] \in {"token", "nonce", "bearer", "policy"} /\ caller[c] # None =>
           caller[c] \in Vouched(c)
    /\ pc[c] = "nonce" => req[c].token = "digest"
    /\ pc[c] \in {"bearer", "policy"} =>
           /\ req[c].token # "broken"
           /\ req[c].token = "digest" => Pair(c) \in accepted

\* The answer of one client follows from what vouched for it.
Justified(c) ==
    At(c, "answered") =>
        /\ verdict[c] = "granted" /\ Asked(c) =>
               /\ \E roles \in Vouched(c) : Allow(roles, req[c].class)
               /\ req[c].token # "broken"
               /\ req[c].token = "digest" => Pair(c) \in accepted
        /\ verdict[c] = "forbidden" =>
               Asked(c) /\ \E roles \in Vouched(c) : ~Allow(roles, req[c].class)
        /\ verdict[c] = "refused" => Asked(c)

DInv == \A c \in Clients : Sound(c) /\ Justified(c)

\* A request stays as sound as it was while only others, or the world around, go on: who
\* vouched for it does so still.
LEMMA OthersSound ==
    ASSUME TypeOK, NEW d \in Clients, Sound(d), Justified(d),
           UNCHANGED <<pc[d], req[d], snap[d], caller[d], verdict[d]>>,
           accepted \subseteq accepted', window[d] \subseteq window'[d],
           pc[d] \notin {"absent", "idle"} => record' \in window'[d]
    PROVE  (Sound(d) /\ Justified(d))'
<1>1. Vouched(d) \subseteq Vouched(d)'
  BY DEF Vouched
<1>2. Asked(d)' = Asked(d)
  BY DEF Asked
<1>3. Sound(d)'
  BY <1>1, <1>2 DEF Sound
<1>4. Justified(d)'
  BY <1>1, <1>2 DEF Justified, At
<1> QED
  BY <1>3, <1>4

\* A request is asked for credentials or let through, and nothing is known of it yet.
LEMMA BeginSound ==
    ASSUME TypeOK, DInv, NEW c \in Clients, Begin(c)
    PROVE  (Sound(c) /\ Justified(c))'
<1>1. /\ window'[c] = {record} /\ record' = record /\ caller'[c] = None
      /\ snap'[c] = chain
  BY DEF Begin, TypeOK, DInv, Sound, At
<1>2. CASE chain.enabled /\ req'[c].class # "PreAuth"
  <2>1. pc'[c] = "digest" /\ Asked(c)'
    BY <1>1, <1>2 DEF Begin, Goto, TypeOK, Asked
  <2> QED
    BY <1>1, <2>1 DEF Sound, Justified, At
<1>3. CASE ~(chain.enabled /\ req'[c].class # "PreAuth")
  <2>1. pc'[c] = "answered" /\ verdict'[c] = "granted" /\ ~Asked(c)'
    BY <1>1, <1>3 DEF Begin, Goto, TypeOK, Asked
  <2> QED
    BY <1>1, <2>1 DEF Sound, Justified, At
<1> QED
  BY <1>2, <1>3

\* A refusal needs no voucher.
LEMMA RefuseSound ==
    ASSUME TypeOK, DInv, NEW c \in Clients, Refuse(c),
           pc[c] \in {"digest", "token", "nonce", "bearer", "policy"},
           UNCHANGED <<record, req, snap, window>>
    PROVE  (Sound(c) /\ Justified(c))'
<1>1. /\ pc'[c] = "answered" /\ verdict'[c] = "refused"
      /\ record' \in window'[c] /\ Asked(c)'
  BY DEF Refuse, Goto, TypeOK, DInv, Sound, Asked
<1> QED
  BY <1>1 DEF Sound, Justified, At

\* Who answers a challenge is vouched for by the record the user has.
LEMMA DigestSound ==
    ASSUME TypeOK, DInv, NEW c \in Clients, Digest(c)
    PROVE  (Sound(c) /\ Justified(c))'
<1>1. /\ pc[c] = "digest" /\ caller[c] = None /\ Asked(c) /\ record \in window[c]
      /\ UNCHANGED <<record, req, snap, window>>
  BY DEF Digest, At, DInv, Sound, world, request
<1>2. CASE pc'[c] = "token"
  <2>1. caller'[c] = None \/ (Answers(c) /\ caller'[c] = {record.role})
    BY <1>1, <1>2 DEF Digest, Refuse, Goto, Recognised, TypeOK, RequestType
  <2>2. Answers(c) => {record.role} \in Vouched(c)'
    BY <1>1 DEF Answers, Vouched
  <2>3. Asked(c)'
    BY <1>1 DEF Asked
  <2> QED
    BY <1>1, <1>2, <2>1, <2>2, <2>3 DEF Sound, Justified, At
<1>3. CASE pc'[c] # "token"
  <2>1. Refuse(c)
    BY <1>3 DEF Digest, Goto, TypeOK, RequestType
  <2> QED
    BY <1>1, <2>1, RefuseSound
<1> QED
  BY <1>2, <1>3

\* Only a digest goes on to the nonce cache, and only no token at all passes it by.
LEMMA TokenSound ==
    ASSUME TypeOK, DInv, NEW c \in Clients, Token(c)
    PROVE  (Sound(c) /\ Justified(c))'
<1>1. /\ pc[c] = "token" /\ Asked(c) /\ record \in window[c]
      /\ caller[c] # None => caller[c] \in Vouched(c)
      /\ UNCHANGED <<record, req, snap, window, caller>>
  BY DEF Token, At, DInv, Sound, world, request
<1>2. CASE pc'[c] \in {"bearer", "nonce"}
  <2>1. /\ pc'[c] = "bearer" => req[c].token = "none"
        /\ pc'[c] = "nonce" => req[c].token = "digest"
    BY <1>1, <1>2 DEF Token, Refuse, Goto, TypeOK, RequestType
  <2>2. Asked(c)' /\ Vouched(c)' = Vouched(c)
    BY <1>1 DEF Asked, Vouched
  <2> QED
    BY <1>1, <1>2, <2>1, <2>2 DEF Sound, Justified, At
<1>3. CASE pc'[c] \notin {"bearer", "nonce"}
  <2>1. Refuse(c)
    BY <1>3 DEF Token, Goto, TypeOK
  <2> QED
    BY <1>1, <2>1, RefuseSound
<1> QED
  BY <1>2, <1>3

\* Who gets past the nonce cache had the right password, and is remembered as accepted.
LEMMA NonceSound ==
    ASSUME TypeOK, DInv, NEW c \in Clients, Nonce(c)
    PROVE  (Sound(c) /\ Justified(c))'
<1>1. /\ pc[c] = "nonce" /\ Asked(c) /\ record \in window[c] /\ req[c].token = "digest"
      /\ caller[c] # None => caller[c] \in Vouched(c)
      /\ UNCHANGED <<record, req, snap, window>>
  BY DEF Nonce, At, DInv, Sound, world, request
<1>2. CASE pc'[c] = "bearer"
  <2>1. /\ record # None /\ record.right /\ Recognised(c, {record.role})
        /\ Pair(c) \in accepted'
    BY <1>1, <1>2 DEF Nonce, Refuse, Goto, TypeOK, Matches
  <2>2. {record.role} \in Vouched(c)' /\ Asked(c)' /\ Vouched(c)' = Vouched(c)
    BY <1>1, <2>1 DEF Asked, Vouched
  <2>3. caller'[c] \in Vouched(c)'
    BY <1>1, <2>1, <2>2 DEF Recognised, TypeOK
  <2> QED
    BY <1>1, <1>2, <2>1, <2>2, <2>3 DEF Sound, Justified, At
<1>3. CASE pc'[c] # "bearer"
  <2>1. Refuse(c)
    BY <1>3 DEF Nonce, Goto, TypeOK
  <2> QED
    BY <1>1, <2>1, RefuseSound
<1> QED
  BY <1>2, <1>3

\* A bearer token vouches for the roles in it, and a caller already found stays.
LEMMA JWTSound ==
    ASSUME TypeOK, DInv, NEW c \in Clients, JWT(c)
    PROVE  (Sound(c) /\ Justified(c))'
<1>1. /\ pc[c] = "bearer" /\ Asked(c) /\ record \in window[c] /\ req[c].token # "broken"
      /\ req[c].token = "digest" => Pair(c) \in accepted
      /\ caller[c] # None => caller[c] \in Vouched(c)
      /\ UNCHANGED <<record, req, snap, window, accepted>>
  BY DEF JWT, At, DInv, Sound, world, request
<1>2. CASE pc'[c] = "policy"
  <2>1. \/ caller'[c] = caller[c]
        \/ /\ snap[c].jwt /\ req[c].http = "bearer" /\ req[c].bearer.trusted
           /\ caller'[c] = req[c].bearer.roles
    BY <1>1, <1>2 DEF JWT, Refuse, Goto, TypeOK, Recognised
  <2>2. Asked(c)' /\ Vouched(c)' = Vouched(c)
    BY <1>1 DEF Asked, Vouched
  <2>3. caller'[c] # None => caller'[c] \in Vouched(c)'
    BY <1>1, <2>1, <2>2 DEF Vouched
  <2> QED
    BY <1>1, <1>2, <2>2, <2>3 DEF Sound, Justified, At
<1>3. CASE pc'[c] # "policy"
  <2>1. Refuse(c)
    BY <1>3 DEF JWT, Goto, TypeOK
  <2> QED
    BY <1>1, <2>1, RefuseSound
<1> QED
  BY <1>2, <1>3

\* The verdict follows from the roles of a caller that was vouched for.
LEMMA PolicySound ==
    ASSUME TypeOK, DInv, NEW c \in Clients, Policy(c)
    PROVE  (Sound(c) /\ Justified(c))'
<1>1. /\ pc[c] = "policy" /\ Asked(c) /\ record \in window[c] /\ req[c].token # "broken"
      /\ req[c].token = "digest" => Pair(c) \in accepted
      /\ caller[c] # None => caller[c] \in Vouched(c)
      /\ UNCHANGED <<record, req, snap, window, accepted>>
  BY DEF Policy, At, DInv, Sound, world, request
<1>2. CASE caller[c] # None
  <2>1. /\ pc'[c] = "answered"
        /\ \/ verdict'[c] = "granted" /\ Allow(caller[c], req[c].class)
           \/ verdict'[c] = "forbidden" /\ ~Allow(caller[c], req[c].class)
    BY <1>2 DEF Policy, Goto, TypeOK
  <2>2. Asked(c)' /\ Vouched(c)' = Vouched(c)
    BY <1>1 DEF Asked, Vouched
  <2> HIDE DEF Allow
  <2> QED
    BY <1>1, <1>2, <2>1, <2>2 DEF Sound, Justified, At
<1>3. CASE caller[c] = None
  BY <1>1, <1>3, RefuseSound DEF Policy
<1> QED
  BY <1>2, <1>3

\* A step of one request leaves the others where they stand.
LEMMA RequestApart ==
    ASSUME TypeOK, NEW c \in Clients, Request(c) \/ Receive(c) \/ Lose(c),
           NEW d \in Clients, d # c
    PROVE  /\ UNCHANGED <<pc[d], req[d], snap[d], caller[d], verdict[d], window[d], record>>
           /\ accepted \subseteq accepted'
<1>1. CASE Begin(c)
  BY <1>1 DEF Begin, Goto, TypeOK
<1>2. CASE Digest(c)
  BY <1>2 DEF Digest, Goto, Refuse, Recognised, world, request, TypeOK, RequestType
<1>3. CASE Token(c)
  BY <1>3 DEF Token, Goto, Refuse, world, request, TypeOK
<1>4. CASE Nonce(c)
  BY <1>4 DEF Nonce, Goto, Refuse, Recognised, world, request, TypeOK
<1>5. CASE JWT(c)
  BY <1>5 DEF JWT, Goto, Refuse, Recognised, world, request, TypeOK
<1>6. CASE Policy(c)
  BY <1>6 DEF Policy, Goto, Refuse, world, request, TypeOK
<1>7. CASE Receive(c) \/ Lose(c)
  BY <1>7 DEF Receive, Lose, Forget, Goto, TypeOK
<1> QED
  BY <1>1, <1>2, <1>3, <1>4, <1>5, <1>6, <1>7 DEF Request

\* Every request is sound at every step, and every answer justified.
LEMMA DecisionInvariant == Spec => []DInv
<1>1. Init => DInv
  <2> SUFFICES ASSUME Init, NEW c \in Clients PROVE Sound(c) /\ Justified(c)
    BY DEF DInv
  <2>1. pc[c] \in {"absent", "idle"} /\ caller[c] = None
    BY DEF Init
  <2> QED
    BY <2>1 DEF Sound, Justified, At
<1>2. TypeOK /\ DInv /\ [Next]_vars => DInv'
  <2> SUFFICES ASSUME TypeOK, DInv, [Next]_vars, NEW d \in Clients
               PROVE  (Sound(d) /\ Justified(d))'
    BY DEF DInv
  <2>0. Sound(d) /\ Justified(d)
    BY DEF DInv
  <2>1. ASSUME NEW c \in Clients, Request(c) \/ Receive(c) \/ Lose(c)
        PROVE  (Sound(d) /\ Justified(d))'
    <3>1. CASE d # c
      <4>1. pc[d] \notin {"absent", "idle"} => record' \in window'[d]
        BY <2>0, <2>1, <3>1, RequestApart DEF Sound
      <4> QED
        BY <2>0, <2>1, <3>1, <4>1, RequestApart, OthersSound
    <3>2. CASE d = c /\ Request(c)
      BY <3>2, BeginSound, DigestSound, TokenSound, NonceSound, JWTSound, PolicySound
         DEF Request
    <3>3. CASE d = c /\ (Receive(c) \/ Lose(c))
      <4>1. pc'[c] = "idle" /\ caller'[c] = None
        BY <3>3 DEF Receive, Lose, Forget, Goto, TypeOK
      <4> QED
        BY <3>3, <4>1 DEF Sound, Justified, At
    <3> QED
      BY <2>1, <3>1, <3>2, <3>3
  <2>2. ASSUME NEW r, SyncFromConfig(r) PROVE (Sound(d) /\ Justified(d))'
    <3>1. /\ UNCHANGED <<pc, req, snap, caller, verdict, accepted>>
          /\ pc[d] # "idle" => window'[d] = window[d] \cup {r}
          /\ record' = r
      BY <2>2 DEF SyncFromConfig, request, At
    <3>2. CASE pc[d] # "idle"
      BY <2>0, <3>1, <3>2, OthersSound
    <3>3. CASE pc[d] = "idle"
      BY <2>0, <3>1, <3>3 DEF Sound, Justified, At
    <3> QED
      BY <3>2, <3>3
  <2>3. CASE Tick \/ (\E cfg \in Settings : Rebuild(cfg)) \/ UNCHANGED vars
    <3>1. UNCHANGED <<pc, req, snap, caller, verdict, accepted, window, record>>
      BY <2>3 DEF Tick, Rebuild, vars, request
    <3>2. pc[d] \notin {"absent", "idle"} => record' \in window'[d]
      BY <2>0, <3>1 DEF Sound
    <3> QED
      BY <2>0, <3>1, <3>2, OthersSound
  <2> QED
    BY <2>1, <2>2, <2>3 DEF Next
<1> QED
  BY <1>1, <1>2, AuthTypeCorrect, PTL DEF Spec

\* An answer follows from one record the user had, or one token that was good, while the
\* request was served, however users and chains change meanwhile; and no UsernameToken is
\* passed over because another scheme succeeded.
THEOREM AnswersJustified == Spec => []DecisionJustified
<1>1. DInv => DecisionJustified
  BY DEF DInv, Justified, DecisionJustified
<1> QED
  BY <1>1, DecisionInvariant, PTL

-----------------------------------------------------------------------------
(* The nonce cache *)

\* An entry was made by a token that was not from further ahead than the skew; a token on
\* its way to the cache was of an age that will do; and a pair that was accepted is in the
\* cache still, or too old by now, unless its cache ran out of room.
Remembers ==
    /\ \A e \in Epochs : \A x \in seen[e] : x.at <= now /\ x.created <= x.at + Skew
    /\ \A c \in Clients : At(c, "nonce") =>
           checked[c] <= now /\ Apart(checked[c], req[c].created) <= Skew
    /\ \A e \in Epochs, n \in Nonces, t \in Nat : <<e, n, t>> \in accepted =>
           \/ e \in crowded
           \/ \E x \in seen[e] : x.nonce = n /\ x.created = t
           \/ t + Skew < now

\* Whatever pruning drops is too old by now to be accepted again.
LEMMA PrunedIsOld ==
    ASSUME TypeOK, Remembers, NEW e \in Epochs, NEW x \in seen[e], x \notin Pruned(seen[e])
    PROVE  x.created + Skew < now
<1>1. x \in Entry /\ x.at \in Int /\ x.created \in Int /\ now \in Int /\ Skew \in Int
  BY AuthAssumption DEF TypeOK, Entry, Times
<1>2. x.at < now - 2 * Skew /\ x.created <= x.at + Skew
  BY <1>1 DEF Pruned, TTL, Remembers
<1> QED
  BY <1>1, <1>2

\* A pair that was accepted stays in its cache until it is too old.
LEMMA NonceRemembers ==
    ASSUME TypeOK, Remembers, NEW c \in Clients, Nonce(c)
    PROVE  Remembers'
<1> DEFINE e == snap[c].epoch
           n == req[c].nonce
           t == req[c].created
           x == [nonce |-> n, created |-> t, at |-> now]
<1>0. /\ e \in Epochs /\ n \in Nonces /\ t \in Nat /\ now \in Nat /\ Skew \in Nat /\ now' = now
      /\ At(c, "nonce") /\ UNCHANGED req
  BY AuthAssumption DEF TypeOK, Chain, RequestType, Times, Nonce, world, request
<1>1. /\ \/ seen' = seen
         \/ seen' = [seen EXCEPT ![e] = Pruned(@)]
         \/ \E s \in Remembered(seen[e], n, t) : seen' = [seen EXCEPT ![e] = s]
      /\ crowded \subseteq crowded'
  BY DEF Nonce
<1>2. /\ checked[c] \in Nat /\ checked[c] <= now /\ Apart(checked[c], t) <= Skew
      /\ t <= now + Skew
  <2>1. checked[c] \in Nat /\ checked[c] <= now /\ Apart(checked[c], t) <= Skew
    BY <1>0 DEF Remembers, TypeOK, Times
  <2> QED
    BY <1>0, <2>1 DEF Apart
<1>3. \A k \in Epochs : \A y \in seen'[k] : y \in seen[k] \/ (k = e /\ y = x)
  BY <1>0, <1>1 DEF Remembered, Roomy, Pruned, TypeOK
<1>4. \A k \in Epochs : \A y \in seen'[k] : y.at <= now' /\ y.created <= y.at + Skew
  BY <1>0, <1>2, <1>3 DEF Remembers
<1>5. \A d \in Clients : At(d, "nonce")' =>
          checked'[d] <= now' /\ Apart(checked'[d], req'[d].created) <= Skew
  <2> SUFFICES ASSUME NEW d \in Clients, At(d, "nonce")'
               PROVE  d # c /\ At(d, "nonce") /\ checked'[d] = checked[d]
    BY <1>0 DEF Remembers
  <2> QED
    BY <1>0 DEF Nonce, Goto, Refuse, At, TypeOK
<1>6. ASSUME NEW k \in Epochs, NEW m \in Nonces, NEW u \in Nat, <<k, m, u>> \in accepted',
             k \notin crowded', ~(u + Skew < now')
      PROVE  \E y \in seen'[k] : y.nonce = m /\ y.created = u
  <2>1. CASE <<k, m, u>> \in accepted
    <3>1. PICK y \in seen[k] : y.nonce = m /\ y.created = u
      BY <1>0, <1>1, <1>6, <2>1 DEF Remembers
    <3>2. k = e => y \in Pruned(seen[e])
      BY <1>0, <1>6, <3>1, PrunedIsOld
    <3>3. CASE seen' = seen \/ seen' = [seen EXCEPT ![e] = Pruned(@)]
      BY <1>0, <3>1, <3>2, <3>3 DEF TypeOK
    <3>4. CASE /\ \E s \in Remembered(seen[e], n, t) : seen' = [seen EXCEPT ![e] = s]
               /\ crowded' = IF Full(seen[e]) THEN crowded \cup {e} ELSE crowded
      <4>1. k = e => ~Full(seen[e])
        BY <1>0, <1>6, <3>4 DEF TypeOK
      <4>2. k = e => Pruned(seen[e]) \subseteq seen'[e]
        BY <1>0, <3>4, <4>1 DEF Remembered, Roomy, TypeOK
      <4> QED
        BY <1>0, <3>1, <3>2, <3>4, <4>2 DEF TypeOK
    <3> QED
      BY <3>3, <3>4 DEF Nonce
  <2>2. CASE <<k, m, u>> \notin accepted
    <3>1. /\ k = e /\ m = n /\ u = t
          /\ \E s \in Remembered(seen[e], n, t) : seen' = [seen EXCEPT ![e] = s]
      BY <1>6, <2>2 DEF Nonce
    <3>2. x \in seen'[k] /\ x.nonce = m /\ x.created = u
      BY <1>0, <3>1 DEF Remembered, TypeOK
    <3> QED
      BY <3>2
  <2> QED
    BY <2>1, <2>2
<1> QED
  BY <1>0, <1>4, <1>5, <1>6 DEF Remembers

\* A token goes on to the cache only when it is of an age that will do.
LEMMA TokenRemembers ==
    ASSUME TypeOK, Remembers, NEW c \in Clients, Token(c)
    PROVE  Remembers'
<1>1. UNCHANGED <<now, seen, accepted, crowded, req>>
  BY DEF Token, world, request
<1>2. ASSUME NEW d \in Clients, At(d, "nonce")'
      PROVE  checked'[d] <= now /\ Apart(checked'[d], req[d].created) <= Skew
  <2>1. CASE d = c
    <3>1. /\ ~(Apart(now, req[c].created) > Skew) /\ checked'[c] = now
          /\ now \in Nat /\ Skew \in Nat /\ req[c].created \in Nat
      BY <1>2, <2>1, AuthAssumption DEF Token, Goto, Refuse, At, TypeOK, Times, RequestType
    <3> QED
      BY <2>1, <3>1 DEF Apart
  <2>2. CASE d # c
    BY <1>2, <2>2 DEF Token, Goto, Refuse, At, TypeOK, Remembers
  <2> QED
    BY <2>1, <2>2
<1> QED
  BY <1>1, <1>2 DEF Remembers

\* The other steps neither touch the caches nor send a token there; time only grows.
LEMMA OthersRemember ==
    ASSUME TypeOK, Remembers, UNCHANGED <<seen, accepted, crowded>>,
           now' \in Nat, now <= now',
           \A d \in Clients : At(d, "nonce")' =>
               At(d, "nonce") /\ checked'[d] = checked[d] /\ req'[d] = req[d]
    PROVE  Remembers'
<1>1. /\ now \in Nat /\ Skew \in Nat /\ \A d \in Clients : checked[d] \in Nat
      /\ \A e \in Epochs : \A x \in seen[e] : x.at \in Nat
  BY AuthAssumption DEF TypeOK, Times, Entry
<1>2. \A e \in Epochs : \A x \in seen[e] : x.at <= now'
  BY <1>1 DEF Remembers
<1>3. \A d \in Clients : At(d, "nonce")' =>
          checked'[d] <= now' /\ Apart(checked'[d], req'[d].created) <= Skew
  BY <1>1 DEF Remembers
<1>4. \A t \in Nat : t + Skew < now => t + Skew < now'
  BY <1>1
<1> QED
  BY <1>2, <1>3, <1>4 DEF Remembers

\* The caches remember what they must, at every step.
LEMMA CacheInvariant == Spec => []Remembers
<1>1. Init => Remembers
  BY DEF Init, Remembers, At
<1>2. TypeOK /\ Remembers /\ [Next]_vars => Remembers'
  <2> SUFFICES ASSUME TypeOK, Remembers, [Next]_vars PROVE Remembers'
    OBVIOUS
  <2>0. now \in Nat
    BY DEF TypeOK, Times
  <2>1. ASSUME NEW c \in Clients, Begin(c) \/ Digest(c) \/ JWT(c) \/ Policy(c) \/ Receive(c) \/ Lose(c)
        PROVE  Remembers'
    <3>1. UNCHANGED <<seen, accepted, crowded, now>>
      BY <2>1 DEF Begin, Digest, JWT, Policy, Receive, Lose, Forget, world
    <3>2. ASSUME NEW d \in Clients, At(d, "nonce")'
          PROVE  At(d, "nonce") /\ checked'[d] = checked[d] /\ req'[d] = req[d]
      <4>1. CASE Begin(c) \/ Receive(c) \/ Lose(c)
        BY <3>2, <4>1 DEF Begin, Receive, Lose, Forget, Goto, At, TypeOK
      <4>2. CASE Digest(c) \/ JWT(c) \/ Policy(c)
        BY <3>2, <4>2 DEF Digest, JWT, Policy, Goto, Refuse, At, TypeOK, request, RequestType
      <4> QED
        BY <2>1, <4>1, <4>2
    <3> QED
      BY <2>0, <3>1, <3>2, OthersRemember
  <2>2. ASSUME NEW c \in Clients, Token(c) \/ Nonce(c) PROVE Remembers'
    BY <2>2, TokenRemembers, NonceRemembers
  <2>3. CASE Tick \/ (\E r \in Records \cup {None} : SyncFromConfig(r))
             \/ (\E cfg \in Settings : Rebuild(cfg)) \/ UNCHANGED vars
    <3>1. UNCHANGED <<seen, accepted, crowded, pc, checked, req>> /\ now' \in {now, now + 1}
      BY <2>3 DEF Tick, SyncFromConfig, Rebuild, vars, request
    <3> QED
      BY <2>0, <3>1, OthersRemember DEF At
  <2> QED
    BY <2>1, <2>2, <2>3 DEF Next, Request
<1> QED
  BY <1>1, <1>2, AuthTypeCorrect, PTL DEF Spec

\* A chain accepts a nonce, as it is written, and a time once, as long as its cache never ran
\* out of room and for a token recorded at the time its age was checked.
THEOREM PairAcceptedOnce == Spec => TokenAcceptedOnce
<1> DEFINE Once ==
               \A c \in Clients : At(c, "nonce") /\ pc'[c] = "bearer" /\ checked[c] = now =>
                   Pair(c) \notin accepted \/ snap[c].epoch \in crowded
<1>1. TypeOK /\ Remembers /\ [Next]_vars => [Once]_vars
  <2> SUFFICES ASSUME TypeOK, Remembers, Next, NEW c \in Clients,
                      At(c, "nonce"), pc'[c] = "bearer", checked[c] = now,
                      Pair(c) \in accepted, snap[c].epoch \notin crowded
               PROVE  FALSE
    OBVIOUS
  <2> DEFINE e == snap[c].epoch
             n == req[c].nonce
             t == req[c].created
  <2>1. e \in Epochs /\ n \in Nonces /\ t \in Nat /\ now \in Nat /\ Skew \in Nat /\ Apart(now, t) <= Skew
    BY AuthAssumption DEF TypeOK, Chain, RequestType, Times, Remembers
  <2>2. ~(t + Skew < now)
    BY <2>1 DEF Apart
  <2>3. PICK x \in seen[e] : x.nonce = n /\ x.created = t
    BY <2>1, <2>2 DEF Remembers
  <2>4. x \in Pruned(seen[e])
    BY <2>1, <2>2, <2>3, PrunedIsOld
  <2>5. Nonce(c)
    <3>1. \A d \in Clients : Request(d) \/ Receive(d) \/ Lose(d) => d = c
      BY RequestApart DEF At
    <3>2. Request(c) \/ Receive(c) \/ Lose(c)
      BY <3>1 DEF Next, Tick, SyncFromConfig, Rebuild, At
    <3> QED
      BY <3>2 DEF Request, Begin, Digest, Token, JWT, Policy, Receive, Lose, At
  <2>6. Replayed(seen[e], n, t)
    BY <2>3, <2>4 DEF Replayed
  <2> QED
    BY <2>5, <2>6 DEF Nonce, Refuse, Goto, TypeOK
<1> QED
  BY <1>1, AuthTypeCorrect, CacheInvariant, PTL DEF Spec, TokenAcceptedOnce

=============================================================================
