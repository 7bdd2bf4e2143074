---------------------------- MODULE ServicesProofs ----------------------------
(***************************************************************************)
(* Proofs about Services and Discovery, for any clients, requests, bounds  *)
(* and Probes.                                                             *)
(***************************************************************************)
EXTENDS Discovery, TLAPS

(* Discovery: who is silent, and when *)

\* Only a running simulator has a listener, and only a stopping one a stopper, which goes
\* on to close the servers when the listener has ended.
Confined ==
    /\ phase \in {"down", "probing"} => listener = "off"
    /\ stopper # "none" => phase = "stopping"
    /\ stopper = "close" => listener = "off"

\* A discoverable device is seen as one by everybody, and who is about to speak saw it so.
Watched ==
    /\ seen \in [Senders -> BOOLEAN]
    /\ Discoverable(mem) => \A x \in Senders : seen[x]
    /\ listener \in {"greet", "match"} => seen["listener"]
    /\ stopper = "part" => seen["stopper"]

-----------------------------------------------------------------------------
\* A request leaves Start and Stop where they are.
LEMMA RequestsLeavePhase ==
    ASSUME NEW c \in Clients, Requesting(c)
    PROVE  phase' = phase
<1>1. ASSUME NEW r \in Requests[c], Receive(c, r) PROVE phase' = phase
  BY <1>1 DEF Receive, boot
<1>2. CASE Dispatch(c) \/ Persist(c) \/ Fail(c)
  BY <1>2 DEF Dispatch, Persist, Fail, boot
<1>3. CASE Load(c) \/ Install(c) \/ Rebuild(c)
  BY <1>3 DEF Load, Install, Rebuild, boot
<1>4. CASE Leave(c)
  BY <1>4 DEF Leave, boot
<1> QED
  BY <1>1, <1>2, <1>3, <1>4 DEF Requesting, Serving

\* Nothing runs before the first Start.
LEMMA InitDiscovery == Init => Confined /\ Watched
BY DEF Init, ServicesInit, Confined, Watched, Senders, Discoverable

\* Start finds no listener of an earlier run, and Stop ends the one it finds.
LEMMA ConfinedStays == Confined /\ [Next]_vars => Confined'
<1> SUFFICES ASSUME Confined, [Next]_vars PROVE Confined'
  OBVIOUS
<1>1. CASE Requested
  <2>1. phase' = phase
    BY <1>1, RequestsLeavePhase DEF Requested
  <2> QED
    BY <1>1, <2>1 DEF Requested, Confined, network
<1>2. CASE Begin
  BY <1>2 DEF Begin, Snapshot, Abort, Confined, network
<1>3. CASE Run
  BY <1>3 DEF Run, Serve, Confined, Becomes
<1>4. CASE Go
  BY <1>4 DEF Go, Publish, Confined, network
<1>5. CASE Quit \/ Return
  BY <1>5 DEF Quit, Return, Halt, Halted, Confined
<1>6. CASE Listener
  <2>1. phase' = phase /\ stopper' = stopper /\ listener # "off"
    BY <1>6 DEF Listener, Hello, Greet, Bind, Loop, Timeout, Take, Match, Listens, services,
                boot
  <2> QED
    BY <2>1 DEF Confined
<1>7. CASE Stopper
  BY <1>7 DEF Stopper, Bye, Part, Cancel, Await, Confined, Listens, services, boot
<1>8. CASE UNCHANGED vars
  BY <1>8 DEF vars, services, boot, network, Confined
<1> QED
  BY <1>1, <1>2, <1>3, <1>4, <1>5, <1>6, <1>7, <1>8 DEF Next

\* Whoever does not begin to look at this step knows at least what it knew.
LEMMA WatchKeeps ==
    ASSUME NEW new \in SUBSET Senders, Watch(new), Watched
    PROVE  /\ seen' \in [Senders -> BOOLEAN]
           /\ Discoverable(mem)' => \A x \in Senders : seen'[x]
           /\ \A x \in Senders \ new : seen[x] => seen'[x]
BY DEF Watch, Watched, Discoverable

\* Every step keeps it so: who looks while the device hides does not go on to speak.
LEMMA WatchedStays == Confined /\ Watched /\ [Next]_vars => Watched'
<1> SUFFICES ASSUME Confined, Watched, [Next]_vars PROVE Watched'
  OBVIOUS
<1> USE DEF Senders
<1>1. CASE Requested \/ Begin \/ Go
  BY <1>1, WatchKeeps DEF Requested, Begin, Go, Watched, network
<1>2. CASE Run
  <2>1. listener = "off" /\ stopper = "none"
    BY <1>2 DEF Run, Serve, Confined
  <2>2. listener' \in {"off", "hello"} /\ stopper' = "none" /\ Watch({"listener"})
    BY <1>2, <2>1 DEF Run, Becomes
  <2> QED
    BY <2>2, WatchKeeps DEF Watched
<1>3. CASE Quit
  <2>1. stopper' = "bye" /\ listener' = listener /\ Watch({"stopper"})
    BY <1>3 DEF Quit
  <2> QED
    BY <2>1, WatchKeeps DEF Watched
<1>4. CASE Return
  <2>1. stopper' = "none" /\ listener' = listener /\ Watch({})
    BY <1>4 DEF Return
  <2> QED
    BY <2>1, WatchKeeps DEF Watched
<1>5. CASE Hello \/ Greet \/ Bind \/ Loop \/ Timeout \/ Match \/ Stopper
  BY <1>5 DEF Hello, Greet, Bind, Loop, Timeout, Match, Stopper, Bye, Part, Cancel, Await,
              Watched, Becomes, services, configs, Discoverable
<1>6. ASSUME NEW p \in Probes, Take(p) PROVE Watched'
  <2>1. mem' = mem /\ stopper' = stopper /\ Watch({"listener"})
    BY <1>6 DEF Take, configs
  <2>2. listener' = "loop" \/ (listener' = "match" /\ Discoverable(mem))
    BY <1>6 DEF Take, Becomes
  <2> QED
    BY <2>1, <2>2, WatchKeeps DEF Watched, Discoverable
<1>7. CASE UNCHANGED vars
  BY <1>7 DEF vars, services, configs, network, Watched, Discoverable
<1> QED
  BY <1>1, <1>2, <1>3, <1>4, <1>5, <1>6, <1>7 DEF Next, Listener

\* Both parts together are inductive.
LEMMA DiscoveryInvariant == Spec => [](Confined /\ Watched)
BY InitDiscovery, ConfinedStays, WatchedStays, PTL DEF Spec

-----------------------------------------------------------------------------
\* Three steps send: the Hello, the answer to a Probe, and the Bye.
LEMMA WhoSends ==
    ASSUME [Next]_vars, sent' # sent
    PROVE  \/ listener \in {"greet", "match"} /\ listener' # listener
           \/ stopper = "part" /\ listener' = listener
<1>1. CASE Requested \/ Begin \/ Go
  BY <1>1 DEF Requested, Begin, Go, network
<1>2. CASE Run \/ Quit \/ Return
  BY <1>2 DEF Run, Quit, Return
<1>3. CASE Hello \/ Bind \/ Loop \/ Timeout \/ \E p \in Probes : Take(p)
  BY <1>3 DEF Hello, Bind, Loop, Timeout, Take
<1>4. CASE Greet \/ Match
  BY <1>4 DEF Greet, Match, Listens, Becomes
<1>5. CASE Stopper
  BY <1>5 DEF Stopper, Bye, Part, Cancel, Await
<1>6. CASE UNCHANGED vars
  BY <1>6 DEF vars, network
<1> QED
  BY <1>1, <1>2, <1>3, <1>4, <1>5, <1>6 DEF Next, Listener

\* Stop waits for the listener, so nothing is sent from its return to the next Start,
\* whatever the listener was doing when it was told to end (lifecycle.go, Stop).
THEOREM QuietOnceStopped == Spec => QuietAfterStop
<1>1. Confined /\ [Next]_vars => [sent' # sent => phase \notin {"down", "probing"}]_vars
  BY WhoSends DEF Confined
<1> QED
  BY <1>1, DiscoveryInvariant, PTL DEF Spec, QuietAfterStop

\* A device that is hidden says nothing: every datagram is sent by somebody who has seen it
\* discoverable since it began, however the services change the mode meanwhile
\* (discovery.go, discoveryEnabled).
THEOREM HiddenNeverSpeaks == Spec => HiddenIsSilent
<1>1. Watched /\ [Next]_vars =>
        [sent' # sent => seen[IF listener' # listener THEN "listener" ELSE "stopper"]]_vars
  BY WhoSends DEF Watched
<1> QED
  BY <1>1, DiscoveryInvariant, PTL DEF Spec, HiddenIsSilent
-----------------------------------------------------------------------------
(* Services: what an operation works on *)

\* A setter of a section has one, and a getter too; none is both.
LEMMA SectionOfEdit ==
    ASSUME NEW r, Edits(r), ~EditsProfiles(r)
    PROVE  Section(r) \in Sections
BY DEF Edits, Section, Replaces, Extends, Reduces, EditsUsers, AddsUsers, PutsUsers, DropsUsers,
       Sections

\* A getter reads a section.
LEMMA SectionOfRead ==
    ASSUME NEW r, Reads(r)
    PROVE  ReadSection(r) \in Sections
BY DEF Reads, ReadSection, DeviceReads, MediaReads, Sections

\* Getters neither edit nor ask media.
LEMMA ReadersDoNotEdit ==
    ASSUME NEW r, Reads(r)
    PROVE  ~Edits(r) /\ ~Asks(r)
BY DEF Reads, Edits, Asks, DeviceReads, MediaReads, Replaces, Extends, Reduces, EditsUsers,
       AddsUsers, PutsUsers, DropsUsers, EditsProfiles, AddsProfile, DropsProfile, AltersProfile

\* Users are no profiles; an edit of several steps is one of users.
LEMMA UsersOrProfiles ==
    ASSUME NEW r, EditsProfiles(r)
    PROVE  ~EditsUsers(r) /\ Edits(r) /\ Reloads(r) /\ Steps(r) = 1
BY DEF EditsUsers, AddsUsers, PutsUsers, DropsUsers, EditsProfiles, AddsProfile, DropsProfile,
       AltersProfile, Edits, Reloads, Steps

\* A request takes a number of steps.
LEMMA StepsCount ==
    ASSUME NEW r \in RequestType
    PROVE  Steps(r) \in Nat
<1>1. r.items \in Seq(Items)
  BY DEF RequestType
<1> QED
  BY <1>1 DEF Steps

\* A profile as it is created is one.
LEMMA NewProfileTyped == NewProfile \in Profile
BY DEF NewProfile, Profile

\* A profile that is altered stays one.
LEMMA AlteredTyped ==
    ASSUME NEW p \in Profile, NEW r \in RequestType, AltersProfile(r)
    PROVE  Altered(p, r) \in Profile
<1>1. r.on \in BOOLEAN
  BY DEF RequestType
<1>2. CASE r.op = "SetProfileMediaFilePath" \/ r.op = "SetProfileSnapshotURI"
  BY <1>1, <1>2 DEF Altered, Profile
<1>3. CASE r.op = "SetProfileKind"
  BY <1>1, <1>3 DEF Altered, Profile
<1>4. CASE r.op = "SetProfileRPICam"
  BY <1>1, <1>4 DEF Altered, Profile
<1> QED
  BY <1>2, <1>3, <1>4 DEF AltersProfile

\* An edit that is not refused leaves profiles.
LEMMA EditedProfilesTyped ==
    ASSUME NEW d \in Config, NEW r \in RequestType, NEW t \in Tokens, NEW n,
           EditsProfiles(r), ~Refuses(d, r, t, n)
    PROVE  EditedProfiles(d.profiles, r, t) \in Profiles
<1>1. d.profiles \in Profiles
  BY DEF Config
<1>2. CASE AddsProfile(r)
  <2>1. EditedProfiles(d.profiles, r, t) = [d.profiles EXCEPT ![t] = NewProfile]
    BY <1>2 DEF EditedProfiles, AltersProfile, DropsProfile, AddsProfile
  <2> QED
    BY <1>1, <2>1, NewProfileTyped DEF Profiles
<1>3. CASE DropsProfile(r)
  <2>1. EditedProfiles(d.profiles, r, t) = [d.profiles EXCEPT ![t] = None]
    BY <1>3 DEF EditedProfiles, AltersProfile, DropsProfile, AddsProfile
  <2> QED
    BY <1>1, <2>1 DEF Profiles
<1>4. CASE AltersProfile(r)
  <2>1. d.profiles[t] \in Profile
    BY <1>1, <1>4 DEF Refuses, Profiles
  <2>2. EditedProfiles(d.profiles, r, t) = [d.profiles EXCEPT ![t] = Altered(d.profiles[t], r)]
    BY <1>4 DEF EditedProfiles, AltersProfile, DropsProfile, AddsProfile
  <2> QED
    BY <1>1, <1>4, <2>1, <2>2, AlteredTyped DEF Profiles
<1> QED
  BY <1>2, <1>3, <1>4 DEF EditsProfiles

\* What a request brings are items.
LEMMA EntriesTyped ==
    ASSUME NEW r \in RequestType
    PROVE  Entries(r) \subseteq Items
<1>1. r.items \in Seq(Items)
  BY DEF RequestType
<1> QED
  BY <1>1 DEF Entries

\* An edit of a section leaves items.
LEMMA EditedSectionTyped ==
    ASSUME NEW r \in RequestType, NEW n \in 1 .. Steps(r), NEW old \in SUBSET Items,
           Edits(r), ~EditsProfiles(r)
    PROVE  EditedSection(old, r, n) \in SUBSET Items
<1>1. CASE EditsUsers(r)
  <2>1. r.items[n] \in Items
    <3>1. r.items \in Seq(Items)
      BY DEF RequestType
    <3>2. n \in DOMAIN r.items
      BY <1>1, <3>1 DEF Steps
    <3> QED
      BY <3>1, <3>2
  <2>2. CASE AddsUsers(r) \/ PutsUsers(r)
    <3>1. EditedSection(old, r, n) = old \cup {r.items[n]}
      BY <2>2 DEF EditedSection, DropsUsers, AddsUsers, PutsUsers, Replaces, Extends, Reduces
    <3> QED
      BY <2>1, <3>1
  <2>3. CASE DropsUsers(r)
    <3>1. EditedSection(old, r, n) = old \ {r.items[n]}
      BY <2>3 DEF EditedSection, DropsUsers, AddsUsers, PutsUsers, Replaces, Extends, Reduces
    <3> QED
      BY <3>1
  <2> QED
    BY <1>1, <2>2, <2>3 DEF EditsUsers
<1>2. CASE ~EditsUsers(r)
  <2>1. Entries(r) \subseteq Items
    BY EntriesTyped
  <2>2. r.op \in DOMAIN Replaces \cup DOMAIN Extends \cup DOMAIN Reduces
    BY <1>2 DEF Edits
  <2>3. CASE r.op \in DOMAIN Replaces
    BY <1>2, <2>1, <2>3 DEF EditedSection, EditsUsers, Replaces, Extends, Reduces
  <2>4. CASE r.op \in DOMAIN Extends
    BY <1>2, <2>1, <2>4 DEF EditedSection, EditsUsers, Replaces, Extends, Reduces
  <2>5. CASE r.op \in DOMAIN Reduces
    BY <1>2, <2>1, <2>5 DEF EditedSection, EditsUsers, Replaces, Extends, Reduces
  <2> QED
    BY <2>2, <2>3, <2>4, <2>5
<1> QED
  BY <1>1, <1>2

\* So an edit leaves a configuration.
LEMMA EditedTyped ==
    ASSUME NEW d \in Config, NEW r \in RequestType, NEW t, NEW n \in 1 .. Steps(r),
           Edits(r), EditsProfiles(r) => t \in Tokens, ~Refuses(d, r, t, n)
    PROVE  Edited(d, r, t, n) \in Config
<1>1. CASE EditsProfiles(r)
  <2>1. EditedProfiles(d.profiles, r, t) \in Profiles
    BY <1>1, EditedProfilesTyped
  <2> HIDE DEF Profiles
  <2> QED
    BY <1>1, <2>1 DEF Edited, Config
<1>2. CASE ~EditsProfiles(r)
  <2> DEFINE s == Section(r)
  <2>1. s \in Sections
    BY <1>2, SectionOfEdit
  <2>2. d.section \in [Sections -> SUBSET Items]
    BY DEF Config
  <2>3. EditedSection(d.section[s], r, n) \in SUBSET Items
    BY <1>2, <2>1, <2>2, EditedSectionTyped
  <2>4. Edited(d, r, t, n) =
          [d EXCEPT !.section = [d.section EXCEPT ![s] = EditedSection(d.section[s], r, n)]]
    BY <1>2 DEF Edited
  <2> HIDE DEF s
  <2>5. [d.section EXCEPT ![s] = EditedSection(d.section[s], r, n)] \in [Sections -> SUBSET Items]
    BY <2>1, <2>2, <2>3
  <2> QED
    BY <2>4, <2>5 DEF Config
<1> QED
  BY <1>1, <1>2

-----------------------------------------------------------------------------
(* Services: types, and how far a request is *)

\* What a request holds while it is under way.
Shapes ==
    /\ DOMAIN req = Clients /\ DOMAIN answer = Clients
    /\ fresh \in [Clients -> Config \cup {None}]
    /\ before \in [Clients -> Config \cup {None}]

Editing(c) == pc[c] \in {"persist", "load", "install", "rebuild"}

\* Only a known edit gets beyond dispatch; it knows its profile, and counts its steps.
Progress ==
    \A c \in Clients :
        /\ Editing(c) \/ At(c, "dispatch") => req[c] \in Requests[c]
        /\ Editing(c) => Known(req[c]) /\ Edits(req[c])
        /\ Editing(c) /\ EditsProfiles(req[c]) => token[c] \in Tokens
        /\ At(c, "persist") => done[c] < Steps(req[c])
        /\ pc[c] \in {"load", "install", "rebuild"} =>
               done[c] \in 1 .. Steps(req[c]) /\ Reloads(req[c])
        /\ pc[c] \in {"absent", "idle", "dispatch"} => done[c] = 0
        /\ At(c, "dispatch") => token[c] = req[c].token
        /\ At(c, "install") => fresh[c] \in Config

SInv == TypeOK /\ Shapes /\ Progress

\* What the gate answers is a status.
LEMMA ScreenedTyped ==
    ASSUME NEW r
    PROVE  Gate(r, Class(r)) \in Statuses /\ Gate(r, "WriteSystem") \in Statuses
BY DEF Gate, Statuses

\* So is every other answer.
LEMMA AnswersTyped ==
    ASSUME NEW r \in RequestType
    PROVE  /\ Screened(r) \in Statuses
           /\ Rejected(r) \in Statuses
           /\ \A a \in Replies(r) : a.status \in Statuses
<1>1. Screened(r) \in Statuses
  BY ScreenedTyped DEF Screened, Statuses
<1>2. Rejected(r) \in Statuses
  BY DEF Rejected, Statuses
<1>3. \A a \in Replies(r) : a.status \in Statuses
  BY DEF Replies, Answer, Statuses
<1> QED
  BY <1>1, <1>2, <1>3

\* New has read a valid file, and nobody asks yet.
LEMMA InitServices == ServicesInit => SInv
<1> SUFFICES ASSUME ServicesInit PROVE SInv
  OBVIOUS
<1>1. disk \in Config /\ Valid(disk) /\ mem \in Config
  BY ServicesAssumption, FirstAssumption DEF ServicesInit
<1>2. derived \in Profiles /\ probed \in Profiles
  BY DEF ServicesInit, NoProfiles, Profiles
<1>3. /\ phase \in {"down", "probing", "serving", "up", "stopping"}
      /\ left \in ScenarioType /\ turns \in [Clients -> Nat]
      /\ alone \in [Clients -> BOOLEAN] /\ done \in [Clients -> Nat]
      /\ token \in [Clients -> Tokens \cup {None}]
  BY ServicesAssumption DEF ServicesInit
<1>4. /\ pc \in [Clients -> {"absent", "idle", "dispatch", "persist", "load", "install",
                             "rebuild", "answered"}]
      /\ \A c \in Clients : pc[c] \in {"absent", "idle"}
  BY DEF ServicesInit
<1>5. /\ \A c \in Clients : req[c] \in Requests[c] \cup {NoRequest}
      /\ \A c \in Clients : fresh[c] = None \/ fresh[c] \in Config
      /\ \A c \in Clients : before[c] = None \/ before[c] \in Config
      /\ \A c \in Clients : answer[c].status \in Statuses
  BY DEF ServicesInit, NoAnswer, Answer, Statuses
<1>6. /\ known \in [Sections -> (SUBSET Items) \cup {None}]
      /\ held \in SUBSET (Clients \X Tokens)
      /\ maker \in [Tokens -> Clients \cup {None}]
  <2>1. known = [s \in Sections |-> None] /\ held = {} /\ maker = [t \in Tokens |-> None]
    BY DEF ServicesInit
  <2> QED
    BY <2>1
<1>7. Shapes
  BY DEF ServicesInit, Shapes
<1>8. Progress
  BY <1>4 DEF ServicesInit, Progress, Editing, At
<1> QED
  BY <1>1, <1>2, <1>3, <1>4, <1>5, <1>6, <1>7, <1>8 DEF SInv, TypeOK, ServicesInit

\* A request that arrives keeps the types and the progress.
LEMMA ReceiveTyped ==
    ASSUME SInv, NEW c \in Clients, NEW r \in Requests[c], Receive(c, r)
    PROVE  SInv'
<1> USE DEF SInv
<1>0. r \in RequestType /\ r.token \in Tokens \cup {None} /\ Screened(r) \in Statuses
  BY ServicesAssumption, AnswersTyped DEF RequestType
<1>1. /\ pc' \in [Clients -> {"absent", "idle", "dispatch", "persist", "load", "install",
                              "rebuild", "answered"}]
      /\ \A d \in Clients \ {c} : pc'[d] = pc[d]
      /\ pc'[c] \in {"dispatch", "answered"}
  BY DEF Receive, TypeOK, Goto, Reply
<1>2. /\ req' = [req EXCEPT ![c] = r] /\ token' = [token EXCEPT ![c] = r.token]
      /\ turns' = [turns EXCEPT ![c] = @ - 1] /\ turns[c] > 0 /\ pc[c] = "idle"
  BY DEF Receive, At
<1>3. /\ UNCHANGED <<disk, mem, derived, lost, phase, probed, fresh, done, left>>
      /\ UNCHANGED <<known, held, maker>>
  BY DEF Receive, configs, boot, history
<1>4. /\ alone' \in [Clients -> BOOLEAN] /\ DOMAIN answer' = Clients
      /\ before' \in [Clients -> Config \cup {None}]
      /\ \A d \in Clients : answer'[d].status \in Statuses
  <2>1. alone' \in [Clients -> BOOLEAN]
    BY DEF Receive
  <2>2. before' \in [Clients -> Config \cup {None}]
    BY DEF Receive, TypeOK
  <2>3. answer' = answer \/ answer' = [answer EXCEPT ![c] = Answer(Screened(r), {})]
    BY DEF Receive, Reply
  <2>4. Answer(Screened(r), {}).status = Screened(r)
    BY DEF Answer
  <2> QED
    BY <1>0, <2>1, <2>2, <2>3, <2>4 DEF TypeOK, Shapes
<1>5. TypeOK'
  <2>1. turns' \in [Clients -> Nat] /\ token' \in [Clients -> Tokens \cup {None}]
    BY <1>0, <1>2 DEF TypeOK
  <2>2. \A d \in Clients : req'[d] \in Requests[d] \cup {NoRequest}
    BY <1>2 DEF TypeOK, Shapes
  <2>3. \A d \in Clients : before'[d] = None \/ before'[d] \in Config
    BY <1>4
  <2> QED
    BY <1>1, <1>3, <1>4, <2>1, <2>2, <2>3 DEF TypeOK
<1>6. Shapes'
  BY <1>0, <1>2, <1>3, <1>4 DEF Shapes
<1>7. Progress'
  BY <1>0, <1>1, <1>2, <1>3 DEF Progress, Editing, At, TypeOK, Shapes
<1> QED
  BY <1>5, <1>6, <1>7

\* An answer leaves everything but itself where it is.
LEMMA RepliesTyped ==
    ASSUME SInv, NEW c \in Clients, NEW a, a.status \in Statuses, Reply(c, a),
           UNCHANGED <<disk, mem, derived, lost, phase, probed, req, token, fresh, done, turns,
                       alone, before>>,
           left' \in ScenarioType, UNCHANGED <<known, held, maker>>
    PROVE  SInv'
<1> USE DEF SInv
<1>1. pc' = [pc EXCEPT ![c] = "answered"] /\ answer' = [answer EXCEPT ![c] = a]
  BY DEF Reply, Goto
<1>2. TypeOK'
  BY <1>1 DEF TypeOK, Shapes
<1>3. Shapes'
  BY <1>1 DEF Shapes
<1>4. Progress'
  BY <1>1 DEF Progress, Editing, At, TypeOK
<1> QED
  BY <1>2, <1>3, <1>4

\* So does its dispatch.
LEMMA DispatchTyped ==
    ASSUME SInv, NEW c \in Clients, Dispatch(c)
    PROVE  SInv'
<1> USE DEF SInv
<1> DEFINE r == req[c]
<1>0. /\ r \in RequestType /\ r \in Requests[c] /\ pc[c] = "dispatch"
      /\ token[c] = r.token /\ done[c] = 0
  <2>1. pc[c] = "dispatch" /\ r \in Requests[c]
    BY DEF Progress, Dispatch, At
  <2> QED
    BY <2>1, ServicesAssumption DEF Progress, At
<1>1. /\ UNCHANGED <<disk, mem, derived, lost, phase, probed, req, fresh, done, turns, left>>
      /\ UNCHANGED <<alone, before, known, held, maker>>
  BY DEF Dispatch, configs, boot, history
<1>2. CASE \E a : a.status \in Statuses /\ Reply(c, a) /\ UNCHANGED token
  BY <1>1, <1>2, RepliesTyped DEF TypeOK
<1>3. CASE Rejected(r) # 0
  <2>1. Reply(c, Answer(Rejected(r), {})) /\ UNCHANGED token
    BY <1>3 DEF Dispatch
  <2>2. Answer(Rejected(r), {}).status \in Statuses
    BY <1>0, AnswersTyped DEF Answer
  <2> QED
    BY <1>2, <2>1, <2>2
<1>4. CASE Rejected(r) = 0 /\ ~Edits(r)
  <2>1. PICK a \in Replies(r) : Reply(c, a) /\ UNCHANGED token
    BY <1>4 DEF Dispatch
  <2> QED
    BY <1>0, <1>2, <2>1, AnswersTyped
<1>5. CASE Rejected(r) = 0 /\ Edits(r) /\ Steps(r) = 0
  <2>1. Reply(c, Answer(200, {})) /\ UNCHANGED token
    BY <1>5 DEF Dispatch
  <2>2. Answer(200, {}).status \in Statuses
    BY DEF Answer, Statuses
  <2> QED
    BY <1>2, <2>1, <2>2
<1>6. CASE Rejected(r) = 0 /\ Edits(r) /\ Steps(r) > 0
  <2>1. /\ pc' = [pc EXCEPT ![c] = "persist"] /\ answer' = answer
        /\ IF AddsProfile(r) /\ r.token = None
           THEN \E t \in Tokens : Generated(t) /\ token' = [token EXCEPT ![c] = t]
           ELSE UNCHANGED token
    BY <1>0, <1>6, StepsCount DEF Dispatch, Goto
  <2>2. Known(r)
    BY <1>6 DEF Rejected
  <2>3. /\ token' \in [Clients -> Tokens \cup {None}]
        /\ \A d \in Clients \ {c} : token'[d] = token[d]
        /\ EditsProfiles(r) => token'[c] \in Tokens
    <3>1. CASE AddsProfile(r) /\ r.token = None
      BY <2>1, <3>1 DEF TypeOK
    <3>2. CASE ~(AddsProfile(r) /\ r.token = None)
      <4>1. EditsProfiles(r) => r.token \in Tokens
        BY <1>0, <3>2, TokenAssumption DEF RequestType, AddsProfile
      <4> QED
        BY <1>0, <2>1, <3>2, <4>1 DEF TypeOK
    <3> QED
      BY <3>1, <3>2
  <2>4. TypeOK'
    BY <1>1, <2>1, <2>3 DEF TypeOK
  <2>5. Shapes'
    BY <1>1, <2>1 DEF Shapes
  <2>6. Progress'
    <3> SUFFICES ASSUME NEW d \in Clients
                 PROVE  /\ Editing(d)' \/ At(d, "dispatch")' => req'[d] \in Requests[d]
                        /\ Editing(d)' => (Known(req[d]) /\ Edits(req[d]))'
                        /\ Editing(d)' /\ EditsProfiles(req[d])' => token'[d] \in Tokens
                        /\ At(d, "persist")' => done'[d] < Steps(req[d])'
                        /\ pc'[d] \in {"load", "install", "rebuild"} =>
                               done'[d] \in 1 .. Steps(req[d])' /\ Reloads(req[d])'
                        /\ pc'[d] \in {"absent", "idle", "dispatch"} => done'[d] = 0
                        /\ At(d, "dispatch")' => token'[d] = req'[d].token
                        /\ At(d, "install")' => fresh'[d] \in Config
      BY DEF Progress
    <3>1. CASE d = c
      BY <1>0, <1>1, <1>6, <2>1, <2>2, <2>3, <3>1 DEF TypeOK, Editing, At
    <3>2. CASE d # c
      BY <1>1, <2>1, <2>3, <3>2 DEF Progress, Editing, At, TypeOK
    <3> QED
      BY <3>1, <3>2
  <2> QED
    BY <2>4, <2>5, <2>6
<1> QED
  BY <1>0, <1>3, <1>4, <1>5, <1>6, StepsCount

\* The promises stay promises, of the types they have.
LEMMA ForgetsTyped ==
    ASSUME SInv, NEW c \in Clients, Editing(c), Forgets(c)
    PROVE  /\ known' \in [Sections -> (SUBSET Items) \cup {None}]
           /\ held' \in SUBSET (Clients \X Tokens)
           /\ maker' \in [Tokens -> Clients \cup {None}]
<1> DEFINE r == req[c]
<1>1. /\ known \in [Sections -> (SUBSET Items) \cup {None}]
      /\ held \in SUBSET (Clients \X Tokens)
      /\ maker \in [Tokens -> Clients \cup {None}]
  BY DEF SInv, TypeOK
<1>2. CASE EditsProfiles(r)
  <2>1. token[c] \in Tokens
    BY <1>2 DEF SInv, Progress
  <2>2. /\ known' = known
        /\ held' \subseteq held
        /\ \/ maker' = maker
           \/ maker' = [maker EXCEPT ![token[c]] = c]
           \/ maker' = [maker EXCEPT ![token[c]] = None]
    BY <1>2 DEF Forgets, EditsProfiles, AddsProfile, DropsProfile, AltersProfile
  <2> QED
    BY <1>1, <2>1, <2>2
<1>3. CASE ~EditsProfiles(r)
  <2>1. Section(r) \in Sections
    BY <1>3, SectionOfEdit DEF SInv, Progress
  <2>2. known' = [known EXCEPT ![Section(r)] = None] /\ held' = held /\ maker' = maker
    BY <1>3 DEF Forgets
  <2> QED
    BY <1>1, <2>1, <2>2
<1> QED
  BY <1>2, <1>3

\* What an edit promises has its type.
LEMMA PromisesTyped ==
    ASSUME SInv, NEW c \in Clients, Editing(c), Promises(c)
    PROVE  /\ known' \in [Sections -> (SUBSET Items) \cup {None}]
           /\ held' \in SUBSET (Clients \X Tokens)
           /\ maker' = maker
<1> DEFINE r == req[c]
<1>1. /\ known \in [Sections -> (SUBSET Items) \cup {None}]
      /\ held \in SUBSET (Clients \X Tokens)
  BY DEF SInv, TypeOK
<1>2. CASE EditsProfiles(r)
  <2>1. token[c] \in Tokens
    BY <1>2 DEF SInv, Progress
  <2>2. /\ known' = known /\ maker' = maker
        /\ held' = held \/ held' = held \cup {<<c, token[c]>>}
    BY <1>2 DEF Promises
  <2> QED
    BY <1>1, <2>1, <2>2
<1>3. CASE ~EditsProfiles(r)
  <2>1. Section(r) \in Sections
    BY <1>3, SectionOfEdit DEF SInv, Progress
  <2>2. disk.section[Section(r)] \in SUBSET Items
    BY <2>1 DEF SInv, TypeOK, Config
  <2>3. /\ known' = known \/ known' = [known EXCEPT ![Section(r)] = disk.section[Section(r)]]
        /\ held' = held /\ maker' = maker
    <3>1. /\ known' = [known EXCEPT ![Section(r)] = IF alone[c] THEN disk.section[Section(r)]
                                                    ELSE known[Section(r)]]
          /\ held' = held /\ maker' = maker
      BY <1>3 DEF Promises
    <3> QED
      BY <1>1, <2>1, <3>1
  <2> QED
    BY <1>1, <2>1, <2>2, <2>3
<1> QED
  BY <1>2, <1>3

\* An edit on disk keeps the types and the progress.
LEMMA PersistTyped ==
    ASSUME SInv, NEW c \in Clients, Persist(c)
    PROVE  SInv'
<1> USE DEF SInv
<1> DEFINE r == req[c]
           n == done[c] + 1
           t == token[c]
<1>1. /\ UNCHANGED <<mem, derived, lost, phase, probed, req, token, fresh, turns, left>>
      /\ UNCHANGED <<alone, before>>
      /\ pc[c] = "persist"
  BY DEF Persist, boot, request, At
<1>2. /\ r \in RequestType /\ Edits(r) /\ n \in 1 .. Steps(r)
      /\ EditsProfiles(r) => t \in Tokens
  <2>1. r \in Requests[c] /\ Edits(r) /\ done[c] < Steps(r) /\ (EditsProfiles(r) => t \in Tokens)
    BY <1>1 DEF Progress, Editing, At
  <2>2. r \in RequestType /\ done[c] \in Nat
    BY <2>1, ServicesAssumption DEF TypeOK
  <2> QED
    BY <2>1, <2>2, StepsCount
<1>3. CASE Verdict(r, t, n) # 200
  <2>1. Reply(c, Answer(Verdict(r, t, n), {})) /\ UNCHANGED <<disk, done, known, held, maker>>
    BY <1>3 DEF Persist, history
  <2>2. Answer(Verdict(r, t, n), {}).status \in Statuses
    BY DEF Answer, Verdict, Statuses
  <2> QED
    BY <1>1, <2>1, <2>2, RepliesTyped DEF TypeOK
<1>4. CASE Verdict(r, t, n) = 200
  <2>1. /\ disk' = Edited(disk, r, t, n) /\ done' = [done EXCEPT ![c] = n] /\ Forgets(c)
        /\ \/ Reloads(r) /\ pc' = [pc EXCEPT ![c] = "load"] /\ answer' = answer
           \/ /\ pc' = [pc EXCEPT ![c] = "answered"]
              /\ answer' = [answer EXCEPT ![c] = Answer(200, {})]
    BY <1>4 DEF Persist, Goto, Reply
  <2>2. ~Refuses(disk, r, t, n) /\ Valid(Edited(disk, r, t, n))
    BY <1>4 DEF Verdict
  <2>3. disk' \in Config /\ Valid(disk')
    BY <1>2, <2>1, <2>2, EditedTyped DEF TypeOK
  <2>4. /\ known' \in [Sections -> (SUBSET Items) \cup {None}]
        /\ held' \in SUBSET (Clients \X Tokens)
        /\ maker' \in [Tokens -> Clients \cup {None}]
    BY <1>1, <2>1, ForgetsTyped DEF Editing
  <2>5. DOMAIN answer' = Clients /\ \A d \in Clients : answer'[d].status \in Statuses
    <3>1. Answer(200, {}).status \in Statuses
      BY DEF Answer, Statuses
    <3> QED
      BY <2>1, <3>1 DEF TypeOK, Shapes
  <2>6. TypeOK'
    BY <1>1, <1>2, <2>1, <2>3, <2>4, <2>5 DEF TypeOK
  <2>7. Shapes'
    BY <1>1, <2>5 DEF Shapes
  <2>8. Progress'
    BY <1>1, <1>2, <2>1 DEF Progress, Editing, At, TypeOK
  <2> QED
    BY <2>6, <2>7, <2>8
<1> QED
  BY <1>3, <1>4

\* The load after it keeps them.
LEMMA LoadTyped ==
    ASSUME SInv, NEW c \in Clients, Load(c)
    PROVE  SInv'
<1> USE DEF SInv
<1>1. /\ UNCHANGED <<disk, mem, derived, lost, phase, probed, req, token, done, answer, turns, left>>
      /\ UNCHANGED <<alone, before, known, held, maker>>
      /\ pc[c] = "load" /\ pc' = [pc EXCEPT ![c] = "install"]
      /\ fresh' = [fresh EXCEPT ![c] = disk]
  BY DEF Load, configs, boot, request, history, At, Goto
<1>2. TypeOK'
  BY <1>1 DEF TypeOK, Shapes
<1>3. Shapes'
  BY <1>1 DEF Shapes, TypeOK
<1>4. Progress'
  BY <1>1 DEF Progress, Editing, At, TypeOK, Shapes
<1> QED
  BY <1>2, <1>3, <1>4

\* So does the copy to memory.
LEMMA InstallTyped ==
    ASSUME SInv, NEW c \in Clients, Install(c)
    PROVE  SInv'
<1> USE DEF SInv
<1>1. /\ UNCHANGED <<disk, derived, phase, probed, req, token, done, answer, turns, left>>
      /\ UNCHANGED <<alone, before, known, held, maker>>
      /\ pc[c] = "install" /\ pc' = [pc EXCEPT ![c] = "rebuild"]
      /\ fresh' = [fresh EXCEPT ![c] = None] /\ mem' = fresh[c]
  BY DEF Install, boot, request, history, At, Goto
<1>2. mem' \in Config /\ lost' \in SUBSET Tokens
  BY <1>1 DEF Progress, At, Install, Lacking
<1>3. TypeOK'
  BY <1>1, <1>2 DEF TypeOK, Shapes
<1>4. Shapes'
  BY <1>1 DEF Shapes
<1>5. Progress'
  BY <1>1 DEF Progress, Editing, At, TypeOK, Shapes
<1> QED
  BY <1>3, <1>4, <1>5

\* So does the rebuild of the chain, which ends the step.
LEMMA RebuildTyped ==
    ASSUME SInv, NEW c \in Clients, Rebuild(c)
    PROVE  SInv'
<1> USE DEF SInv
<1>1. /\ UNCHANGED <<disk, mem, derived, lost, phase, probed, req, token, fresh, done, turns, left>>
      /\ UNCHANGED <<alone, before>>
      /\ pc[c] = "rebuild"
  BY DEF Rebuild, configs, boot, request, At
<1>2. CASE done[c] < Steps(req[c])
  <2>1. pc' = [pc EXCEPT ![c] = "persist"] /\ UNCHANGED <<answer, known, held, maker>>
    BY <1>2 DEF Rebuild, Goto, history
  <2>2. TypeOK' /\ Shapes'
    BY <1>1, <2>1 DEF TypeOK, Shapes
  <2>3. Progress'
    BY <1>1, <1>2, <2>1 DEF Progress, Editing, At, TypeOK
  <2> QED
    BY <2>2, <2>3
<1>3. CASE ~(done[c] < Steps(req[c]))
  <2>1. /\ pc' = [pc EXCEPT ![c] = "answered"]
        /\ answer' = [answer EXCEPT ![c] = Answer(200, {})]
        /\ Promises(c)
    BY <1>3 DEF Rebuild, Reply, Goto
  <2>2. Answer(200, {}).status \in Statuses
    BY DEF Answer, Statuses
  <2>3. /\ known' \in [Sections -> (SUBSET Items) \cup {None}]
        /\ held' \in SUBSET (Clients \X Tokens)
        /\ maker' = maker
    BY <1>1, <2>1, PromisesTyped DEF Editing
  <2>4. TypeOK'
    BY <1>1, <2>1, <2>2, <2>3 DEF TypeOK, Shapes
  <2>5. Shapes'
    BY <1>1, <2>1 DEF Shapes
  <2>6. Progress'
    BY <1>1, <2>1 DEF Progress, Editing, At, TypeOK
  <2> QED
    BY <2>4, <2>5, <2>6
<1> QED
  BY <1>2, <1>3

\* A step that fails ends the request.
LEMMA FailTyped ==
    ASSUME SInv, NEW c \in Clients, Fail(c)
    PROVE  SInv'
<1>1. left.failures \in Nat /\ left \in ScenarioType
  BY DEF SInv, TypeOK, ScenarioType
<1>2. left' \in ScenarioType
  BY <1>1 DEF Fail, ScenarioType
<1>3. Answer(500, {}).status \in Statuses
  BY DEF Answer, Statuses
<1> QED
  BY <1>2, <1>3, RepliesTyped DEF Fail, configs, boot, request, history

\* An answer that is read ends it too.
LEMMA LeaveTyped ==
    ASSUME SInv, NEW c \in Clients, Leave(c)
    PROVE  SInv'
<1> USE DEF SInv
<1>1. /\ UNCHANGED <<disk, mem, derived, lost, phase, probed, turns, left, known, held, maker>>
      /\ pc[c] = "answered" /\ pc' = [pc EXCEPT ![c] = "idle"]
      /\ req' = [req EXCEPT ![c] = NoRequest] /\ token' = [token EXCEPT ![c] = None]
      /\ fresh' = [fresh EXCEPT ![c] = None] /\ done' = [done EXCEPT ![c] = 0]
      /\ answer' = [answer EXCEPT ![c] = NoAnswer] /\ alone' = [alone EXCEPT ![c] = FALSE]
      /\ before' = [before EXCEPT ![c] = None]
  BY DEF Leave, configs, boot, history, At, Goto
<1>2. NoAnswer.status \in Statuses
  BY DEF NoAnswer, Answer, Statuses
<1>3. TypeOK'
  BY <1>1, <1>2 DEF TypeOK, Shapes
<1>4. Shapes'
  BY <1>1 DEF Shapes
<1>5. Progress'
  BY <1>1 DEF Progress, Editing, At, TypeOK, Shapes
<1> QED
  BY <1>3, <1>4, <1>5

\* So every step of a request keeps them.
LEMMA RequestingTyped ==
    ASSUME SInv, NEW c \in Clients, Requesting(c)
    PROVE  SInv'
BY ReceiveTyped, DispatchTyped, PersistTyped, LoadTyped, InstallTyped, RebuildTyped, FailTyped,
   LeaveTyped DEF Requesting, Serving

\* Start and Stop leave the requests alone, and what Start derives are profiles.
LEMMA DerivedTyped ==
    ASSUME NEW profiles \in Profiles, NEW ffmpeg \in BOOLEAN
    PROVE  Derived(profiles, ffmpeg) \in Profiles
<1>1. \A t \in Tokens : Derived(profiles, ffmpeg)[t] \in Profile \cup {None}
  <2> SUFFICES ASSUME NEW t \in Tokens
               PROVE  Derived(profiles, ffmpeg)[t] \in Profile \cup {None}
    OBVIOUS
  <2> DEFINE chosen == CHOOSE u \in Parents(profiles, ffmpeg) : Sibling[u] = t
  <2>1. CASE \E u \in Parents(profiles, ffmpeg) : Sibling[u] = t
    <3>1. chosen \in Parents(profiles, ffmpeg)
      BY <2>1
    <3>2. chosen \in Tokens
      BY <3>1 DEF Parents
    <3>3. Derived(profiles, ffmpeg)[t] = profiles[chosen]
      BY <2>1 DEF Derived
    <3> QED
      BY <3>2, <3>3 DEF Profiles
  <2>2. CASE ~\E u \in Parents(profiles, ffmpeg) : Sibling[u] = t
    BY <2>2 DEF Derived
  <2> QED
    BY <2>1, <2>2
<1>2. Derived(profiles, ffmpeg) = [t \in Tokens |-> Derived(profiles, ffmpeg)[t]]
  BY DEF Derived
<1> QED
  BY <1>1, <1>2 DEF Profiles

\* The steps of Start and Stop keep them.
LEMMA BootTyped ==
    ASSUME SInv, Snapshot \/ Abort \/ Serve \/ Publish \/ Halt \/ Halted
    PROVE  SInv'
<1> USE DEF SInv
<1>1. /\ UNCHANGED <<disk, pc, req, token, fresh, done, answer, turns, before>>
      /\ UNCHANGED <<known, held, maker>>
  BY DEF Snapshot, Abort, Serve, Publish, Halt, Halted, configs, request, history
<1>2. left' \in ScenarioType
  <2>1. left \in ScenarioType /\ left.starts \in Nat /\ left.failures \in Nat /\ left.stops \in Nat
    BY DEF TypeOK, ScenarioType
  <2> QED
    BY <2>1 DEF Snapshot, Abort, Serve, Publish, Halt, Halted, ScenarioType
<1>3. alone' \in [Clients -> BOOLEAN]
  BY DEF Snapshot, Abort, Serve, Publish, Halt, Halted, TypeOK
<1>4. phase' \in {"down", "probing", "serving", "up", "stopping"}
  BY DEF Snapshot, Abort, Serve, Publish, Halt, Halted
<1>5. NoProfiles \in Profiles /\ mem.profiles \in Profiles
  BY DEF NoProfiles, Profiles, TypeOK, Config
<1>6. probed' \in Profiles
  <2> HIDE DEF Profiles
  <2> QED
    BY <1>5 DEF Snapshot, Abort, Serve, Publish, Halt, Halted, TypeOK
<1>7. mem' \in Config /\ derived' \in Profiles
  <2>1. CASE Publish
    <3>1. probed \in Profiles /\ mem \in Config
      BY DEF TypeOK
    <3>2. CASE probed = NoProfiles
      BY <1>5, <2>1, <3>1, <3>2 DEF Publish
    <3>3. CASE probed # NoProfiles
      <4>1. mem' = [mem EXCEPT !.profiles = probed]
        BY <2>1, <3>3 DEF Publish
      <4>2. derived' \in Profiles
        BY <2>1, <3>1, <3>3, DerivedTyped DEF Publish
      <4> QED
        BY <3>1, <4>1, <4>2 DEF Config
    <3> QED
      BY <3>2, <3>3
  <2>2. CASE ~Publish
    BY <2>2 DEF Snapshot, Abort, Serve, Halt, Halted, configs, TypeOK
  <2> QED
    BY <2>1, <2>2
<1>8. lost' \in SUBSET Tokens
  BY DEF Snapshot, Abort, Serve, Publish, Halt, Halted, Lacking, configs, TypeOK
<1>9. TypeOK'
  BY <1>1, <1>2, <1>3, <1>4, <1>6, <1>7, <1>8 DEF TypeOK
<1>10. Shapes' /\ Progress'
  BY <1>1 DEF Shapes, Progress, Editing, At
<1> QED
  BY <1>9, <1>10

\* A Probe is one less that may arrive.
LEMMA TakeTyped ==
    ASSUME SInv, NEW p \in Probes, Take(p)
    PROVE  SInv'
<1>1. left \in ScenarioType /\ left.probes \in Nat
  BY DEF SInv, TypeOK, ScenarioType
<1>2. left' \in ScenarioType
  BY <1>1 DEF Take, ScenarioType
<1> QED
  BY <1>2 DEF Take, SInv, TypeOK, Shapes, Progress, Editing, At, configs, boot, request, history

\* They depend on nothing else.
LEMMA StutterTyped ==
    ASSUME SInv, UNCHANGED services
    PROVE  SInv'
BY DEF services, SInv, TypeOK, Shapes, Progress, Editing, At, configs, boot, request, history

\* A step of the simulator and its network is one of its services, but for Probes.
LEMMA StepsOfServices ==
    ASSUME [Next]_vars
    PROVE  \/ \E c \in Clients : Requesting(c)
           \/ Snapshot \/ Abort \/ Serve \/ Publish \/ Halt \/ Halted
           \/ \E p \in Probes : Take(p)
           \/ UNCHANGED services
<1>1. CASE Requested \/ Begin \/ Run \/ Go \/ Quit \/ Return
  BY <1>1 DEF Requested, Begin, Run, Go, Quit, Return
<1>2. CASE Listener
  BY <1>2 DEF Listener, Hello, Greet, Bind, Loop, Timeout, Match
<1>3. CASE Stopper
  BY <1>3 DEF Stopper, Bye, Part, Cancel, Await
<1>4. CASE UNCHANGED vars
  BY <1>4 DEF vars
<1> QED
  BY <1>1, <1>2, <1>3, <1>4 DEF Next

\* So every step keeps the types and the progress.
LEMMA SInvStays == SInv /\ [Next]_vars => SInv'
BY StepsOfServices, RequestingTyped, BootTyped, TakeTyped, StutterTyped

\* They always hold.
LEMMA ServicesInvariant == Spec => []SInv
<1>1. Init => SInv
  BY InitServices DEF Init
<1> QED
  BY <1>1, SInvStays, PTL DEF Spec

\* The file is always a valid configuration, and nothing loses its type, whatever the
\* services, the user interfaces, Start and Stop do to it at once.
THEOREM ServicesTypeCorrect == Spec => []TypeOK
<1>1. SInv => TypeOK
  BY DEF SInv
<1> QED
  BY <1>1, ServicesInvariant, PTL

-----------------------------------------------------------------------------
(* Services: profiles are kept *)

\* Whoever made a profile made one that is there.
Made == \A t \in Tokens : maker[t] # None => disk.profiles[t] # None
\* What was promised is on file, and is whose promise it was.
Filed == \A h \in held : disk.profiles[h[2]] # None /\ maker[h[2]] = h[1]
KInv == Made /\ Filed

\* An edit that forgets promises breaks none of those that stay.
LEMMA ForgetsKeeps ==
    ASSUME SInv, KInv, NEW c \in Clients, Editing(c), Forgets(c),
           NEW n, disk' = Edited(disk, req[c], token[c], n),
           ~Refuses(disk, req[c], token[c], n)
    PROVE  KInv'
<1> DEFINE r == req[c]
           t == token[c]
<1>1. /\ disk \in Config /\ disk.profiles \in Profiles
      /\ maker \in [Tokens -> Clients \cup {None}]
      /\ held \in SUBSET (Clients \X Tokens)
      /\ r \in RequestType
  BY ServicesAssumption DEF SInv, TypeOK, Config, Progress
<1>2. CASE ~EditsProfiles(r)
  <2>1. disk'.profiles = disk.profiles
    BY <1>1, <1>2 DEF Edited, Config
  <2>2. held' = held /\ maker' = maker
    BY <1>2 DEF Forgets
  <2> QED
    BY <2>1, <2>2 DEF KInv, Made, Filed
<1>3. CASE EditsProfiles(r)
  <2>1. t \in Tokens
    BY <1>3 DEF SInv, Progress
  <2>2. disk'.profiles = EditedProfiles(disk.profiles, r, t)
    BY <1>1, <1>3 DEF Edited, Config
  <2>3. CASE AddsProfile(r)
    <3>1. disk'.profiles = [disk.profiles EXCEPT ![t] = NewProfile] /\ NewProfile # None
      BY <2>2, <2>3, NewProfileTyped, ServicesAssumption
         DEF EditedProfiles, AddsProfile, DropsProfile, AltersProfile
    <3>2. held' = held /\ maker' = [maker EXCEPT ![t] = c]
      BY <1>3, <2>3 DEF Forgets, AddsProfile, DropsProfile, AltersProfile
    <3>3. disk.profiles[t] = None
      BY <2>3 DEF Refuses
    <3>4. \A h \in held : h[2] # t
      BY <3>3 DEF KInv, Filed
    <3> QED
      BY <1>1, <2>1, <3>1, <3>2, <3>4 DEF KInv, Made, Filed, Profiles
  <2>4. CASE DropsProfile(r)
    <3>1. disk'.profiles = [disk.profiles EXCEPT ![t] = None]
      BY <2>2, <2>4 DEF EditedProfiles, AddsProfile, DropsProfile, AltersProfile
    <3>2. held' = {h \in held : h[2] # t} /\ maker' = [maker EXCEPT ![t] = None]
      BY <1>3, <2>4 DEF Forgets, AddsProfile, DropsProfile, AltersProfile
    <3> QED
      BY <1>1, <2>1, <3>1, <3>2 DEF KInv, Made, Filed, Profiles
  <2>5. CASE AltersProfile(r)
    <3>1. disk'.profiles = [disk.profiles EXCEPT ![t] = Altered(disk.profiles[t], r)]
      BY <2>2, <2>5 DEF EditedProfiles, AddsProfile, DropsProfile, AltersProfile
    <3>2. held' = held /\ maker' = maker
      BY <1>3, <2>5 DEF Forgets, AddsProfile, DropsProfile, AltersProfile
    <3>3. disk.profiles[t] \in Profile
      BY <1>1, <2>1, <2>5 DEF Refuses, Profiles
    <3>4. Altered(disk.profiles[t], r) # None
      BY <1>1, <2>5, <3>3, AlteredTyped, ServicesAssumption
    <3> QED
      BY <1>1, <2>1, <3>1, <3>2, <3>4 DEF KInv, Made, Filed, Profiles
  <2> QED
    BY <1>3, <2>3, <2>4, <2>5 DEF EditsProfiles
<1> QED
  BY <1>2, <1>3

\* A client is promised only what it made itself, and so what is there.
LEMMA PromisesKeeps ==
    ASSUME SInv, KInv, NEW c \in Clients, Editing(c), Promises(c), disk' = disk
    PROVE  KInv'
<1> DEFINE r == req[c]
           t == token[c]
<1>1. maker' = maker
  BY PromisesTyped
<1>2. CASE ~EditsProfiles(r) \/ held' = held
  <2>1. held' = held
    BY <1>2 DEF Promises
  <2> QED
    BY <1>1, <2>1 DEF KInv, Made, Filed
<1>3. CASE EditsProfiles(r) /\ held' # held
  <2>1. t \in Tokens
    BY <1>3 DEF SInv, Progress
  <2>2. held' = held \cup {<<c, t>>} /\ maker[t] = c
    BY <1>3 DEF Promises
  <2>3. disk.profiles[t] # None
    BY <2>1, <2>2, ServicesAssumption DEF KInv, Made
  <2> QED
    BY <1>1, <2>2, <2>3 DEF KInv, Made, Filed
<1> QED
  BY <1>2, <1>3

\* Every step keeps acknowledged profiles on file.
LEMMA KInvStays == SInv /\ KInv /\ [Next]_vars => KInv'
<1> SUFFICES ASSUME SInv, KInv, [Next]_vars PROVE KInv'
  OBVIOUS
<1>1. CASE UNCHANGED <<disk, held, maker>>
  BY <1>1 DEF KInv, Made, Filed
<1>2. ASSUME NEW c \in Clients, Persist(c) PROVE KInv'
  <2> DEFINE n == done[c] + 1
  <2>1. CASE Verdict(req[c], token[c], n) # 200
    BY <1>1, <1>2, <2>1 DEF Persist, history
  <2>2. CASE Verdict(req[c], token[c], n) = 200
    <3>1. /\ disk' = Edited(disk, req[c], token[c], n) /\ Forgets(c) /\ Editing(c)
          /\ ~Refuses(disk, req[c], token[c], n)
      BY <1>2, <2>2 DEF Persist, Verdict, Editing, At
    <3> HIDE DEF n
    <3> QED
      BY <3>1, ForgetsKeeps
  <2> QED
    BY <2>1, <2>2
<1>3. ASSUME NEW c \in Clients, Rebuild(c) PROVE KInv'
  <2>1. disk' = disk /\ Editing(c)
    BY <1>3 DEF Rebuild, configs, Editing, At
  <2>2. CASE UNCHANGED history
    BY <1>1, <2>1, <2>2 DEF history
  <2>3. CASE Promises(c)
    BY <2>1, <2>3, PromisesKeeps
  <2> QED
    BY <1>3, <2>2, <2>3 DEF Rebuild
<1>4. ASSUME NEW c \in Clients, Requesting(c), ~Persist(c), ~Rebuild(c) PROVE KInv'
  BY <1>1, <1>4 DEF Requesting, Serving, Receive, Dispatch, Load, Install, Fail, Leave, configs,
                    history
<1>5. CASE Snapshot \/ Abort \/ Serve \/ Publish \/ Halt \/ Halted
  BY <1>1, <1>5 DEF Snapshot, Abort, Serve, Publish, Halt, Halted, configs, history
<1>6. CASE (\E p \in Probes : Take(p)) \/ UNCHANGED services
  BY <1>1, <1>6 DEF Take, services, configs, history
<1> QED
  BY <1>2, <1>3, <1>4, <1>5, <1>6, StepsOfServices

\* What dispatch makes of a request.
LEMMA DispatchOutcomes ==
    ASSUME SInv, NEW c \in Clients, Dispatch(c)
    PROVE  LET r == req[c] IN
           /\ r \in RequestType /\ pc[c] = "dispatch"
           /\ \/ Rejected(r) # 0 /\ Reply(c, Answer(Rejected(r), {}))
              \/ ~Edits(r) /\ \E a \in Replies(r) : Reply(c, a)
              \/ Edits(r) /\ Steps(r) = 0 /\ Reply(c, Answer(200, {}))
              \/ Edits(r) /\ Goto(c, "persist") /\ answer' = answer
           /\ \A d \in Clients \ {c} : token'[d] = token[d]
<1> DEFINE r == req[c]
<1>1. pc[c] = "dispatch" /\ r \in RequestType
  <2>1. pc[c] = "dispatch"
    BY DEF Dispatch, At
  <2> QED
    BY <2>1, ServicesAssumption DEF SInv, Progress, At
<1>2. CASE Rejected(r) # 0
  BY <1>1, <1>2 DEF Dispatch
<1>3. CASE Rejected(r) = 0 /\ ~Edits(r)
  BY <1>1, <1>3 DEF Dispatch
<1>4. CASE Rejected(r) = 0 /\ Edits(r) /\ Steps(r) = 0
  BY <1>1, <1>4 DEF Dispatch
<1>5. CASE Rejected(r) = 0 /\ Edits(r) /\ Steps(r) > 0
  <2>1. Goto(c, "persist") /\ answer' = answer
    BY <1>1, <1>5 DEF Dispatch
  <2>2. token' = token \/ \E t \in Tokens : token' = [token EXCEPT ![c] = t]
    BY <1>1, <1>5 DEF Dispatch
  <2> QED
    BY <1>1, <1>5, <2>1, <2>2 DEF SInv, TypeOK
<1> QED
  BY <1>1, <1>2, <1>3, <1>4, <1>5, StepsCount

\* An edit that reaches the file changes at most who made a profile, and takes promises back.
LEMMA ForgetsKept ==
    ASSUME SInv, NEW c \in Clients, Persist(c)
    PROVE  /\ UNCHANGED <<mem, lost, req, token, fresh>> /\ held' \subseteq held
           /\ \A t \in Tokens : maker'[t] \in {maker[t], c, None}
<1>1. UNCHANGED <<mem, lost, req, token, fresh>>
  BY DEF Persist, request
<1>2. CASE UNCHANGED history
  BY <1>1, <1>2 DEF history
<1>3. CASE Forgets(c)
  BY <1>1, <1>3 DEF Forgets, SInv, TypeOK
<1> QED
  BY <1>2, <1>3 DEF Persist

\* What was promised is in memory, or an older copy has taken its place; and so is what a
\* client that has reloaded is about to be promised, whose own copy has it.
Shown ==
    /\ \A h \in held : h[2] \in Declared \cup lost
    /\ \A c \in Clients : AddsProfile(req[c]) /\ maker[token[c]] = c =>
           /\ At(c, "install") => fresh[c].profiles[token[c]] # None
           /\ At(c, "rebuild") => token[c] \in Declared \cup lost

\* A copy that replaces the memory has a profile of the file, or loses it.
LEMMA CopyShows ==
    ASSUME NEW profiles \in Profiles, NEW t \in Tokens, disk.profiles[t] # None,
           mem'.profiles = profiles, lost' = Lacking(profiles)
    PROVE  t \in (Declared \cup lost)'
<1>1. CASE profiles[t] = None
  BY <1>1 DEF Lacking
<1>2. CASE profiles[t] # None
  <2>1. mem'.profiles[t] # None
    BY <1>2
  <2> QED
    BY <2>1 DEF Declared
<1> QED
  BY <1>1, <1>2

\* A copy of all profiles put into memory shows what was promised, and what is about to be.
LEMMA CopyKeeps ==
    ASSUME SInv, KInv, Shown, NEW profiles \in Profiles, mem'.profiles = profiles,
           lost' = Lacking(profiles), UNCHANGED <<held, maker, req, token>>,
           \A d \in Clients : At(d, "install")' => At(d, "install") /\ fresh'[d] = fresh[d],
           \A d \in Clients : At(d, "rebuild")' => Editing(d)
    PROVE  Shown'
<1>1. \A h \in held : h[2] \in Tokens /\ disk.profiles[h[2]] # None
  BY DEF SInv, TypeOK, KInv, Filed
<1>2. \A h \in held' : h[2] \in (Declared \cup lost)'
  BY <1>1, CopyShows
<1>3. ASSUME NEW d \in Clients, AddsProfile(req[d]), maker[token[d]] = d, At(d, "rebuild")'
      PROVE  token[d] \in (Declared \cup lost)'
  <2>1. token[d] \in Tokens
    BY <1>3 DEF SInv, Progress, EditsProfiles
  <2>2. disk.profiles[token[d]] # None
    BY <1>3, <2>1, ServicesAssumption DEF KInv, Made
  <2> QED
    BY <2>1, <2>2, CopyShows
<1> QED
  BY <1>2, <1>3 DEF Shown

\* Every step shows what was promised.
LEMMA ShownStays == SInv /\ KInv /\ Shown /\ [Next]_vars => Shown'
<1> SUFFICES ASSUME SInv, KInv, Shown, [Next]_vars PROVE Shown'
  OBVIOUS
<1>1. ASSUME NEW c \in Clients, Install(c) PROVE Shown'
  <2>1. /\ mem' = fresh[c] /\ lost' = Lacking(fresh[c].profiles) /\ fresh[c] \in Config
        /\ UNCHANGED <<held, maker, req, token>>
    BY <1>1 DEF Install, history, request, SInv, Progress
  <2>2. fresh[c].profiles \in Profiles /\ mem'.profiles = fresh[c].profiles
    BY <2>1 DEF Config
  <2>3. /\ \A d \in Clients : At(d, "install")' => At(d, "install") /\ fresh'[d] = fresh[d]
        /\ \A d \in Clients : At(d, "rebuild")' => Editing(d)
    BY <1>1 DEF Install, Goto, At, Editing, SInv, TypeOK, Shapes
  <2> QED
    BY <2>1, <2>2, <2>3, CopyKeeps
<1>2. CASE Publish
  <2>1. /\ UNCHANGED <<held, maker, req, token, fresh, pc>> /\ probed \in Profiles
        /\ mem \in Config
    BY <1>2 DEF Publish, history, request, SInv, TypeOK
  <2>2. CASE probed = NoProfiles
    BY <1>2, <2>1, <2>2 DEF Publish, Shown, Declared, At
  <2>3. CASE probed # NoProfiles
    <3>1. mem'.profiles = probed /\ lost' = Lacking(probed)
      BY <1>2, <2>1, <2>3 DEF Publish, Config
    <3> QED
      BY <2>1, <3>1, CopyKeeps DEF At, Editing
  <2> QED
    BY <2>2, <2>3
<1>3. ASSUME NEW c \in Clients, Persist(c) PROVE Shown'
  <2>1. /\ UNCHANGED <<mem, lost, req, token, fresh>> /\ held' \subseteq held
        /\ \A t \in Tokens : maker'[t] \in {maker[t], c, None}
    BY <1>3, ForgetsKept
  <2>2. \A d \in Clients : pc'[d] \in {"install", "rebuild"} => d # c /\ pc'[d] = pc[d]
    BY <1>3 DEF Persist, Goto, Reply, SInv, TypeOK
  <2>3. ASSUME NEW d \in Clients, AddsProfile(req[d]), maker'[token[d]] = d,
               pc'[d] \in {"install", "rebuild"}
        PROVE  maker[token[d]] = d /\ pc[d] = pc'[d]
    <3>1. Editing(d) /\ d # c /\ pc[d] = pc'[d]
      BY <2>2, <2>3 DEF Editing, At
    <3>2. token[d] \in Tokens /\ d # None
      BY <2>3, <3>1, ServicesAssumption DEF SInv, Progress, EditsProfiles
    <3> QED
      BY <2>1, <2>3, <3>1, <3>2
  <2> QED
    BY <2>1, <2>3 DEF Shown, Declared, At
<1>4. ASSUME NEW c \in Clients, Rebuild(c) PROVE Shown'
  <2>1. /\ UNCHANGED <<mem, lost, req, token, fresh, maker>> /\ At(c, "rebuild")
        /\ \A d \in Clients : pc'[d] \in {"install", "rebuild"} => pc'[d] = pc[d]
    <3>1. maker' = maker
      <4>1. CASE UNCHANGED history
        BY <4>1 DEF history
      <4>2. CASE Promises(c)
        BY <4>2 DEF Promises
      <4> QED
        BY <1>4, <4>1, <4>2 DEF Rebuild
    <3> QED
      BY <1>4, <3>1 DEF Rebuild, configs, request, Goto, Reply, At, SInv, TypeOK
  <2>2. \A h \in held' : h \in held
            \/ (h = <<c, token[c]>> /\ AddsProfile(req[c]) /\ maker[token[c]] = c)
    BY <1>4 DEF Rebuild, Promises, history
  <2>3. \A h \in held' : h[2] \in Declared \cup lost
    BY <2>1, <2>2 DEF Shown
  <2> QED
    BY <2>1, <2>3 DEF Shown, Declared, At
<1>5. ASSUME NEW c \in Clients, Load(c) PROVE Shown'
  <2>1. /\ UNCHANGED <<mem, lost, req, token, held, maker>> /\ fresh'[c] = disk
        /\ pc'[c] = "install" /\ Editing(c)
        /\ \A d \in Clients \ {c} : pc'[d] = pc[d] /\ fresh'[d] = fresh[d]
    BY <1>5 DEF Load, configs, request, history, Goto, At, Editing, SInv, TypeOK, Shapes
  <2>2. AddsProfile(req[c]) /\ maker[token[c]] = c => disk.profiles[token[c]] # None
    BY <2>1, ServicesAssumption DEF SInv, Progress, EditsProfiles, KInv, Made
  <2> QED
    BY <2>1, <2>2 DEF Shown, Declared, At
<1>6. ASSUME NEW c \in Clients, (\E r \in Requests[c] : Receive(c, r)) \/ Dispatch(c)
                                    \/ Fail(c) \/ Leave(c)
      PROVE  Shown'
  <2>1. /\ UNCHANGED <<mem, lost, held, maker>>
        /\ \A d \in Clients : pc'[d] \in {"install", "rebuild"} =>
               /\ pc'[d] = pc[d] /\ req'[d] = req[d] /\ token'[d] = token[d]
               /\ fresh'[d] = fresh[d]
    <3>1. CASE (\E r \in Requests[c] : Receive(c, r)) \/ Leave(c)
      BY <3>1 DEF Receive, Leave, configs, history, Goto, Reply, SInv, TypeOK, Shapes
    <3>2. CASE Dispatch(c)
      <4>1. UNCHANGED <<mem, lost, held, maker, req, fresh>>
        BY <3>2 DEF Dispatch, configs, history
      <4>2. /\ pc'[c] \in {"persist", "answered"}
            /\ \A d \in Clients \ {c} : pc'[d] = pc[d]
        <5>1. \/ pc' = [pc EXCEPT ![c] = "persist"]
              \/ pc' = [pc EXCEPT ![c] = "answered"]
          BY <3>2, DispatchOutcomes DEF Goto, Reply
        <5> QED
          BY <5>1 DEF SInv, TypeOK
      <4>3. \A d \in Clients \ {c} : token'[d] = token[d]
        BY <3>2, DispatchOutcomes
      <4> QED
        BY <4>1, <4>2, <4>3
    <3>3. CASE Fail(c)
      BY <3>3 DEF Fail, configs, request, history, Goto, Reply, SInv, TypeOK, Shapes
    <3> QED
      BY <1>6, <3>1, <3>2, <3>3
  <2> QED
    BY <2>1 DEF Shown, Declared, At
<1>7. CASE Snapshot \/ Abort \/ Serve \/ Halt \/ Halted \/ (\E p \in Probes : Take(p))
               \/ UNCHANGED services
  <2>1. UNCHANGED <<mem, lost, held, maker, req, token, fresh, pc>>
    BY <1>7 DEF Snapshot, Abort, Serve, Halt, Halted, Take, services, configs, request, history
  <2> QED
    BY <2>1 DEF Shown, Declared, At
<1> QED
  BY <1>1, <1>2, <1>3, <1>4, <1>5, <1>6, <1>7, StepsOfServices DEF Requesting, Serving

\* What a client was told it created is on file, and is its own, until somebody deletes it
\* (update.go, AddProfile; media_provider.go, CreateProfile); and it is in memory but for the
\* time from when an older copy replaces the memory to the next reload (simulator.go,
\* reloadFromDisk; lifecycle.go, Start).
THEOREM ProfilesStay == Spec => []ProfilesKept
<1>1. Init => KInv /\ Shown
  BY DEF Init, ServicesInit, KInv, Made, Filed, Shown, At
<1>2. KInv /\ Shown => ProfilesKept
  BY DEF KInv, Filed, Shown, ProfilesKept
<1> QED
  BY <1>1, <1>2, KInvStays, ShownStays, ServicesInvariant, PTL DEF Spec

-----------------------------------------------------------------------------
(* Services: what a request that met nobody leaves *)

LEMMA AfterNothing ==
    ASSUME NEW d, NEW r, NEW t
    PROVE  After(d, r, t, 0) = d
BY DEF After

\* One more edit of a batch.
LEMMA AfterOneMore ==
    ASSUME NEW d \in Config, NEW r \in RequestType, NEW t, NEW n \in 1 .. Steps(r), Edits(r)
    PROVE  Edited(After(d, r, t, n - 1), r, t, n) = After(d, r, t, n)
<1>1. n \in Nat /\ n # 0 /\ Steps(r) \in Nat
  BY StepsCount
<1>2. CASE EditsUsers(r)
  <2>1. ~EditsProfiles(r) /\ Section(r) = "Users"
    BY <1>2, UsersOrProfiles DEF Section
  <2>2. /\ DOMAIN d = {"section", "profiles"} /\ DOMAIN d.section = Sections
        /\ d = [section |-> d.section, profiles |-> d.profiles]
    BY DEF Config
  <2>3. "Users" \in Sections
    BY DEF Sections
  <2> DEFINE old == After(d, r, t, n - 1)
             past == d.section["Users"]
  <2>4. Edited(old, r, t, n) =
          [old EXCEPT !.section =
              [old.section EXCEPT !["Users"] = EditedSection(old.section["Users"], r, n)]]
    BY <2>1 DEF Edited
  <2>5. Users(r, n) = Users(r, n - 1) \cup {r.items[n]}
    BY <1>1 DEF Users
  <2>6. CASE AddsUsers(r) \/ PutsUsers(r)
    <3>1. After(d, r, t, n) =
            [d EXCEPT !.section = [d.section EXCEPT !["Users"] = past \cup Users(r, n)]]
      BY <1>1, <2>6 DEF After
    <3>2. old = [d EXCEPT !.section = [d.section EXCEPT !["Users"] = past \cup Users(r, n - 1)]]
      <4>1. CASE n = 1
        <5>1. Users(r, n - 1) = {}
          BY <4>1 DEF Users
        <5>2. [d.section EXCEPT !["Users"] = past] = d.section
          BY <2>2, <2>3 DEF Config
        <5> QED
          BY <2>2, <4>1, <5>1, <5>2, AfterNothing
      <4>2. CASE n # 1
        BY <1>1, <2>6, <4>2 DEF After
      <4> QED
        BY <4>1, <4>2
    <3>3. EditedSection(old.section["Users"], r, n) = old.section["Users"] \cup {r.items[n]}
      BY <2>6 DEF EditedSection, AddsUsers, PutsUsers, DropsUsers, Replaces, Extends, Reduces
    <3> HIDE DEF old, past
    <3>4. old.section = [d.section EXCEPT !["Users"] = past \cup Users(r, n - 1)]
      BY <2>2, <3>2
    <3>5. old.section["Users"] = past \cup Users(r, n - 1)
      BY <2>2, <2>3, <3>4
    <3>6. [old.section EXCEPT !["Users"] = past \cup Users(r, n)] =
            [d.section EXCEPT !["Users"] = past \cup Users(r, n)]
      BY <2>2, <2>3, <3>4
    <3>7. Edited(old, r, t, n) =
            [old EXCEPT !.section = [d.section EXCEPT !["Users"] = past \cup Users(r, n)]]
      BY <2>4, <2>5, <3>3, <3>5, <3>6
    <3> QED
      BY <2>2, <3>1, <3>2, <3>7 DEF old
  <2>7. CASE DropsUsers(r) /\ ~(AddsUsers(r) \/ PutsUsers(r))
    <3>1. After(d, r, t, n) =
            [d EXCEPT !.section = [d.section EXCEPT !["Users"] = past \ Users(r, n)]]
      BY <1>1, <2>7 DEF After
    <3>2. old = [d EXCEPT !.section = [d.section EXCEPT !["Users"] = past \ Users(r, n - 1)]]
      <4>1. CASE n = 1
        <5>1. Users(r, n - 1) = {}
          BY <4>1 DEF Users
        <5>2. [d.section EXCEPT !["Users"] = past] = d.section
          BY <2>2, <2>3 DEF Config
        <5> QED
          BY <2>2, <4>1, <5>1, <5>2, AfterNothing
      <4>2. CASE n # 1
        BY <1>1, <2>7, <4>2 DEF After
      <4> QED
        BY <4>1, <4>2
    <3>3. EditedSection(old.section["Users"], r, n) = old.section["Users"] \ {r.items[n]}
      BY <2>7 DEF EditedSection, AddsUsers, PutsUsers, DropsUsers, Replaces, Extends, Reduces
    <3> HIDE DEF old, past
    <3>4. old.section = [d.section EXCEPT !["Users"] = past \ Users(r, n - 1)]
      BY <2>2, <3>2
    <3>5. old.section["Users"] = past \ Users(r, n - 1)
      BY <2>2, <2>3, <3>4
    <3>6. [old.section EXCEPT !["Users"] = past \ Users(r, n)] =
            [d.section EXCEPT !["Users"] = past \ Users(r, n)]
      BY <2>2, <2>3, <3>4
    <3>7. (past \ Users(r, n - 1)) \ {r.items[n]} = past \ Users(r, n)
      BY <2>5
    <3>8. Edited(old, r, t, n) =
            [old EXCEPT !.section = [d.section EXCEPT !["Users"] = past \ Users(r, n)]]
      BY <2>4, <3>3, <3>5, <3>6, <3>7
    <3> QED
      BY <2>2, <3>1, <3>2, <3>8 DEF old
  <2> QED
    BY <1>2, <2>6, <2>7 DEF EditsUsers
<1>3. CASE ~EditsUsers(r)
  <2>1. n = 1
    BY <1>1, <1>3 DEF Steps
  <2>2. After(d, r, t, n) = Edited(d, r, t, 1)
    BY <1>3, <2>1 DEF After, EditsUsers
  <2> QED
    BY <2>1, <2>2, AfterNothing
<1> QED
  BY <1>2, <1>3

\* A request that met nobody has the file and, once it has reloaded, the memory to itself.
Solo ==
    \A c \in Clients : alone[c] =>
        /\ InFlight(c)
        /\ \A e \in Clients \ {c} : ~InFlight(e)
        /\ phase \notin {"probing", "serving"}
        /\ before[c] \in Config
        /\ disk = After(before[c], req[c], token[c], done[c])
        /\ At(c, "install") => fresh[c] = disk
        /\ At(c, "rebuild") => mem = disk

\* A request in flight beside one that is alone is that one.
LEMMA OnlyOneAlone ==
    ASSUME Solo, NEW c \in Clients, NEW d \in Clients, InFlight(c), alone[d]
    PROVE  d = c
BY DEF Solo

\* A request that arrives first finds the file as it is.
LEMMA ReceiveSolo ==
    ASSUME SInv, Solo, NEW c \in Clients, NEW r \in Requests[c], Receive(c, r)
    PROVE  Solo'
<1> SUFFICES ASSUME NEW d \in Clients, alone'[d]
             PROVE  /\ InFlight(d)'
                    /\ \A e \in Clients \ {d} : ~InFlight(e)'
                    /\ phase' \notin {"probing", "serving"}
                    /\ before'[d] \in Config
                    /\ disk' = After(before'[d], req'[d], token'[d], done'[d])
                    /\ At(d, "install")' => fresh'[d] = disk'
                    /\ At(d, "rebuild")' => mem' = disk'
  BY DEF Solo
<1>1. /\ d = c /\ phase \notin {"probing", "serving"}
      /\ \A e \in Clients \ {c} : ~InFlight(e)
      /\ UNCHANGED <<disk, mem, phase, done>>
      /\ pc[c] = "idle"
  BY DEF Receive, configs, boot, At
<1>2. before'[d] = disk /\ disk \in Config
  BY DEF Receive, SInv, TypeOK
<1>3. pc' = [pc EXCEPT ![c] = "dispatch"] \/ pc' = [pc EXCEPT ![c] = "answered"]
  BY DEF Receive, Goto, Reply
<1>4. done'[d] = 0
  BY <1>1 DEF SInv, Progress
<1> QED
  BY <1>1, <1>2, <1>3, <1>4, AfterNothing DEF InFlight, At, SInv, TypeOK

\* An operation under way goes on alone, if it was.
LEMMA ServingSolo ==
    ASSUME SInv, Solo, NEW c \in Clients, Serving(c)
    PROVE  Solo'
<1>0. /\ UNCHANGED <<phase, probed, req, alone, before>> /\ InFlight(c)
      /\ \A e \in Clients \ {c} : InFlight(e)' = InFlight(e)
      /\ InFlight(c)'
  <2>1. UNCHANGED <<phase, probed, req, alone, before>>
    BY DEF Serving, Dispatch, Persist, Load, Install, Rebuild, Fail, boot, request
  <2>2. /\ pc[c] \in {"dispatch", "persist", "load", "install", "rebuild"}
        /\ \E l \in {"persist", "load", "install", "rebuild", "answered"} :
               pc' = [pc EXCEPT ![c] = l]
    <3>1. CASE Dispatch(c)
      BY <3>1, DispatchOutcomes DEF Goto, Reply
    <3>2. CASE Persist(c)
      BY <3>2 DEF Persist, At, Goto, Reply
    <3>3. CASE Load(c) \/ Install(c)
      BY <3>3 DEF Load, Install, At, Goto
    <3>4. CASE Rebuild(c) \/ Fail(c)
      BY <3>4 DEF Rebuild, Fail, At, Goto, Reply
    <3> QED
      BY <3>1, <3>2, <3>3, <3>4 DEF Serving
  <2>3. pc \in [Clients -> {"absent", "idle", "dispatch", "persist", "load", "install",
                            "rebuild", "answered"}]
    BY DEF SInv, TypeOK
  <2> QED
    BY <2>1, <2>2, <2>3 DEF InFlight
<1> SUFFICES ASSUME alone[c]
             PROVE  /\ disk' = After(before[c], req[c], token'[c], done'[c])
                    /\ At(c, "install")' => fresh'[c] = disk'
                    /\ At(c, "rebuild")' => mem' = disk'
  BY <1>0, OnlyOneAlone DEF Solo
<1>1. /\ disk = After(before[c], req[c], token[c], done[c]) /\ before[c] \in Config
      /\ At(c, "install") => fresh[c] = disk
      /\ At(c, "rebuild") => mem = disk
  BY DEF Solo
<1> HIDE DEF After
<1>2. CASE Dispatch(c)
  <2>1. UNCHANGED <<disk, done>> /\ done[c] = 0
    BY <1>2 DEF Dispatch, configs, SInv, Progress, At
  <2>2. pc'[c] \in {"persist", "answered"}
    BY <1>2, DispatchOutcomes DEF Goto, Reply, SInv, TypeOK
  <2> QED
    BY <1>1, <2>1, <2>2, AfterNothing DEF At
<1>3. CASE Persist(c)
  <2> DEFINE r == req[c]
             n == done[c] + 1
             t == token[c]
  <2>1. token' = token /\ pc'[c] \in {"load", "answered"} /\ pc[c] = "persist"
    BY <1>3 DEF Persist, request, Goto, Reply, At, SInv, TypeOK
  <2>2. CASE disk' = disk /\ done' = done
    BY <1>1, <2>1, <2>2 DEF At
  <2>3. CASE disk' = Edited(disk, r, t, n) /\ done' = [done EXCEPT ![c] = n]
    <3>1. /\ r \in RequestType /\ Edits(r) /\ done[c] \in Nat /\ done[c] < Steps(r)
          /\ DOMAIN done = Clients
      BY <2>1, ServicesAssumption DEF SInv, Progress, TypeOK, Editing, At
    <3>2. n \in 1 .. Steps(r) /\ n - 1 = done[c]
      BY <3>1, StepsCount
    <3> HIDE DEF n
    <3>3. disk' = After(before[c], r, t, n)
      BY <1>1, <2>3, <3>1, <3>2, AfterOneMore
    <3> QED
      BY <2>1, <2>3, <3>1, <3>3 DEF At
  <2> QED
    BY <1>3, <2>2, <2>3 DEF Persist
<1>4. CASE Load(c)
  <2>1. /\ UNCHANGED <<disk, token, done>> /\ pc'[c] = "install"
        /\ fresh'[c] = disk
    BY <1>4 DEF Load, configs, request, Goto, SInv, TypeOK, Shapes
  <2> QED
    BY <1>1, <2>1 DEF At
<1>5. CASE Install(c)
  <2>1. /\ UNCHANGED <<disk, token, done>> /\ pc'[c] = "rebuild" /\ mem' = fresh[c]
        /\ pc[c] = "install"
    BY <1>5 DEF Install, request, Goto, At, SInv, TypeOK
  <2> QED
    BY <1>1, <2>1 DEF At
<1>6. CASE Rebuild(c) \/ Fail(c)
  <2>1. /\ UNCHANGED <<disk, token, done>> /\ pc'[c] \in {"persist", "answered"}
    BY <1>6 DEF Rebuild, Fail, configs, request, Goto, Reply, SInv, TypeOK
  <2> QED
    BY <1>1, <2>1 DEF At
<1> QED
  BY <1>2, <1>3, <1>4, <1>5, <1>6 DEF Serving

\* One that leaves takes nothing from the others.
LEMMA LeaveSolo ==
    ASSUME SInv, Solo, NEW c \in Clients, Leave(c)
    PROVE  Solo'
<1>1. /\ InFlight(c) /\ alone' = [alone EXCEPT ![c] = FALSE]
      /\ alone \in [Clients -> BOOLEAN]
  BY DEF Leave, InFlight, At, SInv, TypeOK
<1>2. \A d \in Clients : ~alone'[d]
  BY <1>1, OnlyOneAlone
<1> QED
  BY <1>2 DEF Solo

\* A Start is company: nobody is alone beside it.
LEMMA BootSolo ==
    ASSUME SInv, Solo, Snapshot \/ Abort \/ Serve \/ Publish \/ Halt \/ Halted
    PROVE  Solo'
<1>1. CASE Snapshot \/ Publish
  <2>1. \A d \in Clients : ~alone'[d]
    BY <1>1 DEF Snapshot, Publish
  <2> QED
    BY <2>1 DEF Solo
<1>2. CASE Abort \/ Serve \/ Halt \/ Halted
  <2>1. /\ UNCHANGED <<disk, mem, pc, req, token, fresh, done, alone, before>>
        /\ phase' \in {"probing", "serving"} => phase \in {"probing", "serving"}
    BY <1>2 DEF Abort, Serve, Halt, Halted, configs, request
  <2> QED
    BY <2>1 DEF Solo, InFlight, At
<1> QED
  BY <1>1, <1>2

\* Every step keeps what a lone request knows.
LEMMA SoloStays == SInv /\ Solo /\ [Next]_vars => Solo'
<1> SUFFICES ASSUME SInv, Solo, [Next]_vars PROVE Solo'
  OBVIOUS
<1>1. ASSUME NEW c \in Clients, Requesting(c) PROVE Solo'
  BY <1>1, ReceiveSolo, ServingSolo, LeaveSolo DEF Requesting
<1>2. CASE (\E p \in Probes : Take(p)) \/ UNCHANGED services
  BY <1>2 DEF Take, services, configs, boot, request, Solo, InFlight, At
<1> QED
  BY <1>1, <1>2, BootSolo, StepsOfServices

-----------------------------------------------------------------------------
(* Services: answers tell the truth *)

\* An edit that names no users is of one step.
LEMMA OneStep ==
    ASSUME NEW r \in RequestType, ~EditsUsers(r)
    PROVE  Steps(r) = 1
BY DEF Steps

\* Users are edited by the device service and the user interfaces.
LEMMA MediaEditsNoUsers ==
    ASSUME NEW r, r.service = "media", Known(r)
    PROVE  ~EditsUsers(r)
<1>1. \E o \in MediaOperations : o.name = r.op
  BY DEF Known, Operations
<1>2. r.op \notin {"CreateUsers", "AddUser", "SetUser", "UpsertUser", "DeleteUsers", "RemoveUser"}
  BY <1>1 DEF MediaOperations, MediaCapabilities, ProfileOperations, VideoSourceOperations,
              VideoEncoderOperations, InstanceQueries, MetadataOperations, StreamOperations,
              Plain, Taking
<1> QED
  BY <1>2 DEF EditsUsers, AddsUsers, PutsUsers, DropsUsers

\* What an answer is worth by itself.
Honest(c) ==
    LET status == answer[c].status
    IN /\ status \in {400, 401, 403, 405, 413, 501} => done[c] = 0
       /\ status = 200 => done[c] = IF Edits(req[c]) THEN Steps(req[c]) ELSE 0

\* And what it is worth when nobody else was there.
Fruitful(c) ==
    alone[c] /\ answer[c].status = 200 /\ done[c] > 0 /\ Reloads(req[c]) => mem = disk

HInv == \A c \in Clients : At(c, "answered") => Honest(c) /\ Fruitful(c)

\* A status given while nothing has been done is as good as any, except for an edit that
\* is said to be done.
LEMMA NothingDone ==
    ASSUME NEW c \in Clients, NEW a, Reply(c, a), DOMAIN answer = Clients,
           req' = req, done' = done, done[c] = 0,
           a.status = 200 => ~Edits(req[c]) \/ Steps(req[c]) = 0
    PROVE  (Honest(c) /\ Fruitful(c))'
<1>1. answer'[c] = a
  BY DEF Reply
<1> QED
  BY <1>1 DEF Honest, Fruitful

\* What is answered on arrival is true.
LEMMA ReceiveHonest ==
    ASSUME SInv, NEW c \in Clients, NEW r \in Requests[c], Receive(c, r), At(c, "answered")'
    PROVE  (Honest(c) /\ Fruitful(c))'
<1>1. /\ done' = done /\ pc[c] = "idle" /\ DOMAIN answer = Clients
      /\ pc \in [Clients -> {"absent", "idle", "dispatch", "persist", "load", "install",
                             "rebuild", "answered"}]
  BY DEF Receive, At, SInv, Shapes, TypeOK
<1>2. done[c] = 0
  BY <1>1 DEF SInv, Progress
<1>3. Screened(r) # 0 /\ Reply(c, Answer(Screened(r), {}))
  BY <1>1 DEF Receive, Goto, At
<1>4. answer'[c].status = Screened(r)
  BY <1>1, <1>3 DEF Reply, Answer
<1>5. Screened(r) # 200
  BY DEF Screened, Gate
<1> QED
  BY <1>1, <1>2, <1>4, <1>5 DEF Honest, Fruitful

\* What is answered at dispatch is true: nothing was edited.
LEMMA DispatchHonest ==
    ASSUME SInv, NEW c \in Clients, Dispatch(c), At(c, "answered")'
    PROVE  (Honest(c) /\ Fruitful(c))'
<1> DEFINE r == req[c]
<1>1. /\ done' = done /\ req' = req /\ done[c] = 0 /\ DOMAIN answer = Clients
      /\ pc \in [Clients -> {"absent", "idle", "dispatch", "persist", "load", "install",
                             "rebuild", "answered"}]
  BY DEF Dispatch, SInv, Shapes, Progress, TypeOK, At
<1>2. CASE Rejected(r) # 0 /\ Reply(c, Answer(Rejected(r), {}))
  <2>1. Answer(Rejected(r), {}).status # 200
    BY DEF Answer, Rejected
  <2> QED
    BY <1>1, <1>2, <2>1, NothingDone
<1>3. CASE ~Edits(r) /\ \E a \in Replies(r) : Reply(c, a)
  BY <1>1, <1>3, NothingDone
<1>4. CASE Edits(r) /\ Steps(r) = 0 /\ Reply(c, Answer(200, {}))
  BY <1>1, <1>4, NothingDone
<1>5. CASE Goto(c, "persist")
  BY <1>1, <1>5 DEF Goto, At
<1> QED
  BY <1>2, <1>3, <1>4, <1>5, DispatchOutcomes

\* What is answered at an edit is true: it was refused, or it was the last and needs no reload.
LEMMA PersistHonest ==
    ASSUME SInv, NEW c \in Clients, Persist(c), At(c, "answered")'
    PROVE  (Honest(c) /\ Fruitful(c))'
<1> DEFINE r == req[c]
           n == done[c] + 1
           verdict == Verdict(r, token[c], n)
<1>1. /\ req' = req /\ pc[c] = "persist" /\ DOMAIN answer = Clients
      /\ pc \in [Clients -> {"absent", "idle", "dispatch", "persist", "load", "install",
                             "rebuild", "answered"}]
      /\ r \in RequestType /\ Known(r) /\ Edits(r)
      /\ done[c] \in Nat /\ done[c] < Steps(r) /\ DOMAIN done = Clients
  <2>1. req' = req /\ pc[c] = "persist"
    BY DEF Persist, request, At
  <2> QED
    BY <2>1, ServicesAssumption DEF SInv, Progress, TypeOK, Shapes, Editing, At
<1>2. CASE verdict # 200
  <2>1. done' = done /\ Reply(c, Answer(verdict, {}))
    BY <1>2 DEF Persist
  <2>2. answer'[c].status = verdict
    BY <1>1, <2>1 DEF Reply, Answer
  <2>3. verdict \in {400, 500} /\ (verdict = 400 => r.service = "media")
    BY <1>2 DEF Verdict
  <2>4. verdict = 400 => done[c] = 0
    BY <1>1, <2>3, MediaEditsNoUsers, OneStep
  <2> HIDE DEF verdict
  <2> QED
    BY <2>1, <2>2, <2>3, <2>4 DEF Honest, Fruitful
<1>3. CASE verdict = 200
  <2>1. done' = [done EXCEPT ![c] = n] /\ ~Reloads(r) /\ Reply(c, Answer(200, {}))
    BY <1>1, <1>3 DEF Persist, Goto, At
  <2>2. answer'[c].status = 200
    BY <1>1, <2>1 DEF Reply, Answer
  <2>3. Steps(r) = 1
    BY <1>1, <2>1, OneStep DEF Reloads
  <2>4. done'[c] = Steps(r)
    BY <1>1, <2>1, <2>3
  <2> QED
    BY <1>1, <2>1, <2>2, <2>4 DEF Honest, Fruitful
<1> QED
  BY <1>2, <1>3

\* A success is answered after the last step only.
LEMMA RebuildHonest ==
    ASSUME SInv, Solo, NEW c \in Clients, Rebuild(c), At(c, "answered")'
    PROVE  (Honest(c) /\ Fruitful(c))'
<1>1. /\ UNCHANGED <<disk, mem, req, done, alone>> /\ pc[c] = "rebuild"
      /\ DOMAIN answer = Clients
      /\ pc \in [Clients -> {"absent", "idle", "dispatch", "persist", "load", "install",
                             "rebuild", "answered"}]
  BY DEF Rebuild, configs, request, At, SInv, Shapes, TypeOK
<1>2. /\ req[c] \in RequestType /\ Edits(req[c])
      /\ done[c] \in 1 .. Steps(req[c]) /\ Steps(req[c]) \in Nat
  BY <1>1, ServicesAssumption, StepsCount DEF SInv, Progress, Editing
<1>3. ~(done[c] < Steps(req[c])) /\ Reply(c, Answer(200, {}))
  BY <1>1 DEF Rebuild, Goto, At
<1>4. answer'[c].status = 200
  BY <1>1, <1>3 DEF Reply, Answer
<1>5. alone[c] => mem = disk
  BY <1>1 DEF Solo, At
<1> QED
  BY <1>1, <1>2, <1>3, <1>4, <1>5 DEF Honest, Fruitful

\* A step that failed is answered with a fault, which claims nothing.
LEMMA FailHonest ==
    ASSUME SInv, NEW c \in Clients, Fail(c)
    PROVE  (Honest(c) /\ Fruitful(c))'
<1>1. answer'[c].status = 500
  BY DEF Fail, Reply, Answer, SInv, Shapes
<1> QED
  BY <1>1 DEF Honest, Fruitful

\* An answer stays as true as it was while others go on.
LEMMA OthersHonest ==
    ASSUME SInv, HInv, NEW d \in Clients, At(d, "answered"),
           UNCHANGED <<answer[d], req[d], done[d]>>,
           alone'[d] => alone[d] /\ UNCHANGED <<mem, disk>>
    PROVE  (Honest(d) /\ Fruitful(d))'
BY DEF HInv, Honest, Fruitful, At

\* Every step keeps the answers true.
LEMMA HInvStays == SInv /\ Solo /\ HInv /\ [Next]_vars => HInv'
<1> SUFFICES ASSUME SInv, Solo, HInv, [Next]_vars, NEW d \in Clients, At(d, "answered")'
             PROVE  (Honest(d) /\ Fruitful(d))'
  BY DEF HInv
<1>0. /\ pc \in [Clients -> {"absent", "idle", "dispatch", "persist", "load", "install",
                             "rebuild", "answered"}]
      /\ DOMAIN answer = Clients /\ DOMAIN req = Clients /\ DOMAIN done = Clients
      /\ alone \in [Clients -> BOOLEAN]
  BY DEF SInv, TypeOK, Shapes
<1>1. ASSUME NEW c \in Clients, Receive(c, req'[c]), req'[c] \in Requests[c] PROVE (Honest(d) /\ Fruitful(d))'
  <2>1. CASE d = c
    BY <1>1, <2>1, ReceiveHonest
  <2>2. CASE d # c
    <3>1. /\ At(d, "answered") /\ UNCHANGED <<answer[d], req[d], done[d], mem, disk>>
          /\ ~alone'[d]
      BY <1>0, <1>1, <2>2 DEF Receive, Goto, Reply, At, configs
    <3> QED
      BY <3>1, OthersHonest
  <2> QED
    BY <2>1, <2>2
<1>2. ASSUME NEW c \in Clients, Serving(c) PROVE (Honest(d) /\ Fruitful(d))'
  <2>1. CASE d = c
    <3>1. CASE Dispatch(c) \/ Persist(c) \/ Rebuild(c) \/ Fail(c)
      BY <2>1, <3>1, DispatchHonest, PersistHonest, RebuildHonest, FailHonest
    <3>2. CASE Load(c) \/ Install(c)
      BY <1>0, <2>1, <3>2 DEF Load, Install, Goto, At
    <3> QED
      BY <1>2, <3>1, <3>2 DEF Serving
  <2>2. CASE d # c
    <3>1. /\ InFlight(c) /\ alone' = alone
          /\ At(d, "answered") /\ UNCHANGED <<answer[d], req[d], done[d]>>
      <4>1. CASE Dispatch(c)
        <5>1. UNCHANGED <<req, done, alone>> /\ pc[c] = "dispatch"
          BY <4>1 DEF Dispatch, At
        <5>2. pc'[d] = pc[d] /\ answer'[d] = answer[d]
          <6>1. \/ \E a \in {answer'[c]} : Reply(c, a)
                \/ Goto(c, "persist") /\ answer' = answer
            BY <1>0, <4>1, DispatchOutcomes DEF Reply, Goto
          <6> QED
            BY <1>0, <2>2, <6>1 DEF Goto, Reply
        <5> QED
          BY <1>0, <5>1, <5>2 DEF At, InFlight
      <4>2. CASE Persist(c)
        BY <1>0, <2>2, <4>2 DEF Persist, Goto, Reply, At, InFlight, request
      <4>3. CASE Load(c) \/ Install(c) \/ Rebuild(c) \/ Fail(c)
        BY <1>0, <2>2, <4>3 DEF Load, Install, Rebuild, Fail, Goto, Reply, At, InFlight, request
      <4> QED
        BY <1>2, <4>1, <4>2, <4>3 DEF Serving
    <3>2. ~alone'[d]
      BY <2>2, <3>1, OnlyOneAlone
    <3> QED
      BY <3>1, <3>2, OthersHonest
  <2> QED
    BY <2>1, <2>2
<1>3. ASSUME NEW c \in Clients, Leave(c) PROVE (Honest(d) /\ Fruitful(d))'
  <2>1. /\ d # c /\ At(d, "answered") /\ UNCHANGED <<answer[d], req[d], done[d], mem, disk>>
        /\ alone'[d] => alone[d]
    BY <1>0, <1>3 DEF Leave, Goto, At, configs
  <2> QED
    BY <2>1, OthersHonest
<1>4. CASE Snapshot \/ Abort \/ Serve \/ Publish \/ Halt \/ Halted
  <2>1. /\ At(d, "answered") /\ UNCHANGED <<answer, req, done, disk>>
        /\ alone'[d] => alone[d] /\ mem' = mem
    BY <1>4 DEF Snapshot, Abort, Serve, Publish, Halt, Halted, configs, request, At
  <2> QED
    BY <2>1, OthersHonest
<1>5. CASE (\E p \in Probes : Take(p)) \/ UNCHANGED services
  <2>1. At(d, "answered") /\ UNCHANGED <<answer, req, done, disk, mem, alone>>
    BY <1>5 DEF Take, services, configs, request, At
  <2> QED
    BY <2>1, OthersHonest
<1>6. ASSUME NEW c \in Clients, Requesting(c) PROVE (Honest(d) /\ Fruitful(d))'
  <2>1. CASE \E r \in Requests[c] : Receive(c, r)
    <3>1. PICK r \in Requests[c] : Receive(c, r)
      BY <2>1
    <3>2. req'[c] = r
      BY <1>0, <3>1 DEF Receive
    <3> QED
      BY <1>1, <3>1, <3>2
  <2> QED
    BY <1>2, <1>3, <1>6, <2>1 DEF Requesting
<1> QED
  BY <1>4, <1>5, <1>6, StepsOfServices

\* Both parts together are inductive.
LEMMA RequestInvariant == Spec => [](Solo /\ HInv)
<1>1. Init => Solo /\ HInv
  <2> SUFFICES ASSUME ServicesInit PROVE Solo /\ HInv
    BY DEF Init
  <2>1. \A c \in Clients : ~alone[c] /\ pc[c] # "answered"
    BY DEF ServicesInit
  <2> QED
    BY <2>1 DEF Solo, HInv, At
<1> QED
  BY <1>1, SoloStays, HInvStays, ServicesInvariant, PTL DEF Spec

\* A client is told what was done: nothing, when it is to blame; all of it, when it is told
\* of success; and when it met nobody the file holds the edits counted and no other, and
\* the memory agrees with it after a reload.
THEOREM AnswersAreTrue == Spec => []AnswersTellTruth
<1>1. Solo /\ HInv => AnswersTellTruth
  <2> HIDE DEF After
  <2> QED
    BY DEF Solo, HInv, Honest, Fruitful, AnswersTellTruth
<1> QED
  BY <1>1, RequestInvariant, PTL

-----------------------------------------------------------------------------
(* Services: what was set is seen *)

\* The value that was promised is in the file, in the memory, and in every copy that is
\* about to be installed.
Seen ==
    \A s \in Sections : known[s] # None =>
        /\ disk.section[s] = known[s]
        /\ mem.section[s] = known[s]
        /\ \A c \in Clients : At(c, "install") => fresh[c].section[s] = known[s]

\* An edit on disk keeps what others were promised.
LEMMA PersistSeen ==
    ASSUME SInv, Seen, NEW c \in Clients, Persist(c)
    PROVE  Seen'
<1> DEFINE r == req[c]
           n == done[c] + 1
           t == token[c]
<1>1. /\ UNCHANGED <<mem, fresh>> /\ pc[c] = "persist"
      /\ \A d \in Clients : At(d, "install")' => At(d, "install")
      /\ Edits(r) /\ disk \in Config /\ known \in [Sections -> (SUBSET Items) \cup {None}]
  <2>1. UNCHANGED <<mem, fresh>> /\ pc[c] = "persist"
    BY DEF Persist, At
  <2>2. pc'[c] # "install" /\ \A d \in Clients \ {c} : pc'[d] = pc[d]
    BY DEF Persist, Goto, Reply, SInv, TypeOK
  <2> QED
    BY <2>1, <2>2 DEF SInv, TypeOK, Progress, Editing, At
<1>2. CASE disk' = disk /\ known' = known
  BY <1>1, <1>2 DEF Seen
<1>3. CASE disk' = Edited(disk, r, t, n) /\ Forgets(c)
  <2>1. CASE EditsProfiles(r)
    <3>1. known' = known /\ disk'.section = disk.section
      BY <1>1, <1>3, <2>1 DEF Forgets, Edited, Config
    <3> QED
      BY <1>1, <3>1 DEF Seen
  <2>2. CASE ~EditsProfiles(r)
    <3>1. known' = [known EXCEPT ![Section(r)] = None] /\ Section(r) \in Sections
      BY <1>1, <1>3, <2>2, SectionOfEdit DEF Forgets
    <3>2. \A s \in Sections \ {Section(r)} : disk'.section[s] = disk.section[s]
      BY <1>1, <1>3, <2>2 DEF Edited, Config
    <3> QED
      BY <1>1, <3>1, <3>2 DEF Seen
  <2> QED
    BY <2>1, <2>2
<1> QED
  BY <1>2, <1>3 DEF Persist, history

\* A promise is made when file and memory agree on it.
LEMMA RebuildSeen ==
    ASSUME SInv, Solo, Seen, NEW c \in Clients, Rebuild(c)
    PROVE  Seen'
<1>1. /\ UNCHANGED <<disk, mem, fresh>> /\ pc[c] = "rebuild"
      /\ \A d \in Clients : At(d, "install")' => At(d, "install")
      /\ Edits(req[c]) /\ known \in [Sections -> (SUBSET Items) \cup {None}]
  <2>1. UNCHANGED <<disk, mem, fresh>> /\ pc[c] = "rebuild"
    BY DEF Rebuild, configs, At
  <2>2. pc'[c] # "install" /\ \A d \in Clients \ {c} : pc'[d] = pc[d]
    BY DEF Rebuild, Goto, Reply, SInv, TypeOK
  <2> QED
    BY <2>1, <2>2 DEF SInv, TypeOK, Progress, Editing, At
<1>2. CASE known' = known
  BY <1>1, <1>2 DEF Seen
<1>3. CASE Promises(c) /\ ~EditsProfiles(req[c]) /\ alone[c]
  <2> DEFINE s == Section(req[c])
  <2>1. s \in Sections
    BY <1>1, <1>3, SectionOfEdit
  <2>2. known' = [known EXCEPT ![s] = disk.section[s]]
    BY <1>3 DEF Promises
  <2>3. mem = disk /\ \A d \in Clients : ~At(d, "install")
    BY <1>1, <1>3 DEF Solo, InFlight, At
  <2> HIDE DEF s
  <2> QED
    BY <1>1, <2>1, <2>2, <2>3 DEF Seen
<1>4. CASE Promises(c) /\ ~EditsProfiles(req[c]) /\ ~alone[c]
  <2>1. known' = [known EXCEPT ![Section(req[c])] = known[Section(req[c])]]
    BY <1>4 DEF Promises
  <2> QED
    BY <1>1, <1>2, <2>1
<1>5. CASE Promises(c) /\ EditsProfiles(req[c])
  BY <1>2, <1>5 DEF Promises
<1> QED
  BY <1>2, <1>3, <1>4, <1>5 DEF Rebuild, history

\* Every step keeps what was promised in sight.
LEMMA SeenStays == SInv /\ Solo /\ Seen /\ [Next]_vars => Seen'
<1> SUFFICES ASSUME SInv, Solo, Seen, [Next]_vars PROVE Seen'
  OBVIOUS
<1>0. /\ pc \in [Clients -> {"absent", "idle", "dispatch", "persist", "load", "install",
                             "rebuild", "answered"}]
      /\ fresh \in [Clients -> Config \cup {None}]
  BY DEF SInv, TypeOK, Shapes
<1>1. ASSUME UNCHANGED <<disk, mem, known>>,
             \A c \in Clients : At(c, "install")' => At(c, "install") /\ fresh'[c] = fresh[c]
      PROVE  Seen'
  BY <1>1 DEF Seen
<1>2. ASSUME NEW c \in Clients, \E r \in Requests[c] : Receive(c, r) PROVE Seen'
  BY <1>0, <1>1, <1>2 DEF Receive, Goto, Reply, At, configs, history
<1>3. ASSUME NEW c \in Clients, Dispatch(c) PROVE Seen'
  <2>1. UNCHANGED <<disk, mem, known, fresh>>
    BY <1>3 DEF Dispatch, configs, history
  <2>2. \A d \in Clients : At(d, "install")' => At(d, "install")
    BY <1>0, <1>3, DispatchOutcomes DEF Goto, Reply, At
  <2> QED
    BY <1>1, <2>1, <2>2
<1>4. ASSUME NEW c \in Clients, Load(c) PROVE Seen'
  <2>1. /\ UNCHANGED <<disk, mem, known>> /\ fresh'[c] = disk
        /\ \A d \in Clients \ {c} : pc'[d] = pc[d] /\ fresh'[d] = fresh[d]
    BY <1>0, <1>4 DEF Load, Goto, configs, history
  <2> QED
    BY <2>1 DEF Seen, At
<1>5. ASSUME NEW c \in Clients, Install(c) PROVE Seen'
  <2>1. /\ UNCHANGED <<disk, known>> /\ mem' = fresh[c] /\ pc[c] = "install"
        /\ pc'[c] = "rebuild"
        /\ \A d \in Clients \ {c} : pc'[d] = pc[d] /\ fresh'[d] = fresh[d]
    BY <1>0, <1>5 DEF Install, Goto, history, At
  <2> QED
    BY <2>1 DEF Seen, At
<1>6. ASSUME NEW c \in Clients, Fail(c) \/ Leave(c) PROVE Seen'
  BY <1>0, <1>1, <1>6 DEF Fail, Leave, Goto, Reply, At, configs, history
<1>7. CASE Snapshot \/ Abort \/ Serve \/ Publish \/ Halt \/ Halted
  <2>1. UNCHANGED <<disk, known, fresh, pc>>
    BY <1>7 DEF Snapshot, Abort, Serve, Publish, Halt, Halted, configs, history
  <2>2. mem'.section = mem.section
    BY <1>7 DEF Snapshot, Abort, Serve, Publish, Halt, Halted, configs, SInv, TypeOK, Config
  <2> QED
    BY <2>1, <2>2 DEF Seen, At
<1>8. CASE (\E p \in Probes : Take(p)) \/ UNCHANGED services
  BY <1>1, <1>8 DEF Take, services, configs, history, At
<1>9. ASSUME NEW c \in Clients, Requesting(c) PROVE Seen'
  BY <1>2, <1>3, <1>4, <1>5, <1>6, <1>9, PersistSeen, RebuildSeen DEF Requesting, Serving
<1> QED
  BY <1>7, <1>8, <1>9, StepsOfServices

\* A getter gives the section as the memory has it.
LEMMA GetterAnswers ==
    ASSUME SInv, [Next]_vars, NEW c \in Clients, At(c, "dispatch"), pc'[c] = "answered",
           answer'[c].status = 200, Known(req[c]), Reads(req[c])
    PROVE  answer'[c].value = mem.section[ReadSection(req[c])]
<1> DEFINE r == req[c]
<1>0. /\ DOMAIN answer = Clients
      /\ pc \in [Clients -> {"absent", "idle", "dispatch", "persist", "load", "install",
                             "rebuild", "answered"}]
  BY DEF SInv, TypeOK, Shapes
<1>1. Dispatch(c)
  <2>1. ASSUME NEW d \in Clients, d # c, Requesting(d) PROVE pc'[c] = pc[c]
    <3>1. CASE Dispatch(d)
      BY <1>0, <2>1, <3>1, DispatchOutcomes DEF Goto, Reply
    <3>2. CASE \E q \in Requests[d] : Receive(d, q)
      BY <1>0, <2>1, <3>2 DEF Receive, Goto, Reply
    <3>3. CASE Persist(d) \/ Load(d) \/ Install(d) \/ Rebuild(d) \/ Fail(d) \/ Leave(d)
      BY <1>0, <2>1, <3>3 DEF Persist, Load, Install, Rebuild, Fail, Leave, Goto, Reply
    <3> QED
      BY <2>1, <3>1, <3>2, <3>3 DEF Requesting, Serving
  <2>2. CASE Requesting(c)
    BY <2>2 DEF Requesting, Serving, Receive, Persist, Load, Install, Rebuild, Fail, Leave, At
  <2>3. CASE Snapshot \/ Abort \/ Serve \/ Publish \/ Halt \/ Halted
    BY <2>3 DEF Snapshot, Abort, Serve, Publish, Halt, Halted, At
  <2>4. CASE (\E p \in Probes : Take(p)) \/ UNCHANGED services
    BY <2>4 DEF Take, services, At
  <2> QED
    BY <2>1, <2>2, <2>3, <2>4, StepsOfServices DEF At
<1>2. ~Edits(r) /\ ~Asks(r)
  BY ReadersDoNotEdit
<1>3. CASE Rejected(r) # 0 /\ Reply(c, Answer(Rejected(r), {}))
  <2>1. answer'[c].status = Rejected(r)
    BY <1>0, <1>3 DEF Reply, Answer
  <2> QED
    BY <2>1 DEF Rejected
<1>4. CASE \E a \in Replies(r) : Reply(c, a)
  <2>1. Replies(r) = {Answer(200, mem.section[ReadSection(r)])}
    BY <1>2 DEF Replies
  <2>2. answer'[c] = Answer(200, mem.section[ReadSection(r)])
    BY <1>0, <1>4, <2>1 DEF Reply
  <2> QED
    BY <2>2 DEF Answer
<1>5. CASE Goto(c, "persist")
  BY <1>0, <1>5 DEF Goto
<1> QED
  BY <1>1, <1>2, <1>3, <1>4, <1>5, DispatchOutcomes

\* What its only editor was told is set is what a getter answers (simulator.go,
\* reloadFromDisk), however many other requests come between.
THEOREM WhatIsSetIsSeen == Spec => SetIsSeen
<1>1. Init => Seen
  BY DEF Init, ServicesInit, Seen
<1>2. Spec => [](SInv /\ Seen)
  BY <1>1, SeenStays, RequestInvariant, ServicesInvariant, PTL DEF Spec
<1>3. SInv /\ Seen /\ [Next]_vars =>
        [\A c \in Clients :
           LET r == req[c] IN
           At(c, "dispatch") /\ pc'[c] = "answered" /\ answer'[c].status = 200
                   /\ Known(r) /\ Reads(r) /\ known[ReadSection(r)] # None =>
               answer'[c].value = known[ReadSection(r)]]_services
  BY GetterAnswers, SectionOfRead DEF Seen
<1> QED
  BY <1>2, <1>3, PTL DEF Spec, SetIsSeen
=============================================================================
