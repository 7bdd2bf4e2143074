------------------------------- MODULE Services -------------------------------
(***************************************************************************)
(* The ONVIF services: internal/onvif/{devicesvc,mediasvc,eventsvc}, the   *)
(* providers of internal/simulator behind them, and the persistent         *)
(* configuration their operations read and edit.                           *)
(*                                                                         *)
(* A request is screened (method, size, envelope, access policy) and       *)
(* dispatched.  A query is answered from the configuration in memory; an   *)
(* edit is applied to the file, each as a transaction (ConfigStore), and   *)
(* most edits, but not all, are followed by a reload of the memory from    *)
(* the file.  The terminal UI and the GUI call the same mutators without   *)
(* SOAP.  Starting the simulator puts the profiles it has probed back into *)
(* the memory and derives their MJPEG siblings.                            *)
(*                                                                         *)
(* A section of the configuration is a set of entries; of an entry only    *)
(* its identity matters, and whether validation accepts it.                *)
(***************************************************************************)
EXTENDS AccessPolicy, Integers, Sequences, FiniteSets

CONSTANTS
    Clients,       \* callers: ONVIF clients, and the terminal UI
    Requests,      \* Requests[c]: the requests client c makes
    Turns,         \* bound: Turns[c] requests by client c
    Scenarios,     \* who takes part, and the bounds of the rest
    Items,         \* entries of the configuration's sections
    Invalid,       \* the entries that validation rejects
    Tokens,        \* profile tokens
    Sibling,       \* Sibling[t]: token t with the MJPEG suffix, where it is a token
    Candidates,    \* the tokens generated for a name, in the order they are tried
    First,         \* the configuration the simulator starts with
    None           \* stands for "no profile", "no token", "no caller", "nobody"

\* The parts of config.Config the services read and edit, as sets of entries.  A discovery
\* mode of no entries is Discoverable, another one NonDiscoverable.
Sections ==
    {"DiscoveryMode", "Hostname", "Scopes", "DNS", "NetworkInterfaces", "NetworkProtocols",
     "DefaultGateway", "DateTime", "Users", "Metadata"}
\* config.ProfileConfig; one camera stands for all.
Profile ==
    [kind : {"file", "rpicam"}, path : BOOLEAN, camera : BOOLEAN, snapshot : BOOLEAN]
Profiles == [Tokens -> Profile \cup {None}]
Config == [section : [Sections -> SUBSET Items], profiles : Profiles]

RequestType ==
    [service : {"device", "media", "events", "subscription", "ui"}, op : STRING,
     form : {"soap", "get", "large", "broken", "mangled", "blank", "unaddressed"},
     header : BOOLEAN,                    \* carries an Authorization header
     caller : (SUBSET Roles) \cup {None},   \* whom the authentication chain makes of it
     items : Seq(Items), token : Tokens \cup {None}, on : BOOLEAN]
ScenarioType ==
    [clients : SUBSET Clients, network : BOOLEAN, starts : Nat, stops : Nat, probes : Nat,
     failures : Nat]

ASSUME ServicesAssumption ==
    /\ \A c \in Clients : Requests[c] \subseteq RequestType
    /\ Turns \in [Clients -> Nat]
    /\ Scenarios \subseteq ScenarioType
    /\ Invalid \subseteq Items
    /\ None \notin Tokens \cup Profile
    /\ \A roles \in SUBSET Roles : roles # None
    /\ \A items \in SUBSET Items : items # None
    /\ Sibling \in [Tokens -> Tokens \cup {None}]
    /\ Candidates \in Seq(Tokens)
    /\ First \in Config
    /\ None \notin Clients

VARIABLES
    disk,       \* the configuration in the file
    mem,        \* Simulator.cfg
    derived,    \* Simulator.derivedMJPEGProfiles, by token
    phase,      \* how far Start and Stop are
    probed,     \* the profiles Start took from the memory and probes, if any has a source
    pc,         \* where the request of each client stands
    req,        \* req[c]: the request
    token,      \* token[c]: the profile token it is about
    fresh,      \* fresh[c]: the configuration its reload has read
    done,       \* done[c]: edits it has applied to the file
    answer,     \* answer[c]: the status of the answer and what it says
    turns,      \* turns[c]: requests client c may still make
    left,       \* what may still happen: the rest of the scenario
    alone,      \* history: nothing else has been under way during c's request
    before,     \* history: the file when such a request arrived
    known,      \* history: the value of a section its last editor was told is set
    held,       \* history: <<c, t>> where c was told that it created t, still in place
    maker,      \* history: who added profile t
    lost        \* history: profiles on file that an older copy has taken out of the memory

configs == <<disk, mem, derived, lost>>
boot == <<phase, probed>>
request == <<req, token>>
history == <<known, held, maker>>
services == <<configs, boot, pc, request, fresh, done, answer, turns, left, alone, before,
              history>>

At(c, label) == pc[c] = label
Goto(c, label) == pc' = [pc EXCEPT ![c] = label]
InFlight(c) == pc[c] \notin {"absent", "idle"}

-----------------------------------------------------------------------------
(* The operations each service dispatches; `args` says that the payload is decoded. *)

Plain(names) == {[name |-> n, args |-> FALSE] : n \in names}
Taking(names) == {[name |-> n, args |-> TRUE] : n \in names}

DeviceQueries ==
    Plain({"GetDeviceInformation", "GetServiceCapabilities", "GetWsdlUrl"})
        \cup Taking({"GetCapabilities"})
ServiceQueries == Taking({"GetServices"})
DiscoveryOperations ==
    Plain({"GetDiscoveryMode", "GetScopes"})
        \cup Taking({"SetDiscoveryMode", "SetScopes", "AddScopes", "RemoveScopes"})
NameOperations == Plain({"GetHostname", "GetDNS"}) \cup Taking({"SetHostname", "SetDNS"})
NetworkOperations ==
    Plain({"GetNetworkInterfaces", "GetNetworkProtocols", "GetNetworkDefaultGateway"})
        \cup Taking({"SetNetworkInterfaces", "SetNetworkProtocols",
                     "SetNetworkDefaultGateway"})
SystemOperations ==
    Plain({"GetSystemDateAndTime", "SystemReboot"})
        \cup Taking({"SetSystemDateAndTime", "SetSystemFactoryDefault"})
UserOperations == Plain({"GetUsers"}) \cup Taking({"CreateUsers", "SetUser", "DeleteUsers"})
DeviceOperations ==
    DeviceQueries \cup ServiceQueries \cup DiscoveryOperations \cup NameOperations
        \cup NetworkOperations \cup SystemOperations \cup UserOperations

MediaCapabilities == Plain({"GetServiceCapabilities"})
ProfileOperations ==
    Plain({"GetProfiles"}) \cup Taking({"GetProfile", "CreateProfile", "DeleteProfile"})
VideoSourceOperations ==
    Plain({"GetVideoSources", "GetVideoSourceConfigurations"})
        \cup Taking({"GetVideoSourceConfiguration", "SetVideoSourceConfiguration",
                     "AddVideoSourceConfiguration", "RemoveVideoSourceConfiguration",
                     "GetCompatibleVideoSourceConfigurations",
                     "GetVideoSourceConfigurationOptions"})
VideoEncoderOperations ==
    Plain({"GetVideoEncoderConfigurations"})
        \cup Taking({"GetVideoEncoderConfiguration", "SetVideoEncoderConfiguration",
                     "AddVideoEncoderConfiguration", "RemoveVideoEncoderConfiguration",
                     "GetCompatibleVideoEncoderConfigurations",
                     "GetVideoEncoderConfigurationOptions"})
InstanceQueries == Taking({"GetGuaranteedNumberOfVideoEncoderInstances"})
MetadataOperations ==
    Plain({"GetMetadataConfigurations"})
        \cup Taking({"GetMetadataConfiguration", "AddMetadataConfiguration",
                     "RemoveMetadataConfiguration", "SetMetadataConfiguration",
                     "GetCompatibleMetadataConfigurations",
                     "GetMetadataConfigurationOptions"})
StreamOperations == Taking({"GetStreamUri", "GetSnapshotUri"})
MediaOperations ==
    MediaCapabilities \cup ProfileOperations \cup VideoSourceOperations
        \cup VideoEncoderOperations \cup InstanceQueries \cup MetadataOperations
        \cup StreamOperations

EventOperations ==
    Plain({"GetServiceCapabilities", "GetEventProperties"})
        \cup Taking({"CreatePullPointSubscription", "Subscribe"})
SubscriptionOperations ==
    Plain({"SetSynchronizationPoint", "Unsubscribe"}) \cup Taking({"PullMessages", "Renew"})
UIOperations ==
    Plain({"SetDiscoveryMode", "SetHostname", "AddProfile", "RemoveProfile",
           "SetProfileMediaFilePath", "SetProfileKind", "SetProfileRPICam",
           "SetProfileSnapshotURI", "AddUser", "UpsertUser", "RemoveUser"})

Operations ==
    [device |-> DeviceOperations, media |-> MediaOperations, events |-> EventOperations,
     subscription |-> SubscriptionOperations, ui |-> UIOperations]
Known(r) == \E o \in Operations[r.service] : o.name = r.op
Decodes(r) == \E o \in Operations[r.service] : o.name = r.op /\ o.args

-----------------------------------------------------------------------------
(* What the providers make of them *)

\* The getters that give a section as the memory has it.
DeviceReads ==
    [GetDiscoveryMode |-> "DiscoveryMode", GetScopes |-> "Scopes", GetHostname |-> "Hostname",
     GetDNS |-> "DNS", GetNetworkInterfaces |-> "NetworkInterfaces",
     GetNetworkProtocols |-> "NetworkProtocols",
     GetNetworkDefaultGateway |-> "DefaultGateway",
     GetSystemDateAndTime |-> "DateTime", GetUsers |-> "Users"]
MediaReads ==
    [GetMetadataConfigurations |-> "Metadata",
     GetCompatibleMetadataConfigurations |-> "Metadata"]
Reads(r) ==
    \/ r.service = "device" /\ r.op \in DOMAIN DeviceReads
    \/ r.service = "media" /\ r.op \in DOMAIN MediaReads
ReadSection(r) == IF r.service = "device" THEN DeviceReads[r.op] ELSE MediaReads[r.op]

\* The setters that replace a section, and those that add to one or take from it.
Replaces ==
    [SetDiscoveryMode |-> "DiscoveryMode", SetHostname |-> "Hostname",
     SetScopes |-> "Scopes", SetDNS |-> "DNS", SetNetworkInterfaces |-> "NetworkInterfaces",
     SetNetworkProtocols |-> "NetworkProtocols",
     SetNetworkDefaultGateway |-> "DefaultGateway", SetSystemDateAndTime |-> "DateTime"]
Extends == [AddScopes |-> "Scopes", SetMetadataConfiguration |-> "Metadata"]
Reduces == [RemoveScopes |-> "Scopes"]

\* CreateUsers, SetUser and DeleteUsers call the mutator once for each user.
AddsUsers(r) == r.op \in {"CreateUsers", "AddUser"}
PutsUsers(r) == r.op \in {"SetUser", "UpsertUser"}
DropsUsers(r) == r.op \in {"DeleteUsers", "RemoveUser"}
EditsUsers(r) == AddsUsers(r) \/ PutsUsers(r) \/ DropsUsers(r)

AddsProfile(r) == r.op \in {"CreateProfile", "AddProfile"}
DropsProfile(r) == r.op \in {"DeleteProfile", "RemoveProfile"}
AltersProfile(r) ==
    r.op \in {"SetProfileMediaFilePath", "SetProfileKind", "SetProfileRPICam",
              "SetProfileSnapshotURI"}
EditsProfiles(r) == AddsProfile(r) \/ DropsProfile(r) \/ AltersProfile(r)

\* No token is generated but for CreateProfile, and no profile has an empty one.
ASSUME TokenAssumption ==
    \A c \in Clients : \A r \in Requests[c] :
        EditsProfiles(r) /\ r.op # "CreateProfile" => r.token \in Tokens

Edits(r) ==
    \/ r.op \in DOMAIN Replaces \cup DOMAIN Extends \cup DOMAIN Reduces
    \/ EditsUsers(r)
    \/ EditsProfiles(r)
Section(r) ==
    IF EditsUsers(r) THEN "Users"
    ELSE IF r.op \in DOMAIN Replaces THEN Replaces[r.op]
    ELSE IF r.op \in DOMAIN Extends THEN Extends[r.op]
    ELSE Reduces[r.op]

\* The mutators of the simulator reload after they persist; the setters that call config
\* directly do not.
Reloads(r) ==
    EditsUsers(r) \/ EditsProfiles(r) \/ r.op \in {"SetDiscoveryMode", "SetHostname"}
Steps(r) == IF EditsUsers(r) THEN Len(r.items) ELSE 1

\* snapshotEffectiveProfiles: the user's profiles, then the derived ones.
Effective(t) == IF mem.profiles[t] # None THEN mem.profiles[t] ELSE derived[t]
Listed == {t \in Tokens : Effective(t) # None}
Declared == {t \in Tokens : mem.profiles[t] # None}

\* generateProfileToken: t is the first candidate that no profile in memory has.
Generated(t) ==
    \E i \in DOMAIN Candidates :
        /\ Candidates[i] = t /\ t \notin Declared
        /\ \A j \in 1 .. i - 1 : Candidates[j] \in Declared

Answer(status, value) == [status |-> status, value |-> value]

\* GetProfile, GetVideoEncoderConfiguration and GetStreamUri look among all profiles,
\* GetSnapshotUri also wants an address, and GetVideoSourceConfiguration looks at the
\* profiles of the memory alone; `on` says that it asks for the default source.
Found(r) ==
    CASE r.op \in {"GetProfile", "GetVideoEncoderConfiguration", "GetStreamUri"} ->
             r.token \in Listed
      [] r.op = "GetSnapshotUri" -> r.token \in Listed /\ Effective(r.token).snapshot
      [] r.op = "GetVideoSourceConfiguration" -> r.on /\ Declared # {}
      [] r.op = "GetMetadataConfiguration" ->
             r.items # <<>> /\ r.items[1] \in mem.section["Metadata"]
      [] OTHER -> TRUE

Lists(r) ==
    r.op \in {"GetProfiles", "GetVideoEncoderConfigurations",
              "GetCompatibleVideoEncoderConfigurations"}

\* The broker's part in an answer is in EventBroker and SubscriptionService: here an
\* operation of the event services may succeed, find nothing, or fail.
Asks(r) ==
    \/ r.service = "subscription"
    \/ r.service = "events" /\ r.op \in {"CreatePullPointSubscription", "Subscribe"}

\* The possible answers to an operation that edits nothing.
Replies(r) ==
    IF Asks(r) THEN {Answer(s, {}) : s \in {200, 400, 500}}
    ELSE IF Reads(r) THEN {Answer(200, mem.section[ReadSection(r)])}
    ELSE IF Lists(r) THEN {Answer(200, Listed)}
    ELSE {Answer(IF Found(r) THEN 200 ELSE 400, {})}

-----------------------------------------------------------------------------
(* Edits of the configuration *)

\* validateProfileSource
ValidSource(p) ==
    IF p.kind = "file" THEN ~p.camera ELSE ~p.path /\ p.camera

\* validateMedia: no two profiles share a camera.
Filming(d) ==
    {t \in Tokens : d.profiles[t] # None /\ d.profiles[t].kind = "rpicam"
                        /\ d.profiles[t].camera}
ValidMedia(d) ==
    /\ \A t \in Tokens : d.profiles[t] # None => ValidSource(d.profiles[t])
    /\ \A t, u \in Filming(d) : t = u
    /\ d.section["Metadata"] \cap Invalid = {}

\* validateAuth; authentication is enabled.
ValidAuth(d) == d.section["Users"] # {} /\ d.section["Users"] \cap Invalid = {}
\* validateScopes and validateRuntime
ValidRuntime(d) == \A s \in Sections \ {"Users", "Metadata"} : d.section[s] \cap Invalid = {}
Valid(d) == ValidMedia(d) /\ ValidAuth(d) /\ ValidRuntime(d)

\* New starts from a file that Load has validated.
ASSUME FirstAssumption == Valid(First)

\* HasSource
HasSource(p) == IF p.kind = "file" THEN p.path ELSE p.camera

NewProfile == [kind |-> "file", path |-> FALSE, camera |-> FALSE, snapshot |-> FALSE]

\* SetProfileMediaFilePath, SetProfileKind, SetProfileRPICam, SetProfileSnapshotURI; `on`
\* says that there is a path, that the kind is the camera's, that there are parameters.
Altered(p, r) ==
    CASE r.op = "SetProfileMediaFilePath" -> [p EXCEPT !.path = r.on]
      [] r.op = "SetProfileKind" ->
             IF r.on THEN [p EXCEPT !.kind = "rpicam", !.path = FALSE]
             ELSE [p EXCEPT !.kind = "file", !.camera = FALSE]
      [] r.op = "SetProfileRPICam" ->
             IF r.on THEN [p EXCEPT !.kind = "rpicam", !.path = FALSE, !.camera = TRUE]
             ELSE [p EXCEPT !.camera = FALSE]
      [] r.op = "SetProfileSnapshotURI" -> [p EXCEPT !.snapshot = r.on]

\* An edit of the profiles, of the one t names.
EditedProfiles(profiles, r, t) ==
    CASE AddsProfile(r) -> [profiles EXCEPT ![t] = NewProfile]
      [] DropsProfile(r) -> [profiles EXCEPT ![t] = None]
      [] AltersProfile(r) -> [profiles EXCEPT ![t] = Altered(profiles[t], r)]

\* An edit of a section; of the users, the one for user number n.
Entries(r) == {r.items[i] : i \in DOMAIN r.items}
EditedSection(old, r, n) ==
    CASE AddsUsers(r) \/ PutsUsers(r) -> old \cup {r.items[n]}
      [] DropsUsers(r) -> old \ {r.items[n]}
      [] r.op \in DOMAIN Replaces -> Entries(r)
      [] r.op \in DOMAIN Extends -> old \cup Entries(r)
      [] r.op \in DOMAIN Reduces -> old \ Entries(r)

Edited(d, r, t, n) ==
    IF EditsProfiles(r)
    THEN [d EXCEPT !.profiles = EditedProfiles(d.profiles, r, t)]
    ELSE [d EXCEPT !.section[Section(r)] = EditedSection(@, r, n)]

\* What the mutator itself refuses: a user or a profile that exists already, or does not.
Refuses(d, r, t, n) ==
    \/ AddsUsers(r) /\ r.items[n] \in d.section["Users"]
    \/ DropsUsers(r) /\ r.items[n] \notin d.section["Users"]
    \/ AddsProfile(r) /\ d.profiles[t] # None
    \/ (DropsProfile(r) \/ AltersProfile(r)) /\ d.profiles[t] = None

-----------------------------------------------------------------------------
(* A request's way *)

Class(r) ==
    CASE r.service = "device" -> DeviceClass(r.op)
      [] r.service = "media" -> MediaClass(r.op)
      [] r.service \in {"events", "subscription"} -> EventClass(r.op)

\* writeAuthFault: 401 without a caller, 403 for a caller who may not; 0 when all is well.
Gate(r, class) ==
    IF class = "PreAuth" THEN 0
    ELSE IF r.caller = None THEN 401
    ELSE IF Allow(r.caller, class) THEN 0 ELSE 403

\* ServeHTTP up to dispatch.  A request whose envelope cannot be read and that carries no
\* Authorization header is given the challenge instead of the parse error.
Screened(r) ==
    CASE r.service = "ui" -> 0
      [] r.form = "get" -> 405
      [] r.form = "large" -> 413
      [] r.form = "broken" ->
             IF r.header \/ Gate(r, "WriteSystem") = 0 THEN 400 ELSE Gate(r, "WriteSystem")
      [] OTHER -> Gate(r, Class(r))

NoAnswer == Answer(0, {})

Reply(c, a) == Goto(c, "answered") /\ answer' = [answer EXCEPT ![c] = a]

\* What an edit that has reached the file makes of the promises given before.
Forgets(c) ==
    LET r == req[c]
        t == token[c]
    IN IF EditsProfiles(r)
       THEN /\ held' = IF DropsProfile(r) THEN {h \in held : h[2] # t} ELSE held
            /\ maker' = CASE AddsProfile(r) -> [maker EXCEPT ![t] = c]
                          [] DropsProfile(r) -> [maker EXCEPT ![t] = None]
                          [] OTHER -> maker
            /\ UNCHANGED known
       ELSE known' = [known EXCEPT ![Section(r)] = None] /\ UNCHANGED <<held, maker>>

\* What a client is promised that is told of success after a reload.
Promises(c) ==
    LET r == req[c]
    IN IF EditsProfiles(r)
       THEN /\ held' = IF AddsProfile(r) /\ maker[token[c]] = c
                       THEN held \cup {<<c, token[c]>>} ELSE held
            /\ UNCHANGED <<known, maker>>
       ELSE /\ known' = [known EXCEPT ![Section(r)] =
                    IF alone[c] THEN disk.section[Section(r)] ELSE @]
            /\ UNCHANGED <<held, maker>>

NoRequest ==
    [service |-> "ui", op |-> "none", form |-> "soap", header |-> FALSE, caller |-> None,
     items |-> <<>>, token |-> None, on |-> FALSE]

\* A request arrives and is screened.
Receive(c, r) ==
    /\ At(c, "idle")
    /\ turns[c] > 0
    /\ r.service = "ui" \/ phase \in {"serving", "up", "stopping"}
    /\ turns' = [turns EXCEPT ![c] = @ - 1]
    /\ req' = [req EXCEPT ![c] = r]
    /\ token' = [token EXCEPT ![c] = r.token]
    /\ alone' = [d \in Clients |-> d = c /\ phase \notin {"probing", "serving"}
                                         /\ \A e \in Clients \ {c} : ~InFlight(e)]
    /\ before' = [d \in Clients |-> IF alone'[d] THEN disk ELSE None]
    /\ IF Screened(r) = 0 THEN Goto(c, "dispatch") /\ UNCHANGED answer
       ELSE Reply(c, Answer(Screened(r), {}))
    /\ UNCHANGED <<configs, boot, fresh, done, left, history>>

\* A subscription manager wants to know which subscription; an operation must be one the
\* service has, its payload must decode, and CreateProfile and SetNetworkInterfaces insist
\* on a name and a token.
Rejected(r) ==
    IF r.form = "unaddressed" /\ r.service = "subscription" THEN 400
    ELSE IF ~Known(r) THEN 501
    ELSE IF \/ r.form = "mangled" /\ Decodes(r)
            \/ r.form = "blank" /\ r.op \in {"CreateProfile", "SetNetworkInterfaces"}
    THEN 400
    ELSE 0

\* dispatch, and the provider as far as it only reads.
Dispatch(c) ==
    LET r == req[c]
    IN /\ At(c, "dispatch")
       /\ CASE Rejected(r) # 0 -> Reply(c, Answer(Rejected(r), {})) /\ UNCHANGED token
            [] Rejected(r) = 0 /\ ~Edits(r) ->
                   \E a \in Replies(r) : Reply(c, a) /\ UNCHANGED token
            [] Rejected(r) = 0 /\ Edits(r) /\ Steps(r) = 0 ->
                   Reply(c, Answer(200, {})) /\ UNCHANGED token
            [] Rejected(r) = 0 /\ Edits(r) /\ Steps(r) > 0 ->
                   /\ IF AddsProfile(r) /\ r.token = None
                      THEN \E t \in Tokens :
                               Generated(t) /\ token' = [token EXCEPT ![c] = t]
                      ELSE UNCHANGED token
                   /\ Goto(c, "persist")
                   /\ UNCHANGED answer
       /\ UNCHANGED <<configs, boot, req, fresh, done, turns, left, alone, before, history>>

\* config.Update: nothing changes when the mutator refuses or when the result is not valid.
MutVerdict(r, t, n) ==
    IF Refuses(disk, r, t, n) THEN IF r.service = "media" THEN 400 ELSE 500 ELSE 200

Verdict(r, t, n) ==
    IF Refuses(disk, r, t, n) THEN IF r.service = "media" THEN 400 ELSE 500
    ELSE IF Valid(Edited(disk, r, t, n)) THEN 200 ELSE 500

Persist(c) ==
    LET r == req[c]
        n == done[c] + 1
        verdict == Verdict(r, token[c], n)
    IN /\ At(c, "persist")
       /\ IF verdict # 200
          THEN Reply(c, Answer(verdict, {})) /\ UNCHANGED <<disk, done, history>>
          ELSE /\ disk' = Edited(disk, r, token[c], n)
               /\ done' = [done EXCEPT ![c] = n]
               /\ IF Reloads(r) THEN Goto(c, "load") /\ UNCHANGED answer
                  ELSE Reply(c, Answer(200, {}))
               /\ Forgets(c)
       /\ UNCHANGED <<mem, derived, lost, boot, request, fresh, turns, left, alone, before>>

\* The profiles on file that a copy of them, taken earlier, does not have.
Lacking(profiles) == {t \in Tokens : disk.profiles[t] # None /\ profiles[t] = None}

\* reloadFromDisk: config.Load, the new Simulator.cfg, and what is rebuilt from it.
Load(c) ==
    /\ At(c, "load")
    /\ fresh' = [fresh EXCEPT ![c] = disk]
    /\ Goto(c, "install")
    /\ UNCHANGED <<configs, boot, request, done, answer, turns, left, alone, before, history>>

MutInstall(c) ==
    /\ At(c, "install")
    /\ fresh' = [fresh EXCEPT ![c] = None]
    /\ Goto(c, "rebuild")
    /\ UNCHANGED <<configs, boot, request, done, answer, turns, left, alone, before, history>>

Install(c) ==
    /\ At(c, "install")
    /\ mem' = fresh[c]
    /\ lost' = Lacking(fresh[c].profiles)
    /\ fresh' = [fresh EXCEPT ![c] = None]
    /\ Goto(c, "rebuild")
    /\ UNCHANGED <<disk, derived, boot, request, done, answer, turns, left, alone, before,
                   history>>

\* The next user of the batch, or the answer.
MutRebuild(c) ==
    /\ At(c, "rebuild")
    /\ Reply(c, Answer(200, {}))
    /\ Promises(c)
    /\ UNCHANGED <<configs, boot, request, fresh, done, turns, left, alone, before>>

Rebuild(c) ==
    /\ At(c, "rebuild")
    /\ IF done[c] < Steps(req[c])
       THEN Goto(c, "persist") /\ UNCHANGED <<answer, history>>
       ELSE Reply(c, Answer(200, {})) /\ Promises(c)
    /\ UNCHANGED <<configs, boot, request, fresh, done, turns, left, alone, before>>

\* The file cannot be read or written, or the authentication chain cannot be built.
Fail(c) ==
    /\ pc[c] \in {"persist", "load", "rebuild"}
    /\ left.failures > 0
    /\ left' = [left EXCEPT !.failures = @ - 1]
    /\ Reply(c, Answer(500, {}))
    /\ UNCHANGED <<configs, boot, request, fresh, done, turns, alone, before, history>>

\* The client has its answer.
Leave(c) ==
    /\ At(c, "answered")
    /\ Goto(c, "idle")
    /\ req' = [req EXCEPT ![c] = NoRequest]
    /\ token' = [token EXCEPT ![c] = None]
    /\ fresh' = [fresh EXCEPT ![c] = None]
    /\ done' = [done EXCEPT ![c] = 0]
    /\ answer' = [answer EXCEPT ![c] = NoAnswer]
    /\ alone' = [alone EXCEPT ![c] = FALSE]
    /\ before' = [before EXCEPT ![c] = None]
    /\ UNCHANGED <<configs, boot, turns, left, history>>

Serving(c) ==
    Dispatch(c) \/ Persist(c) \/ Load(c) \/ Install(c) \/ Rebuild(c) \/ Fail(c)

-----------------------------------------------------------------------------
(* Start and Stop, as far as the services notice (Lifecycle has the rest) *)

NoProfiles == [t \in Tokens |-> None]

\* Start takes a copy of the configuration, and probes the files its profiles name.
Snapshot ==
    /\ phase = "down"
    /\ left.starts > 0
    /\ left' = [left EXCEPT !.starts = @ - 1]
    /\ phase' = "probing"
    /\ probed' = IF \E t \in Declared : HasSource(mem.profiles[t])
                THEN mem.profiles ELSE NoProfiles
    /\ alone' = [c \in Clients |-> FALSE]
    /\ UNCHANGED <<configs, pc, request, fresh, done, answer, turns, before, history>>

\* The port is taken, or a profile's source cannot be opened.
Abort ==
    /\ phase = "probing"
    /\ left.failures > 0
    /\ left' = [left EXCEPT !.failures = @ - 1]
    /\ phase' = "down"
    /\ probed' = NoProfiles
    /\ UNCHANGED <<configs, pc, request, fresh, done, answer, turns, alone, before, history>>

\* The HTTP server accepts requests before Start publishes.
Serve ==
    /\ phase = "probing"
    /\ phase' = "serving"
    /\ UNCHANGED <<configs, probed, pc, request, fresh, done, answer, turns, left, alone,
                   before, history>>

\* deriveMJPEGSiblings: one for each profile with a source that is not a sibling itself and
\* whose sibling's token is free, and its name too, which the model takes to be so as it has
\* no names; registerMJPEGSiblings skips those of a file when ffmpeg is not to be had.
Siblings == {Sibling[t] : t \in Tokens} \ {None}
Parents(profiles, ffmpeg) ==
    {t \in Tokens \ Siblings :
        /\ profiles[t] # None
        /\ HasSource(profiles[t])
        /\ Sibling[t] # None
        /\ profiles[Sibling[t]] = None
        /\ profiles[t].kind = "file" => ffmpeg}
Derived(profiles, ffmpeg) ==
    [t \in Tokens |->
        IF \E u \in Parents(profiles, ffmpeg) : Sibling[u] = t
        THEN profiles[CHOOSE u \in Parents(profiles, ffmpeg) : Sibling[u] = t]
        ELSE None]

\* The profiles the probe gave back, if it had any source, replace those of the memory,
\* whatever has been added or deleted since the copy was taken.
MutPublish ==
    /\ phase = "serving"
    /\ phase' = "up"
    /\ mem' = [mem EXCEPT !.profiles = probed]
    /\ IF probed = NoProfiles
       THEN UNCHANGED lost /\ derived' = NoProfiles
       ELSE /\ lost' = Lacking(probed)
            /\ \E ffmpeg \in BOOLEAN : derived' = Derived(probed, ffmpeg)
    /\ probed' = NoProfiles
    /\ alone' = [c \in Clients |-> FALSE]
    /\ UNCHANGED <<disk, pc, request, fresh, done, answer, turns, left, before, history>>

Publish ==
    /\ phase = "serving"
    /\ phase' = "up"
    /\ IF probed = NoProfiles
       THEN UNCHANGED <<mem, lost>> /\ derived' = NoProfiles
       ELSE /\ mem' = [mem EXCEPT !.profiles = probed]
            /\ lost' = Lacking(probed)
            /\ \E ffmpeg \in BOOLEAN : derived' = Derived(probed, ffmpeg)
    /\ probed' = NoProfiles
    /\ alone' = [c \in Clients |-> FALSE]
    /\ UNCHANGED <<disk, pc, request, fresh, done, answer, turns, left, before, history>>

\* Stop begins: the requests under way go on.
Halt ==
    /\ phase = "up"
    /\ left.stops > 0
    /\ left' = [left EXCEPT !.stops = @ - 1]
    /\ phase' = "stopping"
    /\ UNCHANGED <<configs, probed, pc, request, fresh, done, answer, turns, alone, before,
                   history>>

\* Stop returns.
Halted ==
    /\ phase = "stopping"
    /\ phase' = "down"
    /\ UNCHANGED <<configs, probed, pc, request, fresh, done, answer, turns, left, alone,
                   before, history>>

ServicesInit ==
    /\ disk = First
    /\ mem = First
    /\ derived = NoProfiles
    /\ lost = {}
    /\ phase = "down"
    /\ probed = NoProfiles
    /\ left \in Scenarios
    /\ pc = [c \in Clients |-> IF c \in left.clients THEN "idle" ELSE "absent"]
    /\ req = [c \in Clients |-> NoRequest]
    /\ token = [c \in Clients |-> None]
    /\ fresh = [c \in Clients |-> None]
    /\ done = [c \in Clients |-> 0]
    /\ answer = [c \in Clients |-> NoAnswer]
    /\ turns = Turns
    /\ alone = [c \in Clients |-> FALSE]
    /\ before = [c \in Clients |-> None]
    /\ known = [s \in Sections |-> None]
    /\ held = {}
    /\ maker = [t \in Tokens |-> None]

Requesting(c) == (\E r \in Requests[c] : Receive(c, r)) \/ Serving(c) \/ Leave(c)

ServicesNext ==
    \/ \E c \in Clients : Requesting(c)
    \/ Snapshot \/ Abort \/ Serve \/ Publish \/ Halt \/ Halted

ServicesSpec == ServicesInit /\ [][ServicesNext]_services

-----------------------------------------------------------------------------
(* Properties *)

Statuses == {0, 200, 400, 401, 403, 405, 413, 500, 501}

\* Every variable keeps its type, and the configuration in the file is always one that
\* Validate accepts, whatever edits race (config.Update).
TypeOK ==
    /\ disk \in Config /\ Valid(disk)
    /\ mem \in Config
    /\ derived \in Profiles
    /\ phase \in {"down", "probing", "serving", "up", "stopping"}
    /\ probed \in Profiles
    /\ pc \in [Clients -> {"absent", "idle", "dispatch", "persist", "load", "install",
                           "rebuild", "answered"}]
    /\ \A c \in Clients : req[c] \in Requests[c] \cup {NoRequest}
    /\ token \in [Clients -> Tokens \cup {None}]
    /\ \A c \in Clients : fresh[c] = None \/ fresh[c] \in Config
    /\ done \in [Clients -> Nat]
    /\ \A c \in Clients : answer[c].status \in Statuses
    /\ turns \in [Clients -> Nat]
    /\ left \in ScenarioType
    /\ alone \in [Clients -> BOOLEAN]
    /\ \A c \in Clients : before[c] = None \/ before[c] \in Config
    /\ known \in [Sections -> (SUBSET Items) \cup {None}]
    /\ held \in SUBSET (Clients \X Tokens)
    /\ maker \in [Tokens -> Clients \cup {None}]
    /\ lost \in SUBSET Tokens

\* The file after the first n edits of a request that found it as d.
Users(r, n) == {r.items[i] : i \in 1 .. n}
After(d, r, t, n) ==
    IF n = 0 THEN d
    ELSE IF AddsUsers(r) \/ PutsUsers(r)
    THEN [d EXCEPT !.section["Users"] = @ \cup Users(r, n)]
    ELSE IF DropsUsers(r)
    THEN [d EXCEPT !.section["Users"] = @ \ Users(r, n)]
    ELSE Edited(d, r, t, 1)

\* What an answer says is so.  An operation refused for the client's fault has changed
\* nothing, one reported done is done in full (CreateUsers, SetUser and DeleteUsers go user
\* by user); and when nothing else went on, the file holds the edits counted and no other,
\* and after a reload the memory agrees with it.
AnswersTellTruth ==
    \A c \in Clients : At(c, "answered") =>
        LET r == req[c]
            status == answer[c].status
        IN /\ status \in {400, 401, 403, 405, 413, 501} => done[c] = 0
           /\ status = 200 => done[c] = IF Edits(r) THEN Steps(r) ELSE 0
           /\ alone[c] => disk = After(before[c], r, token[c], done[c])
           /\ alone[c] /\ status = 200 /\ done[c] > 0 /\ Reloads(r) => mem = disk

\* AddProfile and reloadFromDisk: a client that was told it has created a profile has it on
\* file, and not another client's in its place, until somebody deletes it.  The memory that
\* GetProfiles answers from has it too, but for the time from when Start publishes the
\* profiles it had copied before, or an overlapping reload puts back the file it had read
\* before, to the next reload.
ProfilesKept ==
    \A h \in held :
        /\ disk.profiles[h[2]] # None /\ maker[h[2]] = h[1]
        /\ h[2] \in Declared \cup lost

\* reloadFromDisk: once the only editor of a section has been told that it is set, a getter
\* that answers gives that value until somebody edits the section again.
SetIsSeen ==
    [][\A c \in Clients :
           LET r == req[c] IN
           At(c, "dispatch") /\ pc'[c] = "answered" /\ answer'[c].status = 200
                   /\ Known(r) /\ Reads(r) /\ known[ReadSection(r)] # None =>
               answer'[c].value = known[ReadSection(r)]]_services
=============================================================================
