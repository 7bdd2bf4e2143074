# TLA+ verification of onvif-simulator

onvif-simulator is a Go program that behaves like an ONVIF Profile S camera: it answers
SOAP requests, runs an event service, streams RTSP, announces itself with WS-Discovery,
and is driven by a command line, a terminal UI or a GUI. This directory models it
in TLA+, checks the models with TLC on small instances and proves the main results with
TLAPS for every value of the constants.

Contents: [the system](#the-system), [modules and code](#modules-and-code),
[runs](#runs), [bounds](#bounds), [fairness](#fairness), [proofs](#proofs),
[where code and documents disagree](#where-code-and-documents-disagree),
[what is not modelled](#what-is-not-modelled), [plan](#plan), [how to run](#how-to-run).

## The system

| Component | State it keeps | Operations | Talks to |
|---|---|---|---|
| Event broker, `internal/event` | subscriptions with lease, queue and failure count; configuration | create, subscribe, pull, renew, unsubscribe, synchronise, publish, record a Notify result, update the configuration, reap | SOAP event service, triggers, notifier goroutines |
| Configuration store, `internal/config` | the JSON file, temporary files, `updateMu` | load, save, update, create if absent | the file system, other processes on the same path |
| Control plane, `internal/simulator/{mutators,simulator,auth}.go`, `internal/auth/{controller,store}.go` | the file's content again in `Simulator.cfg`, the broker, the user store and the authentication chain | mutators, `reloadFromDisk` | configuration store, broker, UIs, device service |
| Lifecycle, `internal/simulator/lifecycle.go` | running flag, handles of listener, RTSP server, discovery goroutine, reaper, log | Start, Stop, Running, Status | everything below |
| Logger, `internal/obs` | a stack of sinks, swapped while in use | Handle, Apply, Close | every goroutine that logs |
| Live source, `internal/rtsp/livesource.go` | bounded channel, parameter sets, keyframe cache, readiness | Push, Close, Run, ReplayGOP | the producer, the RTSP server |
| RTSP server, `internal/rtsp/server.go` | map of sources, gortsplib's server | AddSource, RemoveSource, Start, Stop, client handlers | sources, lifecycle |
| Other sources, `looper.go`, `mjpegsource.go`, `transcodingsource.go`, `rpicam_source.go` | file position and timestamps; frame channel; helper process | Run, Push, AttachMJPEG | ffmpeg, the camera process |
| Helper processes, `internal/ffmpeg`, `internal/rpicamera` | child process, pipes, supervisor | start, read, restart, stop | the sources |
| Profiles, `media_provider.go`, `profile_derive.go`, `config/update.go` | profiles with probed metadata, derived MJPEG siblings | add, remove, edit, look up | media service, RTSP server |
| Device provider, `device_provider.go` | none of its own | getters and setters of the device service | control plane |
| Triggers and ring, `triggers.go`, `ring.go` | the last events, in a ring | look at the topic, publish, record, tell whoever listens; snapshot | broker, UIs |
| Authentication, `internal/auth` | nonces, user store | authenticate, authorise | SOAP services |
| SOAP services, `internal/onvif/{device,media,event}svc` | none but the event service's addresses | parse, authorise, dispatch, answer | providers, broker, authentication |
| WS-Discovery, `internal/onvif/wsdiscovery`, `simulator/discovery.go` | sequence number, sockets | Hello, ProbeMatch, Bye | lifecycle, control plane |
| Terminal UI, `internal/tui` | one model per screen with copies of the configuration, a modal, a status bar with timers, a log | keys, commands, ticks, callbacks, quit | control plane, lifecycle, triggers; an operator |
| GUI and command line, `internal/gui`, `cmd` | presentation | call the control plane and the lifecycle | operators |

What is hard here, and what makes each component correct:

* **Event broker.** One mutex serialises the methods, but every push dispatch is a
  goroutine that posts without it and reports whenever it ends, in any order and perhaps
  after its subscription is gone. Leases expire by the clock while the entry stays in the
  map. Correct: no message is delivered twice, out of order or after the end; the pool is
  neither overfull nor blocked by corpses; a lease ends early only for the reasons the
  code names; an unreachable consumer is given up.
* **Configuration store.** Updates overlap, other processes create the file, every system
  call may fail and the process may die anywhere. Correct: the file is an atomic register
  that is never torn and never loses an acknowledged edit.
* **Control plane.** A mutator edits the file under a mutex and then copies it to four
  places with no lock across the steps; several run at once and an operator may edit the
  file by hand; the read-back may fail after the edit was made. Correct: a call that meets
  nobody leaves all copies equal to the file; calls that overlap never bring back
  something older than their overlap.
* **Lifecycle.** Start drops its lock between the running check and the publication of
  its handles, Stop tears down without it, and waits without a limit for the sources of
  its RTSP server. Correct: running means up, nothing leaks, every call returns unless
  those sources never end, and gives its port back.
* **Logger.** Records are written through a pinned generation with no lock while reloads
  replace it. Correct: the file in use stays open, replaced files get closed, by
  somebody, once nobody writes to them.
* **Live source.** A client joins in three unlocked steps (SETUP, replay of the cache,
  activation) while Run replaces the cache and writes. Correct: what a client is shown
  and sent can be decoded, in order; DESCRIBE and RemoveSource return.
* **Sources and helpers.** Up to four goroutines and a child process stand behind a
  source and end each other; cameras share the files of an embedded helper; pipes are
  inherited by helpers started later; a camera asks its helper to end and waits for it
  without a limit; Start and Stop fail half-way. Correct: a canceled source ends unless it
  waits for a helper, a removed one leaves nothing behind, a running helper has its files,
  and a looped file's timestamps grow over the rewind and the wrap.
* **Authentication.** A request asks up to three schemes, one after the other, in a chain
  that a reload may have replaced, over users that change meanwhile; nonces expire and a
  bounded cache remembers tokens by the text of their nonce, while digests are made of its
  bytes. Correct: an answer follows from something the user was during the request, a
  nonce as it is written is accepted once, a client that answers its challenges is served
  in the end.
* **Services and profiles.** An operation is a snapshot, an edit on disk and a reload, or
  several of these, or an edit without a reload; the UIs do the same and Start writes
  back what it probed. Correct: a success is a success of every step and a fault hides
  no other outcome than the one it names, a profile whose creation was acknowledged is
  kept on file and gone from memory only where the code says so, a value that was set is
  read back.
* **Triggers and ring.** A trigger looks at one copy of the topics, the broker at another,
  and the event is recorded whatever the broker did; edits and a Start change the copies
  in between. Correct: what is shown as recent was published, unless the copies were at
  odds meanwhile, and the ring is the list of the last events at every position of its
  head.
* **Terminal UI.** One loop takes keys, ticks, timers, answers of commands and callbacks
  of the simulator in any order, over rows copied earlier; quit waits inside the loop for
  requests whose callbacks wait for the loop. Correct: only what was confirmed is
  deleted, a text stays its time, the log is the order of events, quit stops the
  simulator and ends, unless Stop waits for ever for the RTSP sources.
* **Discovery.** The listener and Stop look at the mode, and then again at the scopes,
  while the services change both. Correct: a hidden device says nothing, and nothing is
  said after Stop has returned.

`PROJECT.json` lists the hazards line by line, with the properties that cover them.

## Modules and code

`PROJECT.json` maps each definition to the lines it stands for. In every module an atomic
step is what the code does between two points where another goroutine can get in: a
whole method where a mutex covers it, a single line where nothing does. Definitions named
`Mut...` are faulty variants of the definition that follows them, used to see that the
property they are paired with can fail; no specification uses them.

| Module | Models | State and actions |
|---|---|---|
| `SubscriptionService` | nothing in the code: what a client of the event service may rely on | phases, mailboxes; `Open`, `Post`, `Take`, `End` |
| `EventBroker` | `event/broker.go`, `subscription.go` | `status`, `sub`, `notifies` are `Broker.subs` and the Notify goroutines; one action per method, plus `RecordNotifyResult`, `ReapTick`, `Tick` |
| `ConfigRegister` | nothing in the code: an atomic register | `Create`, `Commit`, `Acknowledge` |
| `ConfigStore` | `config.go`, `update.go` | `file`, `tmp`, `lock`; one action per system call, each of which may fail, and crashes |
| `ControlPlane` | `simulator.go`, `mutators.go`, `auth.go`, `auth/controller.go`, `auth/store.go` | five copies of the settings; one action per step of a mutator and of `reloadFromDisk`, and `FailReload`; `EditByHand` |
| `Lifecycle` | `simulator/lifecycle.go`, `discovery.go` | one instance per Start that passes the check; `Check` to `Publish`, `GrabHandles` to `CloseLogger`, the goroutines `Serve` and `Discover`, `ReloadBroker` |
| `LogSink` | `obs/handler.go`, `log.go` | generations with a count and two flags; one action per atomic access |
| `LiveSource` | `livesource.go` and one source's part of `server.go` | the channel, the cache, where Run stands, where each client stands |
| `Streaming` | `server.go`, `looper.go`, `mjpegsource.go`, `transcodingsource.go`, `rpicam_source.go`, `internal/ffmpeg`, `internal/rpicamera`, the registration in `lifecycle.go` | per source where Run, helper process, supervisor, reader and writing loop stand, its pipes and files; Start, Stop and RemoveSource of the server |
| `AccessPolicy` | `auth/access.go` | classes, roles, `Allow`; a table, no state |
| `Authentication` | `internal/auth`, `simulator/auth.go` | clock, user, chain, nonce caches, one request per client; one action per scheme, `Rebuild`, `ChangeUser`, `Tick` |
| `Services` | `internal/onvif/{devicesvc,mediasvc,eventsvc}`, `device_provider.go`, `media_provider.go`, `profile_derive.go`, `mutators.go`, the edits and the validation of `internal/config` | `disk` and `mem`, one request per client; `Receive`, `Dispatch`, `Persist`, `Load`, `Install`, `Rebuild`, `Fail`, and the steps of Start and Stop that touch profiles |
| `RecentEvents` | nothing in the code: what Status promises of recent events | a list; `Add` |
| `EventTriggers` | `simulator/triggers.go`, `ring.go`, and what decides the topics in `mutators.go`, `simulator.go`, `lifecycle.go` | three copies of the enabled topics, one trigger per caller, the ring; `Look` to `Tell`, `Persist` to `Update`, `BeginStart`, `EndStart` |
| `Terminal` | `internal/tui` | what each screen shows, the modal, the status bar, a bag of commands and messages; `Press`, `Execute`, `Take`, `ShutdownReturns`, `StopReturns`, and requests of clients |
| `Discovery` | `simulator/discovery.go`, `internal/onvif/wsdiscovery` | extends `Services` with the listener goroutine and the discovery part of Stop |

`MCEventBroker`, `MCControlPlane`, `MCLiveSource`, `MCStreaming`, `MCAuthentication`,
`MCServices` and `MCTerminal` give TLC its values, scenarios and symmetry sets.

The theorems are in modules that extend what they are about: `EventProofs` (`EventBroker`
and `EventTriggers`), `ConfigurationProofs` (`ConfigStore` and `ControlPlane`),
`ConsoleProofs` (`LogSink` and `Terminal`, what an operator reads), `ServicesProofs`
(`Services` and `Discovery`), `LifecycleProofs`, `LiveSourceProofs`, `StreamingProofs` and
`AuthenticationProofs`. Where two are proved about in one module, one of them has names
with a prefix (`StoreSpec`, `TriggersSpec`, `SinkSpec`).

How the models meet: the broker of `EventBroker` may be reaped at any time, and
`Lifecycle` says when a reaper exists at all; an update of `ControlPlane` and of
`Services` is one step, which is what `ConfigStore` implements (`ImplementsRegister`);
the reload of `ControlPlane` is one step in `Lifecycle` (`ReloadBroker`), where only the
broker's address matters, and its effect on the broker is `UpdateConfig` of
`EventBroker`. `ControlPlane` follows one edit into the four live copies, `Services`
follows every operation into the file and the configuration in memory. `Services` uses
the access classes of `AccessPolicy` with a caller whose roles are given;
`Authentication` is how a caller comes by them. `EventTriggers` follows the topics into
the two copies that a trigger meets, and what subscribers get of an event is
`EventBroker`. `Terminal` has each mutator as one step, which is `ControlPlane` and
`Services` in detail, and Stop as two, which is `Lifecycle`. `Streaming` counts the frames of a live
source and follows its goroutines and helper; `LiveSource` follows the frames and has no
helper. What the event operations of `Services` do to a subscription is `EventBroker`.

Data is abstract. A configuration is the set of edits it absorbed (`ConfigStore`), four
fields (`ControlPlane`), or one set of items per section and one record per profile
(`Services`); an access unit is the parameter sets it has, the kind of its slice and its
number of packets; a message is a topic and a payload. Topic expressions and scopes are
sequences of path segments, as their matching is by segments. In `Services` an item is
valid or not, one camera stands for all, and a request is its operation, how it is
formed, who makes it and what it names. In `Authentication` one user stands for all,
since requests meet only in the nonce cache, whose key leaves the user out, and a digest
is right when it was made with the nonce, the time and the password it claims. A nonce of
a UsernameToken is a text, and `Decoded` gives the bytes it stands for: the cache keeps
texts, digests are made of bytes, and two texts may stand for the same bytes.

## Runs

| Run | Question | Outcome |
|---|---|---|
| `broker_pull` | Does the broker implement the subscription service for pull points, and does admission agree with limit and leases? | holds |
| `broker_push` | Are dead push consumers given up, and leases kept otherwise? | holds |
| `config_store` | Is the file an atomic register under overlap, failures and crashes? | holds |
| `control_plane` | What do reloads leave behind, alone and overlapping? | holds |
| `lifecycle` | Is the running flag truthful, does anything leak, does a call wait for anything but RTSP sources? | holds |
| `log_sink` | Are references and files accounted for, is every replaced file closed? | holds |
| `live_source` | Can what a client gets be decoded, in order, and does every request end? | holds |
| `streaming` | Does a canceled source end unless it waits for a helper, does it leave nothing, do helpers keep their files, do timestamps grow? | holds |
| `authentication` | Does every answer follow from what the user was, is a nonce and time, as written, accepted once, is an honest client served? | holds |
| `services` | Do answers tell what was done, are profiles kept, is what is set read back, is a hidden or stopped device silent? | holds |
| `event_triggers` | Does what is shown as recent agree with what was published? | holds |
| `terminal` | Does the operator get what was confirmed and shown, and does quit end if Stop does? | holds |

The properties, by what they relate:

* `ImplementsService`: every step of the broker is a step of the abstract service or
  invisible. `PoolWithinLimit` and `RefusedOnlyWhenFull`: admission, in terms of *live*
  subscriptions. `LeaseHonoured`: a lease that ends before its time was unsubscribed or
  had enough failed posts. `UnreachableConsumerGivenUp`: a consumer that never
  acknowledges is gone before any configured threshold is passed.
* `ImplementsRegister` and `FileIntact`.
* `AloneSyncs`: a lone call, whatever earlier races left; one that cannot read the file
  back has at least the user it named right in the store. `RestIsRecent`: calls that
  overlapped leave each copy at a content the file had meanwhile. A user edit whose
  read-back fails leaves its late edit in the store and nothing repairs it, so the store
  as a whole may then be a set the file never had; what still holds is asked of every user
  by itself, and of the whole store when no such read-back failed.
* `RunningIsUp`, `NothingLeaks`, and `CallsReturn`: each call returns or waits for ever for
  the sources of its own RTSP server (`AwaitsSources`), and a port given up is freed.
* `RefsCountHolders` and `ReplacedAreClosed`.
* `DescribedComplete`, `PlayStartsAtKeyframe`, `CacheDecodes`, `UnitsInOrder`, and
  `RequestsReturn` (DESCRIBE and RemoveSource).
* `HelperHasFiles`: the count of users of the camera's files is the number of cameras
  that have them, on every way Open can fail and Run can end. `RemovedIsQuiet`: when a
  source's stream is closed no process, reader, supervisor or writing goroutine of it is
  left. `TimestampsGrow`: modulo their range, and over samples with nothing in them.
  `RemovalEnds`: a canceled source stops, or is a camera that waits for ever for a helper
  (`AwaitsHelper`): its own, which does not end when told, or a later one that holds its
  pipe. `StopEnds` is the documented promise without that exception.
* `DecisionJustified`: what was granted, forbidden or refused follows from one record the
  user had while the request was under way; of a bearer token that record is its roles
  alone, and neither its expiry nor the age of a digest's nonce is part of what is asked.
  `TokenAcceptedOnce`: a nonce as it is written, with its time, per chain, as long as its
  cache had room, for a token recorded at the time its age was checked (the code reads the
  clock twice). Of the bytes of a nonce it does not hold (`BytesAcceptedOnce`). `DigestClientServed`: a client that answers its challenges,
  with a password that is right from some time on, is not refused for ever.
* `AnswersTellTruth`: an operation refused for the client's fault has changed nothing, one
  reported done is done in full; when nothing else went on, the file holds the edits
  counted and no other, and after a reload the memory agrees. `ProfilesKept`: a profile
  whose creation was answered with success is on disk until its deletion, whoever else
  picks the same name, and names its maker. It is in the memory that clients are answered
  from as well, but for what `lost` holds: profiles on file that Start's publication of an
  older list, or the installation of an older copy of the file, left out, until the next
  of either. `SetIsSeen`: for setters that reload, what their only caller was told is set is
  what a getter answers. `HiddenIsSilent` and `QuietAfterStop`: see above.
* `ImplementsRecent`: the ring, as it is read, is the abstract list after every step.
  `RecordedAsPublished`: what is recorded was published, or the two copies of the topics
  disagreed about it while its trigger ran; what is published is recorded and told.
* `DeletesAsConfirmed`: across the key, the prompt, the answer and the command, whatever
  moves in between. `LogFaithful`: the last records since the log was cleared, each
  sender's in order. `FlashLasts`: late timers of earlier texts wipe nothing. `QuitEnds`:
  the way out, with requests under way, the simulator stopped and every callback
  returned, or Stop waits for ever for the RTSP sources. The terminal's `TypeOK` has the selection on a row, as keys index with it.

A run checks a type invariant where it says more than types (`services`, `streaming`,
`terminal`). That of every module is proved; in `EventTriggers` it is part of `TriggerInv`
and `RingOK`.

Deadlock checking is off where the system may rightly stop, because nobody has to call
it or a bound ends every behaviour; each such configuration says so. It is on in
`streaming` and `authentication`, where somebody can always start the
server or ask again. What must not stop is stated as liveness.

## Bounds

| Run | Bound | Why it is enough to meet the hard cases |
|---|---|---|
| broker | three tokens (pull) or two (push), clock to 2 with a default lease of 1, queue of 2, three Notify goroutines per subscription, thresholds 2 and 3, two configurations | a queue that overflows, a lease that ends stored, a limit lowered under existing subscriptions, results that cross each other and a renewal |
| config_store | three updates, two creating processes | one update holds the mutex while one waits and one has been acknowledged; a crash between any two calls |
| control_plane | two callers, three calls, one edit by hand, two users, one password; a file that is empty, has one user who must authenticate, or takes tokens only | a call that overlaps another that overlaps a third; an edit of one user that lands in a store replaced by a call for the other; token keys that do not parse; a read-back that fails |
| lifecycle | two callers, four calls | Start over Start, Stop over Stop, both again on the ruins of the first |
| log_sink | two writers, two swappers, three generations | a writer left two generations behind |
| live_source | one client, four units of five kinds, channel of 2, cache of 3, session queue of 2 | a full channel, a cache at its cap, a replay cut short, a second group of pictures. One client suffices for its own stream: clients share no state but what they read |
| streaming | servers of two sources for each pair that shares something (two cameras, camera and transcoder, camera and sibling), and one file; channel of 1; timestamps modulo 16 over a file of 5 ticks with an empty sample | files counted up and down by two cameras, a pipe inherited by a later helper, a full channel at the end, timestamps that wrap every few passes |
| authentication | a digest client, one that mixes the schemes, two that send one token, one that sends it with its nonce as it is, spelt otherwise or exchanged; three nonces of two values; clock to 3, skew and nonce lifetime of 1, a cache of 1, one change of the user, one rebuild | a nonce that grows old or loses its chain between challenge and answer, a token at both ends of its window, a cache that must drop an entry, a user changed between two schemes |
| services | four scenarios: every operation in every form as every caller with one failing step; two clients over profiles, users and the hostname; the terminal UI and a client over a Start; a network with two Starts, a Stop and a Probe | two callers with one generated name, a batch that stops half-way, a write-back over a new profile, a mode changed between check and answer |
| event_triggers | two callers with three events each, a ring of 2 (the code takes 16 to 1024), two edits by two editors, one Start | a head that wraps three times; two edits and a Start, overlapping, between any two steps of a trigger |
| terminal | ten scenarios of up to six keys, up to two clients with three requests, a log of 2, the callbacks on | rows removed between a key and its answer, a log that overflows and is cleared, quit with two callbacks waiting, two modals asked for at once, every key of every screen |

`MaxClock`, `MaxNotifies`, `MaxCalls`, `MaxEdits`, `MaxGen`, `MaxUnits`, `MaxTime`,
`MaxRebuilds`, `MaxChanges`, `MaxStarts`, the turns, failures, starts, stops and Probes of
a scenario of `Services`, and the keys and requests of a scenario of `Terminal` cap what is unbounded in the program; they only stop actions, and
the proofs hold for every value of them. Tokens (broker) and callers (control plane) are
interchangeable, and so are users (control plane), so these runs use symmetry; no run that checks liveness does.

## Fairness

Fairness is assumed of goroutines that have been started and never block for good, and
of nothing a person or a client decides, but one.

* `Lifecycle`: calls under way, the HTTP and the discovery goroutine (weak). Nobody has to
  call Start or Stop, and nothing makes the sources of an RTSP server end: `server.go`
  waits for each of them in turn with no context (`:129-131`, `:213-215`).
* `LogSink`: handlers and swappers inside a call (weak). Handle retries when the pointer
  moves; it moves finitely often within the bound.
* `LiveSource`: Run, the steps of a RemoveSource that was called, the timer of a DESCRIBE
  (weak); the canceled branch of Run's select (strong, since Go picks among ready
  branches at random and a busy producer keeps the other one ready). The producer and the
  clients owe nothing.
* `Streaming`: the goroutines of each source and a Stop under way (weak); a transcoder's
  helper that was told to end does so, as the code kills it after a delay
  (`transcoder.go:229-234`, weak). Nothing is assumed of a camera's helper: it is sent one
  byte, the result of the write is ignored, and it is waited for without a limit
  (`camera_rpicam.go:238-250`). Helpers that were not told to end may run or die, and
  nobody has to start or stop the server.
* `Authentication`: the steps of a request that was made (weak), and that a client which
  gets answers again and again reads one of them (strong: not every answer is lost). The
  clock stops at its bound, so a nonce made at the end of time stays good; what
  `DigestClientServed` shows is that neither the expiries before nor the rebuild leave a
  client in a loop of refusals.
* `Terminal`: the loop takes the quit message and the records of requests that wait for it
  (weak, as Go serves the senders of a channel in the order in which they came), the HTTP
  server's Shutdown returns by `stopTimeout` (weak), and a Send returns once the program
  has ended (weak). The rest of Stop, `StopReturns`, has no fairness, since it waits for
  the RTSP sources. Commands, keys and requests owe nothing, and the loop owes nothing to
  its own ticks.
* `ConfigStore`, `EventBroker`, `ControlPlane`, `Services`, `Discovery` and
  `EventTriggers`: none; they check no liveness.

## Proofs

Every safety property that a run checks is a theorem, for every value of the constants
that satisfies the module's named assumption, and so are the three refinements
(`ImplementsService`, `ImplementsRegister`, `ImplementsRecent`). The assumptions say that
constants have their types, that stand-ins such as `NoFile` are not values, that sets
counted are finite and that sizes are positive, and what the list after the table says.

| Theorem | Property | The invariant it rests on |
|---|---|---|
| `TypeCorrect`, `PoolBounded`, `RefusalJustified`, `LeasesHonoured` | `TypeOK`, `PoolWithinLimit`, `RefusedOnlyWhenFull`, `LeaseHonoured` | `TypeOK`; the action properties are proved action by action |
| `CountersAccount`, `UnreachableGivenUp` | `UnreachableConsumerGivenUp` | `FailureAccounting`: a stored counter equals the failed results of the history as long as nothing was acknowledged, and is below every threshold it was compared with. `UnreachableConsumerGivenUp` alone says nothing of the counter and is not inductive |
| `BrokerServes` | `ImplementsService` | `TypeOK` and `QueuesBounded`. `ServiceStep` maps every operation to one of the service and everything else to a step its clients cannot see: a publish appends and drops the oldest, a pull takes a prefix, an expiry or a reaping ends a phase once |
| `RecentWerePublished` | `RecordedAsPublished` | `TriggerInv`: what a trigger is about to publish is enabled in both copies of the topics unless they were seen at odds, what it is about to record was published, what it is about to tell is recorded |
| `RingIsRecent` | `ImplementsRecent` | `RingOK`. `SnapshotIs` gives the entries of a snapshot by their places, before and after the head has wrapped, and `PushAdds` what a push does to each place |
| `StoreTypeCorrect`, `FileAlwaysIntact`, `StoreImplementsRegister` | `StoreTypeOK`, `FileIntact`, `ImplementsRegister` | `Discipline`: the labels inside the critical section belong to the mutex's holder, whose copy is still the file's content plus its edit, because creation never overwrites. So the rename adds exactly one edit |
| `ControlTypeCorrect`, `SoloCallSyncs`, `RestNeverOlder` | `TypeOK`, `AloneSyncs`, `RestIsRecent` | `Undisturbed` (a lone call has every part it passed right) and `Recent` with one conjunct per copy (what was read back, and what was installed, is a content the file had in this busy period). The user store needs `Mending`: an edit of the store is followed by its replacement, unless the file could not be read back; without that the invariant holds user by user |
| `LifecycleTypeCorrect`, `RunningMeansUp`, `NoInstanceLost` | `TypeOK`, `RunningIsUp`, `NothingLeaks` | `Ownership` (an instance belongs to one caller or is published), `Phase` (how far its owner has brought it up or down), `Unowned` (what nobody owns holds nothing) and `OnePort` |
| `SinkTypeCorrect`, `RefsAreHolders`, `CurrentFileOpen` | `SinkTypeOK`, `RefsCountHolders`, `CurrentOpen`, proved only | `SinkInv`: whoever closes a generation knows it was replaced, and generations are installed in order. The count needs cardinalities of the pinned sets, one lemma each for a goroutine entering and leaving |
| `LiveTypeCorrect`, `SDPComplete`, `SDPStays`, `PlayGetsKeyframe` | `TypeOK`, `DescribedComplete`, `DescriptionFrozen` (proved only), `PlayStartsAtKeyframe` | `Description` (the format follows the parameter sets until readiness freezes it), `Anchored` (a cache, once begun, begins at a keyframe with its sets; a ready source has one between units) and `NewSession` (a session is empty until it plays) |
| `SentInOrder` | `UnitsInOrder` | `Numbered` (units wait in the order of their numbers, above everything cached, written or sent) and `InTurn` (cache and streams are in order, and what Run still has to write of a unit comes after all of them). The replay is in order with what follows only because of both |
| `CacheBootstraps` | `CacheDecodes` | `Whole`: Run caches a unit's packets together, and of every packet in the cache the last of its unit is there at its place. `CacheDecodes` alone does not say where a unit ends |
| `StreamingTypes`, `HelpersHaveFiles`, `RemovedStaysQuiet` | `TypeOK`, `HelperHasFiles`, `RemovedIsQuiet` | `IInv`: `Places` and `InStep` (where Run, helper, supervisor, reader and writing loop of one source stand together), `Removal` (what is registered is what is left to remove, and only those run), `Counted` (the count of users is the number of cameras that hold the files, so that it neither drops below zero nor reaches it early) and `Extracted`. `TypeOK` is not inductive: the count goes down |
| `LoopedTimeGrows` | `TimestampsGrow` | `OnTime(total)`: a player is as far in its pass as the samples it has played, and the pass began one tick after the last stamp of the one before |
| `AuthTypeCorrect`, `AnswersJustified` | `TypeOK`, `DecisionJustified` | `DInv`, per client: the caller found so far was vouched for by a record the user had since the request arrived, and no scheme that is behind it has failed (`Sound`); what is answered follows from that (`Justified`) |
| `PairAcceptedOnce` | `TokenAcceptedOnce` | `Remembers`: an accepted pair, its nonce as it was written, is in its chain's cache, or too old by now, or the cache was crowded; no entry was from further ahead than the skew, so what pruning drops could not pass any more |
| `ServicesTypeCorrect`, `AnswersAreTrue` | `TypeOK`, `AnswersTellTruth` | `SInv`: the types and `Progress` (only a known edit gets beyond dispatch, it knows its profile and counts its steps). `Solo`: a request that met nobody finds the file as its steps so far left it, and the memory too once it has installed it. `HInv` adds what an answer claims (`Honest`, `Fruitful`) |
| `ProfilesStay` | `ProfilesKept` | `KInv` adds `Made`, a profile with a maker is on file, so that no add can take its name, and `Filed`, the property's half about the file. `Shown` is the half about the memory, with what it needs of a call under way: a copy that its maker read back has the profile, and once that is installed the memory has it or `lost` does |
| `WhatIsSetIsSeen` | `SetIsSeen` | `Seen`: what was promised is on file, in memory and in every copy that is about to be installed |
| `QuietOnceStopped`, `HiddenNeverSpeaks` | `QuietAfterStop`, `HiddenIsSilent` | `Confined` (the listener is off before a Start and after a Stop) and `Watched` (a discoverable device is seen as one by everybody, and who is about to speak saw it so) |
| `OnlyConfirmedGo`, `TextsLast` | `DeletesAsConfirmed`, `FlashLasts` | `Commanded`: of every command and message under way, and of the modal, what it carries. A prompt names what was selected, a deletion what was confirmed, a timer a text already shown; ticks and timers are never doubled. A key or a command then only has to say what it adds (`Plain`) |
| `LogIsFaithful` | `LogFaithful` | `Logged` (the log is the last records since it was cleared, at every length) and `InTurn` (a client that waits for the loop has one record under way, later than all of its records that arrived) |
| `TerminalTypes` | `TypeOK` | `TerminalInv`, all of these with `Types` and `Views` (every selection is on a row of the rows it was copied with) |

Assumptions about more than types:

* `FirstAssumption` of `Services`: the file the program starts with passes its own
  validation, as Load refuses any other. `TerminalAssumption` says of it that names and
  tokens are unique in their lists, which validation asks for.
* `FirstFilesAssumption` of `ControlPlane`: the file the simulator starts with is valid and
  its token keys parse, as `New` fails otherwise.
* `Decoded` of `Authentication` is any function on the nonces' texts; nothing is assumed of
  which texts share their bytes.
* `TokenAssumption`: only CreateProfile has its token made up for it. The tokens it may
  make up are a finite set where the code draws from 2^32 and tries again, so that a create
  which finds none free cannot go on in the model.
* `LoopedTimeGrows` has a hypothesis of its own, `PlayTime(total)`: every sample lasts a
  tick or more, and the file is shorter than half the range of a timestamp, 6.6 hours at
  90 kHz. Without the first, two samples may share a stamp; without the second, no receiver
  can tell later from earlier. `total` gives the play time after each sample; it is a
  parameter because a sum over a sequence is an induction over data.

Model-checked only: liveness (`CallsReturn`, `ReplacedAreClosed`, `RequestsReturn`,
`RemovalEnds`, `DigestClientServed`, `QuitEnds`), which rests on fairness and ENABLED,
which TLAPS does not prove. Nor does it do induction over data: what a recursive
definition, or `SelectSeq`, computes for every input. The models are written so that no
theorem needs that (`Without` of `Terminal` removes a row by its place, as names are
unique).

## Where code and documents disagree

The first six are stated by a definition of their own, which the model violates: added
to the configuration named, TLC prints the behaviour.

1. `NoWriteAfterClose` (`LogSink.cfg`, an invariant). The last handler that drops its
   reference looks at the retired flag afterwards (`handler.go:103-108`); in between
   another may have pinned the file, a reload retires it, and the first closes it while
   the other writes. `handler.go:12-13` says that reference counting prevents this.
2. `StopEnds` (`Streaming.cfg`, a property). The pipes to a camera's helper are inherited
   by helpers started later, so a camera that is removed first never sees the end of its
   video (`camera_rpicam.go:250`), and Stop waits for its reader as long as the other
   helper runs, where `server.go:116` says that it closes every source. It waits as long
   for a helper that does not act on the one byte it is sent, or never got it
   (`camera_rpicam.go:238-250`). `RemovalEnds` states what holds in spite of both; the
   waits of `CallsReturn` and `QuitEnds` are these.
3. `EditsAreLive` (`EventTriggers.cfg`, an invariant). Start gives the broker the topics
   it copied before it probed the media (`lifecycle.go:54`). A topic enabled in between is
   on file and in memory and not in the broker, so that its triggers are shown as recent
   events and reach no subscriber, where `simulator.go:354` has every mutator update the
   live state.
4. `PublisherNotHeld` (`Terminal.cfg`, an invariant). `pipe.go:9-12` says that the bridge
   has a buffer and drops what a slow terminal does not take; it has none and waits, and
   while quit waits for the requests that wait for it, both wait for `stopTimeout`.
5. `TabMovesFocus` (`Terminal.cfg`, a property). Tab changes the screen before the device
   screen sees it (`root.go:194`), so that its focus never moves and the hostname cannot
   be edited, where its help says "tab: next" (`device.go:42`).
6. `BytesAcceptedOnce` (`Authentication.cfg`, a property). The nonce cache is keyed by the
   base64 text (`username_token.go:164`) and the digest is made of the decoded bytes
   (`:264`). Go's decoder skips line ends and ignores spare bits, so bytes have several
   texts, and a chain accepts one nonce and creation time once per text, where
   `nonce_cache.go:8-9` says that the pair cannot be replayed. `TokenAcceptedOnce` states
   what holds of the text.

Seen while modelling, with no definition of their own:

* Failures of a push consumer are counted in the order in which posts end
  (`broker.go:250`), not in the order of dispatch (`broker.go:30-31`).
* Two overlapping user edits can leave the live user store with a set the file no longer
  has (`simulator.go:367`), and, when one of them cannot read the file back
  (`simulator.go:357-361`), with a set it never had, where `auth/controller.go:14-15`
  has file and store stay in sync. `RestIsRecent` has the exact extent of both.
* `stopTimeout` is said to bound the shutdown on quit (`tui/messages.go:50`); it bounds
  the HTTP server's part (`lifecycle.go:389`) and not the wait for the RTSP sources
  (`lifecycle.go:391-393`).
* The broker's reaper starts once per process (`broker.go:161-168`): after Stop and Start
  there is none (`lifecycle.go:23`). Expired subscriptions are still refused and do not
  fill the pool; `broker_pull` covers a reaper that never runs.
* Any edit while running replaces the broker's configuration (`simulator.go:366`), and
  with it the subscription manager's address, which only Start sets.
* A client that plays before the first keyframe is in the cache (Ready is closed before
  it is, `livesource.go:192` and `:227`), or while a unit is being written, has a gap
  between replay and activation and may start at a later slice. `PlayStartsAtKeyframe`
  is stated for a source between two units for this reason.
* At its cap the cache leaves out a unit and may take a later, smaller one
  (`livesource.go:268`), so it has holes; `CacheDecodes` asks for whole units only.
* `AttachMJPEG` is documented to run before the source's Run goroutine
  (`rpicam_source.go:38-43`), which AddSource has started already (`lifecycle.go:184`,
  `:285`); a camera that was opened first never feeds its sibling.
* `Simulator.Running` is documented to hold until Stop has returned (`lifecycle.go:418`);
  the flag is cleared when Stop begins. `simulator.go:371` reads `logState` without the
  lock it is written under.
* A subscription timeout in ISO 8601 form passes validation and is then replaced by one
  hour (`simulator.go:311-315`).
* The setters of scopes, DNS, gateway, interfaces, protocols, clock and metadata persist
  and do not reload (`device_provider.go:122-333`): getters answer with the old value
  until some other mutator reloads. `SetIsSeen` is about the others.
* CreateUsers, SetUser and DeleteUsers stop at the first failing user and answer with a
  fault although the earlier ones were edited (`device_provider.go:335-366`);
  SetNetworkInterfaces replaces the whole list (`:217-236`).
* Start writes back the profiles of its snapshot (`lifecycle.go:63-79`): a profile added
  while it probes is on disk and not in memory, where GetProfiles looks, until the next
  reload. `ProfilesKept` counts such a profile in `lost`. Two siblings may
  have one effective token, and a file's sibling outlives a parent that was removed.
* The tokens `..._enc` and `..._cfg` that the media service lists do not resolve when
  they are asked for by themselves (`media_provider.go:199-236`).
* Stop clears `listenAddr` after its teardown (`lifecycle.go:398`), when a new Start may
  have published its own: a simulator that runs with no address to show.
* The terminal's commands are goroutines, so two toggles in a row may land in either
  order (`events.go:107-118`, `device.go:112-124`). The device screen copies the mode once
  and never again (`device.go`), so that a change made elsewhere does not show; after a
  Start that failed the dashboard stays at "starting" (`dashboard.go:47-55`). A close of
  one modal that comes late may close the next (`root.go:104-106`). A trigger of a topic
  that was disabled meanwhile says "sent" (`events.go:289-311`). A search of the log
  cannot hold a digit, `q` or `?` (`root.go:186-212`). A start that was under way when `q`
  was pressed runs after the stop; `QuitEnds` leaves it out, and the command line stops
  once more.
* The command line gives the terminal no bridge, so its log screen stays empty.
* Status is documented as a consistent snapshot and reads the ring after it has released
  its lock.
* A device that starts hidden and becomes discoverable sends no Hello, and one that hides
  sends no Bye; a Hello or a ProbeMatch may be numbered after the Bye
  (`discovery.go:155-159`).
* Resolve is advertised (`device_provider.go:69`) and answered by nothing.
* A scope whose path has `.` or `..` in it is taken for an empty path and matches every
  scope of the same host (`match.go:150-166`).
* `access.go:77-80` gives an Extended caller the level of its first known role, and
  LevelUser without one; `principalLevel` (`:95-106`) gives the best of all roles, and a
  caller with no other role than Extended is anonymous. `Allow` is the latter. `auth.go` advises an order of schemes that the
  simulator's chain does not have (`simulator/auth.go`).

## What is not modelled

* Power loss. `ConfigStore` crashes the process; the code does not sync the file or its
  directory, and a model of a file system that reorders writes would say nothing about
  code that does not try to defend against it.
* Two Starts that ask for different ports. No part of the program edits the ports; a
  hand edit between two overlapping Starts could. `Lifecycle` has all instances ask for
  the same ones. A new Start that overlaps the end of a Stop is in `Lifecycle` and not in
  `Services`.
* XML, HTTP, RTP packing, MP4 boxes, cryptography, presentation. These are conversions
  whose results the models take as inputs; a datagram or a request that does not parse is
  one of the forms it may have.
* Profile names, and with them a sibling that is not derived because its name is taken
  (`profile_derive.go:87`).
* The sources of the RTSP server in `Lifecycle` and `Terminal`: there the wait for them
  may end at any time or never, and `Streaming` says when.
* The other half of some hazards. That temporary files do not pile up is not asked
  (a crash leaves one); that a handler does not write to a sink replaced under it is
  disagreement 1; that a description never changes is proved and not run.
* Frames left in the pipe of a helper that died, a descriptor number that is reused after
  a close, and the tail of a helper's stderr.
* gortsplib. `LiveSource` has the parts of it the code relies on: the list of active
  readers, the write queue of a session before it plays, the end of sessions with their
  stream; `Streaming` has a stream that is open or closed.
* Of the terminal what is only drawn or typed: layout, help, filters of the log, the text
  of fields, and the save of the hostname, which no key reaches.
* The GUI and the command line are callers of what is modelled; the notifier and the
  request log are one call each.

## Plan

Done: 1 event broker, 2 configuration store, 3 control plane, 4 lifecycle, 5 logger,
6 live source, 7 RTSP server, sources and helper processes, 8 authentication, 9 services
and profiles, 10 discovery, 11 triggers and ring, 12 terminal UI; in this order because
the earlier ones carry the promises a client or an operator sees first. 13: theorems for
every safety property and refinement of the runs.

Next:

14. **Beyond the runs.** Properties that hold by the proofs' invariants and are worth
    stating for themselves, as `CurrentOpen` and `DescriptionFrozen` are.
15. **The GUI's log tail**, and the request log.
16. **Pure algorithms** against reference definitions: durations with 64-bit overflow,
    the split of a multipart stream.

## How to run

In this directory, `tlc -config X.cfg M` for a run of `PROJECT.json` (for example
`tlc -workers 2 -config Lifecycle.cfg Lifecycle`) and `tlapm M.tla` for a module of
proofs. The longest run is `broker_push`, under four minutes; `control_plane` has the
most states, 6.5 million.
