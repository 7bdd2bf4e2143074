------------------------------- MODULE Terminal --------------------------------
(***************************************************************************)
(* The terminal UI: internal/tui.                                          *)
(*                                                                         *)
(* One loop takes messages one at a time and gives each to the root model, *)
(* which gives it to a modal or to screens.  What a screen asks for is a   *)
(* command: a goroutine that calls the simulator and sends the loop what   *)
(* came of it.  Send waits until the loop takes the message or the program *)
(* has ended; so does the callback of a mutator, wherever it was called.   *)
(* Commands, timers and callbacks reach the loop in any order.             *)
(*                                                                         *)
(* A job is a command that has not run, or a message that waits for the    *)
(* loop.  What is only drawn (layout, texts, help, filters) is left out,   *)
(* and so are keys that do nothing where they are pressed.                 *)
(***************************************************************************)
EXTENDS Integers, SequencesExt

CONSTANTS
    None,
    Items,       \* tokens of profiles and names of users
    Topics,      \* the configured topics, in order
    Typed,       \* those with a helper of their own to trigger them
    First,       \* the configuration at first
    Handlers,    \* requests of clients that may be under way at once
    Bridged,     \* Run was given a CallbackBridge that the simulator calls
    LogCap,      \* logRingCapacity
    Scenarios    \* what the operator may press, and how much happens

\* Screens that list something; media and auth also edit what they list.
Lists == {"events", "media", "auth"}
Editors == {"media", "auth"}
Flags == Range(Topics) \cup {"auth"}
Modes == {"Discoverable", "NonDiscoverable"}

\* config.Config as the screens show it: the tokens and names listed, what is enabled.
Config ==
    [rows : [Lists -> Seq(Items \cup Range(Topics))], on : SUBSET Flags, mode : Modes]

Keys ==
    {"1", "2", "3", "4", "5", "6", "tab", "shift+tab", "q", "up", "down", "left", "right",
     "enter", "esc", "space", "s", "r", "a", "d", "e", "y", "n", "t", "c", "/"}

\* Whether the simulator was started before; the keys the operator presses and how often;
\* which requests clients make and how many.
Scenario ==
    [up : BOOLEAN, keys : SUBSET Keys, presses : Nat, by : SUBSET Handlers, requests : Nat]

ASSUME TerminalAssumption ==
    /\ None \notin Items
    /\ Topics \in Seq(STRING)
    /\ First \in Config /\ First.rows["events"] = Topics
    /\ \A l \in Editors : First.rows[l] \in Seq(Items) /\ IsInjective(First.rows[l])
    /\ "terminal" \notin Handlers
    /\ Bridged \in BOOLEAN
    /\ LogCap \in Nat \ {0}
    /\ Scenarios \subseteq Scenario

VARIABLES
    running,      \* Simulator.running
    config,       \* the configuration, on disk and in memory
    handler,      \* per request: "idle", "busy", or "sending" in OnMutation
    loop,         \* "ready"; inside quit "stopping" while Stop waits for the requests under
                  \* way, "closing" while it waits for the RTSP server; "ended"
    jobs,         \* bag of commands to run and messages to take
    active,       \* number of the active screen
    modal,        \* the modal, or None
    flash,        \* the number of the text in the status bar, or 0
    flashSeq,
    dashboard,    \* the Running it shows, and its transition
    view,         \* per list: its copy of the rows and flags, and the selected row
    device,       \* the mode and focus of the device screen
    log,          \* the entries of the log screen, and whether a search is typed
    scenario,     \* which scenario this is
    presses,      \* keys pressed
    requests,     \* requests made
    made,         \* history: mutations each request handler has reported
    arrived,      \* history: records in the order in which the loop took them
    cleared,      \* history: how many of them were there at the last clear
    aimed,        \* history: what was selected when delete was asked for
    confirmed,    \* history: what a prompt named that was answered yes
    deleted,      \* history: what the terminal has deleted
    since         \* history: "never" quit, "quit", or "started" since

simulator == <<running, config, handler>>
screens == <<dashboard, view, device, log>>
bar == <<flash, flashSeq>>
limits == <<scenario, presses, requests>>
history == <<made, arrived, cleared, aimed, confirmed, deleted, since>>
vars == <<simulator, loop, jobs, active, modal, bar, screens, limits, history>>

Screens == <<"dashboard", "events", "media", "auth", "device", "log">>
Active == Screens[active]

-----------------------------------------------------------------------------
(* Jobs *)

Tick == [op |-> "tick"]
Close == [op |-> "close"]
QuitMsg == [op |-> "quit"]
Flash == [op |-> "flash"]
Expire(id) == [op |-> "expire", id |-> id]
Open(m) == [op |-> "open", modal |-> m]
Status(r) == [op |-> "status", running |-> r]
\* A record on its way to the log: its sender, its number there, and what follows.
Record(h, n, next) == [op |-> "record", who |-> h, n |-> n, next |-> next]

Messages == {"tick", "close", "quit", "flash", "expire", "open", "status", "record"}
IsMessage(j) == j.op \in Messages
Pending == BagToSet(jobs)

Adding(new) == jobs' = jobs (+) SetToBag(new)
Instead(j, new) == jobs' = (jobs (-) SetToBag({j})) (+) SetToBag(new)

-----------------------------------------------------------------------------
(* Commands *)

\* setFlash: every text has a number and a timer of its own.
SetFlash(j) ==
    /\ flashSeq' = flashSeq + 1
    /\ flash' = flashSeq + 1
    /\ Instead(j, {Expire(flashSeq + 1)})

\* A mutator that succeeds reports what it did before it returns.
Reporting(next) == IF Bridged /\ loop # "ended" THEN Record("terminal", 0, next) ELSE next

\* No token or name is in a list twice (AddItem), so one row goes.
Without(rows, x) == RemoveAt(rows, CHOOSE i \in DOMAIN rows : rows[i] = x)
RemoveItem(j) ==
    /\ j.op = "remove"
    /\ j.item \in Range(config.rows[j.list])
    /\ config' = [config EXCEPT !.rows[j.list] = Without(@, j.item)]
    /\ deleted' = deleted \cup {j.item}
    /\ Instead(j, {Reporting(Flash)})
    /\ UNCHANGED <<running, since>>

AddItem(j) ==
    /\ j.op = "add"
    /\ j.item \notin Range(config.rows[j.list])
    /\ config' = [config EXCEPT !.rows[j.list] = Append(@, j.item)]
    /\ Instead(j, {Reporting(Flash)})
    /\ UNCHANGED <<running, deleted, since>>

\* editProfileCmd: kind, file or camera, and snapshot, one mutator each.
Edit(j) ==
    /\ j.op = "edit"
    /\ j.item \in Range(config.rows["media"])
    /\ Instead(j, {Reporting(IF j.left = 1 THEN Flash ELSE [j EXCEPT !.left = @ - 1])})
    /\ UNCHANGED <<running, config, deleted, since>>

\* SetTopicEnabled, SetAuthEnabled
Toggle(j) ==
    /\ j.op = "toggle"
    /\ config' = [config EXCEPT !.on = IF j.to THEN @ \cup {j.flag} ELSE @ \ {j.flag}]
    /\ Instead(j, {Reporting(Flash)})
    /\ UNCHANGED <<running, deleted, since>>

SetMode(j) ==
    /\ j.op = "mode"
    /\ config' = [config EXCEPT !.mode = j.to]
    /\ Instead(j, {Reporting(Flash)})
    /\ UNCHANGED <<running, deleted, since>>

\* A trigger of a topic that is disabled does nothing, and its text says "sent" all the same.
Fire(j) ==
    /\ j.op = "fire"
    /\ Instead(j, {IF j.topic \in config.on THEN Reporting(Flash) ELSE Flash})
    /\ UNCHANGED <<running, config, deleted, since>>

Start(j) ==
    /\ j.op = "start" /\ ~running
    /\ running' = TRUE
    /\ since' = IF since = "quit" THEN "started" ELSE since
    /\ Instead(j, {Flash})
    /\ UNCHANGED <<config, deleted>>

Stop(j) ==
    /\ j.op = "stop"
    /\ running' = FALSE
    /\ Instead(j, {Flash})
    /\ UNCHANGED <<config, deleted, since>>

\* forceRefresh
Refresh(j) ==
    /\ j.op = "refresh"
    /\ Instead(j, {Status(running)})
    /\ UNCHANGED <<running, config, deleted, since>>

\* Whatever the simulator is asked for may fail; a Start of what runs does.
Fail(j) ==
    /\ j.op \in {"remove", "add", "edit", "toggle", "mode", "start"}
    /\ Instead(j, {Flash})
    /\ UNCHANGED <<running, config, deleted, since>>

Execute(j) ==
    /\ j \in Pending
    /\ \/ RemoveItem(j) \/ AddItem(j) \/ Edit(j) \/ Toggle(j) \/ SetMode(j) \/ Fire(j)
       \/ Start(j) \/ Stop(j) \/ Refresh(j) \/ Fail(j)
    /\ UNCHANGED <<handler, loop, active, modal, bar, screens, limits>>
    /\ UNCHANGED <<made, arrived, cleared, aimed, confirmed>>

-----------------------------------------------------------------------------
(* Messages *)

\* The selection is only kept from getting below the first row.
MutFresh(l) == [rows |-> config.rows[l], on |-> config.on, selected |-> view[l].selected]
\* refreshFromSnapshot: the rows are copied anew and the selection kept inside them.
Fresh(l) ==
    LET n == Len(config.rows[l])
        kept == view[l].selected
    IN [rows |-> config.rows[l], on |-> config.on,
        selected |-> IF kept >= n THEN IF n = 0 THEN 0 ELSE n - 1 ELSE kept]

\* statusMsg: the screens that get it look at the configuration by themselves.
See(seers, r) ==
    /\ dashboard' = IF "dashboard" \notin seers THEN dashboard ELSE
           [running |-> r,
            transition |-> IF dashboard.transition = (IF r THEN "starting" ELSE "stopping")
                           THEN "" ELSE dashboard.transition]
    /\ view' = [l \in Lists |-> IF l \in seers THEN Fresh(l) ELSE view[l]]
    /\ device' = IF "device" \in seers /\ device.mode = None
                 THEN [device EXCEPT !.mode = config.mode] ELSE device
    /\ UNCHANGED log

\* handleTick: Status goes to every screen, and the next tick is asked for.
TakeTick(j) ==
    /\ j = Tick
    /\ See(Range(Screens), running)
    /\ Instead(j, {Tick})
    /\ UNCHANGED <<loop, modal, bar, handler, arrived>>

\* A statusMsg that was asked for goes to the active screen, or to a modal that ignores it.
TakeStatus(j) ==
    /\ j.op = "status"
    /\ See(IF modal = None THEN {Active} ELSE {}, j.running)
    /\ Instead(j, {})
    /\ UNCHANGED <<loop, modal, bar, handler, arrived>>

\* A full log keeps what it has.
MutAppended(entries, e) == IF Len(entries) = LogCap THEN entries ELSE Append(entries, e)
\* eventMsg and mutationMsg: the log takes the record, and its sender goes on.
Appended(entries, e) ==
    LET all == Append(entries, e)
    IN IF Len(all) > LogCap THEN SubSeq(all, Len(all) - LogCap + 1, Len(all)) ELSE all
TakeRecord(j) ==
    /\ j.op = "record"
    /\ log' = [log EXCEPT !.entries = Appended(@, <<j.who, j.n>>)]
    /\ arrived' = Append(arrived, <<j.who, j.n>>)
    /\ handler' = IF j.who \in Handlers THEN [handler EXCEPT ![j.who] = "idle"] ELSE handler
    /\ Instead(j, {j.next} \ {None})
    /\ UNCHANGED <<loop, modal, bar, dashboard, view, device>>

TakeFlash(j) ==
    /\ j = Flash
    /\ SetFlash(j)
    /\ UNCHANGED <<loop, modal, screens, handler, arrived>>

\* Any timer wipes the text.
MutTakeExpire(j) ==
    /\ j.op = "expire"
    /\ flash' = 0
    /\ Instead(j, {})
    /\ UNCHANGED <<loop, modal, flashSeq, screens, handler, arrived>>
\* clearFlashMsg
TakeExpire(j) ==
    /\ j.op = "expire"
    /\ flash' = IF j.id = flashSeq THEN 0 ELSE flash
    /\ Instead(j, {})
    /\ UNCHANGED <<loop, modal, flashSeq, screens, handler, arrived>>

\* openModalMsg, closeModalMsg: whatever modal is there.
TakeOpen(j) ==
    /\ j.op = "open"
    /\ modal' = j.modal
    /\ Instead(j, {})
    /\ UNCHANGED <<loop, bar, screens, handler, arrived>>

TakeClose(j) ==
    /\ j = Close
    /\ modal' = None
    /\ Instead(j, {})
    /\ UNCHANGED <<loop, bar, screens, handler, arrived>>

TakeQuit(j) ==
    /\ j = QuitMsg
    /\ loop' = "ended"
    /\ Instead(j, {})
    /\ UNCHANGED <<modal, bar, screens, handler, arrived>>

Take(j) ==
    /\ loop = "ready" /\ j \in Pending /\ IsMessage(j)
    /\ \/ TakeTick(j) \/ TakeStatus(j) \/ TakeRecord(j) \/ TakeFlash(j) \/ TakeExpire(j)
       \/ TakeOpen(j) \/ TakeClose(j) \/ TakeQuit(j)
    /\ UNCHANGED <<running, config, active, limits>>
    /\ UNCHANGED <<made, cleared, aimed, confirmed, deleted, since>>

-----------------------------------------------------------------------------
(* Keys *)

\* quit stops the simulator inside Update: nothing is taken until Stop has returned.
Quit ==
    /\ since' = "quit"
    /\ running' = FALSE
    /\ IF running
       THEN loop' = "stopping" /\ UNCHANGED jobs
       ELSE Adding({QuitMsg}) /\ UNCHANGED loop

\* quit stops the simulator without a timeout.
MutShutdownReturns ==
    /\ loop = "stopping" /\ \A h \in Handlers : handler[h] = "idle"
    /\ loop' = "closing"
    /\ UNCHANGED <<simulator, jobs, active, modal, bar, screens, limits, history>>
\* Shutdown returns when no request is under way, or stopTimeout has passed: at any time.
ShutdownReturns ==
    /\ loop = "stopping"
    /\ loop' = "closing"
    /\ UNCHANGED <<simulator, jobs, active, modal, bar, screens, limits, history>>

\* Then Stop takes the sources from the RTSP server, one after another, and waits for each
\* without a timeout (Streaming); then it returns.
StopReturns ==
    /\ loop = "closing"
    /\ loop' = "ready"
    /\ Adding({QuitMsg})
    /\ UNCHANGED <<simulator, active, modal, bar, screens, limits, history>>

\* handleGlobalKey: no screen sees these.
Digits == <<"1", "2", "3", "4", "5", "6">>
GlobalKeys == Range(Digits) \cup {"tab", "shift+tab", "q"}
GlobalKey(k) ==
    /\ k \in GlobalKeys
    /\ IF k = "q" THEN Quit ELSE UNCHANGED <<running, loop, jobs, since>>
    /\ active' = CASE k = "tab" -> (active % 6) + 1
                   [] k = "shift+tab" -> ((active + 4) % 6) + 1
                   [] k \in Range(Digits) -> CHOOSE i \in 1 .. 6 : Digits[i] = k
                   [] k = "q" -> active
    /\ UNCHANGED <<modal, screens, aimed, cleared, confirmed>>

\* toggleLifecycle, forceRefresh
DashboardKey(k) ==
    /\ k \in {"s", "r"}
    /\ dashboard' = IF k = "r" THEN dashboard ELSE
           [dashboard EXCEPT !.transition = IF running THEN "stopping" ELSE "starting"]
    /\ Adding({[op |-> CASE k = "r" -> "refresh" [] k = "s" /\ running -> "stop"
                         [] OTHER -> "start"]})
    /\ UNCHANGED <<view, device, log, aimed, cleared>>

\* The row the selection is on.
Selected(l) == view[l].rows[view[l].selected + 1]
MoveKey(l, k) ==
    /\ \/ k = "up" /\ view[l].selected > 0
       \/ k = "down" /\ view[l].selected < Len(view[l].rows) - 1
    /\ view' = [view EXCEPT ![l].selected = @ + (IF k = "up" THEN -1 ELSE 1)]
    /\ UNCHANGED <<jobs, dashboard, device, log, aimed, cleared>>

Confirm(l, x) == [kind |-> "confirm", list |-> l, item |-> x, focus |-> 1]
Form(l, x) == [kind |-> "form", list |-> l, item |-> x]

\* What is deleted is settled when the key is pressed.
AskDelete(l, k) ==
    /\ k = "d" /\ view[l].rows # <<>>
    /\ Adding({Open(Confirm(l, Selected(l)))})
    /\ aimed' = aimed \cup {Selected(l)}
    /\ UNCHANGED <<dashboard, view, device, log, cleared>>

EditorKey(l, k) ==
    \/ MoveKey(l, k)
    \/ AskDelete(l, k)
    \/ /\ \/ k = "a" /\ Adding({Open(Form(l, None))})
          \/ k = "e" /\ l = "media" /\ view[l].rows # <<>>
             /\ Adding({Open(Form(l, Selected(l)))})
          \/ k = "t" /\ l = "auth"
             /\ Adding({[op |-> "toggle", flag |-> "auth", to |-> "auth" \notin view[l].on]})
       /\ UNCHANGED <<dashboard, view, device, log, aimed, cleared>>

\* toggleTopic, openTrigger, openSyncProperty: only what is shown as enabled is triggered.
EventsKey(k) ==
    \/ MoveKey("events", k)
    \/ /\ k \in {"space", "enter", "y"} /\ view["events"].rows # <<>>
       /\ LET t == Selected("events")
              on == t \in view["events"].on
          IN Adding({CASE k = "space" -> [op |-> "toggle", flag |-> t, to |-> ~on]
                       [] k = "enter" /\ on /\ t \in Typed ->
                              Open([kind |-> "trigger", topic |-> t, focus |-> 0])
                       [] k \in {"enter", "y"} /\ on /\ (k = "enter" => t \notin Typed) ->
                              Open([kind |-> "send", topic |-> t])
                       [] OTHER -> Flash})
       /\ UNCHANGED <<dashboard, view, device, log, aimed, cleared>>

\* changeMode, and the focus of the other controls; the hostname is left out.
DeviceKey(k) ==
    /\ k \in {"left", "right", "enter", "tab", "shift+tab"}
    /\ LET mode == IF k = "left" THEN "Discoverable" ELSE "NonDiscoverable"
           change == k \in {"left", "right"} /\ device.focus = 0 /\ device.mode # mode
       IN /\ device' =
                 [mode |-> IF change THEN mode ELSE device.mode,
                  focus |-> CASE k = "tab" -> (device.focus + 1) % 3
                              [] k = "shift+tab" -> (device.focus + 2) % 3
                              [] k = "enter" /\ device.focus = 1 -> 2
                              [] OTHER -> device.focus]
          /\ IF change THEN Adding({[op |-> "mode", to |-> mode]}) ELSE UNCHANGED jobs
    /\ UNCHANGED <<dashboard, view, log, aimed, cleared>>

\* handleKey and handleSearchKey of the log: what is typed for a search clears nothing.
LogKey(k) ==
    /\ \/ k = "/" /\ ~log.searching /\ log' = [log EXCEPT !.searching = TRUE]
       \/ k \in {"esc", "enter"} /\ log.searching /\ log' = [log EXCEPT !.searching = FALSE]
       \/ k = "c" /\ ~log.searching /\ log' = [log EXCEPT !.entries = <<>>]
    /\ cleared' = IF k = "c" THEN Len(arrived) ELSE cleared
    /\ UNCHANGED <<jobs, dashboard, view, device, aimed>>

ScreenKey(k) ==
    /\ k \notin GlobalKeys
    /\ \/ Active = "dashboard" /\ DashboardKey(k)
       \/ Active = "events" /\ EventsKey(k)
       \/ Active \in Editors /\ EditorKey(Active, k)
       \/ Active = "device" /\ DeviceKey(k)
       \/ Active = "log" /\ LogKey(k)
    /\ UNCHANGED <<running, loop, active, modal, confirmed, since>>

\* A modal that answers a key with nil is gone at once, and asks to be closed once more.
CloseWith(new) == modal' = None /\ Adding(new \cup {Close})

\* The prompt deletes whatever is selected when it is answered.
MutYes ==
    [op |-> "remove", list |-> modal.list,
     item |-> IF view[modal.list].rows = <<>> THEN modal.item ELSE Selected(modal.list)]
Yes == [op |-> "remove", list |-> modal.list, item |-> modal.item]
ConfirmKey(k) ==
    /\ modal.kind = "confirm"
    /\ LET yes == (k = "y") \/ (k = "enter" /\ modal.focus = 0)
       IN /\ \/ yes /\ CloseWith({Yes})
             \/ k \in {"n", "enter"} /\ ~yes /\ CloseWith({})
             \/ k \in {"left", "right", "tab"} /\ modal' = [modal EXCEPT !.focus = 1 - @]
                /\ UNCHANGED jobs
          /\ confirmed' = IF yes THEN confirmed \cup {modal.item} ELSE confirmed

\* eventTriggerModal: its token (0), On (1) and Off (2).
TriggerKey(k) ==
    /\ modal.kind = "trigger"
    /\ \/ /\ k = "enter" /\ modal.focus # 0
          /\ CloseWith({[op |-> "fire", topic |-> modal.topic]})
       \/ /\ \/ k \in {"tab", "shift+tab"}
             \/ k = "enter" /\ modal.focus = 0
             \/ k = "left" /\ modal.focus = 2
             \/ k = "right" /\ modal.focus = 1
          /\ LET by == IF k \in {"shift+tab", "left"} THEN 2 ELSE 1
             IN modal' = [modal EXCEPT !.focus = (@ + by) % 3]
          /\ UNCHANGED jobs
    /\ UNCHANGED confirmed

\* syncPropertyModal, rawPublishModal
SendKey(k) ==
    /\ modal.kind = "send" /\ k = "enter"
    /\ CloseWith({[op |-> "fire", topic |-> modal.topic]})
    /\ UNCHANGED confirmed

\* profileFormModal, userFormModal: what is typed may be refused, by the user's form in place.
FormKey(k) ==
    /\ modal.kind = "form" /\ k = "enter"
    /\ \/ /\ modal.item # None
          /\ CloseWith({[op |-> "edit", item |-> modal.item, left |-> 3]})
       \/ /\ modal.item = None
          /\ \/ \E x \in Items : CloseWith({[op |-> "add", list |-> modal.list, item |-> x]})
             \/ modal.list = "media" /\ CloseWith({Flash})
             \/ modal.list = "auth" /\ UNCHANGED <<modal, jobs>>
    /\ UNCHANGED confirmed

ModalKey(k) ==
    /\ \/ ConfirmKey(k) \/ TriggerKey(k) \/ SendKey(k) \/ FormKey(k)
       \/ k = "esc" /\ CloseWith({}) /\ UNCHANGED confirmed
    /\ UNCHANGED <<running, loop, active, screens, aimed, cleared, since>>

\* handleKey: a modal sees a key before the keys of the root and the screen do.
Press(k) ==
    /\ loop = "ready"
    /\ k \in scenario.keys /\ presses < scenario.presses
    /\ presses' = presses + 1
    /\ IF modal # None THEN ModalKey(k) ELSE GlobalKey(k) \/ ScreenKey(k)
    /\ UNCHANGED <<config, handler, bar, scenario, requests, made, arrived, deleted>>

-----------------------------------------------------------------------------
(* Requests of clients *)

Request(h) ==
    /\ handler[h] = "idle" /\ running /\ h \in scenario.by
    /\ requests < scenario.requests
    /\ requests' = requests + 1
    /\ handler' = [handler EXCEPT ![h] = "busy"]
    /\ UNCHANGED <<running, config, loop, jobs, active, modal, bar, screens, history>>
    /\ UNCHANGED <<scenario, presses>>

\* A mutator of a handler: users come and go, the mode changes; then OnMutation.
Serve(h) ==
    /\ handler[h] = "busy"
    /\ \/ \E x \in Range(config.rows["auth"]) :
             config' = [config EXCEPT !.rows["auth"] = Without(@, x)]
       \/ \E x \in Items \ Range(config.rows["auth"] \o config.rows["media"]) :
             config' = [config EXCEPT !.rows["auth"] = Append(@, x)]
       \/ \E m \in Modes : config' = [config EXCEPT !.mode = m]
    /\ IF Bridged /\ loop # "ended"
       THEN /\ handler' = [handler EXCEPT ![h] = "sending"]
            /\ made' = [made EXCEPT ![h] = @ + 1]
            /\ Adding({Record(h, made[h] + 1, None)})
       ELSE /\ handler' = [handler EXCEPT ![h] = "idle"]
            /\ UNCHANGED <<made, jobs>>
    /\ UNCHANGED <<running, loop, active, modal, bar, screens, limits>>
    /\ UNCHANGED <<arrived, cleared, aimed, confirmed, deleted, since>>

\* Send returns when the program has ended.
Released(h) ==
    /\ loop = "ended" /\ handler[h] = "sending"
    /\ handler' = [handler EXCEPT ![h] = "idle"]
    /\ UNCHANGED <<running, config, loop, jobs, active, modal, bar, screens, limits, history>>

-----------------------------------------------------------------------------
Blank == [rows |-> <<>>, on |-> {}, selected |-> 0]

Init ==
    /\ scenario \in Scenarios /\ presses = 0 /\ requests = 0
    /\ running = scenario.up
    /\ config = First
    /\ handler = [h \in Handlers |-> "idle"]
    /\ loop = "ready"
    /\ jobs = SetToBag({Tick})
    /\ active = 1
    /\ modal = None
    /\ flash = 0 /\ flashSeq = 0
    /\ dashboard = [running |-> FALSE, transition |-> ""]
    /\ view = [l \in Lists |-> Blank]
    /\ device = [mode |-> None, focus |-> 0]
    /\ log = [entries |-> <<>>, searching |-> FALSE]
    /\ made = [h \in Handlers |-> 0]
    /\ arrived = <<>> /\ cleared = 0
    /\ aimed = {} /\ confirmed = {} /\ deleted = {}
    /\ since = "never"

Next ==
    \/ \E j \in Pending : Execute(j) \/ Take(j)
    \/ \E k \in Keys : Press(k)
    \/ ShutdownReturns \/ StopReturns
    \/ \E h \in Handlers : Request(h) \/ Serve(h) \/ Released(h)

\* The loop takes whoever waits to send to it, in the order in which they came; a timer
\* fires; Shutdown returns by stopTimeout.  Nothing makes StopReturns happen: a source may
\* wait for its helper for ever.
TakeFrom(h) == \E j \in Pending : j.op = "record" /\ j.who = h /\ Take(j)
Fairness ==
    /\ WF_vars(ShutdownReturns)
    /\ WF_vars(Take(QuitMsg))
    /\ \A h \in Handlers : WF_vars(TakeFrom(h)) /\ WF_vars(Released(h))

Spec == Init /\ [][Next]_vars /\ Fairness

-----------------------------------------------------------------------------
(* Properties *)

\* However the lists shrink under it, the selection of a screen stays on a row, or on the
\* first place of an empty list: the handlers of keys index the rows with it.
TypeOK ==
    /\ running \in BOOLEAN
    /\ config \in Config
    /\ handler \in [Handlers -> {"idle", "busy", "sending"}]
    /\ loop \in {"ready", "stopping", "closing", "ended"}
    /\ IsABag(jobs) /\ \A j \in Pending : j.op = "tick" => jobs[j] = 1
    /\ active \in 1 .. 6
    /\ modal = None \/ modal.kind \in {"confirm", "trigger", "send", "form"}
    /\ flashSeq \in Nat /\ flash \in {0, flashSeq}
    /\ \A l \in Lists : view[l].selected \in 0 .. Max({0, Len(view[l].rows) - 1})
    /\ device.focus \in 0 .. 2
    /\ Len(log.entries) <= LogCap /\ since \in {"never", "quit", "started"}

\* The terminal deletes what was selected when "d" was pressed and what the prompt that
\* was answered yes had named, whatever has moved in the lists since.
DeletesAsConfirmed == deleted \subseteq aimed \cap confirmed

\* The log screen shows the last LogCap records that have arrived since it was cleared,
\* and the records of one sender arrived in the order in which it made them.
LogFaithful ==
    /\ log.entries = SubSeq(arrived, Max({cleared, Len(arrived) - LogCap}) + 1, Len(arrived))
    /\ \A i \in DOMAIN arrived, j \in DOMAIN arrived :
           i < j /\ arrived[i][1] = arrived[j][1] /\ arrived[i][1] \in Handlers
           => arrived[i][2] < arrived[j][2]

\* A text stays in the status bar until its own timer fires or a later text comes: the
\* timer of an earlier text does not wipe it.
FlashLasts ==
    [][flash # 0 /\ flash' # flash =>
         IF flash' = 0
         THEN Expire(flash) \in Pending /\ Expire(flash) \notin BagToSet(jobs')
         ELSE flash' > flash]_vars

\* "q" ends the terminal, also when requests wait for the loop that waits for them, and it
\* ends with the simulator stopped, but for a start that was under way when "q" was pressed
\* and ran after it.  A callback that hands the terminal its record returns, then too.  Only
\* the sources of the RTSP server, if they never end, keep both from it.
QuitEnds ==
    \/ <>[](loop = "closing")
    \/ /\ since # "never" ~> loop = "ended" /\ (~running \/ since = "started")
       /\ \A h \in Handlers : handler[h] = "sending" ~> handler[h] # "sending"

\* What pipe.go says of the bridge: a terminal that does not take messages holds up no
\* publisher, which drops what does not fit.  It fails while "q" waits for requests.
PublisherNotHeld ==
    ~(loop \in {"stopping", "closing"} /\ \E h \in Handlers : handler[h] = "sending")

\* What the device screen's help says: "tab: next".  It fails: tab changes the screen.
TabMovesFocus ==
    [][Active = "device" /\ modal = None /\ Press("tab") => device'.focus # device.focus]_vars

=============================================================================
