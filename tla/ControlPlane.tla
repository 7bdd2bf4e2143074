----------------------------- MODULE ControlPlane -----------------------------
(***************************************************************************)
(* internal/simulator: the mutators, and the live state they reload.       *)
(*                                                                         *)
(* The settings exist five times: in the file, in Simulator.cfg, in the    *)
(* broker (topics), in the user store and in the authentication chain.  A  *)
(* mutator persists its edit under config.updateMu and then, with no lock  *)
(* held across the steps, reads the file back and installs it part by      *)
(* part.  The GUI, the terminal UI and ONVIF request handlers call         *)
(* mutators at the same time.  The file itself is module ConfigStore; here *)
(* one update is one step.                                                 *)
(***************************************************************************)
EXTENDS Naturals, FiniteSets

CONSTANTS
    Callers,     \* goroutines that call mutators
    Users,       \* user names
    Passwords,
    Absent,      \* stands for "no such user"
    FirstFiles,  \* what the file may contain when the simulator starts
    MaxCalls,    \* bound: mutator calls in a behaviour
    MaxEdits     \* bound: edits of the file by hand in a behaviour

ASSUME ControlAssumption ==
    /\ Absent \notin Passwords
    /\ MaxCalls \in Nat
    /\ MaxEdits \in Nat

Credentials == Passwords \cup {Absent}

\* One event topic stands for the topic list.  jwt tells whether token
\* authentication is off, on with keys that parse, or on with keys that do not.
Config == [users : [Users -> Credentials], enabled : BOOLEAN, topic : BOOLEAN,
           jwt : {"off", "good", "bad"}]
NoUsers == [u \in Users |-> Absent]
NoConfig == [users |-> NoUsers, enabled |-> FALSE, topic |-> FALSE, jwt |-> "off"]

VARIABLES
    disk,       \* the file
    cfg,        \* Simulator.cfg
    topics,     \* the broker's topic switch
    store,      \* auth.MutableUserStore
    chain,      \* authChain and authEnabled: what they were built from
    pc,         \* where each caller stands
    op,         \* op[c]: the call c makes
    fresh,      \* fresh[c]: the configuration c has read back
    calls,      \* mutator calls begun
    edits,      \* edits by hand
    recent,     \* history: contents of the file since this busy period began
    reloaded,   \* history: a call of this busy period reloaded
    failed,     \* history: a reload of this busy period failed at the chain
    unread,     \* history: an editor of the user store could not read the file back
    alone       \* history: alone[c]: nothing else has happened during c's call

vars == <<disk, cfg, topics, store, chain, pc, op, fresh, calls, edits,
          recent, reloaded, failed, unread, alone>>
live == <<cfg, topics, store, chain>>

ChainOf(c) == [enabled |-> c.enabled, jwt |-> c.jwt]

At(c, label) == pc[c] = label
Goto(c, label) == pc' = [pc EXCEPT ![c] = label]
Resting == \A c \in Callers : At(c, "idle")

-----------------------------------------------------------------------------
(* The edits *)

Operations ==
    [kind : {"AddUser", "UpsertUser"}, user : Users, password : Passwords]
    \cup [kind : {"RemoveUser"}, user : Users]
    \cup [kind : {"SetAuthEnabled", "SetTopicEnabled"}, on : BOOLEAN]
    \cup [kind : {"SetScopes"}]

NoOperation == [kind |-> "SetScopes"]

\* What the mutation function of each call leaves in the file, and when it refuses.
Edited(o, c) ==
    CASE o.kind \in {"AddUser", "UpsertUser"} ->
             [c EXCEPT !.users = [@ EXCEPT ![o.user] = o.password]]
      [] o.kind = "RemoveUser" -> [c EXCEPT !.users = [@ EXCEPT ![o.user] = Absent]]
      [] o.kind = "SetAuthEnabled" -> [c EXCEPT !.enabled = o.on]
      [] o.kind = "SetTopicEnabled" -> [c EXCEPT !.topic = o.on]
      [] o.kind = "SetScopes" -> c

Refused(o, c) ==
    \/ o.kind = "AddUser" /\ c.users[o.user] # Absent
    \/ o.kind = "RemoveUser" /\ c.users[o.user] = Absent

\* validateAuth: authentication cannot be on with nobody to authenticate.
Valid(c) == c.enabled /\ c.users = NoUsers => c.jwt # "off"

Accepted(o, c) == ~Refused(o, c) /\ Valid(Edited(o, c))

-----------------------------------------------------------------------------
(* One call *)

\* A call that finds nobody at work opens a busy period.
Begin(c, o) ==
    /\ At(c, "idle")
    /\ calls < MaxCalls
    /\ calls' = calls + 1
    /\ op' = [op EXCEPT ![c] = o]
    /\ Goto(c, "persisting")
    /\ alone' = [d \in Callers |-> d = c /\ Resting]
    /\ IF Resting
       THEN recent' = {} /\ reloaded' = FALSE /\ failed' = FALSE /\ unread' = FALSE
       ELSE UNCHANGED <<recent, reloaded, failed, unread>>
    /\ UNCHANGED <<disk, live, fresh, edits>>

\* config.Update.  UpsertUser and RemoveUser go through the controller, which edits
\* the user store next; the scope setters of the device provider do not reload.
Mirrors(o) == o.kind \in {"UpsertUser", "RemoveUser"}

AfterPersist(o) ==
    CASE Mirrors(o) -> "mirroring"
      [] o.kind = "SetScopes" -> "ok"
      [] OTHER -> "loading"

Persist(c) ==
    /\ At(c, "persisting")
    /\ Accepted(op[c], disk)
    /\ disk' = Edited(op[c], disk)
    /\ recent' = recent \cup {disk'}
    /\ Goto(c, AfterPersist(op[c]))
    /\ UNCHANGED <<live, op, fresh, calls, edits, reloaded, failed, unread, alone>>

\* The edit is refused, or the file cannot be read or written: nothing is done.
Refuse(c) ==
    /\ At(c, "persisting")
    /\ Goto(c, "refused")
    /\ UNCHANGED <<disk, live, op, fresh, calls, edits, recent, reloaded, failed,
                   unread, alone>>

\* controller.UpsertUser: store.Set.  controller.RemoveUser: store.Remove.
Mirrored(o) == IF o.kind = "RemoveUser" THEN Absent ELSE o.password

Mirror(c) ==
    /\ At(c, "mirroring")
    /\ store' = [store EXCEPT ![op[c].user] = Mirrored(op[c])]
    /\ Goto(c, "loading")
    /\ UNCHANGED <<disk, cfg, topics, chain, op, fresh, calls, edits, recent,
                   reloaded, failed, unread, alone>>

\* reloadFromDisk, step by step.
MutReload(c) ==
    /\ At(c, "loading")
    /\ fresh' = [fresh EXCEPT ![c] = cfg]
    /\ Goto(c, "installing")
    /\ UNCHANGED <<disk, live, op, calls, edits, recent, reloaded, failed, unread,
                   alone>>

Reload(c) ==
    /\ At(c, "loading")
    /\ fresh' = [fresh EXCEPT ![c] = disk]
    /\ Goto(c, "installing")
    /\ UNCHANGED <<disk, live, op, calls, edits, recent, reloaded, failed, unread,
                   alone>>

\* config.Load fails: no live part is touched, and the caller gets an error though
\* its edit is on disk and, if it named a user, in the user store.
FailReload(c) ==
    /\ At(c, "loading")
    /\ unread' = (unread \/ Mirrors(op[c]))
    /\ Goto(c, "stale")
    /\ UNCHANGED <<disk, live, op, fresh, calls, edits, recent, reloaded, failed,
                   alone>>

Install(c) ==
    /\ At(c, "installing")
    /\ cfg' = fresh[c]
    /\ Goto(c, "topics")
    /\ UNCHANGED <<disk, topics, store, chain, op, fresh, calls, edits, recent,
                   reloaded, failed, unread, alone>>

UpdateBroker(c) ==
    /\ At(c, "topics")
    /\ topics' = fresh[c].topic
    /\ Goto(c, "users")
    /\ UNCHANGED <<disk, cfg, store, chain, op, fresh, calls, edits, recent,
                   reloaded, failed, unread, alone>>

\* controller.SyncFromConfig replaces the whole store.
MutSyncUsers(c) ==
    /\ At(c, "users")
    /\ Goto(c, "chain")
    /\ UNCHANGED <<disk, live, op, fresh, calls, edits, recent, reloaded, failed,
                   unread, alone>>

SyncUsers(c) ==
    /\ At(c, "users")
    /\ store' = fresh[c].users
    /\ Goto(c, "chain")
    /\ UNCHANGED <<disk, cfg, topics, chain, op, fresh, calls, edits, recent,
                   reloaded, failed, unread, alone>>

\* rebuildAuthChain: keys that do not parse leave the old chain, and its on/off
\* switch, in place; the caller gets an error though the edit is on disk.
RebuildAuthChain(c) ==
    /\ At(c, "chain")
    /\ reloaded' = TRUE
    /\ \/ /\ fresh[c].jwt # "bad"
          /\ chain' = ChainOf(fresh[c])
          /\ Goto(c, "ok")
          /\ UNCHANGED failed
       \/ /\ fresh[c].jwt = "bad"
          /\ failed' = TRUE
          /\ Goto(c, "broken")
          /\ UNCHANGED chain
    /\ UNCHANGED <<disk, cfg, topics, store, op, fresh, calls, edits, recent, unread,
                   alone>>

\* The call's locals die with it.
Return(c) ==
    /\ pc[c] \in {"ok", "refused", "stale", "broken"}
    /\ Goto(c, "idle")
    /\ op' = [op EXCEPT ![c] = NoOperation]
    /\ fresh' = [fresh EXCEPT ![c] = NoConfig]
    /\ alone' = [alone EXCEPT ![c] = FALSE]
    /\ UNCHANGED <<disk, live, calls, edits, recent, reloaded, failed, unread>>

Mutator(c) ==
    \/ \E o \in Operations : Begin(c, o)
    \/ Persist(c) \/ Refuse(c) \/ Mirror(c)
    \/ Reload(c) \/ FailReload(c) \/ Install(c) \/ UpdateBroker(c) \/ SyncUsers(c)
    \/ RebuildAuthChain(c) \/ Return(c)

\* An operator edits the token keys in the file, which is plain JSON, while the
\* simulator runs.  The next reload picks the edit up.
EditByHand(jwt) ==
    /\ edits < MaxEdits
    /\ edits' = edits + 1
    /\ jwt # disk.jwt
    /\ disk' = [disk EXCEPT !.jwt = jwt]
    /\ Valid(disk')
    /\ recent' = recent \cup {disk'}
    /\ alone' = [c \in Callers |-> FALSE]
    /\ UNCHANGED <<live, pc, op, fresh, calls, reloaded, failed, unread>>

-----------------------------------------------------------------------------
\* New loads the file and builds every part from it, or the simulator does not start.
Startable(c) == Valid(c) /\ c.jwt # "bad"

ASSUME FirstFilesAssumption == FirstFiles \subseteq {c \in Config : Startable(c)}

Init ==
    /\ disk \in FirstFiles
    /\ cfg = disk
    /\ topics = disk.topic
    /\ store = disk.users
    /\ chain = ChainOf(disk)
    /\ pc = [c \in Callers |-> "idle"]
    /\ op = [c \in Callers |-> NoOperation]
    /\ fresh = [c \in Callers |-> NoConfig]
    /\ calls = 0
    /\ edits = 0
    /\ recent = {}
    /\ reloaded = FALSE
    /\ failed = FALSE
    /\ unread = FALSE
    /\ alone = [c \in Callers |-> FALSE]

Next ==
    \/ \E c \in Callers : Mutator(c)
    \/ \E jwt \in {"off", "good", "bad"} : EditByHand(jwt)

Spec == Init /\ [][Next]_vars

-----------------------------------------------------------------------------
(* Properties *)

Labels == {"idle", "persisting", "mirroring", "loading", "installing", "topics",
           "users", "chain", "ok", "refused", "stale", "broken"}
Chains == [enabled : BOOLEAN, jwt : {"off", "good"}]
TypeOK ==
    /\ disk \in Config /\ Valid(disk)
    /\ cfg \in Config
    /\ topics \in BOOLEAN
    /\ store \in [Users -> Credentials]
    /\ chain \in Chains
    /\ pc \in [Callers -> Labels]
    /\ op \in [Callers -> Operations]
    /\ fresh \in [Callers -> Config]
    /\ calls \in Nat /\ edits \in Nat
    /\ recent \subseteq Config
    /\ reloaded \in BOOLEAN /\ failed \in BOOLEAN /\ unread \in BOOLEAN
    /\ alone \in [Callers -> BOOLEAN]

Reloads(c) == op[c].kind # "SetScopes"

\* A mutator that met no other call and no edit by hand leaves every part equal to
\* the file, whatever earlier races left behind.  One whose reload fails at the
\* chain, the last part, has the other parts right; one that cannot read the file
\* back has the user store right for the user it named (controller.go:67-88).
AloneSyncs == \A c \in Callers :
    /\ alone[c] /\ Reloads(c) /\ pc[c] \in {"ok", "broken"} =>
           cfg = disk /\ topics = disk.topic /\ store = disk.users
    /\ alone[c] /\ Reloads(c) /\ At(c, "ok") => chain = ChainOf(disk)
    /\ alone[c] /\ Mirrors(op[c]) /\ At(c, "stale") =>
           store[op[c].user] = disk.users[op[c].user]

\* Calls that overlap may leave the parts at different moments of the file, but at
\* no moment before they began: what was settled then cannot come back, such as the
\* password of a user removed earlier.  The user store is a content the file had if
\* every call that edited the store could read the file back; a call that could not
\* leaves its late edit in it, so then this is known of each user by itself.
RestIsRecent ==
    Resting /\ reloaded =>
        /\ cfg \in recent
        /\ \E c \in recent : topics = c.topic
        /\ \A u \in Users : \E c \in recent : store[u] = c.users[u]
        /\ ~unread => \E c \in recent : store = c.users
        /\ ~failed => \E c \in recent : chain = ChainOf(c)
=============================================================================
