----------------------------- MODULE ConfigStore -----------------------------
(***************************************************************************)
(* internal/config: the configuration file, its updates and its creation.  *)
(*                                                                         *)
(* Update runs Load, a mutation, Validate and an atomic save under         *)
(* updateMu; the save writes a temporary file and renames it over the      *)
(* configuration.  EnsureExists, which any process opening the same path   *)
(* may run, takes no lock: it links a temporary file into place, which     *)
(* fails when the configuration exists.  Every system call may fail, and   *)
(* the process may die between any two of them.                            *)
(*                                                                         *)
(* A configuration is the set of edits it has absorbed.  Two updates of    *)
(* one user or profile are two edits: what matters here is which of them   *)
(* the file has seen.                                                      *)
(***************************************************************************)
CONSTANTS
    Updates,    \* calls of Update in the simulator's process, and their edits
    Starters,   \* processes that run EnsureExists on the same path
    NoFile,     \* no such file
    Nobody      \* updateMu is free

ASSUME StoreAssumption ==
    /\ NoFile \notin [edits: SUBSET Updates, valid: BOOLEAN, whole: BOOLEAN]
    /\ \A absorbed \in SUBSET Updates : NoFile # absorbed
    /\ Nobody \notin Updates
    /\ Updates \cap Starters = {}

VARIABLES
    file,     \* the configuration file
    tmp,      \* tmp[c]: the temporary file caller c is responsible for
    lock,     \* the holder of updateMu
    mem,      \* mem[u]: the Config an update works on; Default outside a call
    at,       \* where each caller stands; "idle" outside a call
    acked     \* updates that returned nil

storeVars == <<file, tmp, lock, mem, at, acked>>

Savers == Updates \cup Starters

Image == [edits: SUBSET Updates, valid: BOOLEAN, whole: BOOLEAN]
Default == [edits |-> {}, valid |-> TRUE, whole |-> TRUE]

\* Load: the file exists, parses and validates.
Loadable(img) == img # NoFile /\ img.whole /\ img.valid

StepTo(c, label) == at' = [at EXCEPT ![c] = label]

-----------------------------------------------------------------------------
(* Update *)

Call(u) ==
    /\ at[u] = "idle"
    /\ StepTo(u, "waiting")
    /\ UNCHANGED <<file, tmp, lock, mem, acked>>

LockFree == lock = Nobody

Lock(u) ==
    /\ at[u] = "waiting"
    /\ LockFree
    /\ lock' = u
    /\ StepTo(u, "loading")
    /\ UNCHANGED <<file, tmp, mem, acked>>

\* Any error ends in "failing", from where the deferred unlock returns it.
Load(u) ==
    /\ at[u] = "loading"
    /\ \/ /\ Loadable(file)
          /\ mem' = [mem EXCEPT ![u] = file]
          /\ StepTo(u, "mutating")
       \/ /\ ~Loadable(file)
          /\ StepTo(u, "failing")
          /\ UNCHANGED mem
    /\ UNCHANGED <<file, tmp, lock, acked>>

MutAcceptable(img) == TRUE
Acceptable(img) == img.valid

\* The mutation may refuse (a token that is taken, a user that is unknown), and
\* what it makes may fail Validate; neither touches the disk.
Mutate(u) ==
    /\ at[u] = "mutating"
    /\ \/ /\ StepTo(u, "failing")
          /\ UNCHANGED mem
       \/ \E valid \in BOOLEAN :
             LET img == [mem[u] EXCEPT !.edits = @ \cup {u}, !.valid = valid] IN
             /\ mem' = [mem EXCEPT ![u] = img]
             /\ StepTo(u, IF Acceptable(img) THEN "creating" ELSE "failing")
    /\ UNCHANGED <<file, tmp, lock, acked>>

\* writeTempFile: a new file under a name of its own, empty at first.
CreateTemp(c, img) ==
    /\ at[c] = "creating"
    /\ \/ /\ tmp' = [tmp EXCEPT ![c] = [img EXCEPT !.whole = FALSE]]
          /\ StepTo(c, "writing")
       \/ /\ StepTo(c, "failing")
          /\ UNCHANGED tmp
    /\ UNCHANGED <<file, lock, mem, acked>>

\* Every error path removes the temporary file; a failing write or close here.
Discard(c) == tmp' = [tmp EXCEPT ![c] = NoFile]

WriteTemp(c) ==
    /\ at[c] = "writing"
    /\ \/ /\ tmp' = [tmp EXCEPT ![c].whole = TRUE]
          /\ StepTo(c, "promoting")
       \/ /\ Discard(c)
          /\ StepTo(c, "failing")
    /\ UNCHANGED <<file, lock, mem, acked>>

\* os.Rename replaces the configuration in one step, or fails.
Rename(u) ==
    /\ at[u] = "promoting"
    /\ \/ /\ file' = tmp[u]
          /\ StepTo(u, "succeeding")
       \/ /\ file' = file
          /\ StepTo(u, "failing")
    /\ Discard(u)
    /\ UNCHANGED <<lock, mem, acked>>

Unlock == lock' = Nobody

ReturnUpdate(u) ==
    /\ at[u] \in {"succeeding", "failing"}
    /\ Unlock
    /\ acked' = IF at[u] = "succeeding" THEN acked \cup {u} ELSE acked
    /\ mem' = [mem EXCEPT ![u] = Default]
    /\ StepTo(u, "idle")
    /\ UNCHANGED <<file, tmp>>

-----------------------------------------------------------------------------
(* EnsureExists *)

Stat(s) ==
    /\ at[s] = "idle"
    /\ file = NoFile
    /\ StepTo(s, "creating")
    /\ UNCHANGED <<file, tmp, lock, mem, acked>>

\* os.Link makes the configuration another name of the temporary file, unless
\* the name is taken or the call fails.
MutNameFree == TRUE
NameFree == file = NoFile

Link(s) ==
    /\ at[s] = "promoting"
    /\ \/ NameFree /\ file' = tmp[s]
       \/ UNCHANGED file
    /\ StepTo(s, "removing")
    /\ UNCHANGED <<tmp, lock, mem, acked>>

\* The deferred os.Remove, on every path after writeTempFile.
Remove(s) ==
    /\ at[s] = "removing"
    /\ Discard(s)
    /\ StepTo(s, "idle")
    /\ UNCHANGED <<file, lock, mem, acked>>

Fail(s) ==
    /\ at[s] = "failing"
    /\ StepTo(s, "idle")
    /\ UNCHANGED <<file, tmp, lock, mem, acked>>

-----------------------------------------------------------------------------
(* Death of a process: its calls are gone, its temporary files are litter that *)
(* nothing reads, its mutex is gone with it.                                  *)

CrashSimulator ==
    /\ \E u \in Updates : at[u] # "idle"
    /\ at' = [c \in Savers |-> IF c \in Updates THEN "idle" ELSE at[c]]
    /\ tmp' = [c \in Savers |-> IF c \in Updates THEN NoFile ELSE tmp[c]]
    /\ mem' = [u \in Updates |-> Default]
    /\ lock' = Nobody
    /\ UNCHANGED <<file, acked>>

CrashStarter(s) ==
    /\ at[s] # "idle"
    /\ StepTo(s, "idle")
    /\ tmp' = [tmp EXCEPT ![s] = NoFile]
    /\ UNCHANGED <<file, lock, mem, acked>>

-----------------------------------------------------------------------------
StoreInit ==
    /\ file \in {NoFile, Default}
    /\ tmp = [c \in Savers |-> NoFile]
    /\ lock = Nobody
    /\ mem = [u \in Updates |-> Default]
    /\ at = [c \in Savers |-> "idle"]
    /\ acked = {}

\* What an update does once it was called and holds the mutex.
Proceed(u) ==
    \/ Load(u)
    \/ Mutate(u)
    \/ CreateTemp(u, mem[u])
    \/ WriteTemp(u)
    \/ Rename(u)
    \/ ReturnUpdate(u)

Start(s) ==
    \/ Stat(s)
    \/ CreateTemp(s, Default)
    \/ WriteTemp(s)
    \/ Link(s)
    \/ Remove(s)
    \/ Fail(s)

StoreNext ==
    \/ \E u \in Updates : Call(u) \/ Lock(u) \/ Proceed(u)
    \/ \E s \in Starters : Start(s) \/ CrashStarter(s)
    \/ CrashSimulator

StoreSpec == StoreInit /\ [][StoreNext]_storeVars

-----------------------------------------------------------------------------
(* Properties *)

SaverLabels == {"idle", "waiting", "loading", "mutating", "creating", "writing",
           "promoting", "succeeding", "failing", "removing"}
StoreTypeOK ==
    /\ file \in Image \cup {NoFile}
    /\ tmp \in [Savers -> Image \cup {NoFile}]
    /\ lock \in Updates \cup {Nobody}
    /\ mem \in [Updates -> Image]
    /\ at \in [Savers -> SaverLabels]
    /\ acked \subseteq Updates

\* Whatever fails and wherever a process dies, the next Load finds either no
\* file or a complete one that validates.
FileIntact == file = NoFile \/ Loadable(file)

Register == INSTANCE ConfigRegister WITH
    content <- IF file = NoFile THEN NoFile ELSE file.edits

\* The file is the register its users take it for: an update reads and writes it
\* in one step as far as anybody can tell, creation never overwrites, and an edit
\* that was acknowledged stays.
ImplementsRegister == Register!Spec
=============================================================================
