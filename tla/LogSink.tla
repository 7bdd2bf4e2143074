------------------------------- MODULE LogSink -------------------------------
(***************************************************************************)
(* internal/obs: the logger's sink stack, swapped while records are being  *)
(* written.                                                                *)
(*                                                                         *)
(* A generation is a handler with the log file it writes to.  Handle pins  *)
(* the current generation with a reference count and no lock: load the     *)
(* pointer, add a reference, check that the pointer has not moved, write,  *)
(* drop the reference.  Apply installs a new generation, retires the old   *)
(* one and closes it if nobody holds it; otherwise the last holder does.   *)
(* Close installs a generation without a file and waits for the holders.   *)
(* Every line below that reads or writes an atomic is a step of its own.   *)
(***************************************************************************)
EXTENDS Integers, FiniteSets

CONSTANTS
    Writers,   \* goroutines that log
    Swappers,   \* goroutines that call Apply or Close
    MaxGen      \* bound: generations ever installed, counting the first

ASSUME SinkAssumption ==
    /\ IsFiniteSet(Writers)
    /\ Writers \cap Swappers = {}
    /\ MaxGen \in Nat \ {0}

VARIABLES
    gen,       \* the installed generation, atomicHandler.gen
    refs,      \* refs[g]: holders of generation g
    retired,   \* retired[g]: it has been replaced, and its replacer said so
    closed,    \* closed[g]: its file is closed
    next,      \* the generations made so far
    pc,        \* where each goroutine stands
    held       \* held[p]: the generation goroutine p works on

sinkVars == <<gen, refs, retired, closed, next, pc, held>>

Procs == Writers \cup Swappers
Gens == 1 .. MaxGen

At(p, label) == pc[p] = label
Goto(p, label) == pc' = [pc EXCEPT ![p] = label]

-----------------------------------------------------------------------------
(* Handle *)

LoadGen(h) ==
    /\ At(h, "idle")
    /\ held' = [held EXCEPT ![h] = gen]
    /\ Goto(h, "loaded")
    /\ UNCHANGED <<gen, refs, retired, closed, next>>

\* A retired generation is not worth pinning: start over.
CheckRetired(h) ==
    /\ At(h, "loaded")
    /\ Goto(h, IF retired[held[h]] THEN "idle" ELSE "pinning")
    /\ UNCHANGED <<gen, refs, retired, closed, next, held>>

Pin(h) ==
    /\ At(h, "pinning")
    /\ refs' = [refs EXCEPT ![held[h]] = @ + 1]
    /\ Goto(h, "checking")
    /\ UNCHANGED <<gen, retired, closed, next, held>>

\* The reference counts only if the pointer still leads here.
StillCurrent(h) == gen = held[h]

Recheck(h) ==
    /\ At(h, "checking")
    /\ Goto(h, IF StillCurrent(h) THEN "writing" ELSE "dropping")
    /\ UNCHANGED <<gen, refs, retired, closed, next, held>>

\* h.Handle: the record goes to the generation's file.
Write(h) ==
    /\ At(h, "writing")
    /\ Goto(h, "dropping")
    /\ UNCHANGED <<gen, refs, retired, closed, next, held>>

\* The reference is dropped after a write and after a failed check alike.  Whoever
\* drops the last one looks whether the generation is retired.
MutLastToDrop(p) == FALSE
LastToDrop(h) == refs[held[h]] = 1

MutDrop(h) ==
    /\ At(h, "dropping")
    /\ Goto(h, IF LastToDrop(h) THEN "last" ELSE "idle")
    /\ UNCHANGED <<gen, refs, retired, closed, next, held>>

Drop(h) ==
    /\ At(h, "dropping")
    /\ refs' = [refs EXCEPT ![held[h]] = @ - 1]
    /\ Goto(h, IF LastToDrop(h) THEN "last" ELSE "idle")
    /\ UNCHANGED <<gen, retired, closed, next, held>>

CheckLast(h) ==
    /\ At(h, "last")
    /\ Goto(h, IF retired[held[h]] THEN "closing" ELSE "idle")
    /\ UNCHANGED <<gen, refs, retired, closed, next, held>>

\* closeOnce: the second close of a generation does nothing.
CloseOnce(p) == closed' = [closed EXCEPT ![held[p]] = TRUE]

CloseLast(h) ==
    /\ At(h, "closing")
    /\ CloseOnce(h)
    /\ Goto(h, "idle")
    /\ UNCHANGED <<gen, refs, retired, next, held>>

Handle(h) ==
    \/ LoadGen(h) \/ CheckRetired(h) \/ Pin(h) \/ Recheck(h)
    \/ Write(h) \/ Drop(h) \/ CheckLast(h) \/ CloseLast(h)

-----------------------------------------------------------------------------
(* Apply and Close *)

\* gen.Swap installs a generation nobody has seen and returns the old one.
Swap(s, waits) ==
    /\ At(s, "idle")
    /\ next < MaxGen
    /\ next' = next + 1
    /\ gen' = next + 1
    /\ held' = [held EXCEPT ![s] = gen]
    /\ Goto(s, IF waits THEN "retiringClose" ELSE "retiring")
    /\ UNCHANGED <<refs, retired, closed>>

Retire(s) ==
    /\ pc[s] \in {"retiring", "retiringClose"}
    /\ retired' = [retired EXCEPT ![held[s]] = TRUE]
    /\ Goto(s, IF At(s, "retiring") THEN "looking" ELSE "lookingClose")
    /\ UNCHANGED <<gen, refs, closed, next, held>>

\* An idle generation is closed here; Apply leaves a busy one to its last holder,
\* Close waits for the holders first.
Idle(g) == refs[g] = 0

Look(s) ==
    /\ pc[s] \in {"looking", "lookingClose"}
    /\ Goto(s, IF Idle(held[s]) THEN "shutting"
               ELSE IF At(s, "looking") THEN "idle" ELSE "spinning")
    /\ UNCHANGED <<gen, refs, retired, closed, next, held>>

Shut(s) ==
    /\ At(s, "shutting")
    /\ CloseOnce(s)
    /\ Goto(s, "idle")
    /\ UNCHANGED <<gen, refs, retired, next, held>>

\* for old.refs.Load() > 0 { runtime.Gosched() }
Spin(s) ==
    /\ At(s, "spinning")
    /\ refs[held[s]] = 0
    /\ Goto(s, "idle")
    /\ UNCHANGED <<gen, refs, retired, closed, next, held>>

Replace(s) ==
    \/ \E waits \in BOOLEAN : Swap(s, waits)
    \/ Retire(s) \/ Look(s) \/ Shut(s) \/ Spin(s)

-----------------------------------------------------------------------------
SinkInit ==
    /\ gen = 1
    /\ refs = [g \in Gens |-> 0]
    /\ retired = [g \in Gens |-> FALSE]
    /\ closed = [g \in Gens |-> FALSE]
    /\ next = 1
    /\ pc = [p \in Procs |-> "idle"]
    /\ held = [p \in Procs |-> 1]

SinkNext ==
    \/ \E h \in Writers : Handle(h)
    \/ \E s \in Swappers : Replace(s)

SinkSpec == SinkInit /\ [][SinkNext]_sinkVars

\* Goroutines that are inside Handle, Apply or Close keep running; nobody has to
\* log or to reload.
SinkFairness ==
    /\ \A h \in Writers : WF_sinkVars(~At(h, "idle") /\ Handle(h))
    /\ \A s \in Swappers : WF_sinkVars(~At(s, "idle") /\ Replace(s))
FairSinkSpec == SinkSpec /\ SinkFairness

-----------------------------------------------------------------------------
(* Properties *)

HandlerLabels == {"idle", "loaded", "pinning", "checking", "writing", "dropping",
                  "last", "closing"}
SwapperLabels == {"idle", "retiring", "retiringClose", "looking", "lookingClose",
                  "shutting", "spinning"}
SinkTypeOK ==
    /\ gen \in Gens
    /\ refs \in [Gens -> Nat]
    /\ retired \in [Gens -> BOOLEAN]
    /\ closed \in [Gens -> BOOLEAN]
    /\ next \in Gens
    /\ pc \in [Procs -> HandlerLabels \cup SwapperLabels]
    /\ held \in [Procs -> Gens]

\* "Ref counting ensures Apply does not close previous sinks while another
\* goroutine is still inside Handle": no record goes to a file already closed.  It fails: a handler
\* may pin what the last holder has dropped and is about to close.
NoWriteAfterClose == \A h \in Writers : At(h, "writing") => ~closed[held[h]]

\* A generation's count is the number of handlers between the pin and the drop, so
\* that zero means nobody: no retry of Handle leaks or doubles a reference.
Pinned(g) ==
    {h \in Writers : held[h] = g /\ pc[h] \in {"checking", "writing", "dropping"}}
RefsCountHolders == \A g \in Gens : refs[g] = Cardinality(Pinned(g))

\* The log file in use is never closed: only what was replaced is.
CurrentOpen == ~closed[gen]

\* A replaced generation does not leak its file: somebody closes it in the end,
\* whoever comes last, holder or replacer.
ReplacedAreClosed == \A g \in Gens : retired[g] ~> closed[g]
=============================================================================
