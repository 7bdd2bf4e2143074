---------------------------- MODULE ConsoleProofs ----------------------------
(***************************************************************************)
(* What an operator reads: proofs about LogSink, the files the logger      *)
(* writes, and about Terminal.                                             *)
(*                                                                         *)
(* A log file is counted and closed right for any number of goroutines and *)
(* generations, because whoever closes one knows that it was replaced.     *)
(*                                                                         *)
(* The terminal keeps its promises for any lists, clients, keys and size   *)
(* of its log.  What is known of it is known of every command and message  *)
(* under way: the invariant speaks of all jobs of the bag, and of each key *)
(* and each message it is enough to say what it puts there.                *)
(***************************************************************************)
EXTENDS LogSink, Terminal, FiniteSetTheorems, SequenceTheorems, TLAPS

-----------------------------------------------------------------------------
(* The log files: LogSink *)

Labels == HandlerLabels \cup SwapperLabels

\* The part of the type invariant that does not count.
Shape ==
    /\ gen \in Gens
    /\ refs \in [Gens -> Int]
    /\ retired \in [Gens -> BOOLEAN]
    /\ closed \in [Gens -> BOOLEAN]
    /\ next \in Gens
    /\ pc \in [Procs -> Labels]
    /\ held \in [Procs -> Gens]

\* Generations are installed in order, each once.
InOrder == gen = next /\ \A p \in Procs : held[p] <= gen

\* A swapper that is not idle works on a generation already replaced; so does a
\* handler about to close one.
ReplacedFirst ==
    /\ \A s \in Swappers : pc[s] # "idle" => held[s] < gen
    /\ \A h \in Writers : pc[h] = "closing" => held[h] < gen

\* Only what was replaced is retired or closed.
OldOnly == \A g \in Gens : retired[g] \/ closed[g] => g < gen

\* Inductive: a generation is closed by a process that knows it was replaced.
SinkInv == Shape /\ InOrder /\ ReplacedFirst /\ OldOnly

-----------------------------------------------------------------------------
\* The initial generation is open and the only one there is.
LEMMA SinkInvInit == SinkInit => SinkInv
  BY SinkAssumption DEF SinkInit, SinkInv, Shape, InOrder, ReplacedFirst, OldOnly, Gens,
     Procs, Labels, HandlerLabels, SwapperLabels

\* A handler never touches the pointer; it closes only what it saw retired.
LEMMA SinkInvHandle ==
  ASSUME SinkInv, NEW h \in Writers, Handle(h)
  PROVE  SinkInv'
<1> h \in Procs /\ \A s \in Swappers : s # h
  BY SinkAssumption DEF Procs
<1> USE DEF SinkInv, Shape, InOrder, ReplacedFirst, OldOnly, At, Goto, Procs
<1> gen \in Int /\ Gens \subseteq Int
  BY SinkAssumption DEF Gens
<1>1. CASE LoadGen(h)
  BY <1>1 DEF LoadGen, Labels, HandlerLabels, SwapperLabels
<1>2. CASE CheckRetired(h)
  BY <1>2 DEF CheckRetired, Labels, HandlerLabels, SwapperLabels
<1>3. CASE Pin(h)
  <2>1. held[h] \in Gens /\ refs[held[h]] \in Int
    BY DEF Procs
  <2>2. refs' \in [Gens -> Int]
    BY <1>3, <2>1 DEF Pin
  <2>3. pc' \in [Procs -> Labels] /\ pc'[h] # "closing"
    BY <1>3 DEF Pin, Labels, HandlerLabels, SwapperLabels
  <2> QED
    BY <1>3, <2>2, <2>3 DEF Pin
<1>4. CASE Recheck(h)
  BY <1>4 DEF Recheck, StillCurrent, Labels, HandlerLabels, SwapperLabels
<1>5. CASE Write(h)
  BY <1>5 DEF Write, Labels, HandlerLabels, SwapperLabels
<1>6. CASE Drop(h)
  <2>1. held[h] \in Gens /\ refs[held[h]] \in Int
    BY DEF Procs
  <2>2. refs' \in [Gens -> Int]
    BY <1>6, <2>1 DEF Drop
  <2>3. pc' \in [Procs -> Labels] /\ pc'[h] # "closing"
    BY <1>6 DEF Drop, LastToDrop, Labels, HandlerLabels, SwapperLabels
  <2> QED
    BY <1>6, <2>2, <2>3 DEF Drop, LastToDrop
<1>7. CASE CheckLast(h)
  BY <1>7 DEF CheckLast, Labels, HandlerLabels, SwapperLabels
<1>8. CASE CloseLast(h)
  BY <1>8 DEF CloseLast, CloseOnce, Labels, HandlerLabels, SwapperLabels
<1> QED
  BY <1>1, <1>2, <1>3, <1>4, <1>5, <1>6, <1>7, <1>8 DEF Handle

\* A swapper installs a generation larger than every one that is retired or closed.
LEMMA SinkInvReplace ==
  ASSUME SinkInv, NEW s \in Swappers, Replace(s)
  PROVE  SinkInv'
<1> s \in Procs /\ \A h \in Writers : h # s
  BY SinkAssumption DEF Procs
<1> USE DEF SinkInv, Shape, InOrder, ReplacedFirst, OldOnly, At, Goto, Procs
<1>0. gen \in Int /\ Gens \subseteq Int /\ MaxGen \in Int
  BY SinkAssumption DEF Gens
<1>1. ASSUME NEW waits \in BOOLEAN, Swap(s, waits) PROVE SinkInv'
  <2>1. gen' = gen + 1 /\ next' = gen + 1 /\ gen' \in Gens
    BY <1>1, SinkAssumption DEF Swap, Gens
  <2>2. Shape'
    BY <1>1, <2>1 DEF Swap, Labels, SwapperLabels
  <2>3. /\ held' = [held EXCEPT ![s] = gen]
        /\ retired' = retired /\ closed' = closed
        /\ \A p \in Procs : p # s => pc'[p] = pc[p]
        /\ \A p \in Procs : held[p] \in Int
    BY <1>0, <1>1 DEF Swap
  <2>4. \A p \in Procs : held'[p] <= gen
    BY <1>0, <2>3
  <2>5. InOrder'
    BY <1>0, <2>1, <2>3, <2>4
  <2>6. ReplacedFirst'
    BY <1>0, <2>1, <2>3, <2>4
  <2>7. OldOnly'
    <3>1. \A g \in Gens : retired'[g] \/ closed'[g] => g < gen
      BY <2>3
    <3> QED
      BY <1>0, <2>1, <3>1
  <2> QED
    BY <2>2, <2>5, <2>6, <2>7
<1>2. CASE Retire(s)
  BY <1>0, <1>2 DEF Retire, Labels, HandlerLabels, SwapperLabels
<1>3. CASE Look(s)
  BY <1>3 DEF Look, Idle, Labels, HandlerLabels, SwapperLabels
<1>4. CASE Shut(s)
  BY <1>0, <1>4 DEF Shut, CloseOnce, Labels, HandlerLabels, SwapperLabels
<1>5. CASE Spin(s)
  BY <1>5 DEF Spin, Labels, HandlerLabels, SwapperLabels
<1> QED
  BY <1>1, <1>2, <1>3, <1>4, <1>5 DEF Replace

\* The invariant behind CurrentFileOpen.
LEMMA SinkInvAlways == SinkSpec => []SinkInv
<1>1. SinkInv /\ [SinkNext]_sinkVars => SinkInv'
  <2> SUFFICES ASSUME SinkInv, [SinkNext]_sinkVars PROVE SinkInv'
    OBVIOUS
  <2>1. ASSUME NEW h \in Writers, Handle(h) PROVE SinkInv'
    BY <2>1, SinkInvHandle
  <2>2. ASSUME NEW s \in Swappers, Replace(s) PROVE SinkInv'
    BY <2>2, SinkInvReplace
  <2>3. CASE UNCHANGED sinkVars
    BY <2>3 DEF sinkVars, SinkInv, Shape, InOrder, ReplacedFirst, OldOnly
  <2> QED
    BY <2>1, <2>2, <2>3 DEF SinkNext
<1> QED
  BY <1>1, SinkInvInit, PTL DEF SinkSpec

\* The file in use is never closed (Apply and Close in log.go, Handle in handler.go).
THEOREM CurrentFileOpen == SinkSpec => []CurrentOpen
<1>1. SinkInv => CurrentOpen
  BY SinkAssumption DEF SinkInv, Shape, OldOnly, CurrentOpen, Gens
<1> QED
  BY <1>1, SinkInvAlways, PTL

-----------------------------------------------------------------------------
\* What the count rests on: the shape of the state and the count itself.
Counting == Shape /\ RefsCountHolders

\* A handler that enters or leaves the pinned stretch changes one set by itself.
LEMMA PinnedFinite == \A g : IsFiniteSet(Pinned(g))
  BY SinkAssumption, FS_Subset DEF Pinned

\* A step that keeps every handler's stretch and generation keeps the counts.
LEMMA SamePinned ==
  ASSUME Counting, refs' = refs, \A g \in Gens : Pinned(g)' = Pinned(g)
  PROVE  RefsCountHolders'
  BY DEF Counting, RefsCountHolders

\* Handle pins one generation once and drops it once.
LEMMA CountHandle ==
  ASSUME SinkInv, Counting, NEW h \in Writers, Handle(h)
  PROVE  RefsCountHolders'
<1>0. h \in Procs /\ Writers \subseteq Procs
  BY DEF Procs
<1> USE DEF At, Goto
<1>1. CASE Pin(h)
  <2>1. Pinned(held[h])' = Pinned(held[h]) \cup {h} /\ h \notin Pinned(held[h])
    BY <1>0, <1>1 DEF Pin, Pinned, SinkInv, Shape
  <2>2. \A g \in Gens \ {held[h]} : Pinned(g)' = Pinned(g)
    BY <1>0, <1>1 DEF Pin, Pinned, SinkInv, Shape
  <2>3. Cardinality(Pinned(held[h])') = Cardinality(Pinned(held[h])) + 1
    BY <2>1, PinnedFinite, FS_AddElement
  <2>4. refs' = [refs EXCEPT ![held[h]] = @ + 1] /\ held[h] \in Gens
    BY <1>0, <1>1 DEF Pin, SinkInv, Shape
  <2>5. \A g \in Gens : refs[g] = Cardinality(Pinned(g)) /\ refs[g] \in Int
    BY DEF Counting, RefsCountHolders, Shape
  <2>6. refs'[held[h]] = Cardinality(Pinned(held[h])')
    BY <2>3, <2>4, <2>5 DEF Counting, Shape
  <2>7. \A g \in Gens \ {held[h]} : refs'[g] = Cardinality(Pinned(g)')
    BY <2>2, <2>4, <2>5 DEF Counting, Shape
  <2>8. held'[h] = held[h]
    BY <1>1 DEF Pin
  <2> QED
    BY <2>6, <2>7, <2>8 DEF RefsCountHolders
<1>2. CASE Drop(h)
  <2>1. Pinned(held[h])' = Pinned(held[h]) \ {h} /\ h \in Pinned(held[h])
    BY <1>0, <1>2 DEF Drop, LastToDrop, Pinned, SinkInv, Shape
  <2>2. \A g \in Gens \ {held[h]} : Pinned(g)' = Pinned(g)
    BY <1>0, <1>2 DEF Drop, LastToDrop, Pinned, SinkInv, Shape
  <2>3. Cardinality(Pinned(held[h])') = Cardinality(Pinned(held[h])) - 1
    BY <2>1, PinnedFinite, FS_RemoveElement
  <2>4. refs' = [refs EXCEPT ![held[h]] = @ - 1] /\ held[h] \in Gens
    BY <1>0, <1>2 DEF Drop, SinkInv, Shape
  <2>5. \A g \in Gens : refs[g] = Cardinality(Pinned(g)) /\ refs[g] \in Int
    BY DEF Counting, RefsCountHolders, Shape
  <2>6. refs'[held[h]] = Cardinality(Pinned(held[h])')
    BY <2>3, <2>4, <2>5 DEF Counting, Shape
  <2>7. \A g \in Gens \ {held[h]} : refs'[g] = Cardinality(Pinned(g)')
    BY <2>2, <2>4, <2>5 DEF Counting, Shape
  <2>8. held'[h] = held[h]
    BY <1>2 DEF Drop
  <2> QED
    BY <2>6, <2>7, <2>8 DEF RefsCountHolders
<1>3. ASSUME LoadGen(h) \/ CheckRetired(h) \/ Recheck(h) \/ Write(h)
             \/ CheckLast(h) \/ CloseLast(h)
      PROVE  RefsCountHolders'
  <2>1. refs' = refs
    BY <1>3 DEF LoadGen, CheckRetired, Recheck, Write, CheckLast, CloseLast
  <2>2. \A g \in Gens : Pinned(g)' = Pinned(g)
    BY <1>0, <1>3 DEF LoadGen, CheckRetired, Recheck, StillCurrent, Write, CheckLast,
       CloseLast, Pinned, SinkInv, Shape
  <2> QED
    BY <2>1, <2>2, SamePinned
<1> QED
  BY <1>1, <1>2, <1>3 DEF Handle

\* Swappers read the counts and never write them.
LEMMA CountReplace ==
  ASSUME SinkInv, Counting, NEW s \in Swappers, Replace(s)
  PROVE  RefsCountHolders'
<1>1. s \in Procs /\ Writers \subseteq Procs /\ \A h \in Writers : h # s
  BY SinkAssumption DEF Procs
<1>2. refs' = refs
  BY DEF Replace, Swap, Retire, Look, Shut, Spin
<1>3. \A h \in Writers : held'[h] = held[h] /\ pc'[h] = pc[h]
  BY <1>1 DEF Replace, Swap, Retire, Look, Shut, Spin, Goto, SinkInv, Shape
<1>4. \A g \in Gens : Pinned(g)' = Pinned(g)
  BY <1>3 DEF Pinned
<1> QED
  BY <1>2, <1>4, SamePinned

\* The reference count says how many handlers are inside (Handle in handler.go).
THEOREM RefsAreHolders == SinkSpec => []RefsCountHolders
<1>1. SinkInit => RefsCountHolders
  <2> SUFFICES ASSUME SinkInit, NEW g \in Gens PROVE refs[g] = Cardinality(Pinned(g))
    BY DEF RefsCountHolders
  <2>1. Pinned(g) = {}
    BY DEF SinkInit, Pinned, Procs
  <2> QED
    BY <2>1, FS_EmptySet DEF SinkInit
<1>2. SinkInv /\ SinkInv' /\ RefsCountHolders /\ [SinkNext]_sinkVars => RefsCountHolders'
  <2> SUFFICES ASSUME SinkInv, RefsCountHolders, [SinkNext]_sinkVars PROVE RefsCountHolders'
    OBVIOUS
  <2>0. Counting
    BY DEF Counting, SinkInv
  <2>1. ASSUME NEW h \in Writers, Handle(h) PROVE RefsCountHolders'
    BY <2>0, <2>1, CountHandle
  <2>2. ASSUME NEW s \in Swappers, Replace(s) PROVE RefsCountHolders'
    BY <2>0, <2>2, CountReplace
  <2>3. CASE UNCHANGED sinkVars
    BY <2>3 DEF sinkVars, RefsCountHolders, Pinned
  <2> QED
    BY <2>1, <2>2, <2>3 DEF SinkNext
<1> QED
  BY <1>1, <1>2, SinkInvAlways, PTL DEF SinkSpec

\* Types, and no count below zero.
THEOREM SinkTypeCorrect == SinkSpec => []SinkTypeOK
<1>1. SinkInv /\ RefsCountHolders => SinkTypeOK
  <2> SUFFICES ASSUME SinkInv, RefsCountHolders PROVE SinkTypeOK
    OBVIOUS
  <2>1. \A g \in Gens : refs[g] \in Nat
    BY PinnedFinite, FS_CardinalityType DEF RefsCountHolders
  <2>2. refs \in [Gens -> Nat]
    BY <2>1 DEF SinkInv, Shape
  <2> QED
    BY <2>2 DEF SinkInv, Shape, SinkTypeOK, Labels
<1> QED
  BY <1>1, SinkInvAlways, RefsAreHolders, PTL

-----------------------------------------------------------------------------
(* The terminal: Terminal *)

\* Who sends the log records, and what a list may hold.
Senders == {"terminal"} \cup Handlers
Rows == Items \cup Range(Topics)

\* What a modal is about: a prompt names something that was selected when "d" was pressed.
ModalOK(m) ==
    /\ m.kind \in {"confirm", "trigger", "send", "form"}
    /\ m.kind = "confirm" =>
           /\ m.list \in Editors /\ m.item \in aimed
           /\ m = [kind |-> "confirm", list |-> m.list, item |-> m.item, focus |-> m.focus]
    /\ m.kind = "trigger" => m = [kind |-> "trigger", topic |-> m.topic, focus |-> m.focus]
    /\ m.kind = "form" => m.list \in Editors

EditOK(e) == e.op = "edit" /\ e = [op |-> "edit", item |-> e.item, left |-> e.left]

\* What a command or a message carries.
JobOK(j) ==
    /\ j.op = "tick" => j = Tick
    /\ j.op = "expire" => j = Expire(j.id) /\ j.id \in 1 .. flashSeq
    /\ j.op = "open" => ModalOK(j.modal)
    /\ j.op = "remove" => j.list \in Editors /\ j.item \in aimed \cap confirmed
    /\ j.op = "add" => j.list \in Editors /\ j.item \in Items
    /\ j.op = "toggle" => j.flag \in Flags
    /\ j.op = "edit" => EditOK(j)
    /\ j.op = "mode" => j.to \in Modes
    /\ j.op = "record" =>
           /\ j = Record(j.who, j.n, j.next) /\ j.who \in Senders /\ j.n \in Nat
           /\ j.who \in Handlers => j.next = None
           /\ j.next # None => j.next = Flash \/ EditOK(j.next)

Commanded ==
    /\ IsABag(jobs)
    /\ \A j \in Pending : JobOK(j) /\ (j.op \in {"tick", "expire"} => jobs[j] = 1)
    /\ modal = None \/ ModalOK(modal)
    /\ deleted \subseteq aimed \cap confirmed
    /\ flashSeq \in Nat /\ flash \in {0, flashSeq}

Types ==
    /\ running \in BOOLEAN
    /\ config \in Config /\ config.rows["events"] = Topics
    /\ handler \in [Handlers -> {"idle", "busy", "sending"}]
    /\ loop \in {"ready", "stopping", "closing", "ended"}
    /\ active \in 1 .. 6
    /\ since \in {"never", "quit", "started"}
    /\ device \in [mode : {None} \cup Modes, focus : 0 .. 2]

Views ==
    /\ view \in [Lists -> [rows : Seq(Rows), on : SUBSET Flags, selected : Nat]]
    /\ view["events"].rows \in {<<>>, Topics}
    /\ \A l \in Lists : view[l].selected \in 0 .. Max({0, Len(view[l].rows) - 1})

\* Where the log screen begins in what has arrived.
From(a, c) == Max({c, Len(a) - LogCap})
Shown(a, c) == SubSeq(a, From(a, c) + 1, Len(a))

Logged ==
    /\ arrived \in Seq(Senders \X Nat)
    /\ cleared \in 0 .. Len(arrived)
    /\ log \in [entries : Seq(Senders \X Nat), searching : BOOLEAN]
    /\ log.entries = Shown(arrived, cleared)

InTurn ==
    /\ made \in [Handlers -> Nat]
    /\ \A i \in DOMAIN arrived : arrived[i][1] \in Handlers => arrived[i][2] <= made[arrived[i][1]]
    /\ \A i \in DOMAIN arrived, j \in DOMAIN arrived :
           i < j /\ arrived[i][1] = arrived[j][1] /\ arrived[i][1] \in Handlers
           => arrived[i][2] < arrived[j][2]
    /\ loop # "ended" =>
         \A j \in Pending : j.op = "record" /\ j.who \in Handlers =>
           /\ jobs[j] = 1 /\ handler[j.who] = "sending" /\ j.n = made[j.who]
           /\ \A i \in DOMAIN arrived : arrived[i][1] = j.who => arrived[i][2] < j.n
-----------------------------------------------------------------------------
(* Bags *)

LEMMA Added ==
  ASSUME IsABag(jobs), NEW new, Adding(new)
  PROVE  /\ IsABag(jobs') /\ Pending' = Pending \cup new
         /\ \A i \in Pending' : jobs'[i] = (IF i \in Pending THEN jobs[i] ELSE 0)
                                           + (IF i \in new THEN 1 ELSE 0)
  BY DEF Adding, Pending, IsABag, BagToSet, SetToBag, (+)

\* The bag after a job was taken and others put in its place.
LEMMA Replaced ==
  ASSUME IsABag(jobs), NEW j \in Pending, NEW new, Instead(j, new)
  PROVE  /\ IsABag(jobs') /\ Pending' \subseteq Pending \cup new
         /\ \A i \in Pending' : jobs'[i] = (IF i \in Pending THEN jobs[i] ELSE 0)
                                  - (IF i = j THEN 1 ELSE 0) + (IF i \in new THEN 1 ELSE 0)
         /\ jobs[j] = 1 /\ j \notin new => j \notin Pending'
  BY DEF Instead, Pending, IsABag, BagToSet, SetToBag, (+), (-)

\* What is known of a job and of a modal stays true while the histories grow.
Grows == aimed \subseteq aimed' /\ confirmed \subseteq confirmed'
         /\ flashSeq \in Nat /\ flashSeq' \in Nat /\ flashSeq <= flashSeq'

\* What a modal is about stays right as more is selected and confirmed.
LEMMA ModalStays == ASSUME Grows, NEW m, ModalOK(m) PROVE ModalOK(m)'
  BY DEF Grows, ModalOK

\* What a job carries stays right as more is selected and confirmed.
LEMMA JobStays == ASSUME Grows, NEW j, JobOK(j) PROVE JobOK(j)'
<1>1. j.op = "open" => ModalOK(j.modal)'
  BY ModalStays DEF JobOK
<1>2. j.op = "expire" => j.id \in 1 .. flashSeq'
  BY DEF JobOK, Grows
<1> QED
  BY <1>1, <1>2 DEF JobOK, Grows

\* What commands and keys add to the jobs: neither ticks, timers nor records of requests.
Plain(i) == JobOK(i) /\ i.op \notin {"tick", "expire"} /\ (i.op = "record" => i.who = "terminal")

\* Such is the message that sets a text of the status bar.
LEMMA FlashPlain == Plain(Flash)
  BY DEF Plain, JobOK, Flash

\* Such is the record of a mutation that the terminal made.
LEMMA ReportPlain ==
  ASSUME NEW e, e = Flash \/ EditOK(e)
  PROVE  Plain(Reporting(e))
<1>1. Plain(e)
  BY FlashPlain DEF Plain, EditOK, JobOK
<1>2. Plain(Record("terminal", 0, e))
  <2>1. "terminal" \in Senders /\ "terminal" \notin Handlers
    BY TerminalAssumption DEF Senders
  <2> QED
    BY <2>1 DEF Plain, JobOK, Record
<1> QED
  BY <1>1, <1>2 DEF Reporting

\* A command is replaced by plain messages.
LEMMA ExecuteEmits ==
  ASSUME Commanded, NEW j, Execute(j)
  PROVE  /\ j \in Pending /\ ~IsMessage(j)
         /\ \E new : Instead(j, new) /\ \A i \in new : Plain(i)
<1>1. j \in Pending /\ JobOK(j)
  BY DEF Execute, Commanded
<1>2. ASSUME NEW e, e = Flash \/ EditOK(e), Instead(j, {Reporting(e)})
      PROVE  \E new : Instead(j, new) /\ \A i \in new : Plain(i)
  BY <1>2, ReportPlain
<1>3. ASSUME Instead(j, {Flash})
      PROVE  \E new : Instead(j, new) /\ \A i \in new : Plain(i)
  BY <1>3, FlashPlain
<1>4. CASE RemoveItem(j) \/ AddItem(j) \/ Toggle(j) \/ SetMode(j)
  BY <1>1, <1>2, <1>4 DEF RemoveItem, AddItem, Toggle, SetMode, IsMessage, Messages
<1>5. CASE Edit(j)
  <2>1. EditOK(j)
    BY <1>1, <1>5 DEF JobOK, Edit
  <2>2. EditOK([j EXCEPT !.left = @ - 1])
    BY <2>1 DEF EditOK
  <2>3. PICK e : e = IF j.left = 1 THEN Flash ELSE [j EXCEPT !.left = @ - 1]
    OBVIOUS
  <2>4. Instead(j, {Reporting(e)}) /\ (e = Flash \/ EditOK(e))
    BY <1>5, <2>2, <2>3 DEF Edit
  <2> QED
    BY <1>1, <1>2, <1>5, <2>4 DEF Edit, IsMessage, Messages
<1>6. CASE Fire(j)
  <2>1. Instead(j, {Reporting(Flash)}) \/ Instead(j, {Flash})
    BY <1>6 DEF Fire
  <2> QED
    BY <1>1, <1>2, <1>3, <1>6, <2>1 DEF Fire, IsMessage, Messages
<1>7. CASE Start(j) \/ Stop(j) \/ Fail(j)
  BY <1>1, <1>3, <1>7 DEF Start, Stop, Fail, IsMessage, Messages
<1>8. CASE Refresh(j)
  <2>1. Plain(Status(running))
    BY DEF Plain, JobOK, Status
  <2> QED
    BY <1>1, <1>8, <2>1 DEF Refresh, IsMessage, Messages
<1> QED
  BY <1>4, <1>5, <1>6, <1>7, <1>8 DEF Execute

Emits == UNCHANGED jobs \/ \E new : Adding(new) /\ \A i \in new : Plain(i)'

\* One plain job is something to emit.
LEMMA EmitOne ==
  ASSUME NEW i, Adding({i}), Plain(i)'
  PROVE  Emits
  BY DEF Emits

\* A key only adds to what was selected and confirmed; it shows no text and deletes nothing.
LEMMA PressGrows ==
  ASSUME Commanded, NEW k, Press(k)
  PROVE  Grows /\ flashSeq' = flashSeq /\ flash' = flash /\ deleted' = deleted
<1>1. flashSeq \in Nat /\ flashSeq' = flashSeq /\ flash' = flash /\ deleted' = deleted
  BY DEF Commanded, Press, bar
<1>2. CASE modal # None /\ ModalKey(k)
  <2>1. aimed' = aimed
    BY <1>2 DEF ModalKey
  <2>2. confirmed \subseteq confirmed'
    BY <1>2 DEF ModalKey, ConfirmKey, TriggerKey, SendKey, FormKey
  <2> QED
    BY <1>1, <2>1, <2>2 DEF Grows
<1>3. CASE GlobalKey(k)
  BY <1>1, <1>3 DEF GlobalKey, Grows
<1>4. CASE ScreenKey(k)
  <2>1. confirmed' = confirmed
    BY <1>4 DEF ScreenKey
  <2>2. aimed \subseteq aimed'
    BY <1>4 DEF ScreenKey, DashboardKey, EventsKey, EditorKey, DeviceKey, LogKey, MoveKey,
       AskDelete
  <2> QED
    BY <1>1, <2>1, <2>2 DEF Grows
<1> QED
  BY <1>2, <1>3, <1>4 DEF Press

\* Such is the message that closes a modal.
LEMMA ClosePlain == ASSUME Grows PROVE Plain(Close)'
  BY DEF Plain, JobOK, Close

\* A modal that ends emits what it ends with.
LEMMA CloseEmits ==
  ASSUME Grows, NEW new, CloseWith(new), \A i \in new : Plain(i)'
  PROVE  Emits /\ modal' = None
  BY ClosePlain DEF Emits, CloseWith

\* A modal asks for what it was opened for, and is closed.
LEMMA ModalEmits ==
  ASSUME Commanded, Grows, modal # None, NEW k, ModalKey(k)
  PROVE  Emits /\ (modal' = None \/ ModalOK(modal)')
<1>1. PICK m : m = modal
  OBVIOUS
<1>2. ModalOK(m) /\ ModalOK(m)'
  BY <1>1, ModalStays DEF Commanded
<1>3. CASE ConfirmKey(k)
  <2>1. PICK yes : /\ yes = ((k = "y") \/ (k = "enter" /\ modal.focus = 0))
                   /\ \/ yes /\ CloseWith({Yes})
                      \/ k \in {"n", "enter"} /\ ~yes /\ CloseWith({})
                      \/ k \in {"left", "right", "tab"} /\ UNCHANGED jobs
                         /\ modal' = [modal EXCEPT !.focus = 1 - @]
                   /\ confirmed' = IF yes THEN confirmed \cup {modal.item} ELSE confirmed
    BY <1>3 DEF ConfirmKey
  <2>2. m.kind = "confirm"
    BY <1>1, <1>3 DEF ConfirmKey
  <2>3. CASE yes /\ CloseWith({Yes})
    <3>1. PICK i : i = [op |-> "remove", list |-> m.list, item |-> m.item]
      OBVIOUS
    <3>2. Yes = i
      BY <1>1, <3>1 DEF Yes
    <3>3. m.item \in aimed' \cap confirmed' /\ m.list \in Editors
      BY <1>1, <1>2, <2>1, <2>2, <2>3 DEF ModalOK
    <3>4. Plain(i)'
      BY <3>1, <3>3 DEF Plain, JobOK
    <3> QED
      BY <2>3, <3>2, <3>4, CloseEmits
  <2>4. CASE CloseWith({})
    BY <2>4, CloseEmits
  <2>5. CASE UNCHANGED jobs /\ modal' = [modal EXCEPT !.focus = 1 - @]
    <3>1. PICK n : n = [m EXCEPT !.focus = 1 - m.focus]
      OBVIOUS
    <3>2. ModalOK(n)'
      BY <1>2, <2>2, <3>1 DEF ModalOK
    <3> QED
      BY <1>1, <2>5, <3>1, <3>2 DEF Emits
  <2> QED
    BY <2>1, <2>3, <2>4, <2>5
<1>4. ASSUME NEW i, i = [op |-> "fire", topic |-> m.topic] PROVE Plain(i)'
  BY <1>4 DEF Plain, JobOK
<1>5. CASE TriggerKey(k)
  <2>1. CASE CloseWith({[op |-> "fire", topic |-> modal.topic]})
    BY <1>1, <1>4, <2>1, CloseEmits
  <2>2. ASSUME NEW by, UNCHANGED jobs, modal' = [modal EXCEPT !.focus = (@ + by) % 3]
        PROVE  Emits /\ ModalOK(modal)'
    <3>1. PICK n : n = [m EXCEPT !.focus = (m.focus + by) % 3]
      OBVIOUS
    <3>2. ModalOK(n)'
      BY <1>1, <1>2, <1>5, <3>1 DEF ModalOK, TriggerKey
    <3> QED
      BY <1>1, <2>2, <3>1, <3>2 DEF Emits
  <2> QED
    BY <1>5, <2>1, <2>2 DEF TriggerKey
<1>6. CASE SendKey(k)
  BY <1>1, <1>4, <1>6, CloseEmits DEF SendKey
<1>8. CASE FormKey(k)
  <2>1. m.list \in Editors \/ m.kind # "form"
    BY <1>2 DEF ModalOK
  <2>2. CASE CloseWith({[op |-> "edit", item |-> modal.item, left |-> 3]})
    <3>1. PICK i : i = [op |-> "edit", item |-> m.item, left |-> 3]
      OBVIOUS
    <3>2. Plain(i)'
      BY <3>1 DEF Plain, JobOK, EditOK
    <3> QED
      BY <1>1, <2>2, <3>1, <3>2, CloseEmits
  <2>3. ASSUME NEW x \in Items, CloseWith({[op |-> "add", list |-> modal.list, item |-> x]})
        PROVE  Emits /\ modal' = None
    <3>1. PICK i : i = [op |-> "add", list |-> m.list, item |-> x]
      OBVIOUS
    <3>2. Plain(i)'
      BY <1>1, <1>8, <2>1, <3>1 DEF Plain, JobOK, FormKey
    <3> QED
      BY <1>1, <2>3, <3>1, <3>2, CloseEmits
  <2>4. CASE CloseWith({Flash})
    <3>1. Plain(Flash)'
      BY DEF Plain, JobOK, Flash
    <3> QED
      BY <2>4, <3>1, CloseEmits
  <2>5. CASE UNCHANGED <<modal, jobs>>
    BY <1>1, <1>2, <2>5 DEF Emits
  <2> QED
    BY <1>8, <2>2, <2>3, <2>4, <2>5 DEF FormKey
<1>7. CASE k = "esc" /\ CloseWith({})
  BY <1>7, CloseEmits
<1> QED
  BY <1>3, <1>5, <1>6, <1>7, <1>8 DEF ModalKey

\* The larger of two numbers, as CHOOSE gives it.
LEMMA MaxOfTwo ==
  ASSUME NEW a \in Int, NEW b \in Int
  PROVE  Max({a, b}) = IF a >= b THEN a ELSE b
  BY DEF Max

\* The selection of a list that is not empty is on one of its rows.
LEMMA OnARow ==
  ASSUME Views, NEW l \in Lists, view[l].rows # <<>>
  PROVE  /\ Len(view[l].rows) \in Nat
         /\ view[l].selected + 1 \in 1 .. Len(view[l].rows)
         /\ Selected(l) \in Range(view[l].rows)
<1>1. PICK rows : rows = view[l].rows
  OBVIOUS
<1>2. rows \in Seq(Rows) /\ rows # <<>> /\ Len(rows) \in Nat /\ Len(rows) > 0
  BY <1>1 DEF Views
<1>3. Max({0, Len(rows) - 1}) = Len(rows) - 1
  BY <1>2, MaxOfTwo
<1>4. view[l].selected \in 0 .. Max({0, Len(rows) - 1})
  BY <1>1 DEF Views
<1>5. view[l].selected + 1 \in 1 .. Len(rows)
  BY <1>2, <1>3, <1>4
<1>6. Selected(l) = rows[view[l].selected + 1]
  BY <1>1 DEF Selected
<1> QED
  BY <1>1, <1>2, <1>5, <1>6 DEF Range

\* A screen asks for what it shows.
LEMMA ScreenEmits ==
  ASSUME Commanded, Views, Grows, NEW k, ScreenKey(k)
  PROVE  Emits
<1>0. "events" \in Lists /\ Editors \subseteq Lists
  BY DEF Lists, Editors
<1>1. CASE DashboardKey(k)
  <2>1. PICK op : op \in {"refresh", "stop", "start"} /\ Adding({[op |-> op]})
    BY <1>1 DEF DashboardKey
  <2>2. Plain([op |-> op])'
    BY <2>1 DEF Plain, JobOK
  <2> QED
    BY <2>1, <2>2 DEF Emits
<1>2. CASE EventsKey(k)
  <2>1. CASE MoveKey("events", k)
    BY <2>1 DEF MoveKey, Emits
  <2>2. CASE view["events"].rows # <<>> /\ ~MoveKey("events", k)
    <3>1. PICK t : t = Selected("events")
      OBVIOUS
    <3>2. t \in Range(Topics)
      BY <1>0, <2>2, <3>1, OnARow DEF Views
    <3>3. t \in Flags
      BY <3>2 DEF Flags
    <3>4. PICK i : /\ Adding({i})
                   /\ \/ \E to \in BOOLEAN : i = [op |-> "toggle", flag |-> t, to |-> to]
                      \/ i = Open([kind |-> "trigger", topic |-> t, focus |-> 0])
                      \/ i = Open([kind |-> "send", topic |-> t])
                      \/ i = Flash
      BY <1>2, <2>2, <3>1 DEF EventsKey
    <3>5. Plain(i)'
      BY <3>3, <3>4 DEF Plain, JobOK, ModalOK, Open, Flash
    <3> QED
      BY <3>4, <3>5 DEF Emits
  <2> QED
    BY <1>2, <2>1, <2>2 DEF EventsKey
<1>3. ASSUME NEW l \in Editors, EditorKey(l, k) PROVE Emits
  <2>1. CASE MoveKey(l, k)
    BY <2>1 DEF MoveKey, Emits
  <2>2. CASE AskDelete(l, k)
    <3>1. PICK x : x = Selected(l)
      OBVIOUS
    <3>2. PICK i : i = Open(Confirm(l, x))
      OBVIOUS
    <3>3. x \in aimed' /\ Adding({i})
      BY <2>2, <3>1, <3>2 DEF AskDelete
    <3>4. Plain(i)'
      BY <3>2, <3>3 DEF Plain, JobOK, ModalOK, Open, Confirm
    <3> QED
      BY <3>3, <3>4 DEF Emits
  <2>3. CASE Adding({Open(Form(l, None))})
    <3>1. PICK i : i = Open(Form(l, None))
      OBVIOUS
    <3>2. Plain(i)'
      BY <3>1 DEF Plain, JobOK, ModalOK, Open, Form
    <3> QED
      BY <2>3, <3>1, <3>2 DEF Emits
  <2>4. CASE Adding({Open(Form(l, Selected(l)))})
    <3>1. PICK i, x : x = Selected(l) /\ i = Open(Form(l, x))
      OBVIOUS
    <3>2. Plain(i)'
      BY <3>1 DEF Plain, JobOK, ModalOK, Open, Form
    <3> QED
      BY <2>4, <3>1, <3>2 DEF Emits
  <2>5. CASE Adding({[op |-> "toggle", flag |-> "auth", to |-> "auth" \notin view[l].on]})
    <3>1. PICK i : i = [op |-> "toggle", flag |-> "auth", to |-> "auth" \notin view[l].on]
      OBVIOUS
    <3>2. Plain(i)'
      BY <3>1 DEF Plain, JobOK, Flags
    <3> QED
      BY <2>5, <3>1, <3>2 DEF Emits
  <2> QED
    BY <1>3, <2>1, <2>2, <2>3, <2>4, <2>5 DEF EditorKey
<1>4. CASE DeviceKey(k)
  <2>1. PICK mode \in Modes : Adding({[op |-> "mode", to |-> mode]}) \/ UNCHANGED jobs
    BY <1>4 DEF DeviceKey, Modes
  <2>2. Plain([op |-> "mode", to |-> mode])'
    BY <2>1 DEF Plain, JobOK
  <2> QED
    BY <2>1, <2>2 DEF Emits
<1>5. CASE LogKey(k)
  BY <1>5 DEF LogKey, Emits
<1> QED
  BY <1>1, <1>2, <1>3, <1>4, <1>5 DEF ScreenKey

\* A key emits plain jobs, whatever modal or screen it reaches.
LEMMA PressEmits ==
  ASSUME Commanded, Views, NEW k, Press(k)
  PROVE  Emits /\ (modal' = None \/ ModalOK(modal)')
<1>1. Grows
  BY PressGrows
<1>2. CASE modal # None /\ ModalKey(k)
  BY <1>1, <1>2, ModalEmits
<1>3. CASE GlobalKey(k)
  <2>1. Plain(QuitMsg)'
    BY DEF Plain, JobOK, QuitMsg
  <2>2. Emits /\ modal' = modal
    BY <1>3, <2>1 DEF GlobalKey, Quit, Emits
  <2> QED
    BY <1>1, <2>2, ModalStays DEF Commanded
<1>4. CASE ScreenKey(k)
  <2>1. modal' = modal
    BY <1>4 DEF ScreenKey
  <2> QED
    BY <1>1, <1>4, <2>1, ScreenEmits, ModalStays DEF Commanded
<1> QED
  BY <1>2, <1>3, <1>4 DEF Press

JobsOK == IsABag(jobs)
          /\ \A j \in Pending : JobOK(j) /\ (j.op \in {"tick", "expire"} => jobs[j] = 1)

\* Putting plain jobs for another keeps the bag in order.
LEMMA ReplacedOK ==
  ASSUME JobsOK, Grows, NEW j \in Pending, NEW new, Instead(j, new), \A i \in new : Plain(i)'
  PROVE  JobsOK'
<1>1. /\ IsABag(jobs') /\ Pending' \subseteq Pending \cup new
      /\ \A i \in Pending' : jobs'[i] = (IF i \in Pending THEN jobs[i] ELSE 0)
                               - (IF i = j THEN 1 ELSE 0) + (IF i \in new THEN 1 ELSE 0)
      /\ jobs[j] = 1 /\ j \notin new => j \notin Pending'
  BY Replaced DEF JobsOK
<1>2. ASSUME NEW i \in Pending' PROVE JobOK(i)'
  BY <1>1, <1>2, JobStays DEF JobsOK, Plain
<1>3. ASSUME NEW i \in Pending', i.op \in {"tick", "expire"} PROVE jobs'[i] = 1
  <2>1. i \notin new
    BY <1>3 DEF Plain
  <2>2. i \in Pending /\ jobs[i] = 1
    BY <1>1, <1>3, <2>1 DEF JobsOK
  <2>3. i # j
    BY <1>1, <2>1, <2>2
  <2> QED
    BY <1>1, <2>1, <2>2, <2>3
<1> QED
  BY <1>1, <1>2, <1>3 DEF JobsOK

\* So does adding plain jobs to it.
LEMMA AddedOK ==
  ASSUME JobsOK, Grows, Emits
  PROVE  JobsOK'
<1>1. CASE UNCHANGED jobs
  BY <1>1, JobStays DEF JobsOK, Pending
<1>2. ASSUME NEW new, Adding(new), \A i \in new : Plain(i)' PROVE JobsOK'
  <2>1. /\ IsABag(jobs') /\ Pending' = Pending \cup new
        /\ \A i \in Pending' : jobs'[i] = (IF i \in Pending THEN jobs[i] ELSE 0)
                                          + (IF i \in new THEN 1 ELSE 0)
    BY <1>2, Added DEF JobsOK
  <2>2. ASSUME NEW i \in Pending' PROVE JobOK(i)'
    BY <1>2, <2>1, <2>2, JobStays DEF JobsOK, Plain
  <2>3. ASSUME NEW i \in Pending', i.op \in {"tick", "expire"} PROVE jobs'[i] = 1
    <3>1. i \notin new
      BY <1>2, <2>3 DEF Plain
    <3> QED
      BY <2>1, <2>3, <3>1 DEF JobsOK
  <2> QED
    BY <2>1, <2>2, <2>3 DEF JobsOK
<1> QED
  BY <1>1, <1>2 DEF Emits

\* Commanded survives a command that runs.
LEMMA CommandedExecute ==
  ASSUME Commanded, NEW j, Execute(j)
  PROVE  Commanded'
<1>1. Grows /\ UNCHANGED <<modal, flash, flashSeq, aimed, confirmed>>
  BY DEF Commanded, Execute, bar, Grows
<1>2. JobsOK'
  <2>1. PICK new : Instead(j, new) /\ \A i \in new : Plain(i)
    BY ExecuteEmits
  <2>2. \A i \in new : Plain(i)'
    BY <1>1, <2>1, JobStays DEF Plain
  <2> QED
    BY <1>1, <2>1, <2>2, ExecuteEmits, ReplacedOK DEF Commanded, JobsOK
<1>3. deleted' \subseteq aimed \cap confirmed
  <2>1. CASE RemoveItem(j)
    <3>1. j.item \in aimed \cap confirmed /\ deleted' = deleted \cup {j.item}
      BY <2>1 DEF RemoveItem, Execute, Commanded, JobOK
    <3> QED
      BY <3>1 DEF Commanded
  <2>2. CASE ~RemoveItem(j)
    BY <2>2 DEF Execute, AddItem, Edit, Toggle, SetMode, Fire, Start, Stop, Refresh, Fail,
       Commanded
  <2> QED
    BY <2>1, <2>2
<1>4. modal' = None \/ ModalOK(modal)'
  BY <1>1, ModalStays DEF Commanded
<1> QED
  BY <1>1, <1>2, <1>3, <1>4 DEF Commanded, JobsOK

\* It survives a key.
LEMMA CommandedPress ==
  ASSUME Commanded, Views, NEW k, Press(k)
  PROVE  Commanded'
<1>1. Grows /\ flashSeq' = flashSeq /\ flash' = flash /\ deleted' = deleted
  BY PressGrows
<1>2. Emits /\ (modal' = None \/ ModalOK(modal)')
  BY PressEmits
<1>3. JobsOK'
  BY <1>1, <1>2, AddedOK DEF Commanded, JobsOK
<1>4. deleted' \subseteq aimed' \cap confirmed'
  BY <1>1 DEF Grows, Commanded
<1> QED
  BY <1>1, <1>2, <1>3, <1>4 DEF Commanded, JobsOK

\* The loop puts plain jobs for the message it takes, and starts timers of fresh texts only.
LEMMA JobsTake ==
  ASSUME Commanded, NEW j, Take(j)
  PROVE  Grows /\ JobsOK'
<1>1. j \in Pending /\ JobOK(j) /\ JobsOK /\ UNCHANGED <<aimed, confirmed>>
  BY DEF Take, Commanded, JobsOK
<1>2. ASSUME flashSeq' = flashSeq, NEW new, Instead(j, new), \A i \in new : Plain(i)
      PROVE  Grows /\ JobsOK'
  <2>1. Grows
    BY <1>1, <1>2 DEF Grows, Commanded
  <2>2. \A i \in new : Plain(i)'
    BY <1>2, <2>1, JobStays DEF Plain
  <2> QED
    BY <1>1, <1>2, <2>1, <2>2, ReplacedOK
<1>3. CASE TakeTick(j)
  <2>1. Instead(Tick, {Tick}) /\ j = Tick /\ flashSeq' = flashSeq
    BY <1>3 DEF TakeTick, bar
  <2>2. Grows
    BY <1>1, <2>1 DEF Grows, Commanded
  <2>3. /\ IsABag(jobs') /\ Pending' \subseteq Pending
        /\ \A i \in Pending' : jobs'[i] = jobs[i]
    <3>1. /\ IsABag(jobs') /\ Pending' \subseteq Pending \cup {Tick}
          /\ \A i \in Pending' : jobs'[i] = (IF i \in Pending THEN jobs[i] ELSE 0)
                                 - (IF i = Tick THEN 1 ELSE 0) + (IF i \in {Tick} THEN 1 ELSE 0)
      BY <1>1, <2>1, Replaced DEF JobsOK
    <3>2. \A i \in Pending : jobs[i] \in Nat
      BY <1>1 DEF JobsOK, IsABag, Pending, BagToSet
    <3> QED
      BY <1>1, <2>1, <3>1, <3>2
  <2> QED
    BY <1>1, <2>2, <2>3, JobStays DEF JobsOK
<1>4. CASE TakeStatus(j) \/ TakeExpire(j) \/ TakeOpen(j) \/ TakeClose(j) \/ TakeQuit(j)
  <2>1. Instead(j, {}) /\ flashSeq' = flashSeq
    BY <1>4 DEF TakeStatus, TakeExpire, TakeOpen, TakeClose, TakeQuit, bar
  <2> QED
    BY <1>2, <2>1
<1>5. CASE TakeRecord(j)
  <2>1. PICK e : e = j.next
    OBVIOUS
  <2>2. Instead(j, {e} \ {None}) /\ flashSeq' = flashSeq
    BY <1>5, <2>1 DEF TakeRecord, bar
  <2>3. e # None => Plain(e)
    <3>1. e # None => e = Flash \/ EditOK(e)
      BY <1>1, <1>5, <2>1 DEF TakeRecord, JobOK
    <3>2. EditOK(e) => Plain(e)
      BY DEF EditOK, Plain, JobOK
    <3> QED
      BY <3>1, <3>2, FlashPlain
  <2> QED
    BY <1>2, <2>2, <2>3
<1>6. CASE TakeFlash(j)
  <2>1. PICK n : n = flashSeq + 1
    OBVIOUS
  <2>2. PICK e : e = Expire(n)
    OBVIOUS
  <2>3. Instead(j, {e}) /\ flashSeq' = n /\ n \in Nat /\ j = Flash
    BY <1>6, <2>1, <2>2 DEF TakeFlash, SetFlash, Commanded
  <2>4. Grows
    BY <1>1, <2>1, <2>3 DEF Grows, Commanded
  <2>5. /\ IsABag(jobs') /\ Pending' \subseteq Pending \cup {e}
        /\ \A i \in Pending' : jobs'[i] = (IF i \in Pending THEN jobs[i] ELSE 0)
                               - (IF i = j THEN 1 ELSE 0) + (IF i \in {e} THEN 1 ELSE 0)
    BY <1>1, <2>3, Replaced DEF JobsOK
  <2>6. e \notin Pending /\ e.op = "expire" /\ e.id = n
    BY <2>1, <2>2 DEF Commanded, JobOK, Expire
  <2>7. JobOK(e)'
    BY <2>1, <2>2, <2>3 DEF JobOK, Expire, Commanded
  <2>8. \A i \in Pending' : JobOK(i)'
    BY <1>1, <2>4, <2>5, <2>7, JobStays DEF JobsOK
  <2>9. ASSUME NEW i \in Pending', i.op \in {"tick", "expire"} PROVE jobs'[i] = 1
    <3>1. i # j
      BY <2>3, <2>9 DEF Flash
    <3>2. i # e => i \in Pending /\ jobs[i] = 1
      BY <1>1, <2>5, <2>9 DEF JobsOK
    <3> QED
      BY <2>5, <2>6, <3>1, <3>2
  <2> QED
    BY <2>4, <2>5, <2>8, <2>9 DEF JobsOK
<1> QED
  BY <1>3, <1>4, <1>5, <1>6 DEF Take

\* So it survives a message that is taken.
LEMMA CommandedTake ==
  ASSUME Commanded, NEW j, Take(j)
  PROVE  Commanded'
<1>1. Grows /\ JobsOK'
  BY JobsTake
<1>2. UNCHANGED <<aimed, confirmed, deleted>>
  BY DEF Take
<1>3. flashSeq' \in Nat /\ flash' \in {0, flashSeq'}
  BY DEF Take, TakeTick, TakeStatus, TakeRecord, TakeFlash, TakeExpire, TakeOpen, TakeClose,
     TakeQuit, SetFlash, Commanded, bar
<1>4. modal' = None \/ ModalOK(modal)'
  <2>1. CASE TakeOpen(j)
    <3>1. PICK m : m = j.modal
      OBVIOUS
    <3>2. ModalOK(m)
      BY <2>1, <3>1 DEF Take, Commanded, JobOK, TakeOpen
    <3> QED
      BY <1>1, <2>1, <3>1, <3>2, ModalStays DEF TakeOpen
  <2>2. CASE ~TakeOpen(j)
    <3>1. modal' = modal \/ modal' = None
      BY <2>2 DEF Take, TakeTick, TakeStatus, TakeRecord, TakeFlash, TakeExpire, TakeClose,
         TakeQuit
    <3> QED
      BY <1>1, <3>1, ModalStays DEF Commanded
  <2> QED
    BY <2>1, <2>2
<1> QED
  BY <1>1, <1>2, <1>3, <1>4 DEF Commanded, JobsOK

\* It survives what clients and Stop do.
LEMMA CommandedRequests ==
  ASSUME Commanded, made \in [Handlers -> Nat],
         \/ ShutdownReturns \/ StopReturns
         \/ \E h \in Handlers : Request(h) \/ Serve(h) \/ Released(h)
  PROVE  Commanded'
<1>1. UNCHANGED <<modal, flash, flashSeq, aimed, confirmed, deleted>> /\ Grows
  <2>1. UNCHANGED <<modal, flash, flashSeq, aimed, confirmed, deleted>>
    BY DEF ShutdownReturns, StopReturns, Request, Serve, Released, history, bar
  <2> QED
    BY <2>1 DEF Grows, Commanded
<1>2. CASE UNCHANGED jobs
  BY <1>1, <1>2, AddedOK, ModalStays DEF Emits, Commanded, JobsOK
<1>3. CASE StopReturns
  <2>1. Plain(QuitMsg)'
    BY DEF Plain, JobOK, QuitMsg
  <2>2. Emits
    BY <1>3, <2>1 DEF StopReturns, Emits
  <2> QED
    BY <1>1, <2>2, AddedOK, ModalStays DEF Commanded, JobsOK
<1>4. ASSUME NEW h \in Handlers, Serve(h), jobs' # jobs
      PROVE  Commanded'
  <2>1. PICK e : e = Record(h, made[h] + 1, None)
    OBVIOUS
  <2>2. Adding({e})
    BY <1>4, <2>1 DEF Serve
  <2>3. JobOK(e)' /\ e.op = "record"
    BY <2>1 DEF JobOK, Record, Senders
  <2>4. /\ IsABag(jobs') /\ Pending' = Pending \cup {e}
        /\ \A i \in Pending' : jobs'[i] = (IF i \in Pending THEN jobs[i] ELSE 0)
                                          + (IF i \in {e} THEN 1 ELSE 0)
    BY <2>2, Added DEF Commanded
  <2>5. \A i \in Pending' : JobOK(i)'
    BY <1>1, <2>3, <2>4, JobStays DEF Commanded
  <2>6. \A i \in Pending' : i.op \in {"tick", "expire"} => jobs'[i] = 1
    BY <2>3, <2>4 DEF Commanded
  <2> QED
    BY <1>1, <2>4, <2>5, <2>6, ModalStays DEF Commanded
<1> QED
  BY <1>2, <1>3, <1>4 DEF ShutdownReturns, Request, Released

\* It holds at first, with one tick under way.
LEMMA CommandedInit == Init => Commanded
<1> SUFFICES ASSUME Init PROVE Commanded
  OBVIOUS
<1>1. Pending = {Tick} /\ IsABag(jobs) /\ jobs[Tick] = 1
  <2>1. jobs = [e \in {Tick} |-> 1]
    BY DEF Init, SetToBag
  <2> QED
    BY <2>1 DEF Pending, BagToSet, IsABag
<1>2. JobOK(Tick)
  BY DEF JobOK, Tick
<1> QED
  BY <1>1, <1>2 DEF Init, Commanded

\* So every step keeps it.
LEMMA CommandedNext ==
  ASSUME Commanded, Views, made \in [Handlers -> Nat], Next
  PROVE  Commanded'
BY CommandedExecute, CommandedTake, CommandedPress, CommandedRequests DEF Next

\* Nothing but its own timer wipes the text of the status bar.
LEMMA FlashStep ==
  ASSUME Commanded, Next, flash # 0, flash' # flash
  PROVE  IF flash' = 0 THEN Expire(flash) \in Pending /\ Expire(flash) \notin Pending'
                       ELSE flash' > flash
<1>1. PICK j : Take(j)
  BY DEF Next, Execute, Press, ShutdownReturns, StopReturns, Request, Serve, Released, bar
<1>2. TakeFlash(j) \/ TakeExpire(j)
  BY <1>1 DEF Take, TakeTick, TakeStatus, TakeRecord, TakeOpen, TakeClose, TakeQuit, bar
<1>3. flash = flashSeq /\ flashSeq \in Nat
  BY DEF Commanded
<1>4. CASE TakeFlash(j)
  BY <1>3, <1>4 DEF TakeFlash, SetFlash
<1>5. CASE TakeExpire(j)
  <2>1. j \in Pending /\ j = Expire(j.id) /\ jobs[j] = 1
    BY <1>1, <1>5 DEF Take, TakeExpire, Commanded, JobOK
  <2>2. j.id = flashSeq /\ flash' = 0
    BY <1>3, <1>5 DEF TakeExpire
  <2>3. j \notin Pending'
    BY <1>5, <2>1, Replaced DEF TakeExpire, Commanded
  <2> QED
    BY <1>3, <2>1, <2>2, <2>3
<1> QED
  BY <1>2, <1>4, <1>5
-----------------------------------------------------------------------------
(* Configuration and screens *)

LEMMA WithoutRow ==
  ASSUME NEW S, NEW rows \in Seq(S), NEW x \in Range(rows)
  PROVE  Without(rows, x) \in Seq(S)
<1>1. PICK i : i = CHOOSE k \in DOMAIN rows : rows[k] = x
  OBVIOUS
<1>2. i \in 1 .. Len(rows)
  BY <1>1 DEF Range
<1>3. SubSeq(rows, 1, i - 1) \in Seq(S) /\ SubSeq(rows, i + 1, Len(rows)) \in Seq(S)
  BY <1>2
<1> QED
  BY <1>1, <1>3 DEF Without, RemoveAt

\* A configuration is its three parts.
LEMMA ConfigMade ==
  ASSUME NEW rows \in [Lists -> Seq(Rows)], NEW on \in SUBSET Flags, NEW mode \in Modes
  PROVE  [rows |-> rows, on |-> on, mode |-> mode] \in Config
  BY DEF Config, Rows

\* New rows of an editor's list leave the topics.
LEMMA OtherRows ==
  ASSUME config \in Config, config.rows["events"] = Topics,
         NEW l \in Editors, NEW s \in Seq(Rows), config' = [config EXCEPT !.rows[l] = s]
  PROVE  config' \in Config /\ config'.rows["events"] = Topics
<1>1. "events" \in Lists /\ l \in Lists /\ l # "events"
  BY DEF Lists, Editors
<1>2. PICK rows \in [Lists -> Seq(Rows)] : rows = config.rows
  BY DEF Config, Rows
<1>3. PICK new : new = [rows EXCEPT ![l] = s]
  OBVIOUS
<1>4. new \in [Lists -> Seq(Rows)] /\ new["events"] = rows["events"]
  BY <1>1, <1>3
<1>5. config' = [rows |-> new, on |-> config.on, mode |-> config.mode]
  BY <1>2, <1>3 DEF Config
<1>6. config.on \in SUBSET Flags /\ config.mode \in Modes
  BY DEF Config
<1>7. config'.rows = new /\ config'.rows["events"] = Topics
  BY <1>2, <1>4, <1>5
<1>8. config' \in Config
  <2>1. PICK on, mode : on = config.on /\ mode = config.mode
    OBVIOUS
  <2>2. [rows |-> new, on |-> on, mode |-> mode] \in Config
    BY <1>4, <1>6, <2>1, ConfigMade
  <2> QED
    BY <1>5, <2>1, <2>2
<1> QED
  BY <1>7, <1>8

\* A row that is removed leaves a configuration.
LEMMA RowRemoved ==
  ASSUME config \in Config, config.rows["events"] = Topics,
         NEW l \in Editors, NEW x \in Range(config.rows[l]),
         config' = [config EXCEPT !.rows[l] = Without(@, x)]
  PROVE  config' \in Config /\ config'.rows["events"] = Topics
<1>1. PICK rows : rows = config.rows[l]
  OBVIOUS
<1>2. rows \in Seq(Rows)
  BY <1>1 DEF Config, Rows, Lists, Editors
<1>3. PICK s : s = Without(rows, x)
  OBVIOUS
<1>4. s \in Seq(Rows)
  BY <1>1, <1>2, <1>3, WithoutRow
<1>5. config' = [config EXCEPT !.rows[l] = s]
  BY <1>1, <1>3
<1> QED
  BY <1>4, <1>5, OtherRows

\* A row that is added leaves one.
LEMMA RowAdded ==
  ASSUME config \in Config, config.rows["events"] = Topics,
         NEW l \in Editors, NEW x \in Items, config' = [config EXCEPT !.rows[l] = Append(@, x)]
  PROVE  config' \in Config /\ config'.rows["events"] = Topics
<1>1. PICK s : s = Append(config.rows[l], x)
  OBVIOUS
<1>2. s \in Seq(Rows)
  BY <1>1 DEF Config, Rows, Lists, Editors
<1> QED
  BY <1>1, <1>2, OtherRows

\* So does a mode that is set.
LEMMA ModeSet ==
  ASSUME config \in Config, NEW m \in Modes, config' = [config EXCEPT !.mode = m]
  PROVE  config' \in Config /\ config'.rows = config.rows
  BY DEF Config

\* A command keeps the types.
LEMMA TypesExecute ==
  ASSUME Commanded, Types, NEW j, Execute(j)
  PROVE  Types'
<1>1. UNCHANGED <<handler, loop, active, device>> /\ j \in Pending /\ JobOK(j)
  BY DEF Execute, screens, Commanded
<1>2. running' \in BOOLEAN /\ since' \in {"never", "quit", "started"}
  BY DEF Execute, RemoveItem, AddItem, Edit, Toggle, SetMode, Fire, Start, Stop, Refresh,
     Fail, Types
<1>3. config' \in Config /\ config'.rows["events"] = Topics
  <2>1. config \in Config /\ config.rows["events"] = Topics
    BY DEF Types
  <2>2. CASE RemoveItem(j)
    BY <1>1, <2>1, <2>2, RowRemoved DEF RemoveItem, JobOK
  <2>3. CASE AddItem(j)
    BY <1>1, <2>1, <2>3, RowAdded DEF AddItem, JobOK
  <2>4. CASE Toggle(j)
    <3>1. PICK on : on = IF j.to THEN config.on \cup {j.flag} ELSE config.on \ {j.flag}
      OBVIOUS
    <3>2. on \in SUBSET Flags
      BY <1>1, <2>1, <2>4, <3>1 DEF Toggle, JobOK, Config
    <3>3. config' = [config EXCEPT !.on = on]
      BY <2>4, <3>1 DEF Toggle
    <3> QED
      BY <2>1, <3>2, <3>3 DEF Config
  <2>5. CASE SetMode(j)
    BY <1>1, <2>1, <2>5, ModeSet DEF SetMode, JobOK
  <2>6. CASE config' = config
    BY <2>1, <2>6
  <2> QED
    BY <2>2, <2>3, <2>4, <2>5, <2>6 DEF Execute, Edit, Fire, Start, Stop, Refresh, Fail
<1> QED
  BY <1>1, <1>2, <1>3 DEF Types

\* A message keeps them.
LEMMA TypesTake ==
  ASSUME Commanded, Types, NEW j, Take(j)
  PROVE  Types'
<1>1. UNCHANGED <<running, config, active, since>>
  BY DEF Take
<1>2. loop' \in {"ready", "stopping", "closing", "ended"}
  BY DEF Take, TakeTick, TakeStatus, TakeRecord, TakeFlash, TakeExpire, TakeOpen, TakeClose,
     TakeQuit, Types
<1>3. handler' \in [Handlers -> {"idle", "busy", "sending"}]
  BY DEF Take, TakeTick, TakeStatus, TakeRecord, TakeFlash, TakeExpire, TakeOpen, TakeClose,
     TakeQuit, Types
<1>4. device' \in [mode : {None} \cup Modes, focus : 0 .. 2]
  <2>1. device' = device \/ device' = [device EXCEPT !.mode = config.mode]
    BY DEF Take, TakeTick, TakeStatus, TakeRecord, TakeFlash, TakeExpire, TakeOpen,
       TakeClose, TakeQuit, See, screens
  <2>2. config.mode \in Modes
    BY DEF Types, Config
  <2> QED
    BY <2>1, <2>2 DEF Types
<1> QED
  BY <1>1, <1>2, <1>3, <1>4 DEF Types

\* A key keeps them.
LEMMA TypesPress ==
  ASSUME Types, NEW k, Press(k)
  PROVE  Types'
<1>1. UNCHANGED <<config, handler>>
  BY DEF Press
<1>2. /\ running' \in BOOLEAN /\ loop' \in {"ready", "stopping", "closing", "ended"}
      /\ since' \in {"never", "quit", "started"}
  BY DEF Press, ModalKey, GlobalKey, Quit, ScreenKey, Types
<1>3. active' \in 1 .. 6
  <2>1. CASE GlobalKey(k)
    <3>1. active \in 1 .. 6
      BY DEF Types
    <3>2. (active % 6) + 1 \in 1 .. 6 /\ ((active + 4) % 6) + 1 \in 1 .. 6
      BY <3>1
    <3>3. k \in Range(Digits) => (CHOOSE i \in 1 .. 6 : Digits[i] = k) \in 1 .. 6
      BY DEF Range, Digits
    <3> QED
      BY <2>1, <3>1, <3>2, <3>3 DEF GlobalKey, GlobalKeys
  <2>2. CASE ~GlobalKey(k)
    BY <2>2 DEF Press, ModalKey, ScreenKey, Types
  <2> QED
    BY <2>1, <2>2
<1>4. device' \in [mode : {None} \cup Modes, focus : 0 .. 2]
  <2>1. CASE ScreenKey(k) /\ DeviceKey(k)
    <3>1. device.mode \in {None} \cup Modes /\ device.focus \in 0 .. 2
      BY DEF Types
    <3>2. (device.focus + 1) % 3 \in 0 .. 2 /\ (device.focus + 2) % 3 \in 0 .. 2
      BY <3>1
    <3> QED
      BY <2>1, <3>1, <3>2 DEF DeviceKey, Modes
  <2>2. CASE device' = device
    BY <2>2 DEF Types
  <2> QED
    BY <2>1, <2>2 DEF Press, ModalKey, GlobalKey, ScreenKey, DashboardKey, EventsKey,
       EditorKey, MoveKey, AskDelete, LogKey, screens
<1> QED
  BY <1>1, <1>2, <1>3, <1>4 DEF Types

\* Clients and Stop keep them.
LEMMA TypesRequests ==
  ASSUME Types,
         \/ ShutdownReturns \/ StopReturns
         \/ \E h \in Handlers : Request(h) \/ Serve(h) \/ Released(h)
  PROVE  Types'
<1>1. UNCHANGED <<running, active, device, since>> /\ loop' \in {loop, "closing", "ready"}
  BY DEF ShutdownReturns, StopReturns, Request, Serve, Released, simulator, screens, history
<1>2. handler' \in [Handlers -> {"idle", "busy", "sending"}]
  BY DEF ShutdownReturns, StopReturns, Request, Serve, Released, simulator, Types
<1>3. config' \in Config /\ config'.rows["events"] = Topics
  <2>1. config \in Config /\ config.rows["events"] = Topics /\ "auth" \in Editors
    BY DEF Types, Editors
  <2>2. CASE config' = config
    BY <2>1, <2>2
  <2>3. ASSUME NEW h \in Handlers, Serve(h)
        PROVE  config' \in Config /\ config'.rows["events"] = Topics
    <3>1. ASSUME NEW x \in Range(config.rows["auth"]),
                 config' = [config EXCEPT !.rows["auth"] = Without(@, x)]
          PROVE  config' \in Config /\ config'.rows["events"] = Topics
      BY <2>1, <3>1, RowRemoved
    <3>2. ASSUME NEW x \in Items, config' = [config EXCEPT !.rows["auth"] = Append(@, x)]
          PROVE  config' \in Config /\ config'.rows["events"] = Topics
      BY <2>1, <3>2, RowAdded
    <3>3. ASSUME NEW m \in Modes, config' = [config EXCEPT !.mode = m]
          PROVE  config' \in Config /\ config'.rows["events"] = Topics
      BY <2>1, <3>3, ModeSet
    <3> QED
      BY <2>3, <3>1, <3>2, <3>3 DEF Serve
  <2> QED
    BY <2>2, <2>3 DEF ShutdownReturns, StopReturns, Request, Released, simulator
<1> QED
  BY <1>1, <1>2, <1>3 DEF Types

\* They hold at first.
LEMMA TypesInit == Init => Types
<1> SUFFICES ASSUME Init PROVE Types
  OBVIOUS
<1>1. running \in BOOLEAN
  BY TerminalAssumption DEF Init, Scenario
<1>2. config \in Config /\ config.rows["events"] = Topics
  BY TerminalAssumption DEF Init
<1>3. /\ device = [mode |-> None, focus |-> 0] /\ handler = [h \in Handlers |-> "idle"]
      /\ loop = "ready" /\ active = 1 /\ since = "never"
  BY DEF Init
<1>4. device \in [mode : {None} \cup Modes, focus : 0 .. 2]
  BY <1>3
<1>5. handler \in [Handlers -> {"idle", "busy", "sending"}]
  BY <1>3
<1> QED
  BY <1>1, <1>2, <1>3, <1>4, <1>5 DEF Types

\* So every step keeps them.
LEMMA TypesNext == Commanded /\ Types /\ Next => Types'
  BY TypesExecute, TypesTake, TypesPress, TypesRequests DEF Next

\* A list as a screen may show it.
ViewOK(l, v) ==
    /\ v \in [rows : Seq(Rows), on : SUBSET Flags, selected : Nat]
    /\ l = "events" => v.rows \in {<<>>, Topics}
    /\ v.selected \in 0 .. Max({0, Len(v.rows) - 1})

\* The invariant of the views, list by list.
LEMMA ViewsAre ==
  ASSUME NEW f, \A l \in Lists : ViewOK(l, f[l]), f = [l \in Lists |-> f[l]]
  PROVE  /\ f \in [Lists -> [rows : Seq(Rows), on : SUBSET Flags, selected : Nat]]
         /\ f["events"].rows \in {<<>>, Topics}
         /\ \A l \in Lists : f[l].selected \in 0 .. Max({0, Len(f[l].rows) - 1})
<1>1. "events" \in Lists
  BY DEF Lists
<1>2. PICK S : S = [rows : Seq(Rows), on : SUBSET Flags, selected : Nat]
  OBVIOUS
<1>3. \A l \in Lists : f[l] \in S
  BY <1>2 DEF ViewOK
<1>4. f \in [Lists -> S]
  BY <1>3
<1>5. f["events"].rows \in {<<>>, Topics}
  BY <1>1 DEF ViewOK
<1>6. \A l \in Lists : f[l].selected \in 0 .. Max({0, Len(f[l].rows) - 1})
  BY DEF ViewOK
<1> QED
  BY <1>2, <1>4, <1>5, <1>6

\* And back.
LEMMA EachView ==
  ASSUME Views
  PROVE  (\A l \in Lists : ViewOK(l, view[l])) /\ view = [l \in Lists |-> view[l]]
  BY DEF Views, ViewOK

\* What a screen copies keeps the selection inside the rows.
LEMMA FreshOK ==
  ASSUME Types, Views, NEW l \in Lists
  PROVE  ViewOK(l, Fresh(l))
<1>1. PICK rows, on, kept : rows = config.rows[l] /\ on = config.on /\ kept = view[l].selected
  OBVIOUS
<1>2. rows \in Seq(Rows) /\ on \in SUBSET Flags
  BY <1>1 DEF Types, Config, Rows
<1>3. kept \in Nat
  BY <1>1, EachView DEF ViewOK
<1>4. l = "events" => rows = Topics
  BY <1>1 DEF Types
<1>5. PICK n : n = Len(rows)
  OBVIOUS
<1>6. n \in Nat
  BY <1>2, <1>5
<1>7. PICK s : s = IF kept >= n THEN IF n = 0 THEN 0 ELSE n - 1 ELSE kept
  OBVIOUS
<1>8. s \in Nat /\ s \in 0 .. Max({0, n - 1})
  BY <1>3, <1>6, <1>7, MaxOfTwo
<1>9. Fresh(l) = [rows |-> rows, on |-> on, selected |-> s]
  BY <1>1, <1>5, <1>7 DEF Fresh
<1>10. Fresh(l) \in [rows : Seq(Rows), on : SUBSET Flags, selected : Nat]
  BY <1>2, <1>8, <1>9
<1>11. Fresh(l).rows = rows /\ Fresh(l).selected = s
  BY <1>9
<1> QED
  BY <1>4, <1>5, <1>8, <1>10, <1>11 DEF ViewOK

\* A message leaves every selection on a row: rows are copied only with a new selection.
LEMMA ViewsTake ==
  ASSUME Types, Views, NEW j, Take(j)
  PROVE  Views'
<1>1. CASE view' = view
  BY <1>1 DEF Views
<1>2. ASSUME NEW seers, view' = [l \in Lists |-> IF l \in seers THEN Fresh(l) ELSE view[l]]
      PROVE  Views'
  <2>1. PICK f : f = [l \in Lists |-> IF l \in seers THEN Fresh(l) ELSE view[l]]
    OBVIOUS
  <2>2. \A l \in Lists : ViewOK(l, f[l])
    BY <2>1, FreshOK, EachView
  <2>3. f = [l \in Lists |-> f[l]] /\ view' = f
    BY <1>2, <2>1
  <2> QED
    BY <2>2, <2>3, ViewsAre DEF Views
<1> QED
  BY <1>1, <1>2 DEF Take, TakeTick, TakeStatus, TakeRecord, TakeFlash, TakeExpire, TakeOpen,
     TakeClose, TakeQuit, See, screens

\* A key moves a selection among the rows.
LEMMA ViewsPress ==
  ASSUME Views, NEW k, Press(k)
  PROVE  Views'
<1>1. CASE view' = view
  BY <1>1 DEF Views
<1>2. ASSUME NEW l \in Lists, MoveKey(l, k)
      PROVE  Views'
  <2>1. PICK w : w = view[l]
    OBVIOUS
  <2>2. w \in [rows : Seq(Rows), on : SUBSET Flags, selected : Nat] /\ ViewOK(l, w)
    BY <2>1, EachView DEF ViewOK
  <2>3. PICK rows, on, kept : rows = w.rows /\ on = w.on /\ kept = w.selected
    OBVIOUS
  <2>4. /\ rows \in Seq(Rows) /\ on \in SUBSET Flags /\ kept \in Nat /\ Len(rows) \in Nat
        /\ w = [rows |-> rows, on |-> on, selected |-> kept]
    BY <2>2, <2>3
  <2>0. kept \in 0 .. Max({0, Len(rows) - 1}) /\ (l = "events" => rows \in {<<>>, Topics})
    BY <2>2, <2>3 DEF ViewOK
  <2>5. PICK s : s = kept + (IF k = "up" THEN -1 ELSE 1)
    OBVIOUS
  <2>6. (k = "up" /\ kept > 0) \/ (k = "down" /\ kept < Len(rows) - 1)
    BY <1>2, <2>1, <2>3 DEF MoveKey
  <2>7. s \in Nat /\ s \in 0 .. Max({0, Len(rows) - 1})
    BY <2>0, <2>4, <2>5, <2>6, MaxOfTwo
  <2>8. PICK v : v = [rows |-> rows, on |-> on, selected |-> s]
    OBVIOUS
  <2>9. v \in [rows : Seq(Rows), on : SUBSET Flags, selected : Nat]
    BY <2>4, <2>7, <2>8
  <2>10. ViewOK(l, v)
    BY <2>0, <2>7, <2>8, <2>9 DEF ViewOK
  <2>11. v = [view[l] EXCEPT !.selected = @ + (IF k = "up" THEN -1 ELSE 1)]
    BY <2>1, <2>4, <2>5, <2>8
  <2>12. view' = [view EXCEPT ![l] = v]
    BY <1>2, <2>11 DEF MoveKey
  <2>13. PICK f : f = [view EXCEPT ![l] = v]
    OBVIOUS
  <2>14. (\A x \in Lists : ViewOK(x, f[x])) /\ f = [x \in Lists |-> f[x]]
    BY <2>10, <2>13, EachView
  <2>15. view' = f
    BY <2>12, <2>13
  <2> QED
    BY <2>14, <2>15, ViewsAre DEF Views
<1> QED
  BY <1>1, <1>2 DEF Press, ModalKey, GlobalKey, ScreenKey, DashboardKey, EventsKey,
     EditorKey, AskDelete, DeviceKey, LogKey, screens, Lists, Editors

\* So every step leaves every selection on a row.
LEMMA ViewsNext ==
  ASSUME Types, Views, Next
  PROVE  Views'
<1>1. CASE view' = view
  BY <1>1 DEF Views
<1> QED
  BY <1>1, ViewsTake, ViewsPress DEF Next, Execute, ShutdownReturns, StopReturns, Request, Serve,
     Released, screens

\* At first the lists are empty.
LEMMA ViewsInit == Init => Views
<1> SUFFICES ASSUME Init PROVE Views
  OBVIOUS
<1>1. PICK f : f = [l \in Lists |-> Blank]
  OBVIOUS
<1>2. view = f
  BY <1>1 DEF Init
<1>3. ASSUME NEW l \in Lists PROVE ViewOK(l, Blank)
  <2>1. Max({0, Len(<<>>) - 1}) = 0
    BY MaxOfTwo
  <2>2. <<>> \in Seq(Rows) /\ {} \in SUBSET Flags
    OBVIOUS
  <2> QED
    BY <2>1, <2>2 DEF ViewOK, Blank
<1> QED
  BY <1>1, <1>2, <1>3, ViewsAre DEF Views
-----------------------------------------------------------------------------
(* The log *)

\* A log that takes one more record drops its first one when it is full.
LEMMA OneMore ==
  ASSUME NEW S, NEW a \in Seq(S), NEW e \in S, NEW c \in 0 .. Len(a)
  PROVE  Appended(Shown(a, c), e) = Shown(Append(a, e), c)
<1>1. PICK n, cap : n = Len(a) /\ cap = LogCap
  OBVIOUS
<1>2. n \in Nat /\ cap \in Nat \ {0} /\ c \in 0 .. n
  BY <1>1, TerminalAssumption
<1>3. PICK f, g : f = Max({c, n - cap}) /\ g = Max({c, n + 1 - cap})
  OBVIOUS
<1>4. f = (IF c >= n - cap THEN c ELSE n - cap) /\ f \in 0 .. n
  BY <1>2, <1>3, MaxOfTwo
<1>5. g = (IF c >= n + 1 - cap THEN c ELSE n + 1 - cap) /\ g \in 0 .. n
  BY <1>2, <1>3, MaxOfTwo
<1>6. PICK b : b = Append(a, e)
  OBVIOUS
<1>7. b \in Seq(S) /\ Len(b) = n + 1 /\ b[n + 1] = e /\ \A i \in 1 .. n : b[i] = a[i]
  BY <1>1, <1>6
<1>8. PICK s, t, all : /\ s = SubSeq(a, f + 1, n) /\ t = SubSeq(b, g + 1, n + 1)
                       /\ all = Append(s, e)
  OBVIOUS
<1>9. s \in Seq(S) /\ Len(s) = n - f /\ \A i \in 1 .. n - f : s[i] = a[f + i]
  <2>1. \A i \in f + 1 .. n : a[i] \in S
    BY <1>1, <1>4
  <2>2. f + 1 \in Int /\ n \in Int
    BY <1>2, <1>4
  <2>3. /\ s \in Seq(S) /\ Len(s) = IF f + 1 <= n THEN n - (f + 1) + 1 ELSE 0
        /\ \A i \in 1 .. n - (f + 1) + 1 : s[i] = a[(f + 1) + i - 1]
    BY <1>8, <2>1, <2>2, SubSeqProperties
  <2>4. Len(s) = n - f /\ n - (f + 1) + 1 = n - f
    BY <1>2, <1>4, <2>3
  <2>5. \A i \in 1 .. n - f : (f + 1) + i - 1 = f + i
    BY <1>2, <1>4
  <2> QED
    BY <2>3, <2>4, <2>5
<1>10. t \in Seq(S) /\ Len(t) = n + 1 - g /\ \A i \in 1 .. n + 1 - g : t[i] = b[g + i]
  <2>1. \A i \in g + 1 .. n + 1 : b[i] \in S
    BY <1>2, <1>5, <1>7
  <2>2. g + 1 \in Int /\ n + 1 \in Int
    BY <1>2, <1>5
  <2>3. /\ t \in Seq(S) /\ Len(t) = IF g + 1 <= n + 1 THEN (n + 1) - (g + 1) + 1 ELSE 0
        /\ \A i \in 1 .. (n + 1) - (g + 1) + 1 : t[i] = b[(g + 1) + i - 1]
    BY <1>8, <2>1, <2>2, SubSeqProperties
  <2>4. Len(t) = n + 1 - g /\ (n + 1) - (g + 1) + 1 = n + 1 - g
    BY <1>2, <1>5, <2>3
  <2>5. \A i \in 1 .. n + 1 - g : (g + 1) + i - 1 = g + i
    BY <1>2, <1>5
  <2> QED
    BY <2>3, <2>4, <2>5
<1>11. /\ all \in Seq(S) /\ Len(all) = n - f + 1
       /\ \A i \in 1 .. n - f + 1 : all[i] = b[f + i]
  <2>1. all \in Seq(S) /\ Len(all) = n - f + 1 /\ all[n - f + 1] = e
    BY <1>2, <1>4, <1>8, <1>9
  <2>2. \A i \in 1 .. n - f : all[i] = b[f + i]
    BY <1>2, <1>4, <1>7, <1>8, <1>9
  <2> QED
    BY <1>2, <1>4, <1>7, <2>1, <2>2
<1>14. /\ Shown(Append(a, e), c) = t
       /\ Appended(Shown(a, c), e) =
              IF Len(all) > LogCap THEN SubSeq(all, Len(all) - LogCap + 1, Len(all)) ELSE all
  <2>1. Shown(a, c) = s
    BY <1>1, <1>3, <1>8 DEF Shown, From
  <2>2. Shown(b, c) = t
    <3>1. Len(b) = n + 1 /\ Len(b) - LogCap = n + 1 - cap
      BY <1>1, <1>2, <1>7
    <3>2. From(b, c) = g
      BY <1>3, <3>1 DEF From
    <3> QED
      BY <1>8, <3>1, <3>2 DEF Shown
  <2> QED
    BY <1>6, <1>8, <2>1, <2>2 DEF Appended
<1>12. CASE n - f + 1 > cap
  <2>1. f = n - cap /\ g = f + 1
    BY <1>2, <1>4, <1>5, <1>12
  <2>2. PICK u : u = SubSeq(all, Len(all) - cap + 1, Len(all))
    OBVIOUS
  <2>3. Len(all) - cap + 1 = 2 /\ Len(all) = n - f + 1
    BY <1>2, <1>4, <1>11, <2>1
  <2>4. \A i \in 2 .. n - f + 1 : all[i] \in S
    BY <1>2, <1>4, <1>11
  <2>5. /\ u \in Seq(S) /\ Len(u) = IF 2 <= n - f + 1 THEN (n - f + 1) - 2 + 1 ELSE 0
        /\ \A i \in 1 .. (n - f + 1) - 2 + 1 : u[i] = all[2 + i - 1]
    <3>1. n - f + 1 \in Int /\ 2 \in Int
      BY <1>2, <1>4
    <3>2. u = SubSeq(all, 2, n - f + 1)
      BY <2>2, <2>3
    <3> HIDE DEF From
    <3> QED
      BY <2>4, <3>1, <3>2, SubSeqProperties
  <2>6. Len(u) = Len(t) /\ \A i \in 1 .. Len(u) : u[i] = t[i]
    <3>1. n - f = cap /\ Len(u) = cap /\ Len(t) = cap
      BY <1>2, <1>4, <1>10, <2>1, <2>5
    <3>2. ASSUME NEW i \in 1 .. cap PROVE u[i] = t[i]
      <4>1. u[i] = all[i + 1]
        BY <1>2, <2>1, <2>5, <3>1
      <4>2. i + 1 \in 1 .. n - f + 1 /\ f + (i + 1) = g + i
        BY <1>2, <1>4, <2>1, <3>1
      <4>3. all[i + 1] = b[g + i]
        BY <1>11, <4>2
      <4>4. t[i] = b[g + i]
        BY <1>2, <1>4, <1>10, <2>1, <3>1
      <4> QED
        BY <4>1, <4>3, <4>4
    <3> QED
      BY <3>1, <3>2
  <2>7. u = t
    BY <1>10, <2>5, <2>6, SeqEqual
  <2> QED
    BY <1>1, <1>12, <1>14, <1>11, <2>2, <2>7
<1>13. CASE ~(n - f + 1 > cap)
  <2>1. f = g
    BY <1>2, <1>4, <1>5, <1>13
  <2>2. Len(all) = Len(t) /\ \A i \in 1 .. Len(all) : all[i] = t[i]
    <3>1. n - f + 1 = n + 1 - g
      BY <1>2, <1>4, <2>1
    <3> QED
      BY <1>10, <1>11, <2>1, <3>1
  <2>3. all = t
    BY <1>10, <1>11, <2>2, SeqEqual
  <2> QED
    BY <1>1, <1>13, <1>14, <1>11, <2>3
<1> QED
  BY <1>12, <1>13

\* The log keeps the last records when one arrives.
LEMMA LoggedTake ==
  ASSUME Commanded, Logged, NEW j, Take(j)
  PROVE  Logged'
<1>1. cleared' = cleared
  BY DEF Take
<1>2. CASE TakeRecord(j)
  <2>1. PICK e : e = <<j.who, j.n>>
    OBVIOUS
  <2>2. e \in Senders \X Nat
    BY <1>2, <2>1 DEF Take, TakeRecord, Commanded, JobOK
  <2>3. PICK entries, searching : entries = log.entries /\ searching = log.searching
    OBVIOUS
  <2>4. log = [entries |-> entries, searching |-> searching] /\ searching \in BOOLEAN
    BY <2>3 DEF Logged
  <2>5. PICK more : more = Appended(entries, e)
    OBVIOUS
  <2>6. log' = [entries |-> more, searching |-> searching] /\ arrived' = Append(arrived, e)
    BY <1>2, <2>1, <2>3, <2>4, <2>5 DEF TakeRecord
  <2>7. PICK a : a = arrived
    OBVIOUS
  <2>8. /\ a \in Seq(Senders \X Nat) /\ cleared \in 0 .. Len(a)
        /\ entries \in Seq(Senders \X Nat) /\ entries = Shown(a, cleared)
    BY <2>3, <2>7 DEF Logged
  <2>9. Append(a, e) \in Seq(Senders \X Nat) /\ Len(Append(a, e)) = Len(a) + 1
    BY <2>2, <2>8
  <2>10. more = Shown(Append(a, e), cleared)
    BY <2>2, <2>5, <2>8, OneMore
  <2>11. more \in Seq(Senders \X Nat)
    <3>1. Append(entries, e) \in Seq(Senders \X Nat) /\ LogCap \in Nat \ {0}
      BY <2>2, <2>8, TerminalAssumption
    <3>2. PICK all : all = Append(entries, e)
      OBVIOUS
    <3>3. Len(all) > LogCap => SubSeq(all, Len(all) - LogCap + 1, Len(all)) \in Seq(Senders \X Nat)
      <4>1. ASSUME NEW S, all \in Seq(S), LogCap \in Nat \ {0}, Len(all) > LogCap
            PROVE  SubSeq(all, Len(all) - LogCap + 1, Len(all)) \in Seq(S)
        <5>1. Len(all) - LogCap + 1 \in 1 .. Len(all)
          BY <4>1
        <5> QED
          BY <4>1, <5>1
      <4> QED
        BY <3>1, <3>2, <4>1
    <3> QED
      BY <2>5, <3>1, <3>2, <3>3 DEF Appended
  <2>12. log' \in [entries : Seq(Senders \X Nat), searching : BOOLEAN] /\ log'.entries = more
    BY <2>4, <2>6, <2>11
  <2>13. cleared' \in 0 .. Len(arrived') /\ arrived' \in Seq(Senders \X Nat)
    BY <1>1, <2>6, <2>7, <2>8, <2>9
  <2> QED
    BY <1>1, <2>6, <2>7, <2>10, <2>12, <2>13 DEF Logged
<1>3. CASE ~TakeRecord(j)
  <2>1. arrived' = arrived /\ log' = log
    BY <1>3 DEF Take, TakeTick, TakeStatus, TakeFlash, TakeExpire, TakeOpen, TakeClose,
       TakeQuit, See, screens
  <2> QED
    BY <1>1, <2>1 DEF Logged
<1> QED
  BY <1>2, <1>3

\* Clearing the log starts it anew.
LEMMA LoggedPress ==
  ASSUME Logged, NEW k, Press(k)
  PROVE  Logged'
<1>1. arrived' = arrived
  BY DEF Press
<1>2. PICK entries, searching : entries = log.entries /\ searching = log.searching
  OBVIOUS
<1>3. /\ log = [entries |-> entries, searching |-> searching]
      /\ entries \in Seq(Senders \X Nat) /\ searching \in BOOLEAN
  BY <1>2 DEF Logged
<1>4. CASE log' = log /\ cleared' = cleared
  BY <1>1, <1>4 DEF Logged
<1>5. ASSUME NEW b \in BOOLEAN, log' = [log EXCEPT !.searching = b], cleared' = cleared
      PROVE  Logged'
  <2>1. log' = [entries |-> entries, searching |-> b]
    BY <1>3, <1>5
  <2>2. log' \in [entries : Seq(Senders \X Nat), searching : BOOLEAN] /\ log'.entries = entries
    BY <1>3, <1>5, <2>1
  <2> QED
    BY <1>1, <1>2, <1>5, <2>2 DEF Logged
<1>6. CASE log' = [log EXCEPT !.entries = <<>>] /\ cleared' = Len(arrived)
  <2>1. log' = [entries |-> <<>>, searching |-> searching]
    BY <1>3, <1>6
  <2>2. log' \in [entries : Seq(Senders \X Nat), searching : BOOLEAN] /\ log'.entries = <<>>
    BY <1>3, <2>1
  <2>3. Shown(arrived, Len(arrived)) = <<>>
    <3>1. Len(arrived) \in Nat /\ LogCap \in Nat
      BY TerminalAssumption DEF Logged
    <3>2. From(arrived, Len(arrived)) = Len(arrived)
      BY <3>1, MaxOfTwo DEF From
    <3> QED
      BY <3>1, <3>2, SubSeqEmpty DEF Shown
  <2>4. cleared' \in 0 .. Len(arrived')
    BY <1>1, <1>6 DEF Logged
  <2> QED
    BY <1>1, <1>6, <2>2, <2>3, <2>4 DEF Logged
<1>7. ASSUME LogKey(k) PROVE Logged'
  <2>1. \/ \E b \in BOOLEAN : log' = [log EXCEPT !.searching = b] /\ cleared' = cleared
        \/ log' = [log EXCEPT !.entries = <<>>] /\ cleared' = Len(arrived)
    BY <1>7 DEF LogKey
  <2> QED
    BY <1>5, <1>6, <2>1
<1> QED
  BY <1>4, <1>7 DEF Press, ModalKey, GlobalKey, ScreenKey, DashboardKey, EventsKey,
     EditorKey, MoveKey, AskDelete, DeviceKey, screens

\* So the log is always the last records.
LEMMA LoggedNext ==
  ASSUME Commanded, Logged, Next
  PROVE  Logged'
<1>1. CASE UNCHANGED <<log, arrived, cleared>>
  BY <1>1 DEF Logged
<1> QED
  BY <1>1, LoggedTake, LoggedPress DEF Next, Execute, ShutdownReturns, StopReturns, Request, Serve,
     Released, screens, history

\* At first there are none.
LEMMA LoggedInit == Init => Logged
<1> SUFFICES ASSUME Init PROVE Logged
  OBVIOUS
<1>1. arrived = <<>> /\ cleared = 0 /\ log = [entries |-> <<>>, searching |-> FALSE]
  BY DEF Init
<1>2. Shown(<<>>, 0) = <<>>
  <2>1. From(<<>>, 0) = 0
    BY TerminalAssumption, MaxOfTwo DEF From
  <2> QED
    BY <2>1, SubSeqEmpty DEF Shown
<1> QED
  BY <1>1, <1>2 DEF Logged

\* A sender's records arrive in its order.
LEMMA InTurnTake ==
  ASSUME Commanded, Types, Logged, InTurn, NEW j, Take(j)
  PROVE  InTurn'
<1>1. j \in Pending /\ JobOK(j) /\ loop = "ready" /\ made' = made
  BY DEF Take, Commanded
<1>2. CASE ~TakeRecord(j)
  <2>1. arrived' = arrived /\ handler' = handler
    BY <1>2 DEF Take, TakeTick, TakeStatus, TakeFlash, TakeExpire, TakeOpen, TakeClose,
       TakeQuit
  <2>2. PICK new : Instead(j, new) /\ \A i \in new : i.op # "record"
    BY <1>2 DEF Take, TakeTick, TakeStatus, TakeFlash, TakeExpire, TakeOpen, TakeClose,
       TakeQuit, SetFlash, Tick, Expire
  <2>3. j.op # "record"
    BY <1>2 DEF Take, TakeTick, TakeStatus, TakeFlash, TakeExpire, TakeOpen, TakeClose,
       TakeQuit, Tick, Flash, Close, QuitMsg
  <2>4. \A i \in Pending' : i.op = "record" => i \in Pending /\ jobs'[i] = jobs[i]
    <3>1. /\ Pending' \subseteq Pending \cup new
          /\ \A i \in Pending' : jobs'[i] = (IF i \in Pending THEN jobs[i] ELSE 0)
                                   - (IF i = j THEN 1 ELSE 0) + (IF i \in new THEN 1 ELSE 0)
      BY <1>1, <2>2, Replaced DEF Commanded
    <3>2. \A i \in Pending : jobs[i] \in Nat
      BY DEF Commanded, IsABag, Pending, BagToSet
    <3> QED
      BY <2>2, <2>3, <3>1, <3>2
  <2> QED
    BY <1>1, <2>1, <2>4 DEF InTurn
<1>3. CASE TakeRecord(j)
  <2>1. PICK h, n : h = j.who /\ n = j.n
    OBVIOUS
  <2>2. PICK e : e = <<h, n>>
    OBVIOUS
  <2>3. PICK a : a = arrived
    OBVIOUS
  <2>4. a \in Seq(Senders \X Nat) /\ arrived' = Append(a, e) /\ h \in Senders /\ n \in Nat
    BY <1>1, <1>3, <2>1, <2>2, <2>3 DEF TakeRecord, JobOK, Logged
  <2>5. /\ Len(a) \in Nat /\ DOMAIN a = 1 .. Len(a) /\ DOMAIN arrived' = 1 .. Len(a) + 1
        /\ \A i \in DOMAIN a : arrived'[i] = a[i]
        /\ arrived'[Len(a) + 1] = e /\ e[1] = h /\ e[2] = n
    BY <2>2, <2>4
  <2>6. h \in Handlers => /\ jobs[j] = 1 /\ n = made[h]
                          /\ \A i \in DOMAIN a : a[i][1] = h => a[i][2] < n
    BY <1>1, <1>3, <2>1, <2>3 DEF InTurn, TakeRecord
  <2>7. \A i \in DOMAIN arrived' :
            arrived'[i][1] \in Handlers => arrived'[i][2] <= made'[arrived'[i][1]]
    BY <1>1, <2>3, <2>4, <2>5, <2>6 DEF InTurn
  <2>8. \A i \in DOMAIN arrived', k \in DOMAIN arrived' :
            i < k /\ arrived'[i][1] = arrived'[k][1] /\ arrived'[i][1] \in Handlers
            => arrived'[i][2] < arrived'[k][2]
    <3>1. ASSUME NEW i \in DOMAIN arrived', NEW k \in DOMAIN arrived', i < k,
                 arrived'[i][1] = arrived'[k][1], arrived'[i][1] \in Handlers
          PROVE  arrived'[i][2] < arrived'[k][2]
      <4>1. i \in DOMAIN a /\ arrived'[i] = a[i]
        BY <2>5, <3>1
      <4>2. CASE k = Len(a) + 1
        BY <2>5, <2>6, <3>1, <4>1, <4>2
      <4>3. CASE k \in DOMAIN a
        BY <2>3, <2>5, <3>1, <4>1, <4>3 DEF InTurn
      <4> QED
        BY <2>5, <3>1, <4>2, <4>3
    <3> QED
      BY <3>1
  <2>9. \A i \in Pending' : i.op = "record" /\ i.who \in Handlers =>
            i \in Pending /\ jobs'[i] = jobs[i] /\ i.who # h
    <3>1. PICK after : after = j.next
      OBVIOUS
    <3>2. after \notin {None} => after.op # "record"
      BY <1>1, <1>3, <3>1 DEF JobOK, TakeRecord, Flash, EditOK
    <3>3. /\ Pending' \subseteq Pending \cup ({after} \ {None})
          /\ \A i \in Pending' : jobs'[i] = (IF i \in Pending THEN jobs[i] ELSE 0)
                - (IF i = j THEN 1 ELSE 0) + (IF i \in {after} \ {None} THEN 1 ELSE 0)
          /\ jobs[j] = 1 /\ j \notin {after} \ {None} => j \notin Pending'
      BY <1>1, <1>3, <3>1, Replaced DEF TakeRecord, Commanded
    <3>4. ASSUME NEW i \in Pending', i.op = "record", i.who \in Handlers
          PROVE  i \in Pending /\ jobs'[i] = jobs[i] /\ i.who # h
      <4>1. i \in Pending /\ i \notin {after} \ {None}
        BY <3>2, <3>3, <3>4
      <4>2. i.who # h
        <5> SUFFICES ASSUME i.who = h PROVE FALSE
          OBVIOUS
        <5>1. i = Record(h, made[h], None)
          BY <1>1, <3>4, <4>1 DEF InTurn, Commanded, JobOK
        <5>2. j = Record(h, made[h], None) /\ jobs[j] = 1
          BY <1>1, <1>3, <2>1, <2>6, <3>4 DEF TakeRecord, JobOK
        <5> QED
          BY <3>3, <4>1, <5>1, <5>2
      <4>3. i # j
        BY <2>1, <4>2
      <4>4. jobs[i] \in Nat
        BY <4>1 DEF Commanded, IsABag, Pending, BagToSet
      <4> QED
        BY <3>3, <4>1, <4>2, <4>3, <4>4
    <3> QED
      BY <3>4
  <2>10. \A i \in Pending' : i.op = "record" /\ i.who \in Handlers =>
            /\ jobs'[i] = 1 /\ handler'[i.who] = "sending" /\ i.n = made'[i.who]
            /\ \A x \in DOMAIN arrived' : arrived'[x][1] = i.who => arrived'[x][2] < i.n
    <3>1. ASSUME NEW i \in Pending', i.op = "record", i.who \in Handlers
          PROVE  /\ jobs'[i] = 1 /\ handler'[i.who] = "sending" /\ i.n = made'[i.who]
                 /\ \A x \in DOMAIN arrived' : arrived'[x][1] = i.who => arrived'[x][2] < i.n
      <4>1. i \in Pending /\ jobs'[i] = jobs[i] /\ i.who # h
        BY <2>9, <3>1
      <4>2. /\ jobs[i] = 1 /\ handler[i.who] = "sending" /\ i.n = made[i.who]
            /\ \A x \in DOMAIN a : a[x][1] = i.who => a[x][2] < i.n
        BY <1>1, <2>3, <3>1, <4>1 DEF InTurn
      <4>3. handler'[i.who] = handler[i.who]
        BY <1>3, <2>1, <3>1, <4>1 DEF TakeRecord, Types
      <4> QED
        BY <1>1, <2>5, <4>1, <4>2, <4>3
    <3> QED
      BY <3>1
  <2> QED
    BY <1>1, <2>7, <2>8, <2>10 DEF InTurn
<1> QED
  BY <1>2, <1>3

\* A step that takes no record and adds none of a client keeps the order.
LEMMA InTurnOthers ==
  ASSUME InTurn, UNCHANGED <<arrived, made, handler>>, loop' # "ended" => loop # "ended",
         \A i \in Pending' : i.op = "record" /\ i.who \in Handlers =>
             i \in Pending /\ jobs'[i] = jobs[i]
  PROVE  InTurn'
  BY DEF InTurn

\* Such is a command.
LEMMA InTurnExecute ==
  ASSUME Commanded, InTurn, NEW j, Execute(j)
  PROVE  InTurn'
<1>1. UNCHANGED <<arrived, made, handler, loop>> /\ "terminal" \notin Handlers
  BY TerminalAssumption DEF Execute
<1>2. PICK new : Instead(j, new) /\ \A i \in new : Plain(i)
  BY ExecuteEmits
<1>3. j \in Pending /\ j.op # "record"
  BY ExecuteEmits DEF IsMessage, Messages
<1>4. /\ Pending' \subseteq Pending \cup new
      /\ \A i \in Pending' : jobs'[i] = (IF i \in Pending THEN jobs[i] ELSE 0)
                               - (IF i = j THEN 1 ELSE 0) + (IF i \in new THEN 1 ELSE 0)
  BY <1>2, <1>3, Replaced DEF Commanded
<1>5. \A i \in Pending : jobs[i] \in Nat
  BY DEF Commanded, IsABag, Pending, BagToSet
<1>6. \A i \in Pending' : i.op = "record" /\ i.who \in Handlers =>
          i \in Pending /\ jobs'[i] = jobs[i]
  BY <1>1, <1>2, <1>3, <1>4, <1>5 DEF Plain
<1> QED
  BY <1>1, <1>6, InTurnOthers

\* What keys emit is no client's record.
LEMMA EmitsNoRequest ==
  ASSUME Commanded, Emits, NEW i \in Pending', i.op = "record", i.who \in Handlers
  PROVE  i \in Pending /\ jobs'[i] = jobs[i]
<1>1. CASE UNCHANGED jobs
  BY <1>1 DEF Pending
<1>2. ASSUME NEW new, Adding(new), \A x \in new : Plain(x)'
      PROVE  i \in Pending /\ jobs'[i] = jobs[i]
  <2>1. i \notin new
    BY <1>2, TerminalAssumption DEF Plain
  <2>2. /\ Pending' = Pending \cup new
        /\ jobs'[i] = (IF i \in Pending THEN jobs[i] ELSE 0) + (IF i \in new THEN 1 ELSE 0)
    BY <1>2, Added DEF Commanded
  <2>3. jobs[i] \in Nat
    BY <2>1, <2>2 DEF Commanded, IsABag, Pending, BagToSet
  <2> QED
    BY <2>1, <2>2, <2>3
<1> QED
  BY <1>1, <1>2 DEF Emits

\* Such is a key.
LEMMA InTurnPress ==
  ASSUME Commanded, Views, InTurn, NEW k, Press(k)
  PROVE  InTurn'
<1>1. UNCHANGED <<arrived, made, handler>> /\ loop = "ready"
  BY DEF Press
<1> QED
  BY <1>1, PressEmits, EmitsNoRequest, InTurnOthers

\* A request reports one mutation at a time.
LEMMA InTurnRequests ==
  ASSUME Commanded, Types, Logged, InTurn,
         \/ ShutdownReturns \/ StopReturns
         \/ \E h \in Handlers : Request(h) \/ Serve(h) \/ Released(h)
  PROVE  InTurn'
<1>1. arrived' = arrived
  BY DEF ShutdownReturns, StopReturns, Request, Serve, Released, history
<1>2. CASE StopReturns
  <2>1. UNCHANGED <<arrived, made, handler>> /\ loop = "closing"
    BY <1>2 DEF StopReturns, history, simulator
  <2>2. Plain(QuitMsg)'
    BY DEF Plain, JobOK, QuitMsg
  <2>3. Emits
    BY <1>2, <2>2 DEF StopReturns, Emits
  <2> QED
    BY <2>1, <2>3, EmitsNoRequest, InTurnOthers
<1>3. ASSUME NEW h \in Handlers, Request(h)
      PROVE  InTurn'
  <2>1. /\ UNCHANGED <<made, loop, jobs>> /\ handler[h] = "idle"
        /\ handler' = [handler EXCEPT ![h] = "busy"]
    BY <1>3 DEF Request, history
  <2>2. \A x \in Handlers : handler[x] = "sending" => handler'[x] = "sending"
    BY <2>1 DEF Types
  <2> QED
    BY <1>1, <2>1, <2>2 DEF InTurn, Pending
<1>4. ASSUME NEW h \in Handlers, Released(h)
      PROVE  InTurn'
  <2>1. UNCHANGED made /\ loop' = "ended"
    BY <1>4 DEF Released, history
  <2> QED
    BY <1>1, <2>1 DEF InTurn
<1>5. ASSUME NEW h \in Handlers, Serve(h)
      PROVE  InTurn'
  <2>1. handler[h] = "busy" /\ loop' = loop /\ made \in [Handlers -> Nat]
    BY <1>5 DEF Serve, InTurn
  <2>4. \A x \in DOMAIN arrived : arrived[x][2] \in Nat
    BY DEF Logged
  <2>2. CASE UNCHANGED <<made, jobs>> /\ handler' = [handler EXCEPT ![h] = "idle"]
    <3>1. \A x \in Handlers : handler[x] = "sending" => handler'[x] = "sending"
      BY <2>1, <2>2 DEF Types
    <3> QED
      BY <1>1, <2>1, <2>2, <3>1 DEF InTurn, Pending
  <2>3. CASE /\ loop # "ended"
             /\ handler' = [handler EXCEPT ![h] = "sending"]
             /\ made' = [made EXCEPT ![h] = @ + 1]
             /\ Adding({Record(h, made[h] + 1, None)})
    <3>1. PICK e : e = Record(h, made[h] + 1, None)
      OBVIOUS
    <3>2. e.op = "record" /\ e.who = h /\ e.n = made'[h] /\ made'[h] = made[h] + 1
      BY <2>1, <2>3, <3>1 DEF Record
    <3>3. /\ Pending' = Pending \cup {e}
          /\ \A i \in Pending' : jobs'[i] = (IF i \in Pending THEN jobs[i] ELSE 0)
                                            + (IF i \in {e} THEN 1 ELSE 0)
      BY <2>3, <3>1, Added DEF Commanded
    <3>4. \A i \in Pending : i.op = "record" /\ i.who \in Handlers => i.who # h
      BY <2>1, <2>3 DEF InTurn
    <3>5. \A x \in Handlers : made'[x] \in Nat /\ made[x] <= made'[x]
      BY <2>1, <2>3
    <3>6. made' \in [Handlers -> Nat]
      BY <2>1, <2>3
    <3>7. \A i \in DOMAIN arrived' :
              arrived'[i][1] \in Handlers => arrived'[i][2] <= made'[arrived'[i][1]]
      <4>1. ASSUME NEW i \in DOMAIN arrived, arrived[i][1] \in Handlers
            PROVE  arrived[i][2] <= made'[arrived[i][1]]
        <5>1. arrived[i][2] <= made[arrived[i][1]]
          BY <4>1 DEF InTurn
        <5> QED
          BY <2>1, <2>4, <3>5, <4>1, <5>1
      <4> QED
        BY <1>1, <4>1
    <3>8. ASSUME NEW i \in Pending', i.op = "record", i.who \in Handlers
          PROVE  /\ jobs'[i] = 1 /\ handler'[i.who] = "sending" /\ i.n = made'[i.who]
                 /\ \A x \in DOMAIN arrived : arrived[x][1] = i.who => arrived[x][2] < i.n
      <4>1. CASE i = e
        <5>1. e \notin Pending
          BY <3>2, <3>4
        <5>2. \A x \in DOMAIN arrived : arrived[x][1] = h => arrived[x][2] < made[h] + 1
          <6>1. ASSUME NEW x \in DOMAIN arrived, arrived[x][1] = h
                PROVE  arrived[x][2] < made[h] + 1
            <7>1. arrived[x][2] <= made[h] /\ made[h] \in Nat
              BY <2>1, <6>1 DEF InTurn
            <7> QED
              BY <2>4, <7>1
          <6> QED
            BY <6>1
        <5> QED
          BY <2>1, <2>3, <3>2, <3>3, <4>1, <5>1, <5>2 DEF Types
      <4>2. CASE i # e
        <5>1. i \in Pending /\ jobs'[i] = jobs[i]
          <6>1. i \in Pending
            BY <3>3, <4>2
          <6> QED
            BY <3>3, <4>2, <6>1 DEF Commanded, IsABag, Pending, BagToSet
        <5>2. i.who # h
          BY <3>4, <3>8, <5>1
        <5> QED
          BY <2>1, <2>3, <3>8, <5>1, <5>2 DEF InTurn, Types
      <4> QED
        BY <4>1, <4>2
    <3> QED
      BY <1>1, <3>6, <3>7, <3>8 DEF InTurn
  <2> QED
    BY <1>5, <2>2, <2>3 DEF Serve
<1>6. CASE ShutdownReturns
  BY <1>6 DEF ShutdownReturns, simulator, history, InTurn, Pending
<1> QED
  BY <1>2, <1>3, <1>4, <1>5, <1>6

\* So every step keeps the order of each client's records.
LEMMA InTurnNext ==
  ASSUME Commanded, Types, Views, Logged, InTurn, Next
  PROVE  InTurn'
BY InTurnExecute, InTurnTake, InTurnPress, InTurnRequests DEF Next

\* At first no record was sent.
LEMMA InTurnInit == Init => InTurn
<1> SUFFICES ASSUME Init PROVE InTurn
  OBVIOUS
<1>1. arrived = <<>> /\ made = [h \in Handlers |-> 0] /\ Pending = {Tick}
  BY DEF Init, Pending, BagToSet, SetToBag
<1> QED
  BY <1>1 DEF InTurn, Tick
-----------------------------------------------------------------------------
(* Theorems *)

TerminalInv == Commanded /\ Types /\ Views /\ Logged /\ InTurn

\* The five parts together are inductive.
LEMMA TerminalInvariant == Spec => []TerminalInv
<1>1. Init => TerminalInv
  BY CommandedInit, TypesInit, ViewsInit, LoggedInit, InTurnInit DEF TerminalInv
<1>2. TerminalInv /\ [Next]_vars => TerminalInv'
  <2> SUFFICES ASSUME TerminalInv, [Next]_vars PROVE TerminalInv'
    OBVIOUS
  <2>1. CASE Next
    <3>1. made \in [Handlers -> Nat]
      BY DEF TerminalInv, InTurn
    <3>2. Commanded' /\ Types' /\ Views' /\ Logged' /\ InTurn'
      BY <2>1, <3>1, CommandedNext, TypesNext, ViewsNext, LoggedNext, InTurnNext
      DEF TerminalInv
    <3> QED
      BY <3>2 DEF TerminalInv
  <2>2. CASE UNCHANGED vars
    <3>1. UNCHANGED <<simulator, loop, jobs, active, modal, bar, screens, limits, history>>
      BY <2>2 DEF vars
    <3>2. Commanded'
      BY <3>1 DEF bar, history, TerminalInv, Commanded, JobOK, ModalOK, Pending
    <3>3. Types'
      BY <3>1 DEF simulator, screens, history, TerminalInv, Types
    <3>4. Views' /\ Logged'
      BY <3>1 DEF screens, history, TerminalInv, Views, Logged
    <3>5. InTurn'
      BY <3>1 DEF simulator, history, TerminalInv, InTurn, Pending
    <3> QED
      BY <3>2, <3>3, <3>4, <3>5 DEF TerminalInv
  <2> QED
    BY <2>1, <2>2
<1> QED
  BY <1>1, <1>2, PTL DEF Spec

\* Nothing is deleted that was not selected when "d" was pressed and named by the prompt that
\* was answered yes (deleteProfileCmd and its like, confirm_modal.go).
THEOREM OnlyConfirmedGo == Spec => []DeletesAsConfirmed
<1>1. TerminalInv => DeletesAsConfirmed
  BY DEF TerminalInv, Commanded, DeletesAsConfirmed
<1> QED
  BY <1>1, TerminalInvariant, PTL

\* The log screen shows the last records, each sender's in its order (log.go, ring).
THEOREM LogIsFaithful == Spec => []LogFaithful
<1>1. TerminalInv => LogFaithful
  BY DEF TerminalInv, Logged, InTurn, LogFaithful, Shown, From
<1> QED
  BY <1>1, TerminalInvariant, PTL

\* A text stays in the status bar for its time (setFlash and clearFlashMsg, root.go).
THEOREM TextsLast == Spec => FlashLasts
<1>1. TerminalInv /\ [Next]_vars =>
          [flash # 0 /\ flash' # flash =>
             IF flash' = 0
             THEN Expire(flash) \in Pending /\ Expire(flash) \notin BagToSet(jobs')
             ELSE flash' > flash]_vars
  <2> SUFFICES ASSUME TerminalInv, Next, flash # 0, flash' # flash
               PROVE  IF flash' = 0
                      THEN Expire(flash) \in Pending /\ Expire(flash) \notin BagToSet(jobs')
                      ELSE flash' > flash
    OBVIOUS
  <2> QED
    BY FlashStep DEF TerminalInv, Pending
<1> QED
  BY <1>1, TerminalInvariant, PTL DEF Spec, FlashLasts

\* The selection of every list is on one of its rows, or on the first place of an empty one
\* (refreshFromSnapshot), and everything has its type.
THEOREM TerminalTypes == Spec => []TypeOK
<1>1. TerminalInv => TypeOK
  <2> SUFFICES ASSUME TerminalInv PROVE TypeOK
    OBVIOUS
  <2>1. /\ running \in BOOLEAN /\ config \in Config
        /\ handler \in [Handlers -> {"idle", "busy", "sending"}]
        /\ loop \in {"ready", "stopping", "closing", "ended"} /\ active \in 1 .. 6
        /\ since \in {"never", "quit", "started"}
    BY DEF TerminalInv, Types
  <2>2. device.focus \in 0 .. 2
    BY DEF TerminalInv, Types
  <2>3. IsABag(jobs) /\ \A j \in Pending : j.op = "tick" => jobs[j] = 1
    BY DEF TerminalInv, Commanded
  <2>4. modal = None \/ modal.kind \in {"confirm", "trigger", "send", "form"}
    BY DEF TerminalInv, Commanded, ModalOK
  <2>5. flashSeq \in Nat /\ flash \in {0, flashSeq}
    BY DEF TerminalInv, Commanded
  <2>6. \A l \in Lists : view[l].selected \in 0 .. Max({0, Len(view[l].rows) - 1})
    BY DEF TerminalInv, Views
  <2>7. Len(log.entries) <= LogCap
    <3>1. Len(arrived) \in Nat /\ cleared \in 0 .. Len(arrived) /\ LogCap \in Nat \ {0}
      BY TerminalAssumption DEF TerminalInv, Logged
    <3>2. PICK n, f : n = Len(arrived) /\ f = From(arrived, cleared)
      OBVIOUS
    <3>3. f \in 0 .. n /\ f >= n - LogCap
      BY <3>1, <3>2, MaxOfTwo DEF From
    <3>4. Len(log.entries) = IF f + 1 <= n THEN n - (f + 1) + 1 ELSE 0
      <4>1. \A i \in f + 1 .. n : arrived[i] \in Senders \X Nat
        BY <3>1, <3>2, <3>3 DEF TerminalInv, Logged
      <4>2. f + 1 \in Int /\ n \in Int
        BY <3>1, <3>2, <3>3
      <4>3. Len(SubSeq(arrived, f + 1, n)) = IF f + 1 <= n THEN n - (f + 1) + 1 ELSE 0
        BY <4>1, <4>2, SubSeqProperties
      <4> QED
        BY <3>2, <4>3 DEF TerminalInv, Logged, Shown
    <3> QED
      BY <3>1, <3>2, <3>3, <3>4
  <2> QED
    BY <2>1, <2>2, <2>3, <2>4, <2>5, <2>6, <2>7 DEF TypeOK
<1> QED
  BY <1>1, TerminalInvariant, PTL
=============================================================================
