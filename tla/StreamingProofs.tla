--------------------------- MODULE StreamingProofs ---------------------------
(***************************************************************************)
(* Sources and their helpers: proofs about Streaming, for any cameras,     *)
(* transcoders, siblings and files, any sizes and any range of timestamps. *)
(*                                                                         *)
(* First, where Run, helper, supervisor, reader and writing loop of one    *)
(* source can stand together, and that a step of one source leaves the     *)
(* others where they are; with that, that the count of users of the        *)
(* camera helper's files is the number of those who hold them, so that     *)
(* the last to let go is the only one to remove them.                      *)
(*                                                                         *)
(* Then the timestamps of a looped file: a player stays in its pass, whose *)
(* stamps begin one tick after the last of the pass before.                *)
(***************************************************************************)
EXTENDS Streaming, FiniteSetTheorems, TLAPS

\* Where the Run goroutine of each kind of source can stand.
Places ==
    /\ \A t \in Cameras : run[t] \in {"none", "start", "dumped", "piped", "configure", "abandon",
                                      "select", "closing", "waiting", "stopped"}
    /\ \A t \in Transcoders : run[t] \in {"none", "start", "extracted", "select", "closing",
                                          "waiting", "stopped"}
    /\ \A t \in Siblings : run[t] \in {"none", "start", "alone", "stopped"}
    /\ \A t \in Files : run[t] \in {"none", "start", "playing", "stopped"}

\* How far the helper, its supervisor, its reader and the writing loop can be then.
HelperInStep(t) ==
    /\ run[t] \in {"none", "start", "dumped", "piped", "extracted"} =>
           helper[t] = "none" /\ sup[t] = "none" /\ reader[t] = "none" /\ inner[t] = "none"
    /\ run[t] \in {"configure", "abandon"} => inner[t] = "none"
    /\ run[t] = "waiting" => sup[t] = "done"
    /\ run[t] = "stopped" => sup[t] \in {"none", "done"} /\ inner[t] # "running"
    /\ sup[t] = "none" => helper[t] = "none" /\ reader[t] = "none"
    /\ sup[t] \in {"exited", "done"} => helper[t] = "dead"
    /\ sup[t] \in {"unread", "done"} => reader[t] = "done"
SiblingInStep(s) == run[s] \in {"none", "start", "stopped"} => inner[s] # "running"
InStep == (\A t \in Helpers : HelperInStep(t)) /\ \A s \in Siblings : SiblingInStep(s)

\* What is registered and what is left to remove, while the server starts and stops.
Removal ==
    /\ owner = "started" => registered = streams
    /\ owner \in {"stopping", "stopped"} => left = streams
    /\ owner = "waiting" => target \in Tokens \ left /\ streams = left \cup {target}
    /\ owner # "started" => registered = left
    /\ owner = "stopped" => streams = {}
    /\ \A t \in Tokens \ streams : run[t] \in {"none", "stopped"}

\* Who holds files of a helper.
Counted == dumpCount = Cardinality(Holding)
Extracted == \A t \in Transcoders : run[t] \in {"extracted", "select", "closing"} => t \in binaries

IInv == TypeOK /\ Places /\ InStep /\ Removal /\ Counted /\ Extracted

-----------------------------------------------------------------------------
\* Every token is of one kind.
LEMMA Kinds ==
    /\ Helpers = Cameras \cup Transcoders /\ Fed = Helpers \cup Siblings
    /\ Tokens = Fed \cup Files
    /\ \A c \in Cameras : c \notin Transcoders
    /\ \A h \in Helpers : h \notin Siblings
    /\ \A t \in Fed : t \notin Files
    /\ \A s \in Siblings : Parent[s] \in Cameras
    /\ None \notin Tokens
  BY StreamingAssumption DEF Helpers, Fed, Tokens

\* A Run goroutine moves: only its own source can begin or cease to hold the files.
HoldingPlaces == {"dumped", "piped", "configure", "abandon", "select", "closing"}
\* Who holds the files depends on where Run stands.
LEMMA HoldingMoves ==
  ASSUME TypeOK, NEW t \in Tokens, NEW label, Goto(t, label)
  PROVE  Holding' = IF t \in Cameras /\ label \in HoldingPlaces
                    THEN Holding \cup {t} ELSE Holding \ {t}
  BY Kinds DEF TypeOK, Goto, Holding, HoldingPlaces

\* The holders are finitely many, and one more or less counts as one.
LEMMA HoldingFinite ==
  /\ IsFiniteSet(Holding) /\ Cardinality(Holding) \in Nat
  /\ \A t : t \in Holding =>
        Cardinality(Holding) > 0 /\ Cardinality(Holding \ {t}) = Cardinality(Holding) - 1
  /\ \A t : t \notin Holding => Cardinality(Holding \cup {t}) = Cardinality(Holding) + 1
<1>1. IsFiniteSet(Holding)
  <2>1. Holding \subseteq Tokens
    BY Kinds DEF Holding
  <2> QED
    BY <2>1, StreamingAssumption, FS_Subset
<1>2. Cardinality(Holding) \in Nat
  BY <1>1, FS_CardinalityType
<1>3. ASSUME NEW t \in Holding
      PROVE  Cardinality(Holding) > 0 /\ Cardinality(Holding \ {t}) = Cardinality(Holding) - 1
  <2>1. Cardinality(Holding) # 0
    BY <1>1, FS_EmptySet
  <2> QED
    BY <1>1, <1>2, <2>1, FS_RemoveElement
<1> QED
  BY <1>1, <1>2, <1>3, FS_AddElement

-----------------------------------------------------------------------------
\* The count of the files follows the cameras that hold them.
LEMMA CountStep == ASSUME IInv, Next PROVE Counted' /\ dumpCount' \in Nat
<1> USE Kinds
<1>1. TypeOK /\ Counted /\ dumpCount \in Nat
  BY DEF IInv, TypeOK
<1>2. ASSUME NEW t \in Tokens, NEW label, Goto(t, label), UNCHANGED dumpCount,
             t \in Cameras => (run[t] \in HoldingPlaces <=> label \in HoldingPlaces)
      PROVE  Counted' /\ dumpCount' \in Nat
  <2>1. Holding' = Holding
    BY <1>1, <1>2, HoldingMoves DEF Holding, HoldingPlaces
  <2> QED
    BY <1>1, <1>2, <2>1 DEF Counted
<1>3. ASSUME NEW t \in Cameras, NEW label, Goto(t, label), label \in HoldingPlaces,
             run[t] \notin HoldingPlaces, dumpCount' = dumpCount + 1
      PROVE  Counted' /\ dumpCount' \in Nat
  <2>1. Holding' = Holding \cup {t} /\ t \notin Holding
    BY <1>1, <1>3, HoldingMoves DEF Holding, HoldingPlaces
  <2> QED
    BY <1>1, <1>3, <2>1, HoldingFinite DEF Counted
<1>4. ASSUME NEW t \in Cameras, NEW label, Goto(t, label), label \notin HoldingPlaces,
             run[t] \in HoldingPlaces, dumpCount' = dumpCount - 1
      PROVE  Counted' /\ dumpCount' \in Nat
  <2>1. Holding' = Holding \ {t} /\ t \in Holding
    BY <1>1, <1>4, HoldingMoves DEF Holding, HoldingPlaces
  <2> QED
    BY <1>1, <1>4, <2>1, HoldingFinite DEF Counted
<1>5. UNCHANGED <<run, dumpCount>> => Counted' /\ dumpCount' \in Nat
  BY <1>1 DEF Counted, Holding
<1>6. CASE Start
  <2>1. Holding = {} /\ Holding' = {} /\ dumpCount' = dumpCount
    BY <1>6 DEF Start, Holding, IInv, Removal, files
  <2> QED
    BY <1>1, <2>1 DEF Counted
<1>7. CASE \E t \in Tokens : AddSource(t)
  BY <1>2, <1>7 DEF AddSource, At, HoldingPlaces, files
<1>8. CASE BeginStop \/ Stop
  BY <1>5, <1>8 DEF BeginStop, Stop, CloseStream, CloseListener, Unregister, files
<1>9. ASSUME NEW c \in Cameras, OpenCamera(c) PROVE Counted' /\ dumpCount' \in Nat
  <2>1. CASE DumpComponent(c)
    BY <1>2, <1>3, <2>1 DEF DumpComponent, At, HoldingPlaces
  <2>2. CASE NewPipes(c)
    BY <1>2, <1>4, <2>2 DEF NewPipes, At, HoldingPlaces
  <2>3. CASE StartCamera(c)
    BY <1>2, <1>4, <2>3 DEF StartCamera, At, HoldingPlaces
  <2>4. CASE Configure(c)
    BY <1>2, <2>4 DEF Configure, At, HoldingPlaces, files
  <2>5. CASE Abandon(c)
    BY <1>4, <2>5 DEF Abandon, At, HoldingPlaces
  <2> QED
    BY <1>9, <2>1, <2>2, <2>3, <2>4, <2>5 DEF OpenCamera
<1>10. ASSUME NEW t \in Transcoders, OpenTranscoder(t) PROVE Counted' /\ dumpCount' \in Nat
  BY <1>2, <1>10 DEF OpenTranscoder, ExtractBinary, StartTranscoder
<1>11. ASSUME NEW t \in Helpers, RunHelper(t) PROVE Counted' /\ dumpCount' \in Nat
  <2>1. CASE Shutdown(t)
    BY <1>2, <2>1 DEF Shutdown, At, HoldingPlaces, files
  <2>2. CASE CloseHelper(t)
    BY <1>2, <1>4, <2>2 DEF CloseHelper, Release, At, HoldingPlaces
  <2>3. CASE Finish(t)
    BY <1>2, <2>3 DEF Finish, At, HoldingPlaces, files
  <2> QED
    BY <1>11, <2>1, <2>2, <2>3 DEF RunHelper
<1>12. ASSUME NEW s \in Siblings, RunSibling(s) PROVE Counted' /\ dumpCount' \in Nat
  BY <1>2, <1>12 DEF RunSibling, Inner, files
<1>13. ASSUME NEW t \in Fed, EndInner(t) PROVE Counted' /\ dumpCount' \in Nat
  BY <1>2, <1>5, <1>13 DEF EndInner, Inner, files
<1>14. ASSUME NEW f \in Files, \/ BeginLoop(f) \/ EndLoop(f) \/ PlaySample(f) \/ Rewind(f)
                               \/ FailLoop(f)
       PROVE  Counted' /\ dumpCount' \in Nat
  BY <1>2, <1>5, <1>14 DEF BeginLoop, EndLoop, PlaySample, Rewind, FailLoop, Plays, files
<1>15. ASSUME NEW t \in Fed, WriteFrame(t) PROVE Counted' /\ dumpCount' \in Nat
  BY <1>5, <1>15 DEF WriteFrame, Inner, files
<1>16. ASSUME NEW t \in Helpers, Supervise(t) PROVE Counted' /\ dumpCount' \in Nat
  BY <1>5, <1>16 DEF Supervise, SeeExit, SeeReaderEnd, SeeTerminate, AwaitExit, AwaitReader,
     Supervised, files
<1>17. ASSUME NEW t \in Helpers, Exit(t) \/ ReadFrame(t) \/ ReadBadFrame(t) \/ Read(t)
       PROVE  Counted' /\ dumpCount' \in Nat
  BY <1>5, <1>17 DEF Exit, ReadFrame, ReadBadFrame, Read, ReadEnd, Push, Reads, files
<1> QED
  BY <1>6, <1>7, <1>8, <1>9, <1>10, <1>11, <1>12, <1>13, <1>14, <1>15, <1>16, <1>17
  DEF Next, Drive

-----------------------------------------------------------------------------
\* The types of what moves.
Shape ==
    /\ run \in [Tokens -> {"none", "start", "dumped", "piped", "configure", "abandon",
                           "extracted", "select", "closing", "waiting", "alone", "playing",
                           "stopped"}]
    /\ helper \in [Helpers -> {"none", "running", "told", "dead"}]
    /\ sup \in [Helpers -> {"none", "select", "exited", "unread", "terminating", "done"}]
    /\ reader \in [Helpers -> {"none", "reading", "push", "done"}]
    /\ inner \in [Fed -> {"none", "running", "done"}]

\* What the steps of a source rely on of the types.
LEMMA TypeOKShape == TypeOK => Shape
  BY DEF TypeOK, Shape

\* A step that leaves the goroutines and helpers of all sources but t alone.
Others(t) ==
    /\ \A u \in Tokens \ {t} : run'[u] = run[u]
    /\ \A u \in Helpers \ {t} : /\ helper'[u] = helper[u] /\ sup'[u] = sup[u]
                                /\ reader'[u] = reader[u]
    /\ \A u \in Fed \ {t} : inner'[u] = inner[u]

\* The goroutines of one source stay in step with each other, and move only while the
\* source is there.
Local(t) ==
    /\ t \in Helpers => HelperInStep(t)
    /\ t \in Siblings => SiblingInStep(t)
    /\ t \in Cameras => run[t] \in {"none", "start", "dumped", "piped", "configure", "abandon",
                                    "select", "closing", "waiting", "stopped"}
    /\ t \in Transcoders => run[t] \in {"none", "start", "extracted", "select", "closing",
                                        "waiting", "stopped"}
    /\ t \in Siblings => run[t] \in {"none", "start", "alone", "stopped"}
    /\ t \in Files => run[t] \in {"none", "start", "playing", "stopped"}

\* A step of one source leaves the others in step.
LEMMA LocalSteps ==
  ASSUME IInv, NEW t \in Tokens, Others(t), Local(t)',
         UNCHANGED <<owner, registered, left, target, streams>>,
         run'[t] \in {"none", "stopped"} \/ run[t] \notin {"none", "stopped"},
         \A u \in Transcoders \ {t} : u \in binaries => u \in binaries',
         t \in Transcoders /\ run'[t] \in {"extracted", "select", "closing"} => t \in binaries'
  PROVE  Places' /\ InStep' /\ Removal' /\ Extracted'
<1> USE Kinds
<1>1. Places'
  BY DEF IInv, Places, Others, Local
<1>2. InStep'
  BY DEF IInv, InStep, HelperInStep, SiblingInStep, Others, Local
<1>3. Removal'
  BY DEF IInv, Removal, Others
<1>4. Extracted'
  BY DEF IInv, Extracted, Others
<1> QED
  BY <1>1, <1>2, <1>3, <1>4

\* Every step of a Run goroutine, or of what it started, keeps its source in step.
LEMMA DriveStep ==
  ASSUME IInv, NEW t \in Tokens, Drive(t)
  PROVE  Places' /\ InStep' /\ Removal' /\ Extracted'
<1> USE Kinds DEF At, Goto, server, process, source
<1>1. Shape /\ (t \in Helpers => HelperInStep(t)) /\ (t \in Siblings => SiblingInStep(t))
      /\ Places /\ Extracted
  BY TypeOKShape DEF IInv, InStep
<1>2. CASE t \in Cameras /\ OpenCamera(t)
  <2> USE <1>1, <1>2 DEF Shape, HelperInStep, Places
  <2>1. CASE DumpComponent(t)
    BY <2>1, LocalSteps DEF DumpComponent, Others, Local
  <2>2. CASE NewPipes(t)
    BY <2>2, LocalSteps DEF NewPipes, Others, Local
  <2>3. CASE StartCamera(t)
    BY <2>3, LocalSteps DEF StartCamera, Launch, Others, Local
  <2>4. CASE Configure(t)
    BY <2>4, LocalSteps DEF Configure, Others, Local, files
  <2>5. CASE Abandon(t)
    BY <2>5, LocalSteps DEF Abandon, Others, Local
  <2> QED
    BY <1>2, <2>1, <2>2, <2>3, <2>4, <2>5 DEF OpenCamera
<1>3. CASE t \in Transcoders /\ OpenTranscoder(t)
  <2> USE <1>1, <1>3 DEF Shape, HelperInStep, Places, Extracted
  <2>1. CASE ExtractBinary(t)
    BY <2>1, LocalSteps DEF ExtractBinary, Others, Local
  <2>2. CASE StartTranscoder(t)
    BY <2>2, LocalSteps DEF StartTranscoder, Launch, Others, Local
  <2> QED
    BY <1>3, <2>1, <2>2 DEF OpenTranscoder
<1>4. CASE t \in Helpers /\ RunHelper(t)
  <2> USE <1>1, <1>4 DEF Shape, HelperInStep, Places, Extracted
  <2>1. CASE Shutdown(t)
    BY <2>1, LocalSteps DEF Shutdown, Others, Local, files
  <2>2. CASE CloseHelper(t)
    BY <2>2, LocalSteps DEF CloseHelper, Release, Others, Local
  <2>3. CASE Finish(t)
    BY <2>3, LocalSteps DEF Finish, Others, Local, files
  <2> QED
    BY <1>4, <2>1, <2>2, <2>3 DEF RunHelper
<1>5. CASE t \in Siblings /\ RunSibling(t)
  BY <1>1, <1>5, LocalSteps DEF RunSibling, Inner, Others, Local, Shape, SiblingInStep, files
<1>6. CASE t \in Fed /\ EndInner(t)
  BY <1>1, <1>6, LocalSteps DEF EndInner, Inner, Others, Local, Shape, SiblingInStep,
     HelperInStep, Places, Extracted, files
<1>7. CASE t \in Files /\ (BeginLoop(t) \/ EndLoop(t))
  BY <1>1, <1>7, LocalSteps DEF BeginLoop, EndLoop, Plays, Others, Local, Shape, files
<1> QED
  BY <1>2, <1>3, <1>4, <1>5, <1>6, <1>7 DEF Drive

\* The helper's side: the process, its supervisor and its reader.
LEMMA HelperStep ==
  ASSUME IInv, NEW t \in Helpers,
         Supervise(t) \/ Exit(t) \/ ReadFrame(t) \/ ReadBadFrame(t) \/ Read(t)
  PROVE  Places' /\ InStep' /\ Removal' /\ Extracted'
<1> USE Kinds DEF server, process, source, files
<1>1. Shape /\ HelperInStep(t) /\ Places /\ Extracted
  BY TypeOKShape DEF IInv, InStep
<1>2. CASE Supervise(t)
  <2> USE <1>1 DEF Shape, HelperInStep, Supervised, SupervisorAt
  <2>1. Others(t) /\ HelperInStep(t)'
    BY <1>2 DEF Supervise, SeeExit, SeeReaderEnd, SeeTerminate, AwaitExit, AwaitReader, Told,
       Terminated, Others
  <2>2. UNCHANGED <<owner, registered, left, target, streams, run, binaries>>
    BY <1>2 DEF Supervise, SeeExit, SeeReaderEnd, SeeTerminate, AwaitExit, AwaitReader
  <2> QED
    BY <2>1, <2>2 DEF Places, IInv, InStep, Removal, Extracted, Others, SiblingInStep
<1>3. CASE Exit(t) \/ ReadFrame(t) \/ ReadBadFrame(t) \/ Read(t)
  <2> USE <1>1 DEF Shape, HelperInStep, Reads, ReaderAt
  <2>1. Others(t) /\ HelperInStep(t)'
    BY <1>3 DEF Exit, ReadFrame, ReadBadFrame, Read, ReadEnd, Push, Alive, Others
  <2>2. UNCHANGED <<owner, registered, left, target, streams, run, binaries>>
    BY <1>3 DEF Exit, ReadFrame, ReadBadFrame, Read, ReadEnd, Push
  <2> QED
    BY <2>1, <2>2 DEF Places, IInv, InStep, Removal, Extracted, Others, SiblingInStep
<1> QED
  BY <1>2, <1>3

\* The server's side, and what no goroutine of a source notices.
LEMMA ServerStep ==
  ASSUME IInv, \/ Start \/ BeginStop \/ Stop
               \/ \E t \in Tokens : AddSource(t)
               \/ \E t \in Fed : WriteFrame(t)
               \/ \E f \in Files : PlaySample(f) \/ Rewind(f) \/ FailLoop(f)
  PROVE  Places' /\ InStep' /\ Removal' /\ Extracted'
<1> USE Kinds DEF server, process, source, files
<1>1. Shape /\ Places /\ InStep /\ Removal /\ Extracted
  BY TypeOKShape DEF IInv
<1>2. CASE Start
  <2>1. /\ run' = [t \in Tokens |-> "none"] /\ helper' = [t \in Helpers |-> "none"]
        /\ sup' = [t \in Helpers |-> "none"] /\ reader' = [t \in Helpers |-> "none"]
        /\ inner' = [t \in Fed |-> "none"]
    BY <1>2 DEF Start
  <2>2. Removal'
    BY <1>1, <1>2 DEF Start, Removal
  <2>3. Places' /\ Extracted'
    BY <2>1 DEF Places, Extracted
  <2>4. InStep'
    BY <2>1 DEF InStep, HelperInStep, SiblingInStep
  <2> QED
    BY <2>2, <2>3, <2>4
<1>3. CASE BeginStop \/ Stop
  <2>1. UNCHANGED <<run, helper, sup, reader, inner, binaries>>
    BY <1>3 DEF BeginStop, Stop, CloseStream, CloseListener, Unregister
  <2>2. Removal'
    <3> USE <1>1 DEF Removal
    <3>1. CASE BeginStop \/ CloseListener
      BY <3>1 DEF BeginStop, CloseListener
    <3>2. CASE CloseStream
      BY <3>2 DEF CloseStream, At
    <3>3. CASE \E t \in Tokens : Unregister(t)
      BY <3>3 DEF Unregister
    <3> QED
      BY <1>3, <3>1, <3>2, <3>3 DEF Stop
  <2> QED
    BY <1>1, <2>1, <2>2 DEF Places, InStep, HelperInStep, SiblingInStep, Extracted
<1>4. ASSUME NEW t \in Tokens, AddSource(t)
      PROVE  Places' /\ InStep' /\ Removal' /\ Extracted'
  <2>1. /\ UNCHANGED <<helper, sup, reader, inner, binaries, owner, left, target>>
        /\ run[t] = "none" /\ run' = [run EXCEPT ![t] = "start"]
        /\ registered' = registered \cup {t} /\ streams' = streams \cup {t}
        /\ owner = "started"
    BY <1>4 DEF AddSource, At, Goto
  <2>2. \A u \in Tokens : run'[u] = IF u = t THEN "start" ELSE run[u]
    BY <1>1, <2>1 DEF Shape
  <2> QED
    BY <1>1, <2>1, <2>2 DEF Places, InStep, HelperInStep, SiblingInStep, Removal, Extracted
<1>5. ASSUME NEW t \in Fed, WriteFrame(t)
      PROVE  Places' /\ InStep' /\ Removal' /\ Extracted'
  BY <1>1, <1>5 DEF WriteFrame, Inner, Places, InStep, HelperInStep, SiblingInStep, Removal,
     Extracted
<1>6. ASSUME NEW f \in Files, PlaySample(f) \/ Rewind(f)
      PROVE  Places' /\ InStep' /\ Removal' /\ Extracted'
  <2>1. UNCHANGED <<plan, owner, registered, left, target, streams, run, helper, sup, reader,
                    inner, binaries>>
    BY <1>6, Zenon DEF PlaySample, Rewind, Plays
  <2> QED
    BY <1>1, <2>1 DEF Places, InStep, HelperInStep, SiblingInStep, Removal, Extracted
<1>7. ASSUME NEW f \in Files, FailLoop(f)
      PROVE  Places' /\ InStep' /\ Removal' /\ Extracted'
  BY <1>1, <1>7, LocalSteps DEF FailLoop, Plays, Goto, Others, Local, Shape
<1> QED
  BY <1>2, <1>3, <1>4, <1>5, <1>6, <1>7

-----------------------------------------------------------------------------
(* Types *)

\* Arithmetic modulo the wrap, as far as the players need it.
LEMMA Modular ==
  /\ \A n \in Nat : n % Modulus \in Timestamps
  /\ \A n \in 0 .. Modulus - 1 : n % Modulus = n
  /\ \A n \in Modulus .. 2 * Modulus - 1 : n % Modulus = n - Modulus
<1>1. Modulus \in Nat \ {0}
  BY StreamingAssumption
<1>2. \A n \in Nat : n % Modulus \in Timestamps
  BY <1>1 DEF Timestamps
<1>3. \A n \in 0 .. Modulus - 1 : n % Modulus = n
  BY <1>1
<1>4. \A n \in Modulus .. 2 * Modulus - 1 : n % Modulus = n - Modulus
  BY <1>1
<1> QED
  BY <1>2, <1>3, <1>4

\* What the assumption says of samples.
LEMMA SampleLengths ==
  /\ Modulus \in Nat \ {0} /\ Len(Samples) \in Nat \ {0}
  /\ \A k \in 1 .. Len(Samples) : Samples[k].length \in Nat
<1>1. Samples \in Seq(Sample) /\ Modulus \in Nat \ {0} /\ Samples # <<>>
  BY StreamingAssumption
<1>2. \A k \in 1 .. Len(Samples) : Samples[k] \in Sample
  BY <1>1
<1> QED
  BY <1>1, <1>2 DEF Sample

\* Where a file player can stand.
Positions == [base : Timestamps, elapsed : Timestamps, at : 0 .. Len(Samples),
              last : Timestamps, stamp : Timestamps \cup {NoStamp}]
Position(p) ==
    /\ p.base \in Timestamps /\ p.elapsed \in Timestamps /\ p.at \in 0 .. Len(Samples)
    /\ p.last \in Timestamps /\ p.stamp \in Timestamps \cup {NoStamp}

\* A step moves one player, to a place given field by field, or resets them all.
Began(old, new) ==
    /\ new.base \in Timestamps /\ new.last = new.base
    /\ new.elapsed = old.elapsed /\ new.at = old.at /\ new.stamp = old.stamp
Played(old, new) ==
    /\ old.at < Len(Samples)
    /\ new.base = old.base
    /\ new.at = old.at + 1
    /\ new.elapsed = (old.elapsed + Samples[new.at].length) % Modulus
    /\ IF Samples[new.at].empty
          THEN new.last = old.last /\ new.stamp = old.stamp
          ELSE /\ new.last = (old.base + old.elapsed) % Modulus
               /\ new.stamp = new.last
Rewinds(old, new) ==
    /\ old.at = Len(Samples)
    /\ new.base = (old.last + 1) % Modulus /\ new.last = new.base
    /\ new.at = 0 /\ new.elapsed = 0 /\ new.stamp = old.stamp

\* A player begins a pass, sends a sample, or rewinds.
LEMMA PlayerMoves ==
  ASSUME loop \in [Files -> Positions], NEW f \in Files,
         BeginLoop(f) \/ PlaySample(f) \/ Rewind(f)
  PROVE  \E new \in Positions :
             /\ loop' = [loop EXCEPT ![f] = new]
             /\ \/ BeginLoop(f) /\ Began(loop[f], new)
                \/ PlaySample(f) /\ Played(loop[f], new)
                \/ Rewind(f) /\ Rewinds(loop[f], new)
<1>1. loop[f] \in Positions
  OBVIOUS
<1>2. Position(loop[f])
  BY <1>1 DEF Positions, Position
<1>3. CASE BeginLoop(f)
  <2>1. PICK ts \in Timestamps : loop' = [loop EXCEPT ![f].base = ts, ![f].last = ts]
    BY <1>3 DEF BeginLoop
  <2> DEFINE new == [loop[f] EXCEPT !.base = ts, !.last = ts]
  <2>2. new \in Positions /\ Began(loop[f], new)
    BY <1>1 DEF Positions, Began
  <2>3. loop' = [loop EXCEPT ![f] = new]
    BY <2>1
  <2> QED
    BY <1>3, <2>2, <2>3
<1>4. CASE PlaySample(f)
  <2> DEFINE s == Samples[loop[f].at + 1]
             ts == (loop[f].base + loop[f].elapsed) % Modulus
             new == [loop[f] EXCEPT !.at = @ + 1, !.elapsed = (@ + s.length) % Modulus,
                                    !.last = IF s.empty THEN @ ELSE ts,
                                    !.stamp = IF s.empty THEN @ ELSE ts]
  <2>1. loop[f].at < Len(Samples) /\ loop' = [loop EXCEPT ![f] = new]
    BY <1>4 DEF PlaySample
  <2> DEFINE n == loop[f].base + loop[f].elapsed
             m == loop[f].elapsed + s.length
  <2>5. n \in Nat /\ m \in Nat /\ loop[f].at + 1 \in 0 .. Len(Samples)
    <3>1. loop[f].at \in 0 .. Len(Samples) /\ loop[f].base \in Nat /\ loop[f].elapsed \in Nat
      BY <1>2, SampleLengths DEF Position, Timestamps
    <3>2. loop[f].at + 1 \in 1 .. Len(Samples)
      BY <2>1, <3>1, SampleLengths
    <3>3. s.length \in Nat
      BY <3>2, SampleLengths
    <3> HIDE DEF s
    <3> QED
      BY <3>1, <3>2, <3>3, SampleLengths, SMTT(30)
  <2>2. ts \in Timestamps /\ (loop[f].elapsed + s.length) % Modulus \in Timestamps
        /\ loop[f].at + 1 \in 0 .. Len(Samples)
    BY <2>5, Modular
  <2> HIDE DEF s, ts
  <2>3. new \in Positions
    BY <1>1, <2>2 DEF Positions
  <2>4. Played(loop[f], new)
    BY <1>1, <2>1 DEF Positions, Played, s, ts
  <2> QED
    BY <1>4, <2>1, <2>3, <2>4
<1>5. CASE Rewind(f)
  <2> DEFINE ts == (loop[f].last + 1) % Modulus
             new == [loop[f] EXCEPT !.at = 0, !.elapsed = 0, !.base = ts, !.last = ts]
  <2>1. loop[f].at = Len(Samples) /\ loop' = [loop EXCEPT ![f] = new]
    BY <1>5 DEF Rewind
  <2> DEFINE n == loop[f].last + 1
  <2>5. n \in Nat /\ 0 \in Timestamps /\ 0 \in 0 .. Len(Samples)
    BY <1>2, SampleLengths DEF Position, Timestamps
  <2>2. ts \in Timestamps /\ 0 \in Timestamps /\ 0 \in 0 .. Len(Samples)
    BY <2>5, Modular
  <2> HIDE DEF ts
  <2>3. new \in Positions
    BY <1>1, <2>2 DEF Positions
  <2>4. Rewinds(loop[f], new)
    BY <1>1, <2>1 DEF Positions, Rewinds, ts
  <2> QED
    BY <1>5, <2>1, <2>3, <2>4
<1> QED
  BY <1>3, <1>4, <1>5

\* What no file player notices.
LEMMA PlayersRest ==
  ASSUME Next
  PROVE  \/ UNCHANGED loop
         \/ Start /\ loop' = [f \in Files |-> Rewound]
         \/ \E f \in Files : BeginLoop(f) \/ PlaySample(f) \/ Rewind(f)
<1> USE DEF Reads, Inner, Plays, Supervised, Launch
<1>1. CASE Start
  BY <1>1 DEF Start
<1>2. CASE BeginStop \/ Stop \/ \E t \in Tokens : AddSource(t)
  BY <1>2 DEF BeginStop, Stop, CloseStream, CloseListener, Unregister, AddSource
<1>3. ASSUME NEW t \in Tokens, OpenCamera(t) \/ OpenTranscoder(t) PROVE UNCHANGED loop
  BY <1>3 DEF OpenCamera, OpenTranscoder, DumpComponent, NewPipes, StartCamera, Configure,
     Abandon, ExtractBinary, StartTranscoder
<1>4. ASSUME NEW t \in Tokens, RunHelper(t) \/ RunSibling(t) \/ EndInner(t) \/ WriteFrame(t)
                                \/ EndLoop(t) \/ FailLoop(t)
      PROVE  UNCHANGED loop
  BY <1>4 DEF RunHelper, Shutdown, CloseHelper, Finish, RunSibling, EndInner, WriteFrame,
     EndLoop, FailLoop
<1>5. ASSUME NEW t \in Tokens, \/ Supervise(t) \/ Exit(t) \/ ReadFrame(t) \/ ReadBadFrame(t)
                                \/ Read(t)
      PROVE  UNCHANGED loop
  BY <1>5 DEF Supervise, SeeExit, SeeReaderEnd, SeeTerminate, AwaitExit, AwaitReader, Exit,
     ReadFrame, ReadBadFrame, Read, ReadEnd, Push
<1> QED
  BY <1>1, <1>2, <1>3, <1>4, <1>5, Kinds DEF Next, Drive

\* The types, by what they are types of.
ServerTypes ==
    /\ plan \in Configurations
    /\ owner \in {"started", "stopping", "waiting", "stopped"}
    /\ registered \subseteq Tokens /\ left \subseteq Tokens
    /\ target \in Tokens \cup {None}
    /\ canceled \subseteq Tokens /\ streams \subseteq Tokens
SharedTypes ==
    /\ closed \subseteq Tokens /\ pipes \subseteq Cameras
    /\ inherited \in [Helpers -> SUBSET Cameras]
    /\ binaries \subseteq Transcoders
    /\ attached \subseteq Cameras /\ secondary \subseteq Cameras
QueueTypes == queue \in [Fed -> 0 .. BufferSize]

\* The types in groups that change together.
LEMMA TypesAre ==
  TypeOK <=> /\ ServerTypes /\ Shape /\ SharedTypes /\ QueueTypes
             /\ dumpCount \in Nat /\ loop \in [Files -> Positions]
  BY DEF TypeOK, ServerTypes, Shape, SharedTypes, QueueTypes, Positions

\* The server's own variables keep their types.
LEMMA ServerTypesStep == ASSUME ServerTypes, Next PROVE ServerTypes'
<1> USE Kinds DEF server, ServerTypes, Reads, Inner, Plays, Supervised, Launch
<1>1. CASE Start
  BY <1>1 DEF Start
<1>2. CASE BeginStop \/ Stop \/ \E t \in Tokens : AddSource(t)
  BY <1>2 DEF BeginStop, Stop, CloseStream, CloseListener, Unregister, AddSource
<1>3. ASSUME NEW t \in Tokens, OpenCamera(t) \/ OpenTranscoder(t) PROVE ServerTypes'
  BY <1>3 DEF OpenCamera, OpenTranscoder, DumpComponent, NewPipes, StartCamera, Configure,
     Abandon, ExtractBinary, StartTranscoder
<1>4. ASSUME NEW t \in Tokens, RunHelper(t) \/ RunSibling(t) \/ EndInner(t) \/ WriteFrame(t)
      PROVE  ServerTypes'
  BY <1>4 DEF RunHelper, Shutdown, CloseHelper, Finish, RunSibling, EndInner, WriteFrame
<1>5. ASSUME NEW t \in Tokens, \/ BeginLoop(t) \/ EndLoop(t) \/ PlaySample(t) \/ Rewind(t)
                                \/ FailLoop(t)
      PROVE  ServerTypes'
  <2>1. UNCHANGED <<plan, owner, registered, left, target, canceled, streams>>
    BY <1>5, Zenon DEF BeginLoop, EndLoop, PlaySample, Rewind, FailLoop
  <2> QED
    BY <2>1
<1>6. ASSUME NEW t \in Tokens, \/ Supervise(t) \/ Exit(t) \/ ReadFrame(t) \/ ReadBadFrame(t)
                                \/ Read(t)
      PROVE  ServerTypes'
  BY <1>6 DEF Supervise, SeeExit, SeeReaderEnd, SeeTerminate, AwaitExit, AwaitReader, Exit,
     ReadFrame, ReadBadFrame, Read, ReadEnd, Push
<1> QED
  BY <1>1, <1>2, <1>3, <1>4, <1>5, <1>6 DEF Next, Drive

\* What sources share keeps its types.
LEMMA SharedTypesStep == ASSUME SharedTypes, Next PROVE SharedTypes'
<1> USE Kinds DEF process, source, files, jpeg, SharedTypes, Reads, Inner, Plays, Supervised,
                  Launch
<1>1. CASE Start
  BY <1>1 DEF Start
<1>2. CASE BeginStop \/ Stop \/ \E t \in Tokens : AddSource(t)
  BY <1>2 DEF BeginStop, Stop, CloseStream, CloseListener, Unregister, AddSource
<1>3. ASSUME NEW t \in Cameras, OpenCamera(t) PROVE SharedTypes'
  <2>1. CASE DumpComponent(t)
    BY <1>3, <2>1 DEF DumpComponent
  <2>2. CASE NewPipes(t)
    BY <1>3, <2>2 DEF NewPipes
  <2>3. CASE StartCamera(t)
    BY <1>3, <2>3 DEF StartCamera
  <2>4. CASE Configure(t) \/ Abandon(t)
    BY <1>3, <2>4 DEF Configure, Abandon
  <2> QED
    BY <1>3, <2>1, <2>2, <2>3, <2>4 DEF OpenCamera
<1>4. ASSUME NEW t \in Transcoders, OpenTranscoder(t) PROVE SharedTypes'
  BY <1>4 DEF OpenTranscoder, ExtractBinary, StartTranscoder
<1>5. ASSUME NEW t \in Tokens, RunHelper(t) \/ RunSibling(t) \/ EndInner(t) \/ WriteFrame(t)
      PROVE  SharedTypes'
  BY <1>5 DEF RunHelper, Shutdown, CloseHelper, Release, Finish, RunSibling, EndInner,
     WriteFrame
<1>6. ASSUME NEW t \in Tokens, \/ BeginLoop(t) \/ EndLoop(t) \/ PlaySample(t) \/ Rewind(t)
                                \/ FailLoop(t)
      PROVE  SharedTypes'
  <2>1. UNCHANGED <<closed, pipes, inherited, binaries, attached, secondary>>
    BY <1>6, Zenon DEF BeginLoop, EndLoop, PlaySample, Rewind, FailLoop
  <2> QED
    BY <2>1
<1>7. ASSUME NEW t \in Tokens, \/ Supervise(t) \/ Exit(t) \/ ReadFrame(t) \/ ReadBadFrame(t)
                                \/ Read(t)
      PROVE  SharedTypes'
  BY <1>7 DEF Supervise, SeeExit, SeeReaderEnd, SeeTerminate, AwaitExit, AwaitReader, Exit,
     ReadFrame, ReadBadFrame, Read, ReadEnd, Push
<1> QED
  BY <1>1, <1>2, <1>3, <1>4, <1>5, <1>6, <1>7 DEF Next, Drive

\* The labels stay within their sets.
LEMMA ShapeStep == ASSUME Shape, Next PROVE Shape'
<1> USE Kinds DEF Shape, At, Goto, process, source
<1>1. CASE Start
  BY <1>1 DEF Start
<1>2. CASE BeginStop \/ Stop
  BY <1>2 DEF BeginStop, Stop, CloseStream, CloseListener, Unregister
<1>3. ASSUME NEW t \in Tokens, AddSource(t) PROVE Shape'
  BY <1>3 DEF AddSource
<1>4. ASSUME NEW t \in Cameras, OpenCamera(t) PROVE Shape'
  <2>1. CASE DumpComponent(t)
    BY <1>4, <2>1 DEF DumpComponent
  <2>2. CASE NewPipes(t)
    BY <1>4, <2>2 DEF NewPipes
  <2>3. CASE StartCamera(t)
    BY <1>4, <2>3 DEF StartCamera, Launch
  <2>4. CASE Configure(t)
    BY <1>4, <2>4 DEF Configure
  <2>5. CASE Abandon(t)
    BY <1>4, <2>5 DEF Abandon
  <2> QED
    BY <1>4, <2>1, <2>2, <2>3, <2>4, <2>5 DEF OpenCamera
<1>5. ASSUME NEW t \in Transcoders, OpenTranscoder(t) PROVE Shape'
  BY <1>5 DEF OpenTranscoder, ExtractBinary, StartTranscoder, Launch
<1>6. ASSUME NEW t \in Helpers, RunHelper(t) PROVE Shape'
  BY <1>6 DEF RunHelper, Shutdown, CloseHelper, Finish
<1>7. ASSUME NEW t \in Fed, RunSibling(t) \/ EndInner(t) \/ WriteFrame(t) PROVE Shape'
  BY <1>7 DEF RunSibling, EndInner, WriteFrame, Inner
<1>8. ASSUME NEW t \in Files, \/ BeginLoop(t) \/ EndLoop(t) \/ PlaySample(t) \/ Rewind(t)
                               \/ FailLoop(t)
      PROVE  Shape'
  <2>1. UNCHANGED <<helper, sup, reader, inner>>
    BY <1>8, Zenon DEF BeginLoop, EndLoop, PlaySample, Rewind, FailLoop, Plays
  <2>2. \/ UNCHANGED run \/ Goto(t, "playing") \/ Goto(t, "stopped")
    BY <1>8, Zenon DEF BeginLoop, EndLoop, PlaySample, Rewind, FailLoop, Plays
  <2> QED
    BY <2>1, <2>2
<1>9. ASSUME NEW t \in Helpers, Supervise(t) PROVE Shape'
  BY <1>9 DEF Supervise, SeeExit, SeeReaderEnd, SeeTerminate, AwaitExit, AwaitReader,
     Supervised, SupervisorAt, Told
<1>10. ASSUME NEW t \in Helpers, Exit(t) \/ ReadFrame(t) \/ ReadBadFrame(t) \/ Read(t)
       PROVE  Shape'
  BY <1>10 DEF Exit, ReadFrame, ReadBadFrame, Read, ReadEnd, Push, Reads, ReaderAt
<1> QED
  BY <1>1, <1>2, <1>3, <1>4, <1>5, <1>6, <1>7, <1>8, <1>9, <1>10 DEF Next, Drive

\* A channel never holds more than its buffer.
LEMMA QueueStep == ASSUME QueueTypes, Next PROVE QueueTypes'
<1> USE Kinds DEF QueueTypes, source
<1>1. BufferSize \in Nat \ {0}
  BY StreamingAssumption
<1>2. CASE UNCHANGED queue
  BY <1>2
<1>3. CASE Start
  BY <1>1, <1>3 DEF Start
<1>4. ASSUME NEW t \in Fed, WriteFrame(t) PROVE QueueTypes'
  BY <1>1, <1>4 DEF WriteFrame
<1>5. ASSUME NEW t \in Helpers, NEW s \in Consumers(t), Push(t, s) PROVE QueueTypes'
  BY <1>1, <1>5 DEF Push, Consumers
<1>6. ASSUME BeginStop \/ Stop \/ \E t \in Tokens : AddSource(t) PROVE UNCHANGED queue
  BY <1>6 DEF BeginStop, Stop, CloseStream, CloseListener, Unregister, AddSource
<1>7. ASSUME NEW t \in Tokens, \/ OpenCamera(t) \/ OpenTranscoder(t) \/ RunHelper(t)
                                \/ RunSibling(t) \/ EndInner(t)
      PROVE  UNCHANGED queue
  BY <1>7 DEF OpenCamera, OpenTranscoder, DumpComponent, NewPipes, StartCamera, Configure,
     Abandon, ExtractBinary, StartTranscoder, RunHelper, Shutdown, CloseHelper, Finish,
     RunSibling, EndInner
<1>8. ASSUME NEW t \in Tokens, \/ BeginLoop(t) \/ EndLoop(t) \/ PlaySample(t) \/ Rewind(t)
                                \/ FailLoop(t)
      PROVE  UNCHANGED queue
  BY <1>8, Zenon DEF BeginLoop, EndLoop, PlaySample, Rewind, FailLoop, Plays
<1>9. ASSUME NEW t \in Tokens, \/ Supervise(t) \/ Exit(t) \/ ReadFrame(t) \/ ReadBadFrame(t)
                                \/ ReadEnd(t)
      PROVE  UNCHANGED queue
  BY <1>9 DEF Supervise, SeeExit, SeeReaderEnd, SeeTerminate, AwaitExit, AwaitReader, Exit,
     ReadFrame, ReadBadFrame, ReadEnd, Supervised
<1> QED
  BY <1>2, <1>3, <1>4, <1>5, <1>6, <1>7, <1>8, <1>9 DEF Next, Drive, Read

\* So all types are kept; the count of users because each lets go of what it holds.
LEMMA TypesStep == ASSUME IInv, Next PROVE TypeOK'
<1>1. /\ ServerTypes /\ Shape /\ SharedTypes /\ QueueTypes /\ loop \in [Files -> Positions]
  BY TypesAre DEF IInv
<1>2. ServerTypes' /\ Shape' /\ SharedTypes' /\ QueueTypes' /\ dumpCount' \in Nat
  BY <1>1, ServerTypesStep, ShapeStep, SharedTypesStep, QueueStep, CountStep
<1>3. loop' \in [Files -> Positions]
  <2>1. CASE UNCHANGED loop
    BY <1>1, <2>1
  <2>2. CASE loop' = [f \in Files |-> Rewound]
    <3>1. 0 \in Timestamps /\ 0 \in 0 .. Len(Samples)
      BY SampleLengths DEF Timestamps
    <3>2. Rewound \in Positions
      BY <3>1 DEF Rewound, Positions
    <3> QED
      BY <2>2, <3>2
  <2>3. ASSUME NEW f \in Files, BeginLoop(f) \/ PlaySample(f) \/ Rewind(f)
        PROVE  loop' \in [Files -> Positions]
    <3>1. PICK new \in Positions : loop' = [loop EXCEPT ![f] = new]
      BY <1>1, <2>3, PlayerMoves
    <3> QED
      BY <1>1, <3>1
  <2> QED
    BY <2>1, <2>2, <2>3, PlayersRest
<1>4. TypeOK' <=> /\ ServerTypes' /\ Shape' /\ SharedTypes' /\ QueueTypes'
                  /\ dumpCount' \in Nat /\ loop' \in [Files -> Positions]
  BY DEF TypeOK, ServerTypes, Shape, SharedTypes, QueueTypes, Positions
<1> QED
  BY <1>2, <1>3, <1>4

-----------------------------------------------------------------------------
\* A server that was not started satisfies the invariant.
LEMMA InitHolds == Init => IInv
<1> SUFFICES ASSUME Fresh PROVE IInv
  BY DEF Init
<1> USE Kinds
<1>1. TypeOK
  <2>1. ServerTypes /\ Shape /\ SharedTypes
    BY DEF Fresh, ServerTypes, Shape, SharedTypes
  <2>2. QueueTypes /\ dumpCount \in Nat
    BY StreamingAssumption DEF Fresh, QueueTypes
  <2>3. loop \in [Files -> Positions]
    <3>1. 0 \in Timestamps /\ 0 \in 0 .. Len(Samples)
      BY SampleLengths DEF Timestamps
    <3>2. Rewound \in Positions
      BY <3>1 DEF Rewound, Positions
    <3> QED
      BY <3>2 DEF Fresh
  <2> QED
    BY <2>1, <2>2, <2>3, TypesAre
<1>2. Places /\ InStep /\ Removal /\ Extracted
  BY DEF Fresh, Places, InStep, HelperInStep, SiblingInStep, Removal, Extracted
<1>3. Counted
  <2>1. Holding = {}
    BY DEF Fresh, Holding
  <2> QED
    BY <2>1, FS_EmptySet DEF Fresh, Counted
<1> QED
  BY <1>1, <1>2, <1>3 DEF IInv

\* Every step keeps the invariant.
LEMMA StepKeeps == ASSUME IInv, [Next]_vars PROVE IInv'
<1>1. CASE Next
  <2>1. TypeOK' /\ Counted'
    BY <1>1, TypesStep, CountStep
  <2>2. Places' /\ InStep' /\ Removal' /\ Extracted'
    BY <1>1, DriveStep, HelperStep, ServerStep DEF Next
  <2> QED
    BY <2>1, <2>2 DEF IInv
<1>2. CASE UNCHANGED vars
  BY <1>2 DEF vars, server, process, files, source, jpeg, IInv, TypeOK, Places, InStep,
     HelperInStep, SiblingInStep, Removal, Counted, Holding, Extracted
<1> QED
  BY <1>1, <1>2

\* So it always holds.
LEMMA Always == Spec => []IInv
  BY InitHolds, StepKeeps, PTL DEF Spec

\* The state stays typed (every variable of this module).
THEOREM StreamingTypes == Spec => []TypeOK
<1>1. IInv => TypeOK
  BY DEF IInv
<1> QED
  BY <1>1, Always, PTL

\* No helper process runs without the files it was started from, and the count of the
\* cameras' shared files is that of their users (HelperHasFiles).
THEOREM HelpersHaveFiles == Spec => []HelperHasFiles
<1>1. IInv => HelperHasFiles
  <2> SUFFICES ASSUME IInv PROVE HelperHasFiles
    OBVIOUS
  <2>1. Shape /\ Places /\ Extracted /\ Counted /\ \A t \in Helpers : HelperInStep(t)
    BY TypeOKShape DEF IInv, InStep
  <2> QED
    BY <2>1, Kinds DEF HelperHasFiles, Alive, Holding, Counted, Extracted, Places, Shape,
       HelperInStep
<1> QED
  BY <1>1, Always, PTL

\* Nothing of a source is left once RemoveSource has closed its stream (RemovedIsQuiet).
THEOREM RemovedStaysQuiet == Spec => []RemovedIsQuiet
<1>1. IInv => RemovedIsQuiet
  <2> SUFFICES ASSUME IInv, NEW t \in Tokens \ streams
               PROVE  /\ run[t] \in {"none", "stopped"}
                      /\ t \in Fed => inner[t] # "running"
                      /\ t \in Helpers => /\ ~Alive(t)
                                          /\ sup[t] \in {"none", "done"}
                                          /\ reader[t] \in {"none", "done"}
    BY DEF RemovedIsQuiet
  <2>1. Shape /\ run[t] \in {"none", "stopped"}
    BY TypeOKShape DEF IInv, Removal
  <2>2. CASE t \in Helpers
    BY <2>1, <2>2, Kinds DEF IInv, InStep, HelperInStep, Alive, Shape
  <2>3. CASE t \in Siblings
    BY <2>1, <2>3, Kinds DEF IInv, InStep, SiblingInStep
  <2> QED
    BY <2>1, <2>2, <2>3, Kinds
<1> QED
  BY <1>1, Always, PTL

-----------------------------------------------------------------------------
(* The timestamps of a looped file *)

\* total[k]: the ticks of the first k samples.  Every sample lasts a tick or more, and the
\* file less than half the range of a timestamp: 6.6 hours at 90 kHz.
PlayTime(total) ==
    /\ total \in [0 .. Len(Samples) -> Nat]
    /\ total[0] = 0
    /\ \A k \in 1 .. Len(Samples) :
          Samples[k].length >= 1 /\ total[k] = total[k - 1] + Samples[k].length
    /\ \A k \in 0 .. Len(Samples) : total[k] + 1 < Modulus \div 2

\* A player in its pass: once it has sent a sample of the pass, the last stamp is that
\* sample's; before, the pass starts one tick after the last stamp, if there is one.
SentOne(p) == \E i \in 1 .. p.at : ~Samples[i].empty
InPass(p, total) ==
    /\ p.elapsed = total[p.at]
    /\ \A i \in 1 .. p.at : total[i - 1] < total[p.at]
    /\ IF SentOne(p)
         THEN /\ p.stamp = p.last
              /\ \E i \in 1 .. p.at : p.last = (p.base + total[i - 1]) % Modulus
         ELSE p.last = p.base /\ (p.stamp = NoStamp \/ p.base = (p.stamp + 1) % Modulus)
    /\ p.stamp # NoStamp => \E i \in 1 .. Len(Samples) : ~Samples[i].empty
AtRest(p) == p.at = 0 /\ p.elapsed = 0 /\ p.stamp = NoStamp
OnTime(total) ==
    \A f \in Files : /\ InPass(loop[f], total)
                     /\ run[f] \in {"none", "start"} => AtRest(loop[f])

\* Half the range of a timestamp.
LEMMA Half == Modulus \div 2 \in Nat /\ Modulus \div 2 <= Modulus
  BY StreamingAssumption

\* The remainder of what is past the range once.
LEMMA Wrap ==
  ASSUME NEW n \in Nat, n < 2 * Modulus
  PROVE  n % Modulus = IF n < Modulus THEN n ELSE n - Modulus
<1>1. Modulus \in Nat \ {0} /\ (n \in 0 .. Modulus - 1 \/ n \in Modulus .. 2 * Modulus - 1)
  BY StreamingAssumption
<1> QED
  BY <1>1, Modular

\* A later offset of the same base, and of a base one tick after the last stamp.
LEMMA AheadOf ==
  ASSUME NEW m \in Nat, NEW n \in Nat, n < m, m < 2 * Modulus, m - n < Modulus \div 2
  PROVE  Ahead(m % Modulus, n % Modulus)
<1> DEFINE gap == (m % Modulus) + Modulus - (n % Modulus)
<1>1. Modulus \in Nat \ {0} /\ Modulus \div 2 \in Nat /\ Modulus \div 2 <= Modulus
  BY Half, StreamingAssumption
<1>2. /\ m % Modulus = IF m < Modulus THEN m ELSE m - Modulus
      /\ n % Modulus = IF n < Modulus THEN n ELSE n - Modulus
  BY <1>1, Wrap
<1>3. gap = m - n \/ gap = m - n + Modulus
  BY <1>1, <1>2
<1>4. m - n \in 0 .. Modulus - 1 /\ m - n + Modulus \in Modulus .. 2 * Modulus - 1
  BY <1>1
<1>5. gap % Modulus = m - n
  <2> HIDE DEF gap
  <2> QED
    BY <1>1, <1>3, <1>4, Modular
<1>6. m - n \in 1 .. (Modulus \div 2) - 1
  BY <1>1
<1>7. gap % Modulus \in 1 .. (Modulus \div 2) - 1
  BY <1>5, <1>6, Zenon
<1> QED
  BY <1>7, Zenon DEF Ahead

\* In a pass a later stamp is ahead of an earlier one, over the wrap too.
LEMMA AheadInPass ==
  ASSUME NEW b \in Timestamps, NEW i \in Nat, NEW j \in Nat, i < j, j + 1 < Modulus \div 2
  PROVE  Ahead((b + j) % Modulus, (b + i) % Modulus)
<1>1. Modulus \in Nat \ {0} /\ Modulus \div 2 \in Nat /\ Modulus \div 2 <= Modulus
      /\ b \in 0 .. Modulus - 1
  BY Half, StreamingAssumption DEF Timestamps
<1> DEFINE m == b + j
           n == b + i
<1>2. m \in Nat /\ n \in Nat /\ n < m /\ m < 2 * Modulus /\ m - n < Modulus \div 2
  BY <1>1
<1> HIDE DEF m, n
<1>3. Ahead(m % Modulus, n % Modulus)
  BY <1>2, AheadOf
<1> QED
  BY <1>3 DEF m, n

\* A stamp of a pass is ahead of the last one before the rewind.
LEMMA AheadOfPass ==
  ASSUME NEW b \in Timestamps, NEW old \in Timestamps, NEW j \in Nat, b = (old + 1) % Modulus,
         j + 1 < Modulus \div 2
  PROVE  Ahead((b + j) % Modulus, old)
<1>1. Modulus \in Nat \ {0} /\ Modulus \div 2 \in Nat /\ Modulus \div 2 <= Modulus
      /\ b \in 0 .. Modulus - 1 /\ old \in 0 .. Modulus - 1
  BY Half, StreamingAssumption DEF Timestamps
<1> DEFINE m == b + j
           n == old + 1
           k == n + j
<1>2. /\ m \in Nat /\ n \in Nat /\ n <= Modulus /\ n < 2 * Modulus
      /\ k \in Nat /\ old < k /\ k < 2 * Modulus /\ k - old < Modulus \div 2
      /\ m < 2 * Modulus
  BY <1>1
<1>3. b = n % Modulus /\ m = b + j /\ k = n + j
  OBVIOUS
<1> HIDE DEF m, n, k
<1>4. m % Modulus = k % Modulus /\ old % Modulus = old
  <2>1. /\ m % Modulus = IF m < Modulus THEN m ELSE m - Modulus
        /\ k % Modulus = IF k < Modulus THEN k ELSE k - Modulus
        /\ n % Modulus = IF n < Modulus THEN n ELSE n - Modulus
        /\ old % Modulus = IF old < Modulus THEN old ELSE old - Modulus
    <3>1. m % Modulus = IF m < Modulus THEN m ELSE m - Modulus
      BY <1>2, Wrap
    <3>2. k % Modulus = IF k < Modulus THEN k ELSE k - Modulus
      BY <1>2, Wrap
    <3>3. n % Modulus = IF n < Modulus THEN n ELSE n - Modulus
      BY <1>2, Wrap
    <3>4. old \in Nat /\ old < 2 * Modulus
      BY <1>1
    <3>5. old % Modulus = IF old < Modulus THEN old ELSE old - Modulus
      BY <3>4, Wrap
    <3> QED
      BY <3>1, <3>2, <3>3, <3>5
  <2> QED
    BY <1>1, <1>2, <1>3, <2>1
<1>5. Ahead(k % Modulus, old % Modulus)
  <2>1. old \in Nat
    BY <1>1
  <2> QED
    BY <2>1, <1>2, AheadOf
<1> QED
  BY <1>4, <1>5 DEF m

\* What a step makes of one player's pass.
LEMMA PassStep ==
  ASSUME NEW total, PlayTime(total), NEW old \in Positions, NEW new \in Positions,
         InPass(old, total),
         \/ Began(old, new) /\ AtRest(old)
         \/ Played(old, new)
         \/ Rewinds(old, new)
  PROVE  InPass(new, total)
<1>1. Position(old) /\ Position(new)
  BY DEF Position, Positions
<1>2. Modulus \in Nat \ {0} /\ Len(Samples) \in Nat \ {0} /\ Modulus \div 2 \in Nat
      /\ Modulus \div 2 <= Modulus
  BY SampleLengths, Half
<1>3. CASE Began(old, new) /\ AtRest(old)
  BY <1>1, <1>2, <1>3 DEF Began, AtRest, InPass, SentOne, Position, Timestamps
<1>4. CASE Rewinds(old, new)
  <2>1. new.at = 0 /\ new.elapsed = 0 /\ new.stamp = old.stamp /\ new.last = new.base
        /\ new.base = (old.last + 1) % Modulus
    BY <1>4 DEF Rewinds
  <2>2. total[0] = 0 /\ ~SentOne(new)
    BY <2>1 DEF PlayTime, SentOne
  <2>3. old.stamp = old.last \/ old.stamp = NoStamp
    BY <1>4 DEF InPass, Rewinds, SentOne
  <2> QED
    BY <1>2, <2>1, <2>2, <2>3, <1>4 DEF InPass, Rewinds
<1>5. CASE Played(old, new)
  <2> DEFINE k == new.at
  <2>1. /\ k \in 1 .. Len(Samples) /\ old.at = k - 1
        /\ new.base = old.base
        /\ new.elapsed = (old.elapsed + Samples[k].length) % Modulus
    BY <1>1, <1>2, <1>5 DEF Played, Position
  <2>2. /\ old.elapsed = total[k - 1] /\ total[k] = total[k - 1] + Samples[k].length
        /\ total[k - 1] \in Nat /\ total[k] \in Nat /\ total[k - 1] < total[k]
        /\ total[k] + 1 < Modulus \div 2
    <3>1. k - 1 \in 0 .. Len(Samples) /\ k \in 0 .. Len(Samples)
      BY <1>2, <2>1
    <3>2. total[k - 1] \in Nat /\ total[k] \in Nat /\ total[k] + 1 < Modulus \div 2
      BY <3>1 DEF PlayTime
    <3>3. Samples[k].length >= 1 /\ total[k] = total[k - 1] + Samples[k].length
          /\ Samples[k].length \in Nat
      BY <2>1, SampleLengths DEF PlayTime
    <3>4. old.elapsed = total[k - 1]
      BY <2>1 DEF InPass
    <3> HIDE DEF k
    <3> QED
      BY <3>2, <3>3, <3>4
  <2>3. new.elapsed = total[k]
    <3>1. total[k] \in 0 .. Modulus - 1
      BY <1>2, <2>2
    <3> QED
      BY <2>1, <2>2, <3>1, Modular
  <2>4. \A i \in 1 .. k : total[i - 1] < total[k]
    <3> SUFFICES ASSUME NEW i \in 1 .. k, i # k PROVE total[i - 1] < total[k]
      BY <2>2
    <3>1. i \in 1 .. k - 1 /\ i - 1 \in 0 .. Len(Samples)
      BY <1>2, <2>1
    <3>2. total[i - 1] < total[k - 1] /\ total[i - 1] \in Nat
      BY <2>1, <3>1 DEF InPass, PlayTime
    <3> QED
      BY <2>2, <3>2
  <2>5. CASE Samples[k].empty
    <3>1. new.last = old.last /\ new.stamp = old.stamp
      BY <1>5, <2>5 DEF Played
    <3>2. SentOne(new) <=> SentOne(old)
      BY <1>2, <2>1, <2>5 DEF SentOne
    <3>3. CASE SentOne(old)
      <4>1. PICK i \in 1 .. old.at : old.last = (old.base + total[i - 1]) % Modulus
        BY <3>3 DEF InPass
      <4>2. i \in 1 .. new.at
        BY <1>2, <2>1, <4>1
      <4> QED
        BY <2>1, <2>3, <2>4, <3>1, <3>2, <3>3, <4>1, <4>2 DEF InPass
    <3>4. CASE ~SentOne(old)
      BY <2>1, <2>3, <2>4, <3>1, <3>2, <3>4 DEF InPass
    <3> QED
      BY <3>3, <3>4
  <2>6. CASE ~Samples[k].empty
    <3>1. new.last = (new.base + total[k - 1]) % Modulus /\ new.stamp = new.last
      BY <1>5, <2>1, <2>2, <2>6 DEF Played
    <3>2. SentOne(new) /\ k \in 1 .. new.at /\ \E i \in 1 .. Len(Samples) : ~Samples[i].empty
      BY <1>2, <2>1, <2>6 DEF SentOne
    <3> QED
      BY <2>3, <2>4, <3>1, <3>2 DEF InPass
  <2> QED
    BY <2>5, <2>6
<1> QED
  BY <1>3, <1>4, <1>5

\* A sample that is sent is ahead of the last stamp.
LEMMA SentAhead ==
  ASSUME NEW total, PlayTime(total), NEW old \in Positions, NEW new \in Positions,
         InPass(old, total), Played(old, new), ~Samples[new.at].empty, old.stamp # NoStamp
  PROVE  Ahead(new.stamp, old.stamp)
<1>1. Position(old) /\ Position(new)
  BY DEF Position, Positions
<1>2. Len(Samples) \in Nat \ {0}
  BY SampleLengths
<1> DEFINE k == old.at
           b == old.base
           j == total[k]
<1>3. k \in 0 .. Len(Samples) /\ b \in Timestamps /\ old.stamp \in Timestamps
  BY <1>1 DEF Position
<1>4. j \in Nat /\ j + 1 < Modulus \div 2
  BY <1>3 DEF PlayTime
<1>5. new.stamp = (b + j) % Modulus
  BY DEF Played, InPass
<1>6. CASE SentOne(old)
  <2>1. PICK i \in 1 .. k : old.stamp = (b + total[i - 1]) % Modulus
    BY <1>6 DEF InPass
  <2>2. i - 1 \in 0 .. Len(Samples) /\ total[i - 1] < j
    BY <1>2, <1>3, <2>1 DEF InPass
  <2>3. total[i - 1] \in Nat
    BY <2>2 DEF PlayTime
  <2> HIDE DEF j, b
  <2> QED
    BY <1>3, <1>4, <1>5, <2>1, <2>2, <2>3, AheadInPass
<1>7. CASE ~SentOne(old)
  <2>1. b = (old.stamp + 1) % Modulus
    BY <1>7 DEF InPass
  <2> HIDE DEF j, b
  <2> QED
    BY <1>3, <1>4, <1>5, <2>1, AheadOfPass
<1> QED
  BY <1>6, <1>7

\* A Run goroutine comes to its beginning only with a new server.
LEMMA RunMoves ==
  ASSUME Next, ~Start
  PROVE  \/ UNCHANGED run
         \/ \E t \in Tokens : \E label :
                Goto(t, label) /\ (label \notin {"none", "start"} \/ run[t] = "none")
<1> DEFINE Moves == \E t \in Tokens : \E label :
                       Goto(t, label) /\ (label \notin {"none", "start"} \/ run[t] = "none")
<1>0. ASSUME NEW t \in Tokens, NEW label, Goto(t, label),
             label \notin {"none", "start"} \/ run[t] = "none"
      PROVE  Moves
  BY <1>0, Zenon
<1> HIDE DEF Moves
<1> USE Kinds
<1>1. CASE BeginStop \/ Stop
  BY <1>1 DEF BeginStop, Stop, CloseStream, CloseListener, Unregister
<1>2. ASSUME NEW t \in Tokens, AddSource(t) PROVE Moves
  BY <1>0, <1>2 DEF AddSource, At
<1>3. ASSUME NEW t \in Tokens, \/ OpenCamera(t) \/ OpenTranscoder(t) \/ RunHelper(t)
                                \/ RunSibling(t)
      PROVE  Moves
  <2>1. \E label \in {"dumped", "piped", "configure", "abandon", "extracted", "select",
                      "closing", "waiting", "alone", "stopped"} : Goto(t, label)
    BY <1>3, Zenon DEF OpenCamera, OpenTranscoder, DumpComponent, NewPipes, StartCamera, Configure,
       Abandon, ExtractBinary, StartTranscoder, RunHelper, Shutdown, CloseHelper, Finish,
       RunSibling
  <2> QED
    BY <1>0, <2>1
<1>4. ASSUME NEW t \in Tokens, EndInner(t) \/ WriteFrame(t) PROVE UNCHANGED run \/ Moves
  <2>1. UNCHANGED run \/ Goto(t, "stopped")
    BY <1>4, Zenon DEF EndInner, WriteFrame
  <2> QED
    BY <1>0, <2>1
<1>5. ASSUME NEW t \in Tokens, \/ BeginLoop(t) \/ EndLoop(t) \/ PlaySample(t) \/ Rewind(t)
                                \/ FailLoop(t)
      PROVE  UNCHANGED run \/ Moves
  <2>1. UNCHANGED run \/ Goto(t, "playing") \/ Goto(t, "stopped")
    BY <1>5, Zenon DEF BeginLoop, EndLoop, PlaySample, Rewind, FailLoop
  <2> QED
    BY <1>0, <2>1
<1>6. ASSUME NEW t \in Tokens, \/ Supervise(t) \/ Exit(t) \/ ReadFrame(t) \/ ReadBadFrame(t)
                                \/ Read(t)
      PROVE  UNCHANGED run
  BY <1>6 DEF Supervise, SeeExit, SeeReaderEnd, SeeTerminate, AwaitExit, AwaitReader, Exit,
     ReadFrame, ReadBadFrame, Read, ReadEnd, Push, Reads, Supervised
<1> QED
  BY <1>1, <1>2, <1>3, <1>4, <1>5, <1>6 DEF Next, Drive, Moves

\* Every player is in its pass, always.
LEMMA OnTimeStep ==
  ASSUME NEW total, PlayTime(total), TypeOK, OnTime(total), Next
  PROVE  OnTime(total)'
<1>1. loop \in [Files -> Positions] /\ Shape
  BY TypesAre
<1>2. Files \subseteq Tokens
  BY Kinds
<1>3. CASE Start
  <2>1. loop' = [f \in Files |-> Rewound]
    BY <1>3 DEF Start
  <2>2. total[0] = 0
    BY DEF PlayTime
  <2>3. InPass(Rewound, total) /\ AtRest(Rewound)
    BY <2>2 DEF InPass, AtRest, SentOne, Rewound
  <2> QED
    BY <2>1, <2>3 DEF OnTime
<1>4. ASSUME ~Start, NEW f \in Files, run'[f] \in {"none", "start"}
      PROVE  run[f] \in {"none", "start"}
  BY <1>1, <1>2, <1>4, RunMoves DEF Goto, Shape
<1>5. CASE ~Start /\ UNCHANGED loop
  BY <1>4, <1>5 DEF OnTime
<1>6. ASSUME ~Start, NEW f \in Files, BeginLoop(f) \/ PlaySample(f) \/ Rewind(f)
      PROVE  OnTime(total)'
  <2>1. PICK new \in Positions :
             /\ loop' = [loop EXCEPT ![f] = new]
             /\ \/ BeginLoop(f) /\ Began(loop[f], new)
                \/ PlaySample(f) /\ Played(loop[f], new)
                \/ Rewind(f) /\ Rewinds(loop[f], new)
    BY <1>1, <1>6, PlayerMoves
  <2>2. \A g \in Files : loop'[g] = IF g = f THEN new ELSE loop[g]
    BY <1>1, <2>1
  <2>3. BeginLoop(f) => AtRest(loop[f])
    BY DEF BeginLoop, At, OnTime
  <2>4. InPass(new, total)
    <3>1. loop[f] \in Positions /\ InPass(loop[f], total)
      BY <1>1 DEF OnTime
    <3> QED
      BY <2>1, <2>3, <3>1, PassStep
  <2>5. run'[f] \notin {"none", "start"}
    <3>1. \/ run[f] = "playing" /\ UNCHANGED run
          \/ Goto(f, "playing")
      BY <1>6, Zenon DEF BeginLoop, PlaySample, Rewind, At
    <3> QED
      BY <1>1, <1>2, <3>1 DEF Goto, Shape
  <2> QED
    BY <1>4, <1>6, <2>2, <2>4, <2>5 DEF OnTime
<1> QED
  BY <1>3, <1>5, <1>6, PlayersRest

\* Over any file whose samples last a tick or more and that is shorter than half the range of
\* a timestamp, each packet's timestamp is later than the one before, over the rewind and
\* the wrap (looper.go, playOnce returns lastTS + 1; TimestampsGrow).
THEOREM LoopedTimeGrows ==
  ASSUME NEW CONSTANT total, PlayTime(total)
  PROVE  Spec => TimestampsGrow
<1>1. Init => OnTime(total)
  <2>1. InPass(Rewound, total) /\ AtRest(Rewound)
    BY DEF InPass, AtRest, SentOne, Rewound, PlayTime
  <2> QED
    BY <2>1 DEF Init, Fresh, OnTime
<1>2. IInv /\ OnTime(total) /\ [Next]_vars => OnTime(total)'
  <2>1. CASE Next
    BY <2>1, OnTimeStep DEF IInv
  <2>2. CASE UNCHANGED vars
    BY <2>2 DEF vars, OnTime
  <2> QED
    BY <2>1, <2>2
<1>3. IInv /\ OnTime(total) /\ [Next]_vars
        => [\A f \in Files : Sent(f) /\ loop[f].stamp # NoStamp =>
               Ahead(loop'[f].stamp, loop[f].stamp)]_vars
  <2> SUFFICES ASSUME IInv, OnTime(total), Next, NEW f \in Files, Sent(f),
                      loop[f].stamp # NoStamp
               PROVE  Ahead(loop'[f].stamp, loop[f].stamp)
    OBVIOUS
  <2>1. loop \in [Files -> Positions]
    BY TypesAre DEF IInv
  <2>2. Position(loop[f])
    BY <2>1 DEF Positions, Position
  <2>3. ~UNCHANGED loop /\ ~(loop' = [g \in Files |-> Rewound])
    BY <2>2, SampleLengths DEF Sent, Position, Rewound
  <2>4. PICK g \in Files : BeginLoop(g) \/ PlaySample(g) \/ Rewind(g)
    BY <2>3, PlayersRest
  <2>5. PICK new \in Positions :
             /\ loop' = [loop EXCEPT ![g] = new]
             /\ Began(loop[g], new) \/ Played(loop[g], new) \/ Rewinds(loop[g], new)
    BY <2>1, <2>4, PlayerMoves
  <2>6. g = f /\ loop'[f] = new
    BY <2>1, <2>2, <2>5, SampleLengths DEF Sent, Position
  <2>7. new.at = loop[f].at + 1 /\ ~Samples[new.at].empty
    BY <2>6 DEF Sent
  <2>8. Played(loop[f], new)
    BY <2>2, <2>5, <2>6, <2>7, SampleLengths DEF Began, Rewinds, Position
  <2>9. loop[f] \in Positions /\ InPass(loop[f], total)
    BY <2>1 DEF OnTime
  <2> QED
    BY <2>6, <2>7, <2>8, <2>9, SentAhead
<1> QED
  BY <1>1, <1>2, <1>3, Always, PTL DEF Spec, TimestampsGrow
=============================================================================
