------------------------- MODULE ConfigurationProofs -------------------------
(***************************************************************************)
(* The configuration, on disk and in memory: proofs about ConfigStore and  *)
(* about ControlPlane, whose atomic update of the file is what the first   *)
(* part shows ConfigStore to implement.                                    *)
(*                                                                         *)
(* The store is an atomic register for any number of concurrent updates    *)
(* and starting processes.  An update holding the mutex works on what the  *)
(* file still contains (Discipline): only holders change a file that       *)
(* exists, since creation never overwrites.  So its rename adds exactly    *)
(* its edit to the file.                                                   *)
(*                                                                         *)
(* The live copies follow the file for any number of callers, users,       *)
(* passwords, calls and edits by hand.                                     *)
(***************************************************************************)
EXTENDS ConfigStore, ControlPlane, TLAPS

-----------------------------------------------------------------------------
(* The file: ConfigStore *)

Held == {"loading", "mutating", "creating", "writing", "promoting",
         "succeeding", "failing"}
Saving == {"creating", "writing", "promoting"}

\* The labels inside the critical section are those of the mutex's holder.
MutualExclusion == \A u \in Updates : at[u] \in Held <=> lock = u

\* The holder's Config is the file's, with its own edit added once mutated.
WorkingCopy ==
    \A u \in Updates :
       /\ at[u] = "mutating" => Loadable(file) /\ mem[u] = file
       /\ at[u] \in Saving => /\ Loadable(file)
                              /\ Loadable(mem[u])
                              /\ mem[u].edits = file.edits \cup {u}
       /\ at[u] = "succeeding" => file # NoFile /\ u \in file.edits

\* A temporary file about to be promoted is complete, and is what was to be saved.
Temporaries ==
    /\ \A u \in Updates :
          /\ at[u] = "writing" => tmp[u] = [mem[u] EXCEPT !.whole = FALSE]
          /\ at[u] = "promoting" => tmp[u] = mem[u]
    /\ \A s \in Starters :
          /\ at[s] = "writing" => tmp[s] = [Default EXCEPT !.whole = FALSE]
          /\ at[s] = "promoting" => tmp[s] = Default

\* What was acknowledged is in the file.
AckedKept == \A u \in acked : file # NoFile /\ u \in file.edits

Discipline ==
    /\ MutualExclusion
    /\ WorkingCopy
    /\ Temporaries
    /\ FileIntact
    /\ AckedKept

StoreInv == StoreTypeOK /\ Discipline

USE DEF StepTo

-----------------------------------------------------------------------------
\* The stand-ins are no contents, and updates and starting processes are different savers.
LEMMA ImageFacts ==
    /\ Default \in Image
    /\ NoFile \notin Image
    /\ Nobody \notin Updates
    /\ \A absorbed \in SUBSET Updates : NoFile # absorbed
    /\ \A u \in Updates : u \in Savers /\ u \notin Starters
    /\ \A s \in Starters : s \in Savers /\ s \notin Updates
  BY StoreAssumption DEF Default, Image, Savers

\* The images the store derives from another one.
LEMMA ImageWhole ==
    ASSUME NEW img \in Image, NEW b \in BOOLEAN
    PROVE  /\ [img EXCEPT !.whole = b] \in Image
           /\ [img EXCEPT !.whole = b].whole = b
           /\ [img EXCEPT !.whole = b].edits = img.edits
           /\ [img EXCEPT !.whole = b].valid = img.valid
           /\ img.whole = TRUE => [[img EXCEPT !.whole = FALSE] EXCEPT !.whole = TRUE] = img
  BY DEF Image

\* With no update under way the discipline holds.
LEMMA InvInit == StoreInit => StoreInv
  <1> SUFFICES ASSUME StoreInit PROVE StoreInv
    OBVIOUS
  <1> USE ImageFacts DEF StoreInit
  <1>1. StoreTypeOK
    BY DEF StoreTypeOK, SaverLabels
  <1>2. MutualExclusion /\ WorkingCopy /\ Temporaries
    BY DEF MutualExclusion, WorkingCopy, Temporaries, Held, Saving
  <1>3. FileIntact /\ AckedKept
    BY DEF FileIntact, AckedKept, Loadable, Default
  <1>4. QED
    BY <1>1, <1>2, <1>3 DEF StoreInv, Discipline

\* A step of Update: each conjunct of the invariant in turn.
LEMMA CallStep ==
    ASSUME StoreInv, NEW u \in Updates, Call(u)
    PROVE  StoreInv'
  <1> USE ImageFacts DEF StoreInv, Discipline
  <1>1. StoreTypeOK'
    BY DEF StoreTypeOK, SaverLabels, Call, Image
  <1>2. MutualExclusion'
    BY DEF StoreTypeOK, MutualExclusion, Held, Call
  <1>3. WorkingCopy'
    BY DEF StoreTypeOK, MutualExclusion, WorkingCopy, Held, Saving, Loadable, Call, Image
  <1>4. Temporaries'
    BY DEF StoreTypeOK, MutualExclusion, WorkingCopy, Temporaries, Held, Saving, Call, Image
  <1>5. FileIntact' /\ AckedKept'
    BY DEF StoreTypeOK, WorkingCopy, Temporaries, FileIntact, AckedKept, Saving, Loadable, Call
  <1>6. QED
    BY <1>1, <1>2, <1>3, <1>4, <1>5

\* An update takes the mutex when nobody has it.
LEMMA LockStep ==
    ASSUME StoreInv, NEW u \in Updates, Lock(u)
    PROVE  StoreInv'
  <1> USE ImageFacts DEF StoreInv, Discipline
  <1>1. StoreTypeOK'
    BY DEF StoreTypeOK, SaverLabels, Lock, LockFree, Image
  <1>2. MutualExclusion'
    BY DEF StoreTypeOK, MutualExclusion, Held, Lock, LockFree
  <1>3. WorkingCopy'
    BY DEF StoreTypeOK, MutualExclusion, WorkingCopy, Held, Saving, Loadable, Lock, LockFree, Image
  <1>4. Temporaries'
    BY DEF StoreTypeOK, MutualExclusion, WorkingCopy, Temporaries, Held, Saving, Lock, LockFree, Image
  <1>5. FileIntact' /\ AckedKept'
    BY DEF StoreTypeOK, WorkingCopy, Temporaries, FileIntact, AckedKept, Saving, Loadable, Lock, LockFree
  <1>6. QED
    BY <1>1, <1>2, <1>3, <1>4, <1>5

\* What the holder reads is what the file contains.
LEMMA LoadStep ==
    ASSUME StoreInv, NEW u \in Updates, Load(u)
    PROVE  StoreInv'
  <1> USE ImageFacts DEF StoreInv, Discipline
  <1>1. StoreTypeOK'
    BY DEF StoreTypeOK, SaverLabels, Load, Loadable
  <1>2. MutualExclusion'
    BY DEF StoreTypeOK, MutualExclusion, Held, Load
  <1>3. \/ Loadable(file) /\ mem' = [mem EXCEPT ![u] = file]
           /\ at' = [at EXCEPT ![u] = "mutating"]
        \/ mem' = mem /\ at' = [at EXCEPT ![u] = "failing"]
    BY DEF Load
  <1>4. UNCHANGED <<file, tmp, lock, acked>>
    BY Zenon DEF Load
  <1>5. /\ at \in [Savers -> SaverLabels] /\ mem \in [Updates -> Image] /\ u \in Savers
        /\ u \notin Starters
    BY DEF StoreTypeOK
  <1>6. WorkingCopy'
    BY <1>3, <1>4, <1>5 DEF WorkingCopy, Saving, Loadable
  <1>7. Temporaries'
    BY <1>3, <1>4, <1>5 DEF Temporaries
  <1>8. FileIntact' /\ AckedKept'
    BY DEF StoreTypeOK, WorkingCopy, Temporaries, FileIntact, AckedKept, Saving, Loadable, Load
  <1>9. QED
    BY <1>1, <1>2, <1>6, <1>7, <1>8

\* The holder's copy is the file's content plus its edit.
LEMMA MutateStep ==
    ASSUME StoreInv, NEW u \in Updates, Mutate(u)
    PROVE  StoreInv'
  <1> USE ImageFacts DEF StoreInv, Discipline
  <1>1. CASE at' = [at EXCEPT ![u] = "failing"] /\ UNCHANGED <<file, tmp, lock, mem, acked>>
    <2> USE <1>1
    <2>1. at[u] = "mutating"
      BY DEF Mutate
    <2>2. StoreTypeOK' /\ MutualExclusion'
      BY <2>1 DEF StoreTypeOK, SaverLabels, MutualExclusion, Held
    <2>3. WorkingCopy' /\ Temporaries'
      BY <2>1 DEF StoreTypeOK, WorkingCopy, Temporaries, Saving, Loadable
    <2>4. FileIntact' /\ AckedKept'
      BY DEF FileIntact, AckedKept, Loadable
    <2>5. QED
      BY <2>2, <2>3, <2>4
  <1>2. ASSUME NEW valid \in BOOLEAN, NEW img,
               img = [mem[u] EXCEPT !.edits = @ \cup {u}, !.valid = valid],
               mem' = [mem EXCEPT ![u] = img],
               at' = [at EXCEPT ![u] = IF Acceptable(img) THEN "creating" ELSE "failing"],
               UNCHANGED <<file, tmp, lock, acked>>
        PROVE  StoreInv'
    <2>1. at[u] = "mutating"
      BY DEF Mutate
    <2>2. Loadable(file) /\ mem[u] = file /\ mem[u] \in Image /\ lock = u
      BY <2>1 DEF StoreTypeOK, WorkingCopy, MutualExclusion, Held
    <2> DEFINE new == [mem[u] EXCEPT !.edits = @ \cup {u}, !.valid = valid]
    <2>a. /\ new \in Image
          /\ new.edits = mem[u].edits \cup {u}
          /\ new.valid = valid /\ new.whole = mem[u].whole
      BY <1>2, <2>2 DEF Image
    <2> HIDE DEF new
    <2>b. img = new
      BY <1>2 DEF new
    <2>3. /\ img \in Image
          /\ img.edits = file.edits \cup {u}
          /\ img.valid = valid /\ img.whole = file.whole
      BY <2>a, <2>b, <2>2
    <2>4. StoreTypeOK'
      BY <1>2, <2>3 DEF StoreTypeOK, SaverLabels
    <2>5. MutualExclusion'
      BY <1>2, <2>1, <2>2 DEF MutualExclusion, Held, StoreTypeOK
    <2>6. Acceptable(img) => Loadable(img)
      BY <2>2, <2>3, ImageFacts DEF Acceptable, Loadable
    <2>7. WorkingCopy'
      BY <1>2, <2>1, <2>2, <2>3, <2>6 DEF StoreTypeOK, WorkingCopy, Saving, Loadable
    <2>8. Temporaries'
      BY <1>2, <2>1 DEF StoreTypeOK, Temporaries
    <2>9. FileIntact' /\ AckedKept'
      BY <1>2 DEF FileIntact, AckedKept, Loadable
    <2>10. QED
      BY <2>4, <2>5, <2>7, <2>8, <2>9
  <1>3. QED
    BY <1>1, <1>2 DEF Mutate

\* A temporary file is not the file.
LEMMA CreateTempStep ==
    ASSUME StoreInv, NEW u \in Updates, CreateTemp(u, mem[u])
    PROVE  StoreInv'
  <1> USE ImageFacts DEF StoreInv, Discipline
  <1>0. /\ mem[u] \in Image
        /\ [mem[u] EXCEPT !.whole = FALSE] \in Image
    BY ImageWhole DEF StoreTypeOK
  <1>1. StoreTypeOK'
    <2> DEFINE img == [mem[u] EXCEPT !.whole = FALSE]
    <2>1. \/ tmp' = [tmp EXCEPT ![u] = img] /\ at' = [at EXCEPT ![u] = "writing"]
          \/ tmp' = tmp /\ at' = [at EXCEPT ![u] = "failing"]
      BY DEF CreateTemp
    <2>2. UNCHANGED <<file, lock, mem, acked>>
      BY DEF CreateTemp
    <2>3. img \in Image
      BY <1>0
    <2> HIDE DEF img
    <2>4. tmp' \in [Savers -> Image \cup {NoFile}] /\ at' \in [Savers -> SaverLabels]
      BY <2>1, <2>3 DEF StoreTypeOK, SaverLabels
    <2> QED
      BY <2>2, <2>4 DEF StoreTypeOK
  <1>2. MutualExclusion'
    BY DEF StoreTypeOK, MutualExclusion, Held, CreateTemp
  <1>3. WorkingCopy'
    BY DEF StoreTypeOK, MutualExclusion, WorkingCopy, Held, Saving, Loadable, CreateTemp, Image
  <1>4. Temporaries'
    <2>1. \/ /\ tmp' = [tmp EXCEPT ![u] = [mem[u] EXCEPT !.whole = FALSE]]
             /\ at' = [at EXCEPT ![u] = "writing"]
          \/ tmp' = tmp /\ at' = [at EXCEPT ![u] = "failing"]
      BY DEF CreateTemp
    <2>2. mem' = mem /\ u \in Savers /\ u \notin Starters
      BY DEF CreateTemp
    <2>3. tmp \in [Savers -> Image \cup {NoFile}] /\ at \in [Savers -> SaverLabels]
          /\ \A d \in Updates \cup Starters : d \in Savers
      BY DEF StoreTypeOK
    <2>4. ASSUME NEW d \in Updates
          PROVE  /\ at'[d] = "writing" => tmp'[d] = [mem'[d] EXCEPT !.whole = FALSE]
                 /\ at'[d] = "promoting" => tmp'[d] = mem'[d]
      <3>1. CASE d = u
        BY <2>1, <2>2, <2>3, <3>1
      <3>2. CASE d # u
        BY <2>1, <2>2, <2>3, <3>2 DEF Temporaries
      <3> QED
        BY <3>1, <3>2
    <2>5. \A s \in Starters : at'[s] = at[s] /\ tmp'[s] = tmp[s]
      BY <2>1, <2>2, <2>3
    <2> QED
      BY <2>4, <2>5 DEF Temporaries
  <1>5. FileIntact' /\ AckedKept'
    BY DEF StoreTypeOK, WorkingCopy, Temporaries, FileIntact, AckedKept, Saving, Loadable, CreateTemp
  <1>6. QED
    BY <1>1, <1>2, <1>3, <1>4, <1>5

\* Writing a temporary file, in full or in part, leaves the file alone.
LEMMA WriteTempStep ==
    ASSUME StoreInv, NEW c \in Savers, WriteTemp(c)
    PROVE  StoreInv'
  <1> USE ImageFacts DEF StoreInv, Discipline
  <1> DEFINE img == IF c \in Updates THEN mem[c] ELSE Default
  <1>1. /\ at[c] = "writing"
        /\ img \in Image /\ img.whole = TRUE
        /\ tmp[c] = [img EXCEPT !.whole = FALSE]
    BY DEF WriteTemp, StoreTypeOK, Savers, WorkingCopy, Temporaries, Saving, Loadable, Default
  <1>a. [[img EXCEPT !.whole = FALSE] EXCEPT !.whole = TRUE] = img
    BY <1>1, ImageWhole
  <1>b. [tmp EXCEPT ![c].whole = TRUE] = [tmp EXCEPT ![c] = [tmp[c] EXCEPT !.whole = TRUE]]
    OBVIOUS
  <1>2. tmp' = [tmp EXCEPT ![c].whole = TRUE] => tmp' = [tmp EXCEPT ![c] = img]
    BY <1>1, <1>a, <1>b
  <1>3. \/ /\ tmp' = [tmp EXCEPT ![c] = img]
           /\ at' = [at EXCEPT ![c] = "promoting"]
        \/ /\ tmp' = [tmp EXCEPT ![c] = NoFile]
           /\ at' = [at EXCEPT ![c] = "failing"]
    BY <1>2 DEF WriteTemp, Discard
  <1>4. UNCHANGED <<file, lock, mem, acked>>
    BY DEF WriteTemp
  <1>5. c \in Updates <=> c \notin Starters
    BY DEF Savers
  <1>6. StoreTypeOK' /\ MutualExclusion'
    BY <1>1, <1>3, <1>4, <1>5 DEF StoreTypeOK, SaverLabels, MutualExclusion, Held
  <1>7. WorkingCopy'
    BY <1>1, <1>3, <1>4, <1>5 DEF StoreTypeOK, WorkingCopy, Saving, Loadable
  <1>8. Temporaries'
    <2>1. \A d \in Savers : d # c => tmp'[d] = tmp[d] /\ at'[d] = at[d]
      BY <1>3 DEF StoreTypeOK
    <2>2. (at'[c] = "promoting" /\ tmp'[c] = img) \/ at'[c] = "failing"
      BY <1>3 DEF StoreTypeOK
    <2>3. QED
      BY <1>4, <1>5, <2>1, <2>2 DEF Temporaries
  <1>9. FileIntact' /\ AckedKept'
    BY <1>4 DEF FileIntact, AckedKept, Loadable
  <1>10. QED
    BY <1>6, <1>7, <1>8, <1>9

\* The only step that replaces the file, by what the holder made of it.
LEMMA RenameStep ==
    ASSUME StoreInv, NEW u \in Updates, Rename(u)
    PROVE  StoreInv'
  <1> USE ImageFacts DEF StoreInv, Discipline
  <1>1. /\ at[u] = "promoting" /\ lock = u
        /\ tmp[u] = mem[u] /\ mem[u] \in Image /\ Loadable(mem[u])
        /\ mem[u].edits = file.edits \cup {u}
        /\ file # NoFile
    BY DEF Rename, StoreTypeOK, MutualExclusion, Held, WorkingCopy, Temporaries, Saving, Loadable
  <1>2. /\ tmp' = [tmp EXCEPT ![u] = NoFile]
        /\ UNCHANGED <<lock, mem, acked>>
        /\ \/ file' = mem[u] /\ at' = [at EXCEPT ![u] = "succeeding"]
           \/ file' = file /\ at' = [at EXCEPT ![u] = "failing"]
    BY <1>1 DEF Rename, Discard
  <1>3. StoreTypeOK' /\ MutualExclusion'
    BY <1>1, <1>2 DEF StoreTypeOK, SaverLabels, MutualExclusion, Held
  <1>4. \A v \in Updates : v # u => at'[v] \notin Held
    BY <1>1, <1>2 DEF StoreTypeOK, MutualExclusion
  <1>5. WorkingCopy'
    BY <1>1, <1>2, <1>4 DEF StoreTypeOK, WorkingCopy, Saving, Held, Loadable
  <1>6. Temporaries'
    BY <1>1, <1>2, <1>4 DEF StoreTypeOK, Temporaries, Held
  <1>7. FileIntact'
    BY <1>1, <1>2 DEF FileIntact, Loadable
  <1>8. AckedKept'
    BY <1>1, <1>2 DEF AckedKept, Loadable
  <1>9. QED
    BY <1>3, <1>5, <1>6, <1>7, <1>8

\* A failed or finished update gives the mutex back.
LEMMA ReturnStep ==
    ASSUME StoreInv, NEW u \in Updates, ReturnUpdate(u)
    PROVE  StoreInv'
  <1> USE ImageFacts DEF StoreInv, Discipline
  <1>1. StoreTypeOK'
    BY DEF StoreTypeOK, SaverLabels, ReturnUpdate, Unlock, Image
  <1>2. MutualExclusion'
    BY DEF StoreTypeOK, MutualExclusion, Held, ReturnUpdate, Unlock
  <1>3. WorkingCopy'
    BY DEF StoreTypeOK, MutualExclusion, WorkingCopy, Held, Saving, Loadable, ReturnUpdate, Unlock, Image
  <1>4. Temporaries'
    BY DEF StoreTypeOK, MutualExclusion, WorkingCopy, Temporaries, Held, Saving, ReturnUpdate, Unlock, Image
  <1>5. FileIntact' /\ AckedKept'
    BY DEF StoreTypeOK, WorkingCopy, Temporaries, FileIntact, AckedKept, Saving, Loadable, ReturnUpdate, Unlock
  <1>6. QED
    BY <1>1, <1>2, <1>3, <1>4, <1>5

\* A step of EnsureExists.
LEMMA StatStep ==
    ASSUME StoreInv, NEW s \in Starters, Stat(s)
    PROVE  StoreInv'
  <1> USE ImageFacts DEF StoreInv, Discipline
  <1>1. StoreTypeOK'
    BY DEF StoreTypeOK, SaverLabels, Stat, Image
  <1>2. MutualExclusion'
    BY DEF StoreTypeOK, MutualExclusion, Held, Stat
  <1>3. WorkingCopy'
    BY DEF StoreTypeOK, MutualExclusion, WorkingCopy, Held, Saving, Loadable, Stat, Image
  <1>4. Temporaries'
    BY DEF StoreTypeOK, MutualExclusion, WorkingCopy, Temporaries, Held, Saving, Stat, Image
  <1>5. FileIntact' /\ AckedKept'
    BY DEF StoreTypeOK, WorkingCopy, Temporaries, FileIntact, AckedKept, Saving, Loadable, Stat
  <1>6. QED
    BY <1>1, <1>2, <1>3, <1>4, <1>5

\* A starting process writes its own temporary file.
LEMMA CreateDefaultStep ==
    ASSUME StoreInv, NEW s \in Starters, CreateTemp(s, Default)
    PROVE  StoreInv'
  <1> USE ImageFacts DEF StoreInv, Discipline
  <1>0. [Default EXCEPT !.whole = FALSE] \in Image
    BY ImageWhole
  <1>1. StoreTypeOK'
    <2> DEFINE img == [Default EXCEPT !.whole = FALSE]
    <2>1. \/ tmp' = [tmp EXCEPT ![s] = img] /\ at' = [at EXCEPT ![s] = "writing"]
          \/ tmp' = tmp /\ at' = [at EXCEPT ![s] = "failing"]
      BY DEF CreateTemp
    <2>2. UNCHANGED <<file, lock, mem, acked>>
      BY DEF CreateTemp
    <2>3. img \in Image
      BY <1>0
    <2> HIDE DEF img
    <2>4. tmp' \in [Savers -> Image \cup {NoFile}] /\ at' \in [Savers -> SaverLabels]
      BY <2>1, <2>3 DEF StoreTypeOK, SaverLabels
    <2> QED
      BY <2>2, <2>4 DEF StoreTypeOK
  <1>2. MutualExclusion'
    BY DEF StoreTypeOK, MutualExclusion, Held, CreateTemp, Default
  <1>3. WorkingCopy'
    BY DEF StoreTypeOK, MutualExclusion, WorkingCopy, Held, Saving, Loadable, CreateTemp, Default, Image
  <1>4. Temporaries'
    BY DEF StoreTypeOK, Temporaries, CreateTemp
  <1>5. FileIntact' /\ AckedKept'
    BY DEF StoreTypeOK, WorkingCopy, Temporaries, FileIntact, AckedKept, Saving, Loadable, CreateTemp, Default
  <1>6. QED
    BY <1>1, <1>2, <1>3, <1>4, <1>5

\* A link creates the file or finds it there; it never overwrites.
LEMMA LinkStep ==
    ASSUME StoreInv, NEW s \in Starters, Link(s)
    PROVE  StoreInv'
  <1> USE ImageFacts DEF StoreInv, Discipline
  <1>1. StoreTypeOK'
    BY DEF StoreTypeOK, SaverLabels, Link, NameFree, Default, Image
  <1>2. MutualExclusion'
    BY DEF StoreTypeOK, MutualExclusion, Held, Link, NameFree, Default
  <1>3. WorkingCopy'
    BY DEF StoreTypeOK, MutualExclusion, WorkingCopy, Held, Saving, Loadable, Link, NameFree, Default, Image
  <1>4. Temporaries'
    BY DEF StoreTypeOK, MutualExclusion, WorkingCopy, Temporaries, Held, Saving, Link, NameFree, Default, Image
  <1>5. FileIntact' /\ AckedKept'
    BY DEF StoreTypeOK, WorkingCopy, Temporaries, FileIntact, AckedKept, Saving, Loadable, Link, NameFree, Default
  <1>6. QED
    BY <1>1, <1>2, <1>3, <1>4, <1>5

\* Removing the temporary name leaves the file.
LEMMA RemoveStep ==
    ASSUME StoreInv, NEW s \in Starters, Remove(s)
    PROVE  StoreInv'
  <1> USE ImageFacts DEF StoreInv, Discipline
  <1>1. StoreTypeOK'
    BY DEF StoreTypeOK, SaverLabels, Remove, Discard, Image
  <1>2. MutualExclusion'
    BY DEF StoreTypeOK, MutualExclusion, Held, Remove, Discard
  <1>3. WorkingCopy'
    BY DEF StoreTypeOK, MutualExclusion, WorkingCopy, Held, Saving, Loadable, Remove, Discard, Image
  <1>4. Temporaries'
    BY DEF StoreTypeOK, MutualExclusion, WorkingCopy, Temporaries, Held, Saving, Remove, Discard, Image
  <1>5. FileIntact' /\ AckedKept'
    BY DEF StoreTypeOK, WorkingCopy, Temporaries, FileIntact, AckedKept, Saving, Loadable, Remove, Discard
  <1>6. QED
    BY <1>1, <1>2, <1>3, <1>4, <1>5

\* A creation that fails leaves the file.
LEMMA FailStep ==
    ASSUME StoreInv, NEW s \in Starters, Fail(s)
    PROVE  StoreInv'
  <1> USE ImageFacts DEF StoreInv, Discipline
  <1>1. StoreTypeOK'
    BY DEF StoreTypeOK, SaverLabels, Fail, Image
  <1>2. MutualExclusion'
    BY DEF StoreTypeOK, MutualExclusion, Held, Fail
  <1>3. WorkingCopy'
    BY DEF StoreTypeOK, MutualExclusion, WorkingCopy, Held, Saving, Loadable, Fail, Image
  <1>4. Temporaries'
    BY DEF StoreTypeOK, MutualExclusion, WorkingCopy, Temporaries, Held, Saving, Fail, Image
  <1>5. FileIntact' /\ AckedKept'
    BY DEF StoreTypeOK, WorkingCopy, Temporaries, FileIntact, AckedKept, Saving, Loadable, Fail
  <1>6. QED
    BY <1>1, <1>2, <1>3, <1>4, <1>5

\* Deaths.
LEMMA CrashStarterStep ==
    ASSUME StoreInv, NEW s \in Starters, CrashStarter(s)
    PROVE  StoreInv'
  <1> USE ImageFacts DEF StoreInv, Discipline
  <1>1. StoreTypeOK'
    BY DEF StoreTypeOK, SaverLabels, CrashStarter, Image
  <1>2. MutualExclusion'
    BY DEF StoreTypeOK, MutualExclusion, Held, CrashStarter
  <1>3. WorkingCopy'
    BY DEF StoreTypeOK, MutualExclusion, WorkingCopy, Held, Saving, Loadable, CrashStarter, Image
  <1>4. Temporaries'
    BY DEF StoreTypeOK, MutualExclusion, WorkingCopy, Temporaries, Held, Saving, CrashStarter, Image
  <1>5. FileIntact' /\ AckedKept'
    BY DEF StoreTypeOK, WorkingCopy, Temporaries, FileIntact, AckedKept, Saving, Loadable, CrashStarter
  <1>6. QED
    BY <1>1, <1>2, <1>3, <1>4, <1>5

\* A crash frees the mutex and leaves the file.
LEMMA CrashSimulatorStep ==
    ASSUME StoreInv, CrashSimulator
    PROVE  StoreInv'
  <1> USE ImageFacts DEF StoreInv, Discipline
  <1>1. StoreTypeOK'
    BY DEF StoreTypeOK, SaverLabels, CrashSimulator, Image
  <1>2. MutualExclusion'
    BY DEF StoreTypeOK, MutualExclusion, Held, CrashSimulator
  <1>3. WorkingCopy'
    BY DEF StoreTypeOK, MutualExclusion, WorkingCopy, Held, Saving, Loadable, CrashSimulator, Image
  <1>4. Temporaries'
    BY DEF StoreTypeOK, MutualExclusion, WorkingCopy, Temporaries, Held, Saving, CrashSimulator, Image
  <1>5. FileIntact' /\ AckedKept'
    BY DEF StoreTypeOK, WorkingCopy, Temporaries, FileIntact, AckedKept, Saving, Loadable, CrashSimulator
  <1>6. QED
    BY <1>1, <1>2, <1>3, <1>4, <1>5

\* Every step keeps the discipline.
LEMMA InvStep == StoreInv /\ [StoreNext]_storeVars => StoreInv'
  <1> SUFFICES ASSUME StoreInv, [StoreNext]_storeVars PROVE StoreInv'
    OBVIOUS
  <1>1. ASSUME NEW u \in Updates, Call(u) \/ Lock(u) \/ Proceed(u)
        PROVE  StoreInv'
    <2>1. u \in Savers
      BY ImageFacts
    <2>2. QED
      BY <1>1, <2>1, CallStep, LockStep, LoadStep, MutateStep, CreateTempStep,
         WriteTempStep, RenameStep, ReturnStep DEF Proceed
  <1>2. ASSUME NEW s \in Starters, Start(s) \/ CrashStarter(s)
        PROVE  StoreInv'
    <2>1. s \in Savers
      BY ImageFacts
    <2>2. QED
      BY <1>2, <2>1, StatStep, CreateDefaultStep, WriteTempStep, LinkStep,
         RemoveStep, FailStep, CrashStarterStep DEF Start
  <1>3. CASE UNCHANGED storeVars
    BY <1>3 DEF storeVars, StoreInv, StoreTypeOK, Discipline, MutualExclusion, WorkingCopy,
                Temporaries, FileIntact, AckedKept, Loadable
  <1>4. QED
    BY <1>1, <1>2, <1>3, CrashSimulatorStep DEF StoreNext

\* So the discipline always holds.
LEMMA Invariant == StoreSpec => []StoreInv
  BY InvInit, InvStep, PTL DEF StoreSpec

-----------------------------------------------------------------------------
\* The type invariant.
THEOREM StoreTypeCorrect == StoreSpec => []StoreTypeOK
  <1>1. StoreInv => StoreTypeOK
    BY DEF StoreInv
  <1>2. QED
    BY <1>1, Invariant, PTL

\* The configuration file is never torn and never invalid, whatever system call
\* fails and wherever a process dies.
THEOREM FileAlwaysIntact == StoreSpec => []FileIntact
  <1>1. StoreInv => FileIntact
    BY DEF StoreInv, Discipline
  <1>2. QED
    BY <1>1, Invariant, PTL

\* Every step of the store is a step of the register, or none.  Only Rename and
\* Link change the file; Rename adds its edit, Link finds no file.
LEMMA RegisterInit == StoreInit => Register!Init
  BY ImageFacts DEF StoreInit, Register!Init, Default

\* Every step of the store is one of the register, or invisible to it.
LEMMA RegisterStep == StoreInv /\ [StoreNext]_storeVars => [Register!Next]_(Register!rvars)
  <1> SUFFICES ASSUME StoreInv, [StoreNext]_storeVars
               PROVE  Register!Next \/ UNCHANGED Register!rvars
    OBVIOUS
  <1> USE DEF StoreInv, Discipline
  <1>1. ASSUME file' = file, acked' = acked
        PROVE  UNCHANGED Register!rvars
    BY <1>1 DEF Register!rvars
  <1>2. ASSUME NEW u \in Updates, Rename(u)
        PROVE  Register!Commit(u) \/ UNCHANGED Register!rvars
    <2>1. CASE file' = file /\ acked' = acked
      BY <2>1, <1>1
    <2>2. CASE file' = tmp[u] /\ acked' = acked
      <3>1. /\ tmp[u] = mem[u] /\ mem[u] # NoFile /\ file # NoFile
            /\ mem[u].edits = file.edits \cup {u}
            /\ file \in Image
        BY <1>2 DEF Rename, WorkingCopy, Temporaries, Saving, Loadable, StoreTypeOK
      <3>2. file.edits \in SUBSET Updates
        BY <3>1 DEF Image
      <3>3. QED
        BY <2>2, <3>1, <3>2, ImageFacts DEF Register!Commit
    <2>3. QED
      BY <1>2, <2>1, <2>2 DEF Rename
  <1>3. ASSUME NEW u \in Updates, ReturnUpdate(u)
        PROVE  Register!Acknowledge(u) \/ UNCHANGED Register!rvars
    <2>1. file' = file
      BY <1>3 DEF ReturnUpdate
    <2>2. CASE at[u] = "failing"
      BY <1>3, <2>1, <2>2, <1>1 DEF ReturnUpdate
    <2>3. CASE at[u] = "succeeding"
      <3>1. file # NoFile /\ u \in file.edits /\ file \in Image /\ acked' = acked \cup {u}
        BY <1>3, <2>3 DEF ReturnUpdate, WorkingCopy, StoreTypeOK
      <3>2. file.edits \in SUBSET Updates
        BY <3>1 DEF Image
      <3>3. QED
        BY <2>1, <3>1, <3>2, ImageFacts DEF Register!Acknowledge
    <2>4. QED
      BY <1>3, <2>2, <2>3 DEF ReturnUpdate
  <1>4. ASSUME NEW s \in Starters, Link(s)
        PROVE  Register!Create \/ UNCHANGED Register!rvars
    <2>1. CASE file' = file /\ acked' = acked
      BY <2>1, <1>1
    <2>2. CASE file = NoFile /\ file' = Default /\ acked' = acked
      BY <2>2, ImageFacts DEF Register!Create, Default
    <2>3. QED
      BY <1>4, <2>1, <2>2 DEF Link, NameFree, Temporaries
  <1>5. ASSUME NEW u \in Updates, Call(u) \/ Lock(u) \/ Proceed(u)
        PROVE  Register!Next \/ UNCHANGED Register!rvars
    <2>1. CASE Rename(u)
      BY <2>1, <1>2 DEF Register!Next
    <2>2. CASE ReturnUpdate(u)
      BY <2>2, <1>3 DEF Register!Next
    <2>3. CASE ~Rename(u) /\ ~ReturnUpdate(u)
      <3>1. file' = file /\ acked' = acked
        BY <1>5, <2>3 DEF Proceed, Call, Lock, Load, Mutate, CreateTemp, WriteTemp
      <3>2. QED
        BY <3>1, <1>1
    <2>4. QED
      BY <2>1, <2>2, <2>3
  <1>6. ASSUME NEW s \in Starters, Start(s) \/ CrashStarter(s)
        PROVE  Register!Next \/ UNCHANGED Register!rvars
    <2>1. CASE Link(s)
      BY <2>1, <1>4 DEF Register!Next
    <2>2. CASE ~Link(s)
      <3>1. file' = file /\ acked' = acked
        BY <1>6, <2>2 DEF Start, Stat, CreateTemp, WriteTemp, Remove, Fail, CrashStarter
      <3>2. QED
        BY <3>1, <1>1
    <2>3. QED
      BY <2>1, <2>2
  <1>7. CASE CrashSimulator \/ UNCHANGED storeVars
    BY <1>7, <1>1 DEF CrashSimulator, storeVars
  <1>8. QED
    BY <1>5, <1>6, <1>7 DEF StoreNext

\* The store implements the register, for any number of updates and processes.
THEOREM StoreImplementsRegister == StoreSpec => ImplementsRegister
  BY Invariant, RegisterInit, RegisterStep, PTL DEF StoreSpec, ImplementsRegister, Register!Spec

-----------------------------------------------------------------------------
(* The live copies: ControlPlane *)

\* A call that has edited the file and not yet returned.
Edits == {"mirroring", "loading", "installing", "topics", "users", "chain", "ok",
          "stale", "broken"}
\* A call that holds a configuration it has read back.
Holds == {"installing", "topics", "users", "chain"}

\* A call that is alone is the only one, and each part it has passed is right.
PassedParts(c) ==
    /\ pc[c] \in Holds => fresh[c] = disk
    /\ pc[c] \in {"topics", "users", "chain", "ok", "broken"} => cfg = disk
    /\ pc[c] \in {"users", "chain", "ok", "broken"} => topics = disk.topic
    /\ pc[c] \in {"chain", "ok", "broken"} => store = disk.users
    /\ pc[c] = "ok" => chain = ChainOf(disk)
\* The user it names is right in the store once it has edited the store.
NamedUser(c) ==
    /\ Mirrors(op[c]) /\ pc[c] = "mirroring" =>
           disk.users[op[c].user] = Mirrored(op[c])
    /\ Mirrors(op[c]) /\ pc[c] \in {"loading", "stale"} =>
           store[op[c].user] = disk.users[op[c].user]
Undisturbed == \A c \in Callers : alone[c] =>
    /\ pc[c] # "idle"
    /\ \A d \in Callers \ {c} : pc[d] = "idle"
    /\ Reloads(c) => PassedParts(c)
    /\ NamedUser(c)

\* The file, and everything read back from it, is of this busy period.
Recent == \A c \in Callers :
    /\ pc[c] \in Edits => disk \in recent
    /\ pc[c] \in Holds => fresh[c] \in recent

\* Each part is of this busy period from the first time a call writes it.
Passed(labels) == reloaded \/ \E c \in Callers : pc[c] \in labels
CfgRecent == Passed({"topics", "users", "chain"}) => cfg \in recent
TopicsRecent == Passed({"users", "chain"}) => \E c \in recent : topics = c.topic
\* What a call is about to write into the store was in the file.
Pending == \A c \in Callers : pc[c] = "mirroring" =>
    \E d \in recent : d.users[op[c].user] = Mirrored(op[c])
UsersRecent == Passed({"chain"}) =>
    \A u \in Users : \E c \in recent : store[u] = c.users[u]
\* The whole store is mended by the replacement that follows every edit of it.
Mending == \E c \in Callers :
    Mirrors(op[c]) /\ pc[c] \in {"loading", "installing", "topics", "users"}
StoreRecent == Passed({"chain"}) /\ ~Mending /\ ~unread =>
    \E c \in recent : store = c.users
ChainRecent == reloaded /\ ~failed => \E c \in recent : chain = ChainOf(c)

\* Only a call that names a user edits the store by itself.
MirrorsUser == \A c \in Callers :
    pc[c] = "mirroring" => Mirrors(op[c])

IInv == TypeOK /\ MirrorsUser /\ Undisturbed /\ Recent /\ Pending
        /\ CfgRecent /\ TopicsRecent /\ UsersRecent /\ StoreRecent /\ ChainRecent

-----------------------------------------------------------------------------
\* Every mutation keeps a configuration a configuration (the closures of update.go).
LEMMA EditedType ==
  ASSUME NEW o \in Operations, NEW c \in Config
  PROVE  Edited(o, c) \in Config
<1>1. CASE o.kind \in {"AddUser", "UpsertUser"}
  <2>1. o.user \in Users /\ o.password \in Credentials
    BY <1>1 DEF Operations, Credentials
  <2>2. [c.users EXCEPT ![o.user] = o.password] \in [Users -> Credentials]
    BY <2>1 DEF Config
  <2> QED
    BY <1>1, <2>2 DEF Edited, Config
<1>2. CASE o.kind = "RemoveUser"
  <2>1. o.user \in Users
    BY <1>2 DEF Operations
  <2>2. [c.users EXCEPT ![o.user] = Absent] \in [Users -> Credentials]
    BY <2>1 DEF Config, Credentials
  <2> QED
    BY <1>2, <2>2 DEF Edited, Config
<1>3. CASE o.kind = "SetAuthEnabled"
  BY <1>3 DEF Edited, Operations, Config
<1>4. CASE o.kind = "SetTopicEnabled"
  BY <1>4 DEF Edited, Operations, Config
<1>5. CASE o.kind = "SetScopes"
  BY <1>5 DEF Edited
<1> QED
  BY <1>1, <1>2, <1>3, <1>4, <1>5 DEF Operations

\* A mutation that names a user leaves the file with what the store is to have.
LEMMA EditedUser ==
  ASSUME NEW o \in Operations, NEW c \in Config, Mirrors(o)
  PROVE  /\ o.user \in Users /\ Mirrored(o) \in Credentials
         /\ Edited(o, c).users[o.user] = Mirrored(o)
<1>1. o.user \in Users /\ c.users \in [Users -> Credentials]
  BY DEF Operations, Mirrors, Config
<1>2. CASE o.kind = "UpsertUser"
  <2>1. o.password \in Credentials /\ Mirrored(o) = o.password
    BY <1>2 DEF Operations, Credentials, Mirrored
  <2> QED
    BY <1>1, <1>2, <2>1 DEF Edited, Config
<1>3. CASE o.kind = "RemoveUser"
  BY <1>1, <1>3 DEF Edited, Mirrored, Config, Credentials
<1> QED
  BY <1>2, <1>3 DEF Mirrors

\* The default values are values.
LEMMA DefaultsType == NoConfig \in Config /\ NoOperation \in Operations
  BY DEF NoConfig, NoUsers, Credentials, Config, NoOperation, Operations

\* The parts of a configuration.
LEMMA PartsType ==
  ASSUME NEW c \in Config
  PROVE  /\ c.users \in [Users -> Credentials] /\ c.topic \in BOOLEAN
         /\ c.jwt # "bad" => ChainOf(c) \in Chains
  BY DEF Config, ChainOf, Chains

\* New builds every part from the one configuration it loads.
LEMMA InitIInv == Init => IInv
<1> SUFFICES ASSUME Init PROVE IInv
  OBVIOUS
<1>1. disk \in Config /\ Valid(disk) /\ disk.jwt # "bad"
  BY FirstFilesAssumption DEF Init, Startable
<1>2. TypeOK
  BY <1>1, DefaultsType, PartsType DEF Init, TypeOK, Labels
<1>3. MirrorsUser /\ Undisturbed /\ Recent /\ Pending
  BY DEF Init, MirrorsUser, Undisturbed, Recent, Pending, Edits, Holds
<1>4. CfgRecent /\ TopicsRecent /\ UsersRecent /\ StoreRecent /\ ChainRecent
  BY DEF Init, CfgRecent, TopicsRecent, UsersRecent, StoreRecent, ChainRecent, Passed
<1> QED
  BY <1>2, <1>3, <1>4 DEF IInv

-----------------------------------------------------------------------------
\* Types are kept, given who edits the store.
LEMMA TypeStep == TypeOK /\ MirrorsUser /\ [Next]_vars => TypeOK'
<1> SUFFICES ASSUME TypeOK, MirrorsUser, [Next]_vars PROVE TypeOK'
  OBVIOUS
<1> USE DEF TypeOK, Goto, At
<1>1. ASSUME NEW c \in Callers, NEW o \in Operations, Begin(c, o) PROVE TypeOK'
  <2>1. recent' \subseteq Config /\ reloaded' \in BOOLEAN /\ failed' \in BOOLEAN
        /\ unread' \in BOOLEAN
    BY <1>1 DEF Begin
  <2>2. alone' \in [Callers -> BOOLEAN] /\ calls' \in Nat
    BY <1>1 DEF Begin
  <2>3. pc' \in [Callers -> Labels] /\ op' \in [Callers -> Operations]
    BY <1>1 DEF Begin, Labels
  <2> QED
    BY <1>1, <2>1, <2>2, <2>3 DEF Begin, live
<1>2. ASSUME NEW c \in Callers, Persist(c) PROVE TypeOK'
  <2>1. disk' \in Config /\ Valid(disk')
    BY <1>2, EditedType DEF Persist, Accepted
  <2>2. AfterPersist(op[c]) \in Labels
    BY DEF AfterPersist, Labels
  <2>3. pc' \in [Callers -> Labels]
    BY <1>2, <2>2 DEF Persist
  <2> QED
    BY <1>2, <2>1, <2>3 DEF Persist, live
<1>3. ASSUME NEW c \in Callers, Refuse(c) PROVE TypeOK'
  BY <1>3 DEF Refuse, live, Labels
<1>4. ASSUME NEW c \in Callers, Mirror(c) PROVE TypeOK'
  <2>1. store' \in [Users -> Credentials]
    <3>1. op[c].user \in Users /\ Mirrored(op[c]) \in Credentials
      BY <1>4, EditedUser DEF Mirror, MirrorsUser
    <3>2. store' = [store EXCEPT ![op[c].user] = Mirrored(op[c])]
      BY <1>4 DEF Mirror
    <3> QED
      BY <3>1, <3>2
  <2>2. pc' \in [Callers -> Labels]
    BY <1>4 DEF Mirror, Labels
  <2> QED
    BY <1>4, <2>1, <2>2 DEF Mirror
<1>5. ASSUME NEW c \in Callers, Reload(c) PROVE TypeOK'
  BY <1>5 DEF Reload, live, Labels
<1>13. ASSUME NEW c \in Callers, FailReload(c) PROVE TypeOK'
  <2>1. pc' \in [Callers -> Labels]
    BY <1>13 DEF FailReload, Labels
  <2>2. unread' \in BOOLEAN
    BY <1>13, Zenon DEF FailReload, Mirrors
  <2> QED
    BY <1>13, <2>1, <2>2 DEF FailReload, live
<1>6. ASSUME NEW c \in Callers, Install(c) PROVE TypeOK'
  BY <1>6 DEF Install, Labels
<1>7. ASSUME NEW c \in Callers, UpdateBroker(c) PROVE TypeOK'
  BY <1>7, PartsType DEF UpdateBroker, Labels
<1>8. ASSUME NEW c \in Callers, SyncUsers(c) PROVE TypeOK'
  BY <1>8, PartsType DEF SyncUsers, Labels
<1>9. ASSUME NEW c \in Callers, RebuildAuthChain(c) PROVE TypeOK'
  <2>1. chain' \in Chains /\ failed' \in BOOLEAN /\ reloaded' \in BOOLEAN
    <3>1. fresh[c] \in Config /\ chain \in Chains /\ failed \in BOOLEAN
      OBVIOUS
    <3>2. fresh[c].jwt # "bad" => ChainOf(fresh[c]) \in Chains
      BY <3>1, PartsType
    <3> QED
      BY <1>9, <3>1, <3>2 DEF RebuildAuthChain
  <2>2. pc' \in [Callers -> Labels]
    BY <1>9 DEF RebuildAuthChain, Labels
  <2>3. UNCHANGED <<disk, cfg, topics, store, op, fresh, calls, edits, recent, unread,
                    alone>>
    BY <1>9 DEF RebuildAuthChain
  <2> QED
    BY <2>1, <2>2, <2>3
<1>10. ASSUME NEW c \in Callers, Return(c) PROVE TypeOK'
  BY <1>10, DefaultsType DEF Return, live, Labels
<1>11. ASSUME NEW jwt \in {"off", "good", "bad"}, EditByHand(jwt) PROVE TypeOK'
  <2>1. disk' \in Config
    BY <1>11 DEF EditByHand, Config
  <2> QED
    BY <1>11, <2>1 DEF EditByHand, live
<1>12. CASE UNCHANGED vars
  BY <1>12 DEF vars, live
<1> QED
  BY <1>1, <1>2, <1>3, <1>4, <1>5, <1>6, <1>7, <1>8, <1>9, <1>10, <1>11, <1>12,
     <1>13 DEF Next, Mutator

-----------------------------------------------------------------------------
\* Persist is the way to "mirroring", and it leaves the operation alone.
LEMMA MirrorsStep == TypeOK /\ MirrorsUser /\ [Next]_vars => MirrorsUser'
<1> SUFFICES ASSUME TypeOK, MirrorsUser, [Next]_vars PROVE MirrorsUser'
  OBVIOUS
<1> USE DEF TypeOK, MirrorsUser, Goto, At
<1>1. ASSUME NEW c \in Callers, NEW o \in Operations, Begin(c, o) PROVE MirrorsUser'
  BY <1>1 DEF Begin
<1>2. ASSUME NEW c \in Callers, Persist(c) PROVE MirrorsUser'
  <2>1. AfterPersist(op[c]) = "mirroring" => Mirrors(op[c])
    BY DEF AfterPersist
  <2>2. op' = op /\ pc' = [pc EXCEPT ![c] = AfterPersist(op[c])]
    BY <1>2 DEF Persist
  <2> HIDE DEF At, Goto
  <2> QED
    BY <2>1, <2>2
<1>3. ASSUME NEW c \in Callers,
             Refuse(c) \/ Mirror(c) \/ Reload(c) \/ FailReload(c) \/ Install(c)
             \/ UpdateBroker(c) \/ SyncUsers(c) \/ RebuildAuthChain(c)
      PROVE  MirrorsUser'
  BY <1>3 DEF Refuse, Mirror, Reload, FailReload, Install, UpdateBroker, SyncUsers,
     RebuildAuthChain
<1>4. ASSUME NEW c \in Callers, Return(c) PROVE MirrorsUser'
  BY <1>4 DEF Return
<1>5. CASE (\E jwt \in {"off", "good", "bad"} : EditByHand(jwt)) \/ UNCHANGED vars
  BY <1>5 DEF EditByHand, vars
<1> QED
  BY <1>1, <1>2, <1>3, <1>4, <1>5 DEF Next, Mutator

\* Types hold throughout.
LEMMA TypesAlways == Spec => [](TypeOK /\ MirrorsUser)
<1>1. Init => TypeOK /\ MirrorsUser
  BY InitIInv DEF IInv
<1> QED
  BY <1>1, TypeStep, MirrorsStep, PTL DEF Spec

\* The type invariant of the control plane.
THEOREM ControlTypeCorrect == Spec => []TypeOK
  BY TypesAlways, PTL

-----------------------------------------------------------------------------
\* A call that is alone passes the parts one by one; anyone who joins ends that.
LEMMA UndisturbedStep == TypeOK /\ Undisturbed /\ [Next]_vars => Undisturbed'
<1> SUFFICES ASSUME TypeOK, Undisturbed, [Next]_vars,
                    NEW c \in Callers, alone'[c]
             PROVE  /\ pc'[c] # "idle"
                    /\ \A d \in Callers \ {c} : pc'[d] = "idle"
                    /\ (Reloads(c)' => PassedParts(c)') /\ NamedUser(c)'
  BY DEF Undisturbed
<1> USE DEF At, Goto
<1>0. pc \in [Callers -> Labels] /\ op \in [Callers -> Operations]
      /\ fresh \in [Callers -> Config] /\ alone \in [Callers -> BOOLEAN]
  BY DEF TypeOK
<1>1. ASSUME NEW d \in Callers, NEW o \in Operations, Begin(d, o)
      PROVE  /\ pc'[c] # "idle"
             /\ \A e \in Callers \ {c} : pc'[e] = "idle"
             /\ (Reloads(c)' => PassedParts(c)') /\ NamedUser(c)'
  <2>1. d = c /\ Resting
    BY <1>1 DEF Begin
  <2>2. pc' = [pc EXCEPT ![c] = "persisting"]
    BY <1>1, <2>1 DEF Begin
  <2>3. \A e \in Callers : pc[e] = "idle"
    BY <2>1 DEF Resting
  <2> QED
    BY <1>0, <2>2, <2>3 DEF PassedParts, NamedUser, Holds
<1>2. ASSUME NEW d \in Callers,
             Persist(d) \/ Refuse(d) \/ Mirror(d) \/ Reload(d) \/ FailReload(d)
             \/ Install(d) \/ UpdateBroker(d) \/ SyncUsers(d) \/ RebuildAuthChain(d)
      PROVE  /\ pc'[c] # "idle"
             /\ \A e \in Callers \ {c} : pc'[e] = "idle"
             /\ (Reloads(c)' => PassedParts(c)') /\ NamedUser(c)'
  <2>1. alone' = alone /\ op' = op /\ pc[d] # "idle"
    BY <1>2 DEF Persist, Refuse, Mirror, Reload, FailReload, Install, UpdateBroker,
       SyncUsers, RebuildAuthChain
  <2>2. alone[c] /\ d = c
    BY <2>1 DEF Undisturbed
  <2>3. \A e \in Callers \ {c} : pc[e] = "idle"
    BY <2>2 DEF Undisturbed
  <2>4. (Reloads(c) => PassedParts(c)) /\ NamedUser(c)
    BY <2>2 DEF Undisturbed
  <2>5. \A e \in Callers \ {c} : pc'[e] = "idle"
    BY <1>0, <1>2, <2>2, <2>3 DEF Persist, Refuse, Mirror, Reload, FailReload,
       Install, UpdateBroker, SyncUsers, RebuildAuthChain
  <2>6. CASE Persist(c)
    <3>1. pc'[c] = AfterPersist(op[c])
      BY <1>0, <2>6 DEF Persist
    <3>2. Reloads(c) => pc'[c] \in {"mirroring", "loading"}
      BY <3>1 DEF Reloads, AfterPersist
    <3>3. pc'[c] # "idle"
      BY <3>1 DEF AfterPersist
    <3>4. Mirrors(op[c]) => disk'.users[op[c].user] = Mirrored(op[c])
      BY <2>6, EditedUser DEF Persist, TypeOK
    <3>5. Mirrors(op[c]) => pc'[c] = "mirroring"
      BY <3>1 DEF AfterPersist, Mirrors
    <3>6. NamedUser(c)'
      BY <2>1, <3>4, <3>5 DEF NamedUser, Mirrors, Mirrored
    <3> QED
      BY <2>1, <2>5, <3>2, <3>3, <3>6 DEF PassedParts, Holds, Reloads
  <2>7. CASE Refuse(c)
    BY <1>0, <2>1, <2>5, <2>7 DEF Refuse, PassedParts, NamedUser, Holds
  <2>8. CASE Mirror(c)
    <3>1. pc'[c] = "loading" /\ disk' = disk
      BY <1>0, <2>8 DEF Mirror
    <3>2. store' = [store EXCEPT ![op[c].user] = Mirrored(op[c])]
      BY <2>8 DEF Mirror
    <3>3. Mirrors(op[c]) => /\ disk.users[op[c].user] = Mirrored(op[c])
                            /\ op[c].user \in Users
      BY <2>4, <2>8, EditedUser DEF Mirror, NamedUser, TypeOK
    <3>4. NamedUser(c)'
      BY <2>1, <3>1, <3>2, <3>3 DEF NamedUser, Mirrors, Mirrored, TypeOK
    <3> QED
      BY <2>5, <3>1, <3>4 DEF PassedParts, Holds
  <2>9. CASE Reload(c)
    BY <1>0, <2>1, <2>5, <2>9 DEF Reload, PassedParts, NamedUser, Holds
  <2>14. CASE FailReload(c)
    <3>1. NamedUser(c)'
      BY <1>0, <2>1, <2>4, <2>14 DEF FailReload, live, NamedUser, Mirrors, Mirrored
    <3> QED
      BY <1>0, <2>5, <2>14, <3>1 DEF FailReload, PassedParts, Holds
  <2>10. CASE Install(c)
    BY <1>0, <2>1, <2>4, <2>5, <2>10 DEF Install, PassedParts, NamedUser, Holds, Reloads
  <2>11. CASE UpdateBroker(c)
    BY <1>0, <2>1, <2>4, <2>5, <2>11 DEF UpdateBroker, PassedParts, NamedUser, Holds, Reloads
  <2>12. CASE SyncUsers(c)
    BY <1>0, <2>1, <2>4, <2>5, <2>12 DEF SyncUsers, PassedParts, NamedUser, Holds, Reloads
  <2>13. CASE RebuildAuthChain(c)
    BY <1>0, <2>1, <2>4, <2>5, <2>13 DEF RebuildAuthChain, PassedParts, NamedUser, Holds, Reloads
  <2> QED
    BY <1>2, <2>2, <2>6, <2>7, <2>8, <2>9, <2>10, <2>11, <2>12, <2>13,
       <2>14
<1>3. ASSUME NEW d \in Callers, Return(d) PROVE FALSE
  <2>1. d # c
    BY <1>0, <1>3 DEF Return
  <2>2. alone[c] /\ pc[d] # "idle"
    BY <1>0, <1>3, <2>1 DEF Return
  <2> QED
    BY <2>1, <2>2 DEF Undisturbed
<1>4. ASSUME NEW jwt \in {"off", "good", "bad"}, EditByHand(jwt) PROVE FALSE
  BY <1>4 DEF EditByHand
<1>5. ASSUME UNCHANGED vars
      PROVE  /\ pc'[c] # "idle"
             /\ \A e \in Callers \ {c} : pc'[e] = "idle"
             /\ (Reloads(c)' => PassedParts(c)') /\ NamedUser(c)'
  BY <1>5 DEF vars, live, Undisturbed, PassedParts, NamedUser, Reloads, Mirrors,
     Mirrored
<1> QED
  BY <1>1, <1>2, <1>3, <1>4, <1>5 DEF Next, Mutator

\* A mutator that met nobody leaves every part equal to the file (reloadFromDisk).
THEOREM SoloCallSyncs == Spec => []AloneSyncs
<1>1. Init => Undisturbed
  BY InitIInv DEF IInv
<1>2. Undisturbed => AloneSyncs
  BY DEF Undisturbed, PassedParts, NamedUser, AloneSyncs, At
<1> QED
  BY <1>1, <1>2, UndisturbedStep, TypesAlways, PTL DEF Spec

-----------------------------------------------------------------------------
\* What the steps do to the history: one opens a busy period, the others extend it.
LEMMA RecentStep == TypeOK /\ Recent /\ [Next]_vars => Recent'
<1> SUFFICES ASSUME TypeOK, Recent, [Next]_vars, NEW c \in Callers
             PROVE  /\ pc'[c] \in Edits => disk' \in recent'
                    /\ pc'[c] \in Holds => fresh'[c] \in recent'
  BY DEF Recent
<1> USE DEF At, Goto
<1>0. /\ pc \in [Callers -> Labels] /\ fresh \in [Callers -> Config]
      /\ pc[c] \in Edits => disk \in recent
      /\ pc[c] \in Holds => fresh[c] \in recent
  BY DEF TypeOK, Recent
<1>1. ASSUME NEW d \in Callers, NEW o \in Operations, Begin(d, o)
      PROVE  /\ pc'[c] \in Edits => disk' \in recent'
             /\ pc'[c] \in Holds => fresh'[c] \in recent'
  <2>1. pc' = [pc EXCEPT ![d] = "persisting"] /\ disk' = disk /\ fresh' = fresh
    BY <1>1 DEF Begin
  <2>2. CASE Resting
    BY <1>0, <2>1, <2>2 DEF Resting, Edits, Holds
  <2>3. CASE ~Resting
    BY <1>0, <1>1, <2>1, <2>3 DEF Begin, Edits, Holds
  <2> QED
    BY <2>2, <2>3
<1>2. ASSUME NEW d \in Callers, Persist(d)
      PROVE  /\ pc'[c] \in Edits => disk' \in recent'
             /\ pc'[c] \in Holds => fresh'[c] \in recent'
  <2>1. recent' = recent \cup {disk'} /\ fresh' = fresh
    BY <1>2 DEF Persist
  <2>2. AfterPersist(op[d]) \notin Holds
    BY DEF AfterPersist, Holds
  <2>3. pc'[c] \in Holds => pc[c] \in Holds
    BY <1>0, <1>2, <2>2 DEF Persist
  <2> QED
    BY <1>0, <2>1, <2>3
<1>3. ASSUME NEW d \in Callers,
             Refuse(d) \/ Mirror(d) \/ Reload(d) \/ FailReload(d) \/ Install(d)
             \/ UpdateBroker(d) \/ SyncUsers(d) \/ RebuildAuthChain(d)
      PROVE  /\ pc'[c] \in Edits => disk' \in recent'
             /\ pc'[c] \in Holds => fresh'[c] \in recent'
  <2>1. recent' = recent /\ disk' = disk
    BY <1>3 DEF Refuse, Mirror, Reload, FailReload, Install, UpdateBroker,
       SyncUsers, RebuildAuthChain
  <2>2. pc'[c] \in Edits => pc[c] \in Edits
    BY <1>0, <1>3 DEF Refuse, Mirror, Reload, FailReload, Install, UpdateBroker,
       SyncUsers, RebuildAuthChain, Edits
  <2>3. CASE Reload(d)
    BY <1>0, <2>1, <2>2, <2>3 DEF Reload, Edits, Holds
  <2>4. CASE ~Reload(d)
    <3>1. fresh' = fresh
      BY <1>3, <2>4 DEF Refuse, Mirror, FailReload, Install, UpdateBroker,
         SyncUsers, RebuildAuthChain
    <3>2. pc'[c] \in Holds => pc[c] \in Holds
      BY <1>0, <1>3, <2>4 DEF Refuse, Mirror, FailReload, Install, UpdateBroker,
         SyncUsers, RebuildAuthChain, Holds
    <3> QED
      BY <1>0, <2>1, <2>2, <3>1, <3>2
  <2> QED
    BY <2>3, <2>4
<1>4. ASSUME NEW d \in Callers, Return(d)
      PROVE  /\ pc'[c] \in Edits => disk' \in recent'
             /\ pc'[c] \in Holds => fresh'[c] \in recent'
  BY <1>0, <1>4 DEF Return, Edits, Holds
<1>5. ASSUME NEW jwt \in {"off", "good", "bad"}, EditByHand(jwt)
      PROVE  /\ pc'[c] \in Edits => disk' \in recent'
             /\ pc'[c] \in Holds => fresh'[c] \in recent'
  BY <1>0, <1>5 DEF EditByHand
<1>6. ASSUME UNCHANGED vars
      PROVE  /\ pc'[c] \in Edits => disk' \in recent'
             /\ pc'[c] \in Holds => fresh'[c] \in recent'
  BY <1>0, <1>6 DEF vars
<1> QED
  BY <1>1, <1>2, <1>3, <1>4, <1>5, <1>6 DEF Next, Mutator

\* A call that begins either finds the others where they were or resets the history.
LEMMA BeginKeeps ==
  ASSUME TypeOK, NEW c \in Callers, NEW o \in Operations, Begin(c, o),
         NEW labels \in SUBSET Labels, "persisting" \notin labels, "idle" \notin labels
  PROVE  /\ UNCHANGED live
         /\ Passed(labels)' => /\ Passed(labels) /\ recent' = recent
                               /\ failed' = failed /\ unread' = unread
<1>1. UNCHANGED live /\ pc' = [pc EXCEPT ![c] = "persisting"]
  BY DEF Begin, Goto
<1>2. CASE Resting
  BY <1>1, <1>2 DEF Begin, Resting, Passed, At, TypeOK
<1>3. CASE ~Resting
  BY <1>1, <1>3 DEF Begin, Passed, TypeOK
<1> QED
  BY <1>1, <1>2, <1>3

\* The parts that Install and UpdateBroker write, each with what was read back.
LEMMA CfgTopicsStep ==
  TypeOK /\ Recent /\ CfgRecent /\ TopicsRecent /\ [Next]_vars
     => CfgRecent' /\ TopicsRecent'
<1> SUFFICES ASSUME TypeOK, Recent, CfgRecent, TopicsRecent, [Next]_vars
             PROVE  CfgRecent' /\ TopicsRecent'
  OBVIOUS
<1> USE DEF At, Goto
<1>0. pc \in [Callers -> Labels]
  BY DEF TypeOK
<1>1. ASSUME NEW c \in Callers, NEW o \in Operations, Begin(c, o)
      PROVE  CfgRecent' /\ TopicsRecent'
  <2>1. CfgRecent'
    BY <1>1, BeginKeeps DEF CfgRecent, Labels, live
  <2>2. TopicsRecent'
    BY <1>1, BeginKeeps DEF TopicsRecent, Labels, live
  <2> QED
    BY <2>1, <2>2
<1>2. ASSUME NEW c \in Callers, Install(c) PROVE CfgRecent' /\ TopicsRecent'
  <2>1. cfg' \in recent' /\ recent' = recent /\ topics' = topics /\ reloaded' = reloaded
    BY <1>2 DEF Install, Recent, Holds
  <2>2. Passed({"users", "chain"})' => Passed({"users", "chain"})
    BY <1>0, <1>2, <2>1 DEF Install, Passed
  <2> QED
    BY <2>1, <2>2 DEF CfgRecent, TopicsRecent
<1>3. ASSUME NEW c \in Callers, UpdateBroker(c) PROVE CfgRecent' /\ TopicsRecent'
  <2>1. fresh[c] \in recent /\ topics' = fresh[c].topic
        /\ recent' = recent /\ cfg' = cfg /\ reloaded' = reloaded
    BY <1>3 DEF UpdateBroker, Recent, Holds
  <2>2. Passed({"topics", "users", "chain"})
    BY <1>3 DEF UpdateBroker, Passed
  <2> QED
    BY <2>1, <2>2 DEF CfgRecent, TopicsRecent
<1>4. ASSUME NEW c \in Callers,
             Persist(c) \/ Refuse(c) \/ Mirror(c) \/ Reload(c) \/ FailReload(c)
             \/ SyncUsers(c) \/ RebuildAuthChain(c) \/ Return(c)
      PROVE  CfgRecent' /\ TopicsRecent'
  <2>1. recent \subseteq recent' /\ cfg' = cfg /\ topics' = topics
    BY <1>4 DEF Persist, Refuse, Mirror, Reload, FailReload, SyncUsers, RebuildAuthChain,
       Return, live
  <2>2. AfterPersist(op[c]) \notin {"topics", "users", "chain"}
    BY DEF AfterPersist
  <2>3. Passed({"topics", "users", "chain"})' => Passed({"topics", "users", "chain"})
    BY <1>0, <1>4, <2>2 DEF Persist, Refuse, Mirror, Reload, FailReload,
       SyncUsers, RebuildAuthChain, Return, Passed
  <2>4. Passed({"users", "chain"})' => Passed({"users", "chain"})
    BY <1>0, <1>4, <2>2 DEF Persist, Refuse, Mirror, Reload, FailReload,
       SyncUsers, RebuildAuthChain, Return, Passed
  <2> QED
    BY <2>1, <2>3, <2>4 DEF CfgRecent, TopicsRecent
<1>5. CASE (\E jwt \in {"off", "good", "bad"} : EditByHand(jwt)) \/ UNCHANGED vars
  BY <1>5 DEF EditByHand, vars, live, CfgRecent, TopicsRecent, Passed
<1> QED
  BY <1>1, <1>2, <1>3, <1>4, <1>5 DEF Next, Mutator

\* What the file had when a call edited it stays in the history while the call works.
LEMMA PendingStep ==
  TypeOK /\ MirrorsUser /\ Pending /\ [Next]_vars => Pending'
<1> SUFFICES ASSUME TypeOK, MirrorsUser, Pending, [Next]_vars,
                    NEW c \in Callers, pc'[c] = "mirroring"
             PROVE  \E d \in recent' : d.users[op'[c].user] = Mirrored(op'[c])
  BY DEF Pending, Mirrored
<1> USE DEF At, Goto
<1>0. pc \in [Callers -> Labels] /\ op \in [Callers -> Operations]
  BY DEF TypeOK
<1>1. CASE pc[c] = "mirroring" /\ op'[c] = op[c] /\ recent \subseteq recent'
  <2>1. \E d \in recent : d.users[op[c].user] = Mirrored(op[c])
    BY <1>1 DEF Pending
  <2> QED
    BY <1>1, <2>1 DEF Mirrored
<1>2. CASE Persist(c)
  <2>1. pc'[c] = AfterPersist(op[c]) /\ op' = op
    BY <1>0, <1>2 DEF Persist
  <2>2. Mirrors(op[c])
    BY <2>1 DEF AfterPersist
  <2>3. disk' \in recent' /\ disk'.users[op[c].user] = Mirrored(op[c])
    BY <1>2, <2>2, EditedUser DEF Persist, TypeOK
  <2> QED
    BY <2>1, <2>3 DEF Mirrored
<1>3. ASSUME NEW d \in Callers, NEW o \in Operations, Begin(d, o)
      PROVE  pc[c] = "mirroring" /\ op'[c] = op[c] /\ recent \subseteq recent'
  <2>1. d # c /\ pc[c] = "mirroring"
    BY <1>0, <1>3 DEF Begin
  <2> QED
    BY <1>0, <1>3, <2>1 DEF Begin, Resting
<1>4. ASSUME NEW d \in Callers, Persist(d), d # c
      PROVE  pc[c] = "mirroring" /\ op'[c] = op[c] /\ recent \subseteq recent'
  BY <1>0, <1>4 DEF Persist
<1>5. ASSUME NEW d \in Callers,
             Refuse(d) \/ Mirror(d) \/ Reload(d) \/ FailReload(d) \/ Install(d)
             \/ UpdateBroker(d) \/ SyncUsers(d) \/ RebuildAuthChain(d) \/ Return(d)
      PROVE  pc[c] = "mirroring" /\ op'[c] = op[c] /\ recent \subseteq recent'
  <2>1. recent' = recent /\ pc[c] = "mirroring"
    BY <1>0, <1>5 DEF Refuse, Mirror, Reload, FailReload, Install, UpdateBroker,
       SyncUsers, RebuildAuthChain, Return
  <2>2. op'[c] = op[c]
    BY <1>0, <1>5 DEF Refuse, Mirror, Reload, FailReload, Install, UpdateBroker,
       SyncUsers, RebuildAuthChain, Return
  <2> QED
    BY <2>1, <2>2
<1>6. CASE (\E jwt \in {"off", "good", "bad"} : EditByHand(jwt)) \/ UNCHANGED vars
  BY <1>1, <1>6 DEF EditByHand, vars
<1> QED
  BY <1>1, <1>2, <1>3, <1>4, <1>5, <1>6 DEF Next, Mutator

\* Each user in the store: written with what the file had, by Mirror or as one of all.
LEMMA UsersStep ==
  TypeOK /\ MirrorsUser /\ Recent /\ Pending /\ UsersRecent /\ [Next]_vars
     => UsersRecent'
<1> SUFFICES ASSUME TypeOK, MirrorsUser, Recent, Pending, UsersRecent, [Next]_vars
             PROVE  UsersRecent'
  OBVIOUS
<1> USE DEF At, Goto
<1>0. pc \in [Callers -> Labels] /\ store \in [Users -> Credentials]
  BY DEF TypeOK
<1>1. ASSUME NEW c \in Callers, NEW o \in Operations, Begin(c, o) PROVE UsersRecent'
  BY <1>1, BeginKeeps DEF UsersRecent, Labels, live
<1>2. ASSUME NEW c \in Callers, Mirror(c) PROVE UsersRecent'
  <2>1. /\ store' = [store EXCEPT ![op[c].user] = Mirrored(op[c])]
        /\ recent' = recent /\ reloaded' = reloaded
    BY <1>2 DEF Mirror
  <2>2. Passed({"chain"})' => Passed({"chain"})
    BY <1>0, <1>2, <2>1 DEF Mirror, Passed
  <2>3. \E d \in recent : d.users[op[c].user] = Mirrored(op[c])
    BY <1>2 DEF Mirror, Pending
  <2>4. ASSUME NEW u \in Users, Passed({"chain"})
        PROVE  \E d \in recent : store'[u] = d.users[u]
    <3>1. CASE u = op[c].user
      BY <1>0, <2>1, <2>3, <3>1
    <3>2. CASE u # op[c].user
      BY <1>0, <2>1, <2>4, <3>2 DEF UsersRecent
    <3> QED
      BY <3>1, <3>2
  <2> QED
    BY <2>1, <2>2, <2>4 DEF UsersRecent
<1>3. ASSUME NEW c \in Callers, SyncUsers(c) PROVE UsersRecent'
  BY <1>3 DEF SyncUsers, Recent, Holds, UsersRecent
<1>4. ASSUME NEW c \in Callers,
             Persist(c) \/ Refuse(c) \/ Reload(c) \/ FailReload(c) \/ Install(c)
             \/ UpdateBroker(c) \/ RebuildAuthChain(c) \/ Return(c)
      PROVE  UsersRecent'
  <2>1. recent \subseteq recent' /\ store' = store
    BY <1>4 DEF Persist, Refuse, Reload, FailReload, Install, UpdateBroker,
       RebuildAuthChain, Return, live
  <2>2. AfterPersist(op[c]) # "chain"
    BY DEF AfterPersist
  <2>3. Passed({"chain"})' => Passed({"chain"})
    BY <1>0, <1>4, <2>2 DEF Persist, Refuse, Reload, FailReload, Install, UpdateBroker,
       RebuildAuthChain, Return, Passed
  <2> QED
    BY <2>1, <2>3 DEF UsersRecent
<1>5. CASE (\E jwt \in {"off", "good", "bad"} : EditByHand(jwt)) \/ UNCHANGED vars
  BY <1>5 DEF EditByHand, vars, live, UsersRecent, Passed
<1> QED
  BY <1>1, <1>2, <1>3, <1>4, <1>5 DEF Next, Mutator

\* The whole store: edited by Mirror, and replaced afterwards by a call that can read
\* the file back.
LEMMA StoreStep ==
  TypeOK /\ MirrorsUser /\ Recent /\ StoreRecent /\ [Next]_vars => StoreRecent'
<1> SUFFICES ASSUME TypeOK, MirrorsUser, Recent, StoreRecent, [Next]_vars
             PROVE  StoreRecent'
  OBVIOUS
<1> USE DEF At, Goto
<1>0. pc \in [Callers -> Labels] /\ op \in [Callers -> Operations]
  BY DEF TypeOK
<1>1. ASSUME NEW c \in Callers, NEW o \in Operations, Begin(c, o) PROVE StoreRecent'
  <2>1. \A d \in Callers : pc[d] \in {"loading", "installing", "topics", "users"} =>
            pc'[d] = pc[d] /\ op'[d] = op[d]
    BY <1>0, <1>1 DEF Begin
  <2>2. Mending => Mending'
    BY <2>1 DEF Mending, Mirrors
  <2> QED
    BY <1>1, <2>2, BeginKeeps DEF StoreRecent, Labels, live
<1>2. ASSUME NEW c \in Callers, Mirror(c) PROVE StoreRecent'
  <2>1. pc'[c] = "loading" /\ op' = op /\ Mirrors(op[c])
    BY <1>0, <1>2 DEF Mirror, MirrorsUser
  <2>2. Mending'
    BY <2>1 DEF Mending, Mirrors
  <2> QED
    BY <2>2 DEF StoreRecent
<1>3. ASSUME NEW c \in Callers, SyncUsers(c) PROVE StoreRecent'
  BY <1>3 DEF SyncUsers, Recent, Holds, StoreRecent
<1>4. ASSUME NEW c \in Callers, FailReload(c) PROVE StoreRecent'
  <2>1. /\ recent' = recent /\ store' = store /\ reloaded' = reloaded /\ op' = op
        /\ pc' = [pc EXCEPT ![c] = "stale"]
        /\ ~unread' => ~unread /\ ~Mirrors(op[c])
    BY <1>4, Zenon DEF FailReload, live
  <2>2. Passed({"chain"})' => Passed({"chain"})
    BY <1>0, <2>1 DEF Passed
  <2>3. Mending /\ ~Mirrors(op[c]) => Mending'
    BY <1>0, <2>1 DEF Mending, Mirrors
  <2> QED
    BY <2>1, <2>2, <2>3 DEF StoreRecent
<1>5. ASSUME NEW c \in Callers,
             Persist(c) \/ Refuse(c) \/ Reload(c) \/ Install(c) \/ UpdateBroker(c)
             \/ RebuildAuthChain(c) \/ Return(c)
      PROVE  StoreRecent'
  <2>1. recent \subseteq recent' /\ store' = store /\ unread' = unread
    BY <1>5 DEF Persist, Refuse, Reload, Install, UpdateBroker, RebuildAuthChain,
       Return, live
  <2>2. AfterPersist(op[c]) # "chain"
    BY DEF AfterPersist
  <2>3. Passed({"chain"})' => Passed({"chain"})
    BY <1>0, <1>5, <2>2 DEF Persist, Refuse, Reload, Install, UpdateBroker,
       RebuildAuthChain, Return, Passed
  <2>4. \A d \in Callers : pc[d] \in {"loading", "installing", "topics", "users"} =>
            /\ pc'[d] \in {"loading", "installing", "topics", "users"}
            /\ op'[d] = op[d]
    BY <1>0, <1>5 DEF Persist, Refuse, Reload, Install, UpdateBroker,
       RebuildAuthChain, Return
  <2>5. Mending => Mending'
    BY <2>4 DEF Mending, Mirrors
  <2> QED
    BY <2>1, <2>3, <2>5 DEF StoreRecent
<1>6. CASE (\E jwt \in {"off", "good", "bad"} : EditByHand(jwt)) \/ UNCHANGED vars
  BY <1>6 DEF EditByHand, vars, live, StoreRecent, Passed, Mending, Mirrors
<1> QED
  BY <1>1, <1>2, <1>3, <1>4, <1>5, <1>6 DEF Next, Mutator

\* The chain: written last, or left as it was by keys that do not parse.
LEMMA ChainStep == TypeOK /\ Recent /\ ChainRecent /\ [Next]_vars => ChainRecent'
<1> SUFFICES ASSUME TypeOK, Recent, ChainRecent, [Next]_vars PROVE ChainRecent'
  OBVIOUS
<1>1. ASSUME NEW c \in Callers, NEW o \in Operations, Begin(c, o) PROVE ChainRecent'
  BY <1>1 DEF Begin, live, ChainRecent
<1>2. ASSUME NEW c \in Callers, RebuildAuthChain(c) PROVE ChainRecent'
  <2>1. fresh[c] \in recent /\ recent' = recent
    BY <1>2 DEF RebuildAuthChain, Recent, Holds, At
  <2> QED
    BY <1>2, <2>1 DEF RebuildAuthChain, ChainRecent
<1>3. ASSUME NEW c \in Callers,
             Persist(c) \/ Refuse(c) \/ Mirror(c) \/ Reload(c) \/ FailReload(c)
             \/ Install(c) \/ UpdateBroker(c) \/ SyncUsers(c) \/ Return(c)
      PROVE  ChainRecent'
  <2>1. /\ recent \subseteq recent' /\ chain' = chain
        /\ reloaded' = reloaded /\ failed' = failed
    BY <1>3 DEF Persist, Refuse, Mirror, Reload, FailReload, Install, UpdateBroker,
       SyncUsers, Return, live
  <2> QED
    BY <2>1 DEF ChainRecent
<1>4. CASE (\E jwt \in {"off", "good", "bad"} : EditByHand(jwt)) \/ UNCHANGED vars
  BY <1>4 DEF EditByHand, vars, live, ChainRecent
<1> QED
  BY <1>1, <1>2, <1>3, <1>4 DEF Next, Mutator

\* Overlapping mutators bring nothing back from before they began (reloadFromDisk),
\* read-backs that fail included: each user in the store then has credentials of the
\* time since, and the store is a content of the file if its editors read it back.
THEOREM RestNeverOlder == Spec => []RestIsRecent
<1> DEFINE Parts == CfgRecent /\ TopicsRecent /\ UsersRecent /\ StoreRecent /\ ChainRecent
<1>1. Init => Recent /\ Pending /\ Parts
  BY InitIInv DEF IInv
<1>2. TypeOK /\ MirrorsUser /\ Recent /\ Pending /\ Parts /\ [Next]_vars
         => Recent' /\ Pending' /\ Parts'
  BY RecentStep, PendingStep, CfgTopicsStep, UsersStep, StoreStep, ChainStep
<1>3. Parts => RestIsRecent
  BY DEF CfgRecent, TopicsRecent, UsersRecent, StoreRecent, ChainRecent, Passed,
     Mending, RestIsRecent, Resting, At
<1> HIDE DEF Parts
<1> QED
  BY <1>1, <1>2, <1>3, TypesAlways, PTL DEF Spec
=============================================================================
