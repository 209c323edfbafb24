-------------------------- MODULE VaultStoreProofs --------------------------
(***************************************************************************)
(* What VaultStore guarantees for any number of processes, runs and        *)
(* faults, and whatever commands they run.                                 *)
(***************************************************************************)
EXTENDS VaultStore, TLAPS

USE OpsAssumption, ForcesAssumption, BoundsAssumption, NoFileAssumption,
    TornAssumption, NoKeyAssumption

\* The names of attempts and of writers.
LEMMA MeType == ASSUME TypeOK, NEW p \in Procs PROVE Me(p) \in Attempt
BY DEF TypeOK, Me, Attempt

LEMMA MeWriter == ASSUME TypeOK, NEW p \in Procs PROVE Me(p) \in Writer
BY MeType DEF Writer

LEMMA BlankType == Blank \in Memory
BY DEF Blank, Memory, Writer

LEMMA OriginalType == ASSUME NEW h \in BOOLEAN PROVE Original(h) \in Content
BY DEF Original, Content, Writer

\* What save writes is a vault file.
LEMMA SealedType == ASSUME TypeOK, NEW p \in Procs PROVE Sealed(p) \in Content
<1> mem[p] \in Memory
  BY DEF TypeOK
<1> QED
  BY MeWriter DEF Sealed, Content, Memory

\* What decrypt returns is a vault struct.
LEMMA OpenedType == ASSUME NEW c \in Content PROVE Opened(c) \in Memory
BY DEF Opened, Content, Memory

LEMMA EditedType ==
    ASSUME TypeOK, NEW p \in Procs, NEW h \in BOOLEAN
    PROVE  Edited(p, h) \in Memory
<1> mem[p] \in Memory
  BY DEF TypeOK
<1>1. CASE op[p] \in {"set", "change"}
  <2>1. Edited(p, h) = [mem[p] EXCEPT !.edits = @ \cup {Me(p)}, !.hist = @ \/ h]
    BY <1>1 DEF Edited
  <2>2. mem[p].edits \cup {Me(p)} \in SUBSET Attempt
    BY MeType DEF Memory
  <2>3. CASE h
    <3>1. Edited(p, h) = [mem[p] EXCEPT !.edits = @ \cup {Me(p)}, !.hist = TRUE]
      BY <2>1, <2>3
    <3> QED
      BY <3>1, <2>2 DEF Memory
  <2>4. CASE ~h
    <3>1. Edited(p, h) = [mem[p] EXCEPT !.edits = @ \cup {Me(p)},
                                        !.hist = mem[p].hist]
      BY <2>1, <2>4 DEF Memory
    <3> QED
      BY <3>1, <2>2 DEF Memory
  <2> QED
    BY <2>3, <2>4
<1>2. CASE op[p] = "purge"
  BY <1>2, MeType DEF Edited, Memory
<1>3. CASE op[p] \notin {"set", "change", "purge"}
  BY <1>3, MeType, MeWriter DEF Edited, Memory
<1> QED
  BY <1>1, <1>2, <1>3

\* Edits is a set of attempts, of none when there is no vault to read.
LEMMA EditsType ==
    ASSUME NEW c \in Content \cup {NoFile, Torn}
    PROVE  /\ Edits(c) \subseteq Attempt
           /\ c \in Content => Edits(c) = c.edits
           /\ c \notin Content => Edits(c) = {}
BY DEF Edits, Content

\* Exit leaves every local variable well typed.
LEMMA ExitType ==
    ASSUME TypeOK, NEW p \in Procs, NEW how \in Outcomes, Exit(p, how)
    PROVE  /\ pc' \in [Procs -> Phases]
           /\ run' \in [Procs -> Nat]
           /\ op' \in [Procs -> AllOps \cup {"none"}]
           /\ force' \in [Procs -> BOOLEAN]
           /\ stamp' \in [Procs -> Content \cup {NoFile}]
           /\ mem' \in [Procs -> Memory]
           /\ durable' \subseteq Procs
           /\ outcome' \in [Procs -> Outcomes]
BY BlankType DEF TypeOK, Exit, Phases
-----------------------------------------------------------------------------
(* Type correctness                                                        *)

THEOREM TypeInit == Init => TypeOK
BY OriginalType, BlankType
   DEF Init, TypeOK, Phases, Outcomes, Writer, Attempt

\* A step of any process, or of its environment, keeps every variable's type.
THEOREM TypeStep == TypeOK /\ [Next]_vars => TypeOK'
<1> SUFFICES ASSUME TypeOK, [Next]_vars PROVE TypeOK'
  OBVIOUS
<1>1. ASSUME NEW p \in Procs, Start(p) PROVE TypeOK'
  <2>1. run' \in [Procs -> Nat] /\ moved' \in [Procs -> BOOLEAN]
    BY <1>1 DEF TypeOK, Start
  <2>2. op' \in [Procs -> AllOps \cup {"none"}] /\ force' \in [Procs -> BOOLEAN]
    BY <1>1 DEF TypeOK, Start
  <2>3. pc' \in [Procs -> Phases] /\ outcome' \in [Procs -> Outcomes]
    BY <1>1 DEF TypeOK, Start, Phases, Outcomes
  <2> QED
    BY <1>1, <2>1, <2>2, <2>3 DEF TypeOK, Start
<1>2. ASSUME NEW p \in Procs, StartFails(p) PROVE TypeOK'
  <2>1. run' \in [Procs -> Nat] /\ outcome' \in [Procs -> Outcomes]
    BY <1>2 DEF TypeOK, StartFails, Outcomes
  <2>2. denied' \subseteq Attempt
    BY <1>2 DEF TypeOK, StartFails, Attempt
  <2> QED
    BY <1>2, <2>1, <2>2 DEF TypeOK, StartFails
<1>3. ASSUME NEW p \in Procs, Create(p) PROVE TypeOK'
  <2>1. [Blank EXCEPT !.salt = Me(p), !.key = Me(p)] \in Memory
    BY MeWriter DEF Blank, Memory
  <2>2. mem' \in [Procs -> Memory]
    BY <1>3, <2>1 DEF TypeOK, Create
  <2> QED
    BY <1>3, <2>2 DEF TypeOK, Create, Phases
<1>4. ASSUME NEW p \in Procs, Unlock(p) PROVE TypeOK'
  <2>1. file \in Content
    BY <1>4 DEF TypeOK, Unlock, Readable
  <2>2. mem' \in [Procs -> Memory]
    BY <1>4, <2>1, OpenedType DEF TypeOK, Unlock
  <2> QED
    BY <1>4, <2>1, <2>2 DEF TypeOK, Unlock, Phases, ghosts
<1>5. ASSUME NEW p \in Procs, NEW how \in Outcomes, Fail(p, how),
             cached' \in CacheEntry \cup {NoKey}, faults' \in Nat
      PROVE  TypeOK'
  <2>1. denied' \subseteq Attempt
    BY <1>5, MeType DEF TypeOK, Fail
  <2>2. Exit(p, how)
    BY <1>5 DEF Fail
  <2> QED
    BY <1>5, <2>1, <2>2, ExitType DEF TypeOK, Fail
<1>6. ASSUME NEW p \in Procs, UnlockFails(p) \/ Refuse(p) \/ Abort(p)
      PROVE  TypeOK'
  BY <1>5, <1>6 DEF TypeOK, UnlockFails, Refuse, Abort, Fault, Outcomes
<1>7. ASSUME NEW p \in Procs, Edit(p) PROVE TypeOK'
  <2>1. mem' \in [Procs -> Memory]
    BY <1>7, EditedType DEF TypeOK, Edit
  <2>2. cached' \in CacheEntry \cup {NoKey}
    BY <1>7 DEF TypeOK, Edit
  <2> QED
    BY <1>7, <2>1, <2>2 DEF TypeOK, Edit, Phases, ghosts
<1>8. ASSUME NEW p \in Procs, NothingToDo(p) PROVE TypeOK'
  <2>1. "unchanged" \in Outcomes /\ Exit(p, "unchanged")
    BY <1>8 DEF NothingToDo, Outcomes
  <2> QED
    BY <1>8, <2>1, ExitType DEF TypeOK, NothingToDo, ghosts
<1>9. ASSUME NEW p \in Procs, Store(p) PROVE TypeOK'
  <2>1. "saved" \in Outcomes /\ Exit(p, "saved")
    BY <1>9 DEF Store, Outcomes
  <2>2. mem[p] \in Memory
    BY DEF TypeOK
  <2>3. cached' \in CacheEntry /\ remembered' \in Writer
    BY <1>9, <2>2 DEF Store, CacheEntry, Memory
  <2> QED
    BY <1>9, <2>1, <2>3, ExitType DEF TypeOK, Store
<1>10. ASSUME NEW p \in Procs, Check(p) PROVE TypeOK'
  BY <1>10 DEF TypeOK, Check, Phases
<1>11. ASSUME NEW p \in Procs, WriteTemp(p) PROVE TypeOK'
  BY <1>11 DEF TypeOK, WriteTemp, Phases, ghosts
<1>12. ASSUME NEW p \in Procs, Sync(p) PROVE TypeOK'
  BY <1>12 DEF TypeOK, Sync, Phases, ghosts
<1>13. ASSUME NEW p \in Procs, Rename(p) PROVE TypeOK'
  <2>1. "saved" \in Outcomes /\ Exit(p, "saved")
    BY <1>13 DEF Rename, Outcomes
  <2>2. file' \in Content /\ survivors' \subseteq Content \cup {NoFile, Torn}
    BY <1>13, SealedType DEF TypeOK, Rename
  <2>3. mem[p].edits \subseteq Attempt
    BY DEF TypeOK, Memory
  <2>4. Admitted(p) \subseteq Attempt
    BY EditsType DEF TypeOK, Admitted
  <2>5. landed' \subseteq Attempt /\ excused' \subseteq Attempt
    BY <1>13, <2>4, MeType DEF TypeOK, Rename
  <2>6. since' \in [Procs -> SUBSET Attempt]
    <3>1. \A q \in Procs : (IF pc[q] \in Window THEN since[q] \cup mem[p].edits
                            ELSE since[q]) \in SUBSET Attempt
      BY <2>3 DEF TypeOK
    <3> QED
      BY <1>13, <3>1 DEF Rename
  <2>7. moved' \in [Procs -> BOOLEAN]
    BY <1>13 DEF Rename
  <2> QED
    BY <1>13, <2>1, <2>2, <2>5, <2>6, <2>7, ExitType DEF TypeOK, Rename
<1>14. CASE Forget
  BY <1>14 DEF TypeOK, Forget, local
<1>15. CASE Remove
  <2>1. excused' \subseteq Attempt
    BY <1>15, EditsType DEF TypeOK, Remove
  <2>2. moved' \in [Procs -> BOOLEAN]
    BY <1>15 DEF Remove
  <2> QED
    BY <1>15, <2>1, <2>2 DEF TypeOK, Remove, Fault, local
<1>16. CASE JournalCommit
  BY <1>16 DEF TypeOK, JournalCommit, local, ghosts
<1>17. CASE PowerLoss
  <2>1. PICK c \in survivors : file' = c /\ survivors' = {c}
                               /\ excused' = (excused \cup landed) \ Edits(c)
    BY <1>17 DEF PowerLoss
  <2>2. denied' \subseteq Attempt
    BY <1>17, MeType DEF TypeOK, PowerLoss
  <2>3. outcome' \in [Procs -> Outcomes] /\ pc' \in [Procs -> Phases]
    BY <1>17 DEF TypeOK, PowerLoss, Outcomes, Phases
  <2>4. /\ op' \in [Procs -> AllOps \cup {"none"}]
        /\ force' \in [Procs -> BOOLEAN]
        /\ stamp' \in [Procs -> Content \cup {NoFile}]
        /\ mem' \in [Procs -> Memory]
    BY <1>17, BlankType DEF PowerLoss
  <2> QED
    BY <1>17, <2>1, <2>2, <2>3, <2>4 DEF TypeOK, PowerLoss, Fault
<1>18. CASE UNCHANGED vars
  BY <1>18 DEF TypeOK, vars, local, ghosts
<1> QED
  BY <1>1, <1>2, <1>3, <1>4, <1>6, <1>7, <1>8, <1>9, <1>10, <1>11, <1>12,
     <1>13, <1>14, <1>15, <1>16, <1>17, <1>18 DEF Next, Step

\* Every variable keeps the shape of its Go counterpart, whatever commands
\* race, fail and are run again.
THEOREM TypeCorrect == Spec => []TypeOK
BY TypeInit, TypeStep, PTL DEF Spec
-----------------------------------------------------------------------------
(* Whole files                                                             *)

\* No torn file is at the path or can come back to it, because a process
\* about to rename has its data on the disk.
Whole ==
    /\ Intact
    /\ \A p \in Procs : pc[p] = "synced" => p \in durable

LEMMA WholeStep == TypeOK /\ Whole /\ [Next]_vars => Whole'
<1> SUFFICES ASSUME TypeOK, Whole, [Next]_vars PROVE Whole'
  OBVIOUS
<1> USE DEF Whole, Intact
<1>1. ASSUME NEW p \in Procs, Start(p) \/ StartFails(p) PROVE Whole'
  BY <1>1 DEF TypeOK, Start, StartFails
<1>2. ASSUME NEW p \in Procs, Create(p) \/ Unlock(p) \/ Edit(p)
      PROVE  Whole'
  BY <1>2 DEF TypeOK, Create, Unlock, Edit
<1>3. ASSUME NEW p \in Procs, NEW how \in Outcomes, Exit(p, how),
             UNCHANGED <<file, survivors>>
      PROVE  Whole'
  BY <1>3 DEF TypeOK, Exit
<1>4. ASSUME NEW p \in Procs, UnlockFails(p) \/ Refuse(p) \/ Abort(p)
      PROVE  Whole'
  BY <1>3, <1>4 DEF UnlockFails, Refuse, Abort, Fail, Outcomes
<1>5. ASSUME NEW p \in Procs, NothingToDo(p) \/ Store(p) PROVE Whole'
  BY <1>3, <1>5 DEF NothingToDo, Store, Outcomes
<1>6. ASSUME NEW p \in Procs, Check(p) \/ WriteTemp(p) \/ Sync(p)
      PROVE  Whole'
  BY <1>6 DEF TypeOK, Check, WriteTemp, Sync
<1>7. ASSUME NEW p \in Procs, Rename(p) PROVE Whole'
  <2>1. Torn # Sealed(p)
    BY SealedType
  <2>2. p \in durable
    BY <1>7 DEF Rename
  <2>3. Torn \notin {file'} \cup survivors'
    BY <1>7, <2>1, <2>2 DEF Rename
  <2>4. \A q \in Procs : pc'[q] = "synced" => q \in durable'
    BY <1>7 DEF TypeOK, Rename, Exit
  <2> QED
    BY <2>3, <2>4
<1>8. CASE Forget \/ JournalCommit \/ UNCHANGED vars
  BY <1>8 DEF Forget, JournalCommit, vars, local
<1>9. CASE Remove
  BY <1>9 DEF Remove, local
<1>10. CASE PowerLoss
  BY <1>10 DEF PowerLoss
<1> QED
  BY <1>1, <1>2, <1>4, <1>5, <1>6, <1>7, <1>8, <1>9, <1>10 DEF Next, Step

\* No interleaving of saves, kills and power losses leaves a vault whose
\* data never reached the disk.
THEOREM AlwaysIntact == Spec => []Intact
<1>1. Init => Whole
  BY DEF Init, Whole, Intact, Original, Content, Writer
<1>2. Whole => Intact
  BY DEF Whole
<1> QED
  BY <1>1, <1>2, TypeCorrect, WholeStep, PTL DEF Spec
-----------------------------------------------------------------------------
(* Keys and salts                                                          *)

\* Header and body agree in every file, and in the vault each process holds.
KeysMatch ==
    /\ \A c \in {file} \cup survivors : c \in Content => c.key = c.salt
    /\ \A p \in Procs : mem[p].key = mem[p].salt

LEMMA EditedKey ==
    ASSUME TypeOK, NEW p \in Procs, NEW h \in BOOLEAN,
           mem[p].key = mem[p].salt
    PROVE  Edited(p, h).key = Edited(p, h).salt
<1> mem[p] \in Memory
  BY DEF TypeOK
<1>1. CASE op[p] \in {"set", "change"}
  BY <1>1 DEF Edited, Memory
<1>2. CASE op[p] = "purge"
  BY <1>2 DEF Edited, Memory
<1>3. CASE op[p] \notin {"set", "change", "purge"}
  BY <1>3 DEF Edited, Memory
<1> QED
  BY <1>1, <1>2, <1>3

LEMMA KeysStep == TypeOK /\ KeysMatch /\ [Next]_vars => KeysMatch'
<1> SUFFICES ASSUME TypeOK, KeysMatch, [Next]_vars PROVE KeysMatch'
  OBVIOUS
<1> USE DEF KeysMatch
<1>1. ASSUME NEW p \in Procs,
             \/ Start(p) \/ StartFails(p) \/ Check(p)
             \/ WriteTemp(p) \/ Sync(p)
      PROVE  KeysMatch'
  BY <1>1 DEF Start, StartFails, Check, WriteTemp, Sync
<1>2. ASSUME NEW p \in Procs, NEW m \in Memory, m.key = m.salt,
             mem' = [mem EXCEPT ![p] = m], UNCHANGED <<file, survivors>>
      PROVE  KeysMatch'
  BY <1>2 DEF TypeOK
<1>3. ASSUME NEW p \in Procs, Create(p) PROVE KeysMatch'
  <2> DEFINE m == [Blank EXCEPT !.salt = Me(p), !.key = Me(p)]
  <2>1. m \in Memory /\ m.key = m.salt
    BY MeWriter DEF Blank, Memory
  <2> QED
    BY <1>2, <1>3, <2>1 DEF Create
<1>4. ASSUME NEW p \in Procs, Unlock(p) PROVE KeysMatch'
  <2>1. file \in Content
    BY <1>4 DEF TypeOK, Unlock, Readable
  <2>2. Opened(file) \in Memory /\ Opened(file).key = Opened(file).salt
    BY <2>1, OpenedType DEF Opened
  <2> QED
    BY <1>2, <1>4, <2>2 DEF Unlock
<1>5. ASSUME NEW p \in Procs, Edit(p) PROVE KeysMatch'
  <2>1. PICK h \in BOOLEAN : mem' = [mem EXCEPT ![p] = Edited(p, h)]
    BY <1>5 DEF Edit
  <2>2. Edited(p, h) \in Memory /\ Edited(p, h).key = Edited(p, h).salt
    BY EditedType, EditedKey
  <2> QED
    BY <1>2, <1>5, <2>1, <2>2 DEF Edit
<1>6. Blank.key = Blank.salt
  BY DEF Blank
<1>7. ASSUME NEW p \in Procs, NEW how, Exit(p, how), UNCHANGED <<file, survivors>>
      PROVE  KeysMatch'
  BY <1>2, <1>6, <1>7, BlankType DEF Exit
<1>8. ASSUME NEW p \in Procs,
             \/ UnlockFails(p) \/ Refuse(p) \/ Abort(p)
             \/ NothingToDo(p) \/ Store(p)
      PROVE  KeysMatch'
  BY <1>7, <1>8 DEF UnlockFails, Refuse, Abort, NothingToDo, Store, Fail
<1>9. ASSUME NEW p \in Procs, Rename(p) PROVE KeysMatch'
  <2>1. Sealed(p).key = Sealed(p).salt
    BY DEF Sealed
  <2>2. \A c \in {file'} \cup survivors' : c \in Content => c.key = c.salt
    BY <1>9, <2>1 DEF Rename
  <2>3. \A q \in Procs : mem'[q].key = mem'[q].salt
    BY <1>6, <1>9 DEF TypeOK, Rename, Exit
  <2> QED
    BY <2>2, <2>3
<1>10. CASE Forget \/ JournalCommit \/ UNCHANGED vars
  BY <1>10 DEF Forget, JournalCommit, vars, local
<1>11. CASE Remove
  BY <1>11, NoFileAssumption DEF Remove, local
<1>12. CASE PowerLoss
  BY <1>6, <1>12 DEF PowerLoss
<1> QED
  BY <1>1, <1>3, <1>4, <1>5, <1>8, <1>9, <1>10, <1>11, <1>12 DEF Next, Step

\* Whatever races, every file that is or may come to be at the path is whole
\* and sealed with the key its own header's salt gives.
THEOREM AlwaysOpenable == Spec => []Openable
<1>1. Init => KeysMatch
  BY DEF Init, KeysMatch, Original, Blank
<1>2. TypeOK /\ Intact /\ KeysMatch => Openable
  BY DEF TypeOK, KeysMatch, Openable
<1> QED
  BY <1>1, <1>2, TypeCorrect, AlwaysIntact, KeysStep, PTL DEF Spec
-----------------------------------------------------------------------------
(* Edits of attempts that failed                                           *)

\* Only attempts that ended have a verdict.
Ended ==
    /\ landed \cap denied = {}
    /\ \A p \in Procs, n \in Nat :
          <<p, n>> \in landed \cup denied =>
              n <= run[p] /\ (n = run[p] => pc[p] = "idle")

\* A file holds landed edits only; a process adds at most its own, and holds
\* nothing between runs.
OnlyLanded ==
    /\ \A c \in {file} \cup survivors : Edits(c) \subseteq landed
    /\ \A p \in Procs : mem[p].edits \subseteq landed \cup {Me(p)}
    /\ \A p \in Procs : pc[p] = "idle" => mem[p] = Blank

LEMMA EditedEdits ==
    ASSUME TypeOK, NEW p \in Procs, NEW h \in BOOLEAN
    PROVE  Edited(p, h).edits = mem[p].edits \cup {Me(p)}
<1> mem[p] \in Memory
  BY DEF TypeOK
<1>1. CASE op[p] \in {"set", "change"}
  BY <1>1 DEF Edited, Memory
<1>2. CASE op[p] = "purge"
  BY <1>2 DEF Edited, Memory
<1>3. CASE op[p] \notin {"set", "change", "purge"}
  BY <1>3 DEF Edited, Memory
<1> QED
  BY <1>1, <1>2, <1>3

LEMMA EndedStep == TypeOK /\ Ended /\ [Next]_vars => Ended'
<1> SUFFICES ASSUME TypeOK, Ended, [Next]_vars PROVE Ended'
  OBVIOUS
<1> USE DEF Ended
<1>1. ASSUME NEW p \in Procs, Start(p) PROVE Ended'
  <2>1. run'[p] = run[p] + 1 /\ \A q \in Procs \ {p} : run'[q] = run[q]
    BY <1>1 DEF TypeOK, Start
  <2>2. \A q \in Procs \ {p} : pc'[q] = pc[q]
    BY <1>1 DEF TypeOK, Start
  <2> QED
    BY <1>1, <2>1, <2>2 DEF TypeOK, Start
<1>2. ASSUME NEW p \in Procs, StartFails(p) PROVE Ended'
  <2>1. run'[p] = run[p] + 1 /\ \A q \in Procs \ {p} : run'[q] = run[q]
    BY <1>2 DEF TypeOK, StartFails
  <2>2. <<p, run[p] + 1>> \notin landed
    BY DEF TypeOK
  <2> QED
    BY <1>2, <2>1, <2>2 DEF TypeOK, StartFails
<1>3. ASSUME NEW p \in Procs,
             \/ Create(p) \/ Unlock(p) \/ Edit(p)
             \/ Check(p) \/ WriteTemp(p) \/ Sync(p)
      PROVE  Ended'
  <2>1. UNCHANGED <<landed, denied, run>>
    BY <1>3 DEF Create, Unlock, Edit, Check, WriteTemp, Sync, ghosts
  <2>2. pc[p] # "idle" /\ \A q \in Procs \ {p} : pc'[q] = pc[q]
    BY <1>3 DEF TypeOK, Create, Unlock, Edit, Check, WriteTemp, Sync
  <2> QED
    BY <2>1, <2>2
<1>4. ASSUME NEW p \in Procs, NEW how, Exit(p, how), pc[p] # "idle",
             \/ UNCHANGED <<landed, denied>>
             \/ UNCHANGED landed /\ denied' = denied \cup {Me(p)}
             \/ UNCHANGED denied /\ landed' = landed \cup {Me(p)}
      PROVE  Ended'
  <2>1. UNCHANGED run /\ pc'[p] = "idle" /\ \A q \in Procs \ {p} : pc'[q] = pc[q]
    BY <1>4 DEF TypeOK, Exit
  <2>2. Me(p) \notin landed \cup denied
    BY <1>4 DEF TypeOK, Me
  <2> QED
    BY <1>4, <2>1, <2>2 DEF TypeOK, Me
<1>5. ASSUME NEW p \in Procs, UnlockFails(p) \/ Refuse(p) \/ Abort(p)
      PROVE  Ended'
  BY <1>4, <1>5 DEF UnlockFails, Refuse, Abort, Fail
<1>6. ASSUME NEW p \in Procs, NothingToDo(p) \/ Store(p) \/ Rename(p)
      PROVE  Ended'
  BY <1>4, <1>6 DEF NothingToDo, Store, Rename, ghosts
<1>7. CASE Forget \/ Remove \/ JournalCommit \/ UNCHANGED vars
  BY <1>7 DEF Forget, Remove, JournalCommit, vars, local, ghosts
<1>8. CASE PowerLoss
  <2> DEFINE new == {Me(p) : p \in {q \in Procs : pc[q] # "idle"}}
  <2>1. UNCHANGED <<run, landed>> /\ denied' = denied \cup new
    BY <1>8 DEF PowerLoss
  <2>2. \A p \in Procs, n \in Nat :
           <<p, n>> \in new => n = run[p] /\ pc[p] # "idle"
    BY DEF Me
  <2>3. landed \cap new = {}
    BY DEF TypeOK, Me
  <2>4. \A p \in Procs : pc'[p] = "idle"
    BY <1>8 DEF PowerLoss
  <2> QED
    BY <2>1, <2>2, <2>3, <2>4 DEF TypeOK
<1> QED
  BY <1>1, <1>2, <1>3, <1>5, <1>6, <1>7, <1>8 DEF Next, Step

LEMMA OnlyLandedStep == TypeOK /\ OnlyLanded /\ [Next]_vars => OnlyLanded'
<1> SUFFICES ASSUME TypeOK, OnlyLanded, [Next]_vars PROVE OnlyLanded'
  OBVIOUS
<1> USE DEF OnlyLanded
<1>0. Blank.edits = {}
  BY DEF Blank
<1>1. ASSUME NEW p \in Procs, Start(p) PROVE OnlyLanded'
  <2>1. \A q \in Procs \ {p} : Me(q)' = Me(q) /\ pc'[q] = pc[q]
    BY <1>1 DEF TypeOK, Start, Me
  <2>2. mem[p].edits = {} /\ pc'[p] # "idle"
    BY <1>0, <1>1 DEF TypeOK, Start
  <2> QED
    BY <1>1, <2>1, <2>2 DEF Start
<1>2. ASSUME NEW p \in Procs, StartFails(p) PROVE OnlyLanded'
  <2>1. \A q \in Procs \ {p} : Me(q)' = Me(q)
    BY <1>2 DEF TypeOK, StartFails, Me
  <2>2. mem[p].edits = {}
    BY <1>0, <1>2 DEF StartFails
  <2> QED
    BY <1>2, <2>1, <2>2 DEF StartFails
<1>3. ASSUME NEW p \in Procs, pc'[p] # "idle",
             \A q \in Procs \ {p} : mem'[q] = mem[q] /\ pc'[q] = pc[q],
             mem'[p].edits \subseteq landed \cup {Me(p)},
             UNCHANGED <<file, survivors, landed, run>>
      PROVE  OnlyLanded'
  BY <1>3 DEF Me
<1>4. ASSUME NEW p \in Procs, Create(p) PROVE OnlyLanded'
  <2>1. [Blank EXCEPT !.salt = Me(p), !.key = Me(p)].edits = {}
    BY DEF Blank
  <2> QED
    BY <1>3, <1>4, <2>1 DEF TypeOK, Create
<1>5. ASSUME NEW p \in Procs, Unlock(p) PROVE OnlyLanded'
  <2>1. Opened(file).edits = Edits(file)
    BY <1>5, EditsType DEF TypeOK, Unlock, Readable, Opened
  <2> QED
    BY <1>3, <1>5, <2>1 DEF TypeOK, Unlock, ghosts
<1>6. ASSUME NEW p \in Procs, Edit(p) PROVE OnlyLanded'
  <2>1. PICK h \in BOOLEAN : mem' = [mem EXCEPT ![p] = Edited(p, h)]
    BY <1>6 DEF Edit
  <2>2. mem'[p].edits = mem[p].edits \cup {Me(p)}
    BY <2>1, EditedEdits DEF TypeOK
  <2> QED
    BY <1>3, <1>6, <2>1, <2>2 DEF TypeOK, Edit, ghosts
<1>7. ASSUME NEW p \in Procs, Check(p) \/ WriteTemp(p) \/ Sync(p)
      PROVE  OnlyLanded'
  BY <1>3, <1>7 DEF TypeOK, Check, WriteTemp, Sync, ghosts
<1>8. ASSUME NEW p \in Procs, NEW how, Exit(p, how),
             UNCHANGED <<file, survivors, landed>>
      PROVE  OnlyLanded'
  BY <1>0, <1>8 DEF TypeOK, Exit, Me
<1>9. ASSUME NEW p \in Procs,
             \/ UnlockFails(p) \/ Refuse(p) \/ Abort(p)
             \/ NothingToDo(p) \/ Store(p)
      PROVE  OnlyLanded'
  BY <1>8, <1>9
     DEF UnlockFails, Refuse, Abort, NothingToDo, Store, Fail, ghosts
<1>10. ASSUME NEW p \in Procs, Rename(p) PROVE OnlyLanded'
  <2>1. Edits(Sealed(p)) = mem[p].edits
    BY SealedType, EditsType DEF Sealed
  <2>2. Edits(Torn) = {}
    BY DEF Edits
  <2>3. \A c \in {file'} \cup survivors' : Edits(c) \subseteq landed'
    BY <1>10, <2>1, <2>2 DEF Rename
  <2>4. \A q \in Procs : mem'[q].edits \subseteq landed' \cup {Me(q)'}
    BY <1>0, <1>10 DEF TypeOK, Rename, Exit, Me
  <2>5. \A q \in Procs : pc'[q] = "idle" => mem'[q] = Blank
    BY <1>10 DEF TypeOK, Rename, Exit
  <2> QED
    BY <2>3, <2>4, <2>5
<1>11. CASE Forget \/ JournalCommit \/ UNCHANGED vars
  BY <1>11 DEF Forget, JournalCommit, vars, local, ghosts, Me
<1>12. CASE Remove
  <2>1. Edits(NoFile) = {}
    BY DEF Edits
  <2> QED
    BY <1>12, <2>1 DEF Remove, local, Me
<1>13. CASE PowerLoss
  BY <1>0, <1>13 DEF PowerLoss
<1> QED
  BY <1>1, <1>2, <1>4, <1>5, <1>6, <1>7, <1>9, <1>10, <1>11, <1>12, <1>13
     DEF Next, Step

\* "Nothing written": what a refused or failed attempt changed is in no file,
\* not even through what a later command read and wrote back.
THEOREM NeverFailedAndWritten == Spec => []FailedNotWritten
<1>1. Init => Ended /\ OnlyLanded
  BY DEF Init, Ended, OnlyLanded, Original, Blank, Edits
<1>2. Ended /\ OnlyLanded => FailedNotWritten
  BY DEF Ended, OnlyLanded, FailedNotWritten
<1> QED
  BY <1>1, <1>2, TypeCorrect, EndedStep, OnlyLandedStep, PTL DEF Spec
-----------------------------------------------------------------------------
(* Lost updates                                                            *)

\* The vault in memory has every edit of the file it was opened from; the
\* file is still that one, or the process was overtaken.
Tracked ==
    \A p \in Procs : pc[p] \in Holding =>
        /\ Edits(stamp[p]) \subseteq mem[p].edits
        /\ moved[p] \/ file = stamp[p]

\* Between the check and the rename, the file has no edit that this process
\* would drop except those that landed in that window.
WindowCovers ==
    \A p \in Procs : pc[p] \in Window /\ ~force[p] =>
        Edits(file) \subseteq mem[p].edits \cup since[p]

USE DEF Window, Holding

LEMMA TrackedStep == TypeOK /\ Whole /\ Tracked /\ [Next]_vars => Tracked'
<1> SUFFICES ASSUME TypeOK, Whole, Tracked, [Next]_vars PROVE Tracked'
  OBVIOUS
<1> USE DEF Tracked
<1>1. ASSUME NEW p \in Procs, Start(p) \/ StartFails(p) PROVE Tracked'
  BY <1>1 DEF TypeOK, Start, StartFails
<1>2. ASSUME NEW p \in Procs, Create(p) PROVE Tracked'
  BY <1>2, EditsType DEF TypeOK, Create, Edits
<1>3. ASSUME NEW p \in Procs, Unlock(p) PROVE Tracked'
  <2>1. Opened(file).edits = Edits(file)
    BY <1>3, EditsType DEF TypeOK, Unlock, Readable, Opened
  <2>2. mem'[p].edits = Edits(file) /\ stamp'[p] = file
    BY <1>3, <2>1 DEF TypeOK, Unlock
  <2> QED
    BY <1>3, <2>2 DEF TypeOK, Unlock, ghosts
<1>4. ASSUME NEW p \in Procs, Edit(p) PROVE Tracked'
  <2>1. PICK h \in BOOLEAN : mem' = [mem EXCEPT ![p] = Edited(p, h)]
    BY <1>4 DEF Edit
  <2>2. mem[p].edits \subseteq mem'[p].edits
    BY <2>1, EditedEdits DEF TypeOK
  <2> QED
    BY <1>4, <2>1, <2>2 DEF TypeOK, Edit, ghosts
<1>5. ASSUME NEW p \in Procs, Check(p) \/ WriteTemp(p) \/ Sync(p)
      PROVE  Tracked'
  BY <1>5 DEF TypeOK, Check, WriteTemp, Sync, ghosts
<1>6. ASSUME NEW p \in Procs, NEW how, Exit(p, how), UNCHANGED <<file, moved>>
      PROVE  Tracked'
  BY <1>6 DEF TypeOK, Exit
<1>7. ASSUME NEW p \in Procs,
             \/ UnlockFails(p) \/ Refuse(p) \/ Abort(p)
             \/ NothingToDo(p) \/ Store(p)
      PROVE  Tracked'
  BY <1>6, <1>7
     DEF UnlockFails, Refuse, Abort, NothingToDo, Store, Fail, ghosts
<1>8. ASSUME NEW p \in Procs, Rename(p) PROVE Tracked'
  <2>1. \A q \in Procs \ {p} : /\ pc'[q] = pc[q] /\ stamp'[q] = stamp[q]
                               /\ mem'[q] = mem[q]
                               /\ pc[q] \in Holding => moved'[q]
    BY <1>8 DEF TypeOK, Rename, Exit
  <2>2. pc'[p] = "idle"
    BY <1>8 DEF TypeOK, Rename, Exit
  <2> QED
    BY <2>1, <2>2
<1>9. CASE Forget \/ JournalCommit \/ UNCHANGED vars
  BY <1>9 DEF Forget, JournalCommit, vars, local, ghosts
<1>10. CASE Remove
  BY <1>10 DEF Remove, local
<1>11. CASE PowerLoss
  BY <1>11 DEF PowerLoss
<1> QED
  BY <1>1, <1>2, <1>3, <1>4, <1>5, <1>7, <1>8, <1>9, <1>10, <1>11 DEF Next, Step

LEMMA WindowStep ==
    TypeOK /\ Tracked /\ WindowCovers /\ [Next]_vars => WindowCovers'
<1> SUFFICES ASSUME TypeOK, Tracked, WindowCovers, [Next]_vars
             PROVE  WindowCovers'
  OBVIOUS
<1> USE DEF WindowCovers
<1>1. ASSUME NEW p \in Procs, Start(p) \/ StartFails(p) \/ Create(p)
      PROVE  WindowCovers'
  BY <1>1 DEF TypeOK, Start, StartFails, Create
<1>2. ASSUME NEW p \in Procs, Unlock(p) \/ Edit(p) PROVE WindowCovers'
  BY <1>2 DEF TypeOK, Unlock, Edit, ghosts
<1>3. ASSUME NEW p \in Procs, Check(p) PROVE WindowCovers'
  <2>1. ~force[p] => Edits(file) \subseteq mem[p].edits
    BY <1>3 DEF Check, Unchanged, Tracked
  <2> QED
    BY <1>3, <2>1 DEF TypeOK, Check
<1>4. ASSUME NEW p \in Procs, WriteTemp(p) \/ Sync(p) PROVE WindowCovers'
  BY <1>4 DEF TypeOK, WriteTemp, Sync, ghosts
<1>5. ASSUME NEW p \in Procs, NEW how, Exit(p, how), UNCHANGED <<file, since>>
      PROVE  WindowCovers'
  BY <1>5 DEF TypeOK, Exit
<1>6. ASSUME NEW p \in Procs,
             \/ UnlockFails(p) \/ Refuse(p) \/ Abort(p)
             \/ NothingToDo(p) \/ Store(p)
      PROVE  WindowCovers'
  BY <1>5, <1>6
     DEF UnlockFails, Refuse, Abort, NothingToDo, Store, Fail, ghosts
<1>7. ASSUME NEW p \in Procs, Rename(p) PROVE WindowCovers'
  <2>1. Edits(file') = mem[p].edits
    BY <1>7, SealedType, EditsType DEF Rename, Sealed
  <2>2. \A q \in Procs : pc[q] \in Window => mem[p].edits \subseteq since'[q]
    BY <1>7 DEF Rename
  <2>3. \A q \in Procs : pc'[q] \in Window => pc[q] \in Window
    BY <1>7 DEF TypeOK, Rename, Exit
  <2> QED
    BY <2>1, <2>2, <2>3
<1>8. CASE Forget \/ JournalCommit \/ UNCHANGED vars
  BY <1>8 DEF Forget, JournalCommit, vars, local, ghosts
<1>9. CASE Remove
  <2>1. Edits(file') = {}
    BY <1>9 DEF Remove, Edits
  <2> QED
    BY <1>9, <2>1 DEF Remove, local
<1>10. CASE PowerLoss
  BY <1>10 DEF PowerLoss
<1> QED
  BY <1>1, <1>2, <1>3, <1>4, <1>6, <1>7, <1>8, <1>9, <1>10 DEF Next, Step

\* The one step that replaces the vault: what it drops is excused, and it
\* lands with its own edit.
LEMMA RenameKeeps ==
    ASSUME TypeOK, WindowCovers, NoLostUpdate, NEW p \in Procs, Rename(p),
           Me(p) \in mem[p].edits
    PROVE  NoLostUpdate'
<1>1. Edits(file') = mem[p].edits
  BY SealedType, EditsType DEF Rename, Sealed
<1>2. Edits(file) \ mem[p].edits \subseteq Admitted(p)
  BY DEF Rename, WindowCovers, Admitted
<1> QED
  BY <1>1, <1>2 DEF Rename, NoLostUpdate

\* The edit of the running command is in memory once made.
Marked ==
    \A p \in Procs : pc[p] \in {"edited"} \cup Window => Me(p) \in mem[p].edits

LEMMA MarkedStep == TypeOK /\ Marked /\ [Next]_vars => Marked'
<1> SUFFICES ASSUME TypeOK, Marked, [Next]_vars PROVE Marked'
  OBVIOUS
<1> USE DEF Marked
<1>1. ASSUME NEW p \in Procs, Start(p) \/ StartFails(p) PROVE Marked'
  BY <1>1 DEF TypeOK, Start, StartFails, Me
<1>2. ASSUME NEW p \in Procs, Create(p) \/ Unlock(p) PROVE Marked'
  BY <1>2 DEF TypeOK, Create, Unlock, Me
<1>3. ASSUME NEW p \in Procs, Edit(p) PROVE Marked'
  <2>1. PICK h \in BOOLEAN : mem' = [mem EXCEPT ![p] = Edited(p, h)]
    BY <1>3 DEF Edit
  <2>2. Me(p) \in mem'[p].edits
    BY <2>1, EditedEdits DEF TypeOK
  <2> QED
    BY <1>3, <2>1, <2>2 DEF TypeOK, Edit, Me
<1>4. ASSUME NEW p \in Procs, Check(p) \/ WriteTemp(p) \/ Sync(p)
      PROVE  Marked'
  BY <1>4 DEF TypeOK, Check, WriteTemp, Sync, Me
<1>5. ASSUME NEW p \in Procs, NEW how, Exit(p, how) PROVE Marked'
  BY <1>5 DEF TypeOK, Exit, Me
<1>6. ASSUME NEW p \in Procs,
             \/ UnlockFails(p) \/ Refuse(p) \/ Abort(p)
             \/ NothingToDo(p) \/ Store(p) \/ Rename(p)
      PROVE  Marked'
  BY <1>5, <1>6
     DEF UnlockFails, Refuse, Abort, NothingToDo, Store, Rename, Fail
<1>7. CASE Forget \/ Remove \/ JournalCommit \/ UNCHANGED vars
  BY <1>7 DEF Forget, Remove, JournalCommit, vars, local, Me
<1>8. CASE PowerLoss
  BY <1>8 DEF PowerLoss
<1> QED
  BY <1>1, <1>2, <1>3, <1>4, <1>6, <1>7, <1>8 DEF Next, Step

LEMMA NoLossStep ==
    TypeOK /\ WindowCovers /\ Marked /\ NoLostUpdate /\ [Next]_vars
        => NoLostUpdate'
<1> SUFFICES ASSUME TypeOK, WindowCovers, Marked, NoLostUpdate, [Next]_vars
             PROVE  NoLostUpdate'
  OBVIOUS
<1>1. ASSUME NEW p \in Procs, Rename(p) PROVE NoLostUpdate'
  BY <1>1, RenameKeeps DEF Rename, Marked
<1>2. CASE UNCHANGED <<file, landed, excused>>
  BY <1>2 DEF NoLostUpdate
<1>3. ASSUME NEW p \in Procs, Step(p), ~Rename(p)
      PROVE  UNCHANGED <<file, landed, excused>>
  BY <1>3 DEF Step, Create, Unlock, UnlockFails, Edit, NothingToDo, Store,
              Check, Refuse, WriteTemp, Sync, Fail, ghosts
<1>4. ASSUME NEW p \in Procs, Start(p) \/ StartFails(p) \/ Abort(p)
      PROVE  UNCHANGED <<file, landed, excused>>
  BY <1>4 DEF Start, StartFails, Abort, Fail
<1>5. CASE Forget \/ JournalCommit \/ UNCHANGED vars
  BY <1>2, <1>5 DEF Forget, JournalCommit, vars, ghosts
<1>6. CASE Remove
  BY <1>6 DEF Remove, NoLostUpdate
<1>7. CASE PowerLoss
  BY <1>7 DEF PowerLoss, NoLostUpdate
<1> QED
  BY <1>1, <1>2, <1>3, <1>4, <1>5, <1>6, <1>7 DEF Next

\* No edit that was reported saved is dropped, except by a forced save, a
\* save that landed inside another's check-to-rename window, an rm or a power
\* loss: what checkUnchanged is for, for any number of processes.
THEOREM NeverLost == Spec => []NoLostUpdate
<1>1. Init => Tracked /\ WindowCovers /\ Marked /\ NoLostUpdate
  BY DEF Init, Tracked, WindowCovers, Marked, NoLostUpdate
<1>2. Init => Whole
  BY DEF Init, Whole, Intact, Original, Content, Writer
<1> QED
  BY <1>1, <1>2, TypeCorrect, WholeStep, TrackedStep, WindowStep, MarkedStep,
     NoLossStep, PTL DEF Spec
-----------------------------------------------------------------------------
(* Refusals                                                                *)

LEMMA RefusalStep ==
    TypeOK /\ Tracked /\ RefusalIsReal /\ [Next]_vars => RefusalIsReal'
<1> SUFFICES ASSUME TypeOK, Tracked, RefusalIsReal, [Next]_vars
             PROVE  RefusalIsReal'
  OBVIOUS
<1> USE DEF RefusalIsReal
<1>1. ASSUME NEW p \in Procs, Start(p) \/ StartFails(p) PROVE RefusalIsReal'
  BY <1>1 DEF TypeOK, Start, StartFails
<1>2. ASSUME NEW p \in Procs, Refuse(p) PROVE RefusalIsReal'
  <2>1. moved[p]
    BY <1>2 DEF Refuse, Unchanged, Tracked
  <2> QED
    BY <1>2, <2>1 DEF TypeOK, Refuse, Fail, Exit
<1>3. ASSUME NEW p \in Procs, NEW how, Exit(p, how), how # "refused",
             \A q \in Procs \ {p} : moved[q] => moved'[q]
      PROVE  RefusalIsReal'
  BY <1>3 DEF TypeOK, Exit
<1>4. ASSUME NEW p \in Procs,
             UnlockFails(p) \/ Abort(p) \/ NothingToDo(p) \/ Store(p)
      PROVE  RefusalIsReal'
  BY <1>3, <1>4 DEF UnlockFails, Abort, NothingToDo, Store, Fail, ghosts
<1>5. ASSUME NEW p \in Procs, Rename(p) PROVE RefusalIsReal'
  BY <1>3, <1>5 DEF TypeOK, Rename
<1>6. ASSUME NEW p \in Procs,
             \/ Create(p) \/ Unlock(p) \/ Edit(p)
             \/ Check(p) \/ WriteTemp(p) \/ Sync(p)
      PROVE  RefusalIsReal'
  <2>1. outcome' = outcome
    BY <1>6 DEF Create, Unlock, Edit, Check, WriteTemp, Sync
  <2>2. CASE Create(p)
    BY <2>1, <2>2 DEF TypeOK, Create
  <2>3. CASE ~Create(p)
    BY <1>6, <2>1, <2>3 DEF Unlock, Edit, Check, WriteTemp, Sync, ghosts
  <2> QED
    BY <2>2, <2>3
<1>7. CASE Forget \/ Remove \/ JournalCommit \/ UNCHANGED vars
  BY <1>7 DEF TypeOK, Forget, Remove, JournalCommit, vars, local, ghosts
<1>8. CASE PowerLoss
  BY <1>8 DEF PowerLoss
<1> QED
  BY <1>1, <1>2, <1>4, <1>5, <1>6, <1>7, <1>8 DEF Next, Step

\* A refused command was refused because the file changed after it was
\* opened, never because of the process's own bookkeeping.
THEOREM RefusalsAreReal == Spec => []RefusalIsReal
<1>1. Init => Tracked /\ RefusalIsReal
  BY DEF Init, Tracked, RefusalIsReal
<1>2. Init => Whole
  BY DEF Init, Whole, Intact, Original, Content, Writer
<1> QED
  BY <1>1, <1>2, TypeCorrect, WholeStep, TrackedStep, RefusalStep, PTL DEF Spec
-----------------------------------------------------------------------------
(* Revisions                                                               *)

\* The revision in memory is that of the file opened, whatever was edited.
RevKept ==
    \A p \in Procs :
        pc[p] \in Holding /\ stamp[p] # NoFile => mem[p].rev = stamp[p].rev

\* Between the check and the rename of a save that is not forced, while nothing
\* lands, the file is the one opened unless it was removed.
WindowStill ==
    \A p \in Procs : pc[p] \in Window /\ ~force[p] /\ since[p] = {} =>
        file \in {stamp[p], NoFile}

\* An edit leaves the revision to save.
LEMMA EditedRev ==
    ASSUME TypeOK, NEW p \in Procs, NEW h \in BOOLEAN
    PROVE  Edited(p, h).rev = mem[p].rev
<1> mem[p] \in Memory
  BY DEF TypeOK
<1>1. CASE op[p] \in {"set", "change"}
  BY <1>1 DEF Edited, Memory
<1>2. CASE op[p] = "purge"
  BY <1>2 DEF Edited, Memory
<1>3. CASE op[p] \notin {"set", "change", "purge"}
  BY <1>3 DEF Edited, Memory
<1> QED
  BY <1>1, <1>2, <1>3

LEMMA RevKeptStep == TypeOK /\ RevKept /\ [Next]_vars => RevKept'
<1> SUFFICES ASSUME TypeOK, RevKept, [Next]_vars PROVE RevKept'
  OBVIOUS
<1> USE DEF RevKept
<1>1. ASSUME NEW p \in Procs, Start(p) \/ StartFails(p) PROVE RevKept'
  BY <1>1 DEF TypeOK, Start, StartFails
<1>2. ASSUME NEW p \in Procs, Create(p) PROVE RevKept'
  BY <1>2 DEF TypeOK, Create
<1>3. ASSUME NEW p \in Procs, Unlock(p) PROVE RevKept'
  <2>1. mem'[p].rev = file.rev /\ stamp'[p] = file
    BY <1>3 DEF TypeOK, Unlock, Opened
  <2> QED
    BY <1>3, <2>1 DEF TypeOK, Unlock
<1>4. ASSUME NEW p \in Procs, Edit(p) PROVE RevKept'
  <2>1. PICK h \in BOOLEAN : mem' = [mem EXCEPT ![p] = Edited(p, h)]
    BY <1>4 DEF Edit
  <2>2. mem'[p].rev = mem[p].rev
    BY <2>1, EditedRev DEF TypeOK
  <2> QED
    BY <1>4, <2>1, <2>2 DEF TypeOK, Edit
<1>5. ASSUME NEW p \in Procs, Check(p) \/ WriteTemp(p) \/ Sync(p)
      PROVE  RevKept'
  BY <1>5 DEF TypeOK, Check, WriteTemp, Sync
<1>6. ASSUME NEW p \in Procs, NEW how, Exit(p, how) PROVE RevKept'
  BY <1>6 DEF TypeOK, Exit
<1>7. ASSUME NEW p \in Procs,
             \/ UnlockFails(p) \/ Refuse(p) \/ Abort(p)
             \/ NothingToDo(p) \/ Store(p) \/ Rename(p)
      PROVE  RevKept'
  BY <1>6, <1>7
     DEF UnlockFails, Refuse, Abort, NothingToDo, Store, Rename, Fail
<1>8. CASE Forget \/ Remove \/ JournalCommit \/ UNCHANGED vars
  BY <1>8 DEF Forget, Remove, JournalCommit, vars, local
<1>9. CASE PowerLoss
  BY <1>9 DEF PowerLoss
<1> QED
  BY <1>1, <1>2, <1>3, <1>4, <1>5, <1>7, <1>8, <1>9 DEF Next, Step

LEMMA WindowStillStep ==
    TypeOK /\ Marked /\ WindowStill /\ [Next]_vars => WindowStill'
<1> SUFFICES ASSUME TypeOK, Marked, WindowStill, [Next]_vars
             PROVE  WindowStill'
  OBVIOUS
<1> USE DEF WindowStill
<1>1. ASSUME NEW p \in Procs, Start(p) \/ StartFails(p) \/ Create(p)
      PROVE  WindowStill'
  BY <1>1 DEF TypeOK, Start, StartFails, Create
<1>2. ASSUME NEW p \in Procs, Unlock(p) \/ Edit(p) PROVE WindowStill'
  BY <1>2 DEF TypeOK, Unlock, Edit, ghosts
<1>3. ASSUME NEW p \in Procs, Check(p) PROVE WindowStill'
  BY <1>3 DEF TypeOK, Check, Unchanged
<1>4. ASSUME NEW p \in Procs, WriteTemp(p) \/ Sync(p) PROVE WindowStill'
  BY <1>4 DEF TypeOK, WriteTemp, Sync, ghosts
<1>5. ASSUME NEW p \in Procs, NEW how, Exit(p, how), UNCHANGED <<file, since>>
      PROVE  WindowStill'
  BY <1>5 DEF TypeOK, Exit
<1>6. ASSUME NEW p \in Procs,
             \/ UnlockFails(p) \/ Refuse(p) \/ Abort(p)
             \/ NothingToDo(p) \/ Store(p)
      PROVE  WindowStill'
  BY <1>5, <1>6
     DEF UnlockFails, Refuse, Abort, NothingToDo, Store, Fail, ghosts
<1>7. ASSUME NEW p \in Procs, Rename(p) PROVE WindowStill'
  <2>1. Me(p) \in mem[p].edits
    BY <1>7 DEF Marked, Rename
  <2>2. \A q \in Procs : pc[q] \in Window => since'[q] # {}
    BY <1>7, <2>1 DEF Rename
  <2>3. \A q \in Procs : pc'[q] \in Window => pc[q] \in Window
    BY <1>7 DEF TypeOK, Rename, Exit
  <2> QED
    BY <2>2, <2>3
<1>8. CASE Forget \/ JournalCommit \/ UNCHANGED vars
  BY <1>8 DEF Forget, JournalCommit, vars, local, ghosts
<1>9. CASE Remove
  BY <1>9 DEF Remove, local
<1>10. CASE PowerLoss
  BY <1>10 DEF PowerLoss
<1> QED
  BY <1>1, <1>2, <1>3, <1>4, <1>6, <1>7, <1>8, <1>9, <1>10 DEF Next, Step

\* Only its rename takes a process from synced to saved.
LEMMA SavedByRename ==
    ASSUME TypeOK, Next, NEW p \in Procs, pc[p] = "synced",
           pc'[p] = "idle", outcome'[p] = "saved"
    PROVE  Rename(p)
<1>1. ASSUME NEW q \in Procs, q # p, pc' = [pc EXCEPT ![q] = pc'[q]]
      PROVE  FALSE
  BY <1>1 DEF TypeOK
<1>2. ASSUME NEW q \in Procs, NEW how, Exit(q, how)
      PROVE  q = p /\ how = "saved"
  <2>1. q = p
    BY <1>2 DEF TypeOK, Exit
  <2> QED
    BY <1>2, <2>1 DEF TypeOK, Exit
<1>3. ASSUME NEW q \in Procs,
             \/ Start(q) \/ StartFails(q) \/ Create(q) \/ Unlock(q) \/ Edit(q)
             \/ Check(q) \/ WriteTemp(q) \/ Sync(q)
      PROVE  FALSE
  BY <1>3 DEF TypeOK, Start, StartFails, Create, Unlock, Edit, Check,
              WriteTemp, Sync
<1>4. ASSUME NEW q \in Procs, UnlockFails(q) \/ Refuse(q) \/ Abort(q)
      PROVE  FALSE
  BY <1>2, <1>4 DEF UnlockFails, Refuse, Abort, Fail
<1>5. ASSUME NEW q \in Procs, NothingToDo(q) \/ Store(q) PROVE FALSE
  BY <1>2, <1>5 DEF NothingToDo, Store
<1>6. ASSUME NEW q \in Procs, Rename(q) PROVE q = p
  BY <1>2, <1>6 DEF Rename
<1>7. ~Forget /\ ~Remove /\ ~JournalCommit
  BY DEF Forget, Remove, JournalCommit, local
<1>8. ~PowerLoss
  BY DEF PowerLoss
<1> QED
  BY <1>3, <1>4, <1>5, <1>6, <1>7, <1>8 DEF Next, Step

\* A save that nothing raced carries the next revision of the file it
\* replaces, for any number of processes.
THEOREM RevisionsAdvance == Spec => RevAdvances
<1> DEFINE Advance ==
      \A p \in Procs :
         /\ pc[p] = "synced" /\ pc'[p] = "idle" /\ outcome'[p] = "saved"
         /\ ~force[p] /\ since[p] = {} /\ file # NoFile
         => file'.rev \in {0, file.rev + 1} /\ (file'.hist <=> file'.rev # 0)
<1>1. TypeOK /\ RevKept /\ WindowStill /\ Next => Advance
  <2> SUFFICES ASSUME TypeOK, RevKept, WindowStill, Next,
                      NEW p \in Procs, pc[p] = "synced", pc'[p] = "idle",
                      outcome'[p] = "saved", ~force[p], since[p] = {},
                      file # NoFile
               PROVE  /\ file'.rev \in {0, file.rev + 1}
                      /\ file'.hist <=> file'.rev # 0
    OBVIOUS
  <2>1. file' = Sealed(p)
    BY SavedByRename DEF Rename
  <2>2. mem[p].rev = file.rev
    BY DEF RevKept, WindowStill
  <2>3. mem[p].rev \in Nat /\ mem[p].hist \in BOOLEAN
    BY DEF TypeOK, Memory
  <2>4. /\ file'.rev = IF mem[p].hist THEN mem[p].rev + 1 ELSE 0
        /\ file'.hist = mem[p].hist
    BY <2>1 DEF Sealed
  <2>5. CASE mem[p].hist
    BY <2>2, <2>3, <2>4, <2>5
  <2>6. CASE ~mem[p].hist
    BY <2>2, <2>3, <2>4, <2>6
  <2> QED
    BY <2>5, <2>6
<1>2. TypeOK /\ RevKept /\ WindowStill /\ [Next]_vars => [Advance]_vars
  BY <1>1
<1>3. Init => RevKept /\ WindowStill /\ Marked
  BY DEF Init, RevKept, WindowStill, Marked
<1>4. Spec => [][Advance]_vars
  BY <1>2, <1>3, TypeCorrect, RevKeptStep, WindowStillStep, MarkedStep,
     PTL DEF Spec
<1> QED
  BY <1>4 DEF RevAdvances
=============================================================================
