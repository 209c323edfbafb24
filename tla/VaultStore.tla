----------------------------- MODULE VaultStore -----------------------------
(***************************************************************************)
(* Commands of concurrent schain processes on ONE vault file (.schain).    *)
(*                                                                         *)
(* schain takes no lock.  A command that writes opens the vault (or makes  *)
(* a new one), changes it in memory, compares the file with the one it     *)
(* opened, and replaces it: temporary file, fsync, rename.  Processes run  *)
(* at their own pace, can be refused, fail or be killed between any two of *)
(* those steps, and are run again by their user; the machine can lose      *)
(* power and the user can rm the file.                                     *)
(*                                                                         *)
(* What the vault says is abstracted to WHOSE edits it contains: an edit   *)
(* is named by the attempt (process and run number) that made it.  What a  *)
(* single edit does to keys and history is module VaultHistory's subject.  *)
(***************************************************************************)
EXTENDS Naturals, FiniteSets

CONSTANTS
    Procs,      \* the processes (shells, worktrees, scripts)
    Ops,        \* which commands they run
    Forces,     \* with or without SCHAIN_FORCE, or either
    RunAfter,   \* the outcomes after which its user runs a command again
    MaxRuns,    \* bound: runs of a command per process
    MaxFaults,  \* bound: errors, kills, removals and power losses
    Origin,     \* the writer of the vault the system starts with
    NoFile,     \* no file at the path; as a stamp, the zero stamp
    Torn,       \* a file whose data never reached the disk
    NoKey       \* no entry in the OS key cache

AllOps == {"set", "change", "purge", "passwd", "remember"}

Outcomes == {"none", "saved", "unchanged", "refused", "error"}

ASSUME RunAfterAssumption == {"none"} \subseteq RunAfter
ASSUME OpsAssumption == Ops \subseteq AllOps
ASSUME ForcesAssumption == Forces \subseteq BOOLEAN
ASSUME BoundsAssumption == MaxRuns \in Nat /\ MaxFaults \in Nat

Attempt == Procs \X Nat
Writer == Attempt \cup {Origin}

\* A vault file.  The nonce is fresh on every write, so two files are equal
\* byte for byte only when the same save wrote them: that save is the writer.
\* "salt" is the header's, "key" names the salt of the key that sealed the
\* body, "hist" is TRUE for the schain2 envelope.
Content == [writer : Writer, salt : Writer, key : Writer,
            rev : Nat, hist : BOOLEAN, edits : SUBSET Attempt]

\* The vault struct a process holds in memory.
Memory == [salt : Writer, key : Writer, rev : Nat, hist : BOOLEAN,
           edits : SUBSET Attempt]

CacheEntry == [salt : Writer, key : Writer]

\* The model values stand for things that are not contents.
ASSUME NoFileAssumption == NoFile \notin Content
ASSUME TornAssumption == Torn \notin Content /\ Torn # NoFile
ASSUME NoKeyAssumption == NoKey \notin CacheEntry

VARIABLES
    file,       \* what is at the path now
    survivors,  \* what a power loss now could leave at the path
    cached,     \* the vault's entry in the OS key cache
    pc,         \* where each process is in its command
    run,        \* how many times each process has been run
    op, force,  \* the command it runs, and whether SCHAIN_FORCE is set
    stamp,      \* v.stamp: the file as opened
    mem,        \* v: the opened vault
    durable,    \* processes whose temporary file is on the disk
    outcome,    \* how each process's last command ended, "none" while it runs
    faults,     \* faults so far
    landed,     \* ghost: attempts that reported success on a write
    denied,     \* ghost: attempts that ended refused or in an error
    excused,    \* ghost: landed edits dropped in a way the code admits
    since,      \* ghost: edits that landed since the process's check passed
    moved,      \* ghost: did the file change since the process opened it
    remembered  \* ghost: salt of the key a remember promised to hold

ghosts == <<landed, denied, excused, since, moved, remembered>>
local == <<pc, run, op, force, stamp, mem, durable, outcome>>
vars == <<file, survivors, cached, local, faults, ghosts>>

Me(p) == <<p, run[p]>>

Phases == {"idle", "creating", "found", "open", "edited",
           "checked", "written", "synced"}

\* The process has passed checkUnchanged and has not renamed yet.
Window == {"checked", "written", "synced"}
Holding == {"open", "edited"} \cup Window

\* There is a file and it parses as a vault (readVaultFile).
Readable == file \notin {NoFile, Torn}

Edits(c) == IF c \in {NoFile, Torn} THEN {} ELSE c.edits

Blank == [salt |-> Origin, key |-> Origin, rev |-> 0, hist |-> FALSE,
          edits |-> {}]

Original(h) == [writer |-> Origin, salt |-> Origin, key |-> Origin,
                rev |-> IF h THEN 1 ELSE 0, hist |-> h, edits |-> {}]

Init ==
    /\ file \in {NoFile} \cup {Original(h) : h \in BOOLEAN}
    /\ survivors = {file}
    /\ cached = NoKey
    /\ pc = [p \in Procs |-> "idle"]
    /\ run = [p \in Procs |-> 0]
    /\ op = [p \in Procs |-> "none"]
    /\ force = [p \in Procs |-> FALSE]
    /\ stamp = [p \in Procs |-> NoFile]
    /\ mem = [p \in Procs |-> Blank]
    /\ durable = {}
    /\ outcome = [p \in Procs |-> "none"]
    /\ faults = 0
    /\ landed = {} /\ denied = {} /\ excused = {}
    /\ since = [p \in Procs |-> {}]
    /\ moved = [p \in Procs |-> FALSE]
    /\ remembered = NoKey
-----------------------------------------------------------------------------
(* The command, step by step.                                              *)

\* findVault looks for the file; only set goes on without one.
Start(p) ==
    /\ pc[p] = "idle" /\ run[p] < MaxRuns
    /\ outcome[p] \in RunAfter
    /\ run' = [run EXCEPT ![p] = @ + 1]
    /\ moved' = [moved EXCEPT ![p] = FALSE]
    /\ outcome' = [outcome EXCEPT ![p] = "none"]
    /\ \E o \in Ops, f \in Forces :
          /\ op' = [op EXCEPT ![p] = o]
          /\ force' = [force EXCEPT ![p] = f]
          /\ \/ file # NoFile /\ pc' = [pc EXCEPT ![p] = "found"]
             \/ /\ file = NoFile /\ o = "set"
                /\ pc' = [pc EXCEPT ![p] = "creating"]
    /\ UNCHANGED <<file, survivors, cached, stamp, mem, durable, faults,
                   landed, denied, excused, since, remembered>>

\* mustFindVault: the other commands stop where there is no vault.
StartFails(p) ==
    /\ pc[p] = "idle" /\ run[p] < MaxRuns
    /\ outcome[p] \in RunAfter
    /\ file = NoFile /\ Ops # {"set"}
    /\ run' = [run EXCEPT ![p] = @ + 1]
    /\ outcome' = [outcome EXCEPT ![p] = "error"]
    /\ denied' = denied \cup {<<p, run[p] + 1>>}
    /\ UNCHANGED <<file, survivors, cached, pc, op, force, stamp, mem, durable,
                   faults, landed, excused, since, moved, remembered>>

\* newPassphrase and newVault: a fresh salt, a key derived from it, and the
\* zero stamp.
Create(p) ==
    /\ pc[p] = "creating"
    /\ pc' = [pc EXCEPT ![p] = "open"]
    /\ stamp' = [stamp EXCEPT ![p] = NoFile]
    /\ mem' = [mem EXCEPT ![p] = [Blank EXCEPT !.salt = Me(p), !.key = Me(p)]]
    /\ moved' = [moved EXCEPT ![p] = @ \/ file # NoFile]
    /\ UNCHANGED <<file, survivors, cached, run, op, force, durable, outcome,
                   faults, landed, denied, excused, since, remembered>>

\* The keys unlock tries: the cached one when its salt is the file's
\* (openVaultKey), then the one derived from the typed passphrase and the
\* file's salt (openVault).
KeysFor(c) ==
    {c.salt} \cup
    {k \in {e.key : e \in {cached} \ {NoKey}} : cached.salt = c.salt}

\* (defect) the envelope's revision is not carried over
OpenedForgetsRev(c) == [salt |-> c.salt, key |-> c.key, rev |-> 0,
                        hist |-> c.hist, edits |-> c.edits]

Opened(c) == [salt |-> c.salt, key |-> c.key, rev |-> c.rev,
              hist |-> c.hist, edits |-> c.edits]

\* unlock: one read of the file gives both what is decrypted and the stamp.
Unlock(p) ==
    /\ pc[p] = "found"
    /\ Readable /\ file.key \in KeysFor(file)
    /\ pc' = [pc EXCEPT ![p] = "open"]
    /\ stamp' = [stamp EXCEPT ![p] = file]
    /\ mem' = [mem EXCEPT ![p] = Opened(file)]
    /\ UNCHANGED <<file, survivors, cached, run, op, force, durable, outcome,
                   faults, ghosts>>

\* The process exits: what it held in memory goes with it.
Exit(p, how) ==
    /\ pc' = [pc EXCEPT ![p] = "idle"]
    /\ outcome' = [outcome EXCEPT ![p] = how]
    /\ op' = [op EXCEPT ![p] = "none"]
    /\ force' = [force EXCEPT ![p] = FALSE]
    /\ stamp' = [stamp EXCEPT ![p] = NoFile]
    /\ mem' = [mem EXCEPT ![p] = Blank]
    /\ durable' = durable \ {p}
    /\ UNCHANGED run

\* It exits without having written: the temporary file, if any, is removed.
Fail(p, how) ==
    /\ Exit(p, how)
    /\ denied' = denied \cup {Me(p)}
    /\ UNCHANGED <<file, survivors, landed, excused, since, moved, remembered>>

\* The file findVault saw is gone, or nothing opens it.
UnlockFails(p) ==
    /\ pc[p] = "found"
    /\ Readable => file.key \notin KeysFor(file)
    /\ Fail(p, "error")
    /\ UNCHANGED <<cached, faults>>

\* (defect) rekey replaces the key but not the salt
EditedKeepsSalt(p, h) ==
    [mem[p] EXCEPT !.edits = @ \cup {Me(p)},
                   !.key = IF op[p] = "passwd" THEN Me(p) ELSE @]

\* What the command does to the vault in memory.  set, unset, revert and the
\* history switch leave history as it was or begin one; a purge can leave
\* none; passwd draws a salt and a key.
Edited(p, h) ==
    CASE op[p] \in {"set", "change"} ->
             [mem[p] EXCEPT !.edits = @ \cup {Me(p)}, !.hist = @ \/ h]
      [] op[p] = "purge" ->
             [mem[p] EXCEPT !.edits = @ \cup {Me(p)}, !.hist = @ /\ h]
      [] OTHER ->
             [mem[p] EXCEPT !.edits = @ \cup {Me(p)},
                            !.salt = Me(p), !.key = Me(p)]

\* passwd drops the cached key here, before it knows whether it can save.
Edit(p) ==
    /\ pc[p] = "open" /\ op[p] # "remember"
    /\ \E h \in BOOLEAN : mem' = [mem EXCEPT ![p] = Edited(p, h)]
    /\ cached' = IF op[p] = "passwd" THEN NoKey ELSE cached
    /\ pc' = [pc EXCEPT ![p] = "edited"]
    /\ UNCHANGED <<file, survivors, run, op, force, stamp, durable, outcome,
                   faults, ghosts>>

\* history revert to the value the key already holds: nothing is saved.
NothingToDo(p) ==
    /\ pc[p] = "open" /\ op[p] = "change"
    /\ Exit(p, "unchanged")
    /\ UNCHANGED <<file, survivors, cached, faults, ghosts>>

\* rememberOne stores salt and key as they were when the vault was opened.
Store(p) ==
    /\ pc[p] = "open" /\ op[p] = "remember"
    /\ cached' = [salt |-> mem[p].salt, key |-> mem[p].key]
    /\ remembered' = mem[p].salt
    /\ Exit(p, "saved")
    /\ UNCHANGED <<file, survivors, faults, landed, denied, excused, since,
                   moved>>
-----------------------------------------------------------------------------
(* save                                                                    *)

\* (defect) the revision is compared instead of the bytes
UnchangedRevision(p) ==
    \/ force[p]
    \/ file = NoFile /\ stamp[p] = NoFile
    \/ file # NoFile /\ stamp[p] # NoFile /\ file.rev = stamp[p].rev

\* (defect) a process that creates the vault does not look for another's
UnchangedUnlessNew(p) == force[p] \/ stamp[p] = NoFile \/ file = stamp[p]

\* (defect) a missing file is never taken as expected
UnchangedPresent(p) == force[p] \/ (file # NoFile /\ file = stamp[p])

\* checkUnchanged: SCHAIN_FORCE skips it; otherwise the bytes must be those
\* opened, and no file matches only the zero stamp.
Unchanged(p) == force[p] \/ file = stamp[p]

Check(p) ==
    /\ pc[p] = "edited" /\ Unchanged(p)
    /\ pc' = [pc EXCEPT ![p] = "checked"]
    /\ since' = [since EXCEPT ![p] = {}]
    /\ UNCHANGED <<file, survivors, cached, run, op, force, stamp, mem,
                   durable, outcome, faults, landed, denied, excused, moved,
                   remembered>>

\* (defect) a refused save is tried again as it is, without reopening
RefuseRetriesSave(p) ==
    /\ pc[p] = "edited" /\ ~Unchanged(p)
    /\ UNCHANGED vars

Refuse(p) ==
    /\ pc[p] = "edited" /\ ~Unchanged(p)
    /\ Fail(p, "refused")
    /\ UNCHANGED <<cached, faults>>

\* What the process puts on the disk: schain2 with the next revision when
\* there is history, schain1 (which has none) otherwise.
Sealed(p) ==
    [writer |-> Me(p), salt |-> mem[p].salt, key |-> mem[p].key,
     rev |-> IF mem[p].hist THEN mem[p].rev + 1 ELSE 0,
     hist |-> mem[p].hist, edits |-> mem[p].edits]

\* (defect) the vault is truncated and written in place
WriteInPlace(p) ==
    /\ pc[p] = "checked"
    /\ pc' = [pc EXCEPT ![p] = "written"]
    /\ file' = Sealed(p)
    /\ UNCHANGED <<survivors, cached, run, op, force, stamp, mem, durable,
                   outcome, faults, ghosts>>

WriteTemp(p) ==
    /\ pc[p] = "checked"
    /\ pc' = [pc EXCEPT ![p] = "written"]
    /\ UNCHANGED <<file, survivors, cached, run, op, force, stamp, mem,
                   durable, outcome, faults, ghosts>>

\* (defect) the temporary file is closed without being synced
NoSync(p) ==
    /\ pc[p] = "written"
    /\ pc' = [pc EXCEPT ![p] = "synced"]
    /\ UNCHANGED <<file, survivors, cached, run, op, force, stamp, mem,
                   durable, outcome, faults, ghosts>>

Sync(p) ==
    /\ pc[p] = "written"
    /\ pc' = [pc EXCEPT ![p] = "synced"]
    /\ durable' = durable \cup {p}
    /\ UNCHANGED <<file, survivors, cached, run, op, force, stamp, mem,
                   outcome, faults, ghosts>>

\* Ghost: the edits this rename drops that the code admits it may drop, all
\* of them under SCHAIN_FORCE, else those that landed after the check.
Admitted(p) ==
    LET dropped == Edits(file) \ mem[p].edits
    IN  IF force[p] THEN dropped ELSE dropped \cap since[p]

\* The directory is not fsynced: until the journal commits the rename, a
\* power loss can leave the new file (whose data is whole only if it was
\* synced) or any of the older ones.
Rename(p) ==
    /\ pc[p] = "synced"
    /\ file' = Sealed(p)
    /\ survivors' = survivors \cup
                      {IF p \in durable THEN Sealed(p) ELSE Torn}
    /\ Exit(p, "saved")
    /\ landed' = landed \cup {Me(p)}
    /\ excused' = (excused \cup Admitted(p)) \ mem[p].edits
    /\ since' = [q \in Procs |-> IF pc[q] \in Window
                                 THEN since[q] \cup mem[p].edits
                                 ELSE since[q]]
    /\ moved' = [q \in Procs |-> q # p /\ (moved[q] \/ pc[q] \in Holding)]
    /\ UNCHANGED <<cached, faults, denied, remembered>>
-----------------------------------------------------------------------------
(* What happens around the commands.                                       *)

\* schain forget.
Forget ==
    /\ cached # NoKey
    /\ cached' = NoKey /\ remembered' = NoKey
    /\ UNCHANGED <<file, survivors, local, faults, landed, denied, excused,
                   since, moved>>

Fault == faults < MaxFaults /\ faults' = faults + 1

\* A wrong passphrase, an I/O error or a kill, at any step before the rename.
Abort(p) ==
    /\ pc[p] # "idle"
    /\ Fault
    /\ Fail(p, "error")
    /\ UNCHANGED cached

\* rm .schain, the documented way to delete a vault.
Remove ==
    /\ file # NoFile
    /\ Fault
    /\ file' = NoFile
    /\ survivors' = survivors \cup {NoFile}
    /\ excused' = excused \cup Edits(file)
    /\ moved' = [p \in Procs |-> moved[p] \/ pc[p] \in Holding]
    /\ UNCHANGED <<cached, local, landed, denied, since, remembered>>

\* The file system's journal makes the directory entry durable.
JournalCommit ==
    /\ survivors # {file}
    /\ survivors' = {file}
    /\ UNCHANGED <<file, cached, local, faults, ghosts>>

\* Every process dies, one of the surviving files is at the path, and the
\* key cache is lost (Linux keyring) or kept (macOS keychain).
PowerLoss ==
    /\ Fault
    /\ \E c \in survivors :
          /\ file' = c /\ survivors' = {c}
          /\ excused' = (excused \cup landed) \ Edits(c)
    /\ cached' \in {cached, NoKey}
    /\ remembered' = NoKey
    /\ denied' = denied \cup {Me(p) : p \in {q \in Procs : pc[q] # "idle"}}
    /\ outcome' = [p \in Procs |-> IF pc[p] # "idle" THEN "error"
                                                     ELSE outcome[p]]
    /\ pc' = [p \in Procs |-> "idle"]
    /\ op' = [p \in Procs |-> "none"]
    /\ force' = [p \in Procs |-> FALSE]
    /\ stamp' = [p \in Procs |-> NoFile]
    /\ mem' = [p \in Procs |-> Blank]
    /\ durable' = {}
    /\ UNCHANGED <<run, landed, since, moved>>

Step(p) ==
    \/ Create(p) \/ Unlock(p) \/ UnlockFails(p)
    \/ Edit(p) \/ NothingToDo(p) \/ Store(p)
    \/ Check(p) \/ Refuse(p) \/ WriteTemp(p) \/ Sync(p) \/ Rename(p)

Next ==
    \/ \E p \in Procs : Start(p) \/ StartFails(p) \/ Step(p) \/ Abort(p)
    \/ Forget \/ Remove \/ JournalCommit \/ PowerLoss

Spec == Init /\ [][Next]_vars

\* A started command runs on, and its user runs again what did not succeed.
Fairness == \A p \in Procs : WF_vars(Start(p)) /\ WF_vars(Step(p))

FairSpec == Spec /\ Fairness
-----------------------------------------------------------------------------
(* Properties                                                              *)

\* Every variable keeps the shape its Go counterpart has.
TypeOK ==
    /\ file \in Content \cup {NoFile, Torn}
    /\ survivors \subseteq Content \cup {NoFile, Torn}
    /\ cached \in CacheEntry \cup {NoKey}
    /\ pc \in [Procs -> Phases]
    /\ run \in [Procs -> Nat]
    /\ op \in [Procs -> AllOps \cup {"none"}] /\ force \in [Procs -> BOOLEAN]
    /\ stamp \in [Procs -> Content \cup {NoFile}]
    /\ mem \in [Procs -> Memory]
    /\ durable \subseteq Procs
    /\ outcome \in [Procs -> Outcomes]
    /\ faults \in Nat
    /\ landed \subseteq Attempt /\ denied \subseteq Attempt
    /\ excused \subseteq Attempt
    /\ since \in [Procs -> SUBSET Attempt]
    /\ moved \in [Procs -> BOOLEAN]
    /\ remembered \in Writer \cup {NoKey}

\* checkUnchanged's purpose (vault.go:299): an edit that was reported saved
\* stays in the vault, unless a forced save, a save landing between another's
\* check and rename, an rm or a power loss took it out.
NoLostUpdate == landed \subseteq Edits(file) \cup excused

\* "Nothing written" (vault.go:316-324): the edit of an attempt that was
\* refused or failed is in no file, now or after a power loss, not even as a
\* part of what a later command wrote.
FailedNotWritten ==
    \A c \in {file} \cup survivors : Edits(c) \cap denied = {}

\* The rename follows the fsync: no interleaving of saves and power losses
\* leaves a file whose data is not on the disk.
Intact == Torn \notin {file} \cup survivors

\* Whatever commands raced, and whichever file a power loss leaves, a vault is
\* whole and a passphrase opens it: its body is sealed with a key of the salt
\* in its header, so rekey and save never mix the old with the new.
Openable ==
    /\ Intact
    /\ \A c \in ({file} \cup survivors) \ {NoFile, Torn} : c.key = c.salt

\* A command is refused only if the file really changed under it.
RefusalIsReal == \A p \in Procs : outcome[p] = "refused" => moved[p]

\* "rev // bumped per save" (vault.go:70): a save that nothing raced carries
\* the next revision of the file it replaces.
RevAdvances ==
    [][\A p \in Procs :
         /\ pc[p] = "synced" /\ pc'[p] = "idle" /\ outcome'[p] = "saved"
         /\ ~force[p] /\ since[p] = {} /\ file # NoFile
         => file'.rev \in {0, file.rev + 1} /\ (file'.hist <=> file'.rev # 0)
       ]_vars

\* "re-run your command to apply it on top" (vault.go:324): re-running what
\* was refused or failed ends in success, since each refusal means another
\* command landed.
Converges == <>(\A p \in Procs : outcome[p] \in {"saved", "unchanged"})
-----------------------------------------------------------------------------
(* What the code does not have: see Divergences in the README.             *)

\* "After remember, every schain command on that vault runs without
\* prompting" (README.md:260) and "no passphrase until forget" (main.go:555):
\* with no command under way, a remembered key of the present salt is cached.
\* A passwd drops it before its save can be refused or fail.
RememberedUntilForgotten ==
    (\A p \in Procs : pc[p] = "idle") /\ file # NoFile
        => (remembered = file.salt => cached # NoKey)
=============================================================================
