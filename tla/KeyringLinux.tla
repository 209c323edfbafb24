---------------------------- MODULE KeyringLinux ----------------------------
(***************************************************************************)
(* The remember cache on Linux: one vault's entry in the kernel's user     *)
(* keyring, and the schain processes that store, read and drop it.         *)
(*                                                                         *)
(* The keyring links the vault's description to a key.  cacheStore adds or *)
(* updates that key and then configures it with two more system calls,     *)
(* undoing everything when one fails; tryCache and cacheForget each search *)
(* first and act on the key they found.  Other processes run in between.   *)
(* A call can also fail by itself (seccomp, quota, permissions).           *)
(***************************************************************************)
EXTENDS Naturals, Sequences

CONSTANTS
    Procs,      \* schain processes
    TTLs,       \* durations given to remember, 0 for none
    Commands,   \* which commands they run
    MaxRuns,    \* bound: commands per process
    MaxTime,    \* bound: the clock
    MaxFaults,  \* bound: failing system calls and kills
    Nothing     \* no payload in hand

ASSUME TTLAssumption == TTLs \subseteq Nat
ASSUME CommandsAssumption == Commands \subseteq {"remember", "open", "forget"}
ASSUME BoundsAssumption ==
    MaxRuns \in Nat /\ MaxTime \in Nat /\ MaxFaults \in Nat

\* What identifies one remember: who, its duration and when it began.
Attempt == [proc : Procs, run : Nat, ttl : Nat, start : Nat]

\* hex(salt):hex(key)[:expiry-unix]; salt and key are the vault's, so only
\* whose remember wrote it and the embedded expiry (0: none) matter.
Payload == [by : Attempt, expiry : Nat]

\* A key of the kernel's: wide is keyPerm instead of the add_key default.
Key == [payload : Payload, timeout : Nat, wide : BOOLEAN, revoked : BOOLEAN]

ASSUME NothingAssumption == Nothing \notin Payload

VARIABLES
    now,      \* the clock, in seconds
    keys,     \* the kernel's keys, by serial number
    link,     \* the key the keyring has under the vault's description, or 0
    pc,       \* where each process is in its command
    run,      \* commands each process has run
    cmd,      \* the command it runs
    ttl,      \* remember's duration
    id,       \* the key it works on
    pay,      \* the payload it has in hand
    clean,    \* did a step of its rollback succeed
    outcome,  \* how its last command ended
    used,     \* what it last opened the vault with, and when
    faults,   \* failing calls and kills so far
    added,    \* ghost: what remembers have handed to add_key
    gone,     \* ghost: of that, what a successful forget came after
    undone,   \* ghost: of that, what a failed remember cleaned up
    barred,   \* ghost: gone and undone when the process's command began
    keeps     \* ghost: did a remember without a duration have the last word

kernel == <<now, keys, link>>
local == <<pc, run, cmd, ttl, id, pay, clean, outcome>>
ghosts == <<added, gone, undone, barred, keeps>>
vars == <<kernel, local, used, faults, ghosts>>

Phases == {"idle", "adding", "perm", "timing", "revoking", "unlinking",
           "reading", "checking", "dropping", "removing"}

\* Neither revoked nor timed out.
Alive(k) == ~keys[k].revoked /\ (keys[k].timeout = 0 \/ now < keys[k].timeout)

\* searchKey finds the linked key if it is usable.
Found == link # 0 /\ Alive(link)

Init ==
    /\ now = 0 /\ keys = <<>> /\ link = 0
    /\ pc = [p \in Procs |-> "idle"]
    /\ run = [p \in Procs |-> 0]
    /\ cmd = [p \in Procs |-> "none"]
    /\ ttl = [p \in Procs |-> 0]
    /\ id = [p \in Procs |-> 0]
    /\ pay = [p \in Procs |-> Nothing]
    /\ clean = [p \in Procs |-> FALSE]
    /\ outcome = [p \in Procs |-> "none"]
    /\ used = [p \in Procs |-> Nothing]
    /\ faults = 0
    /\ added = {} /\ gone = {} /\ undone = {}
    /\ barred = [p \in Procs |-> {}] /\ keeps = FALSE
-----------------------------------------------------------------------------
\* The process begins a command.
Begin(p, c) ==
    /\ pc[p] = "idle" /\ run[p] < MaxRuns /\ c \in Commands
    /\ run' = [run EXCEPT ![p] = @ + 1]
    /\ cmd' = [cmd EXCEPT ![p] = c]
    /\ outcome' = [outcome EXCEPT ![p] = "none"]
    /\ barred' = [barred EXCEPT ![p] = gone \cup undone]
    /\ keeps' = (keeps /\ c = "open")
    /\ clean' = [clean EXCEPT ![p] = FALSE]

\* The command ends; payload buffers are wiped.
End(p, how) ==
    /\ pc' = [pc EXCEPT ![p] = "idle"]
    /\ outcome' = [outcome EXCEPT ![p] = how]
    /\ pay' = [pay EXCEPT ![p] = Nothing]
    /\ UNCHANGED <<run, cmd, ttl, id, clean>>

Goto(p, next) == pc' = [pc EXCEPT ![p] = next]

\* The call fails though the kernel had no reason of the model's to fail it.
Fault == faults < MaxFaults /\ faults' = faults + 1

\* A call on a key that is dead fails; on one no keyring links any more it
\* may, since the kernel collects it; otherwise it takes a fault.
CallFails(k) ==
    \/ (~Alive(k) \/ link # k) /\ UNCHANGED faults
    \/ Alive(k) /\ link = k /\ Fault
-----------------------------------------------------------------------------
(* remember: cacheStore                                                    *)

\* payloadWithExpiry
Stamped(p, t) ==
    [by |-> [proc |-> p, run |-> run[p] + 1, ttl |-> t, start |-> now],
     expiry |-> IF t = 0 THEN 0 ELSE now + t]

Remember(p) ==
    /\ Begin(p, "remember")
    /\ \E t \in TTLs :
          /\ ttl' = [ttl EXCEPT ![p] = t]
          /\ pay' = [pay EXCEPT ![p] = Stamped(p, t)]
    /\ Goto(p, "adding")
    /\ UNCHANGED <<kernel, id, used, faults, added, gone, undone>>

\* add_key updates the linked key unless it was revoked.  The code counts on
\* nothing about an earlier timeout: it may stay or go.
Update(p) ==
    /\ link # 0 /\ ~keys[link].revoked
    /\ \E t \in {0} \cup (IF Alive(link) THEN {keys[link].timeout} ELSE {}) :
          keys' = [keys EXCEPT ![link].payload = pay[p], ![link].timeout = t]
    /\ id' = [id EXCEPT ![p] = link]
    /\ UNCHANGED link

\* It makes a key where there is none to update.
Insert(p) ==
    /\ ~Found
    /\ keys' = Append(keys, [payload |-> pay[p], timeout |-> 0,
                             wide |-> FALSE, revoked |-> FALSE])
    /\ link' = Len(keys) + 1
    /\ id' = [id EXCEPT ![p] = Len(keys) + 1]

Add(p) ==
    /\ pc[p] = "adding"
    /\ Update(p) \/ Insert(p)
    /\ Goto(p, "perm")
    /\ added' = added \cup {pay[p]}
    /\ UNCHANGED <<now, run, cmd, ttl, pay, clean, outcome, used, faults,
                   gone, undone, barred, keeps>>

\* Another session's key that is not wide cannot be updated.
AddFails(p) ==
    /\ pc[p] = "adding"
    /\ \/ Found /\ ~keys[link].wide /\ UNCHANGED faults
       \/ Fault
    /\ End(p, "error")
    /\ UNCHANGED <<kernel, used, ghosts>>

\* (defect) the rollback is armed only after this call
SetPermUnarmed(p) ==
    /\ pc[p] = "perm"
    /\ \/ /\ Alive(id[p])
          /\ keys' = [keys EXCEPT ![id[p]].wide = TRUE]
          /\ Goto(p, "timing")
          /\ UNCHANGED <<run, cmd, ttl, id, pay, clean, outcome, faults, undone>>
       \/ /\ CallFails(id[p])
          /\ End(p, "error")
          /\ undone' = undone \cup {pay[p]}
          /\ UNCHANGED keys
    /\ UNCHANGED <<now, link, used, added, gone, barred, keeps>>

\* (defect) its result is not looked at
SetPermUnchecked(p) ==
    /\ pc[p] = "perm"
    /\ \/ /\ Alive(id[p])
          /\ keys' = [keys EXCEPT ![id[p]].wide = TRUE]
          /\ UNCHANGED faults
       \/ CallFails(id[p]) /\ UNCHANGED keys
    /\ Goto(p, "timing")
    /\ UNCHANGED <<now, link, run, cmd, ttl, id, pay, clean, outcome, used,
                   ghosts>>

SetPerm(p) ==
    /\ pc[p] = "perm"
    /\ \/ /\ Alive(id[p])
          /\ keys' = [keys EXCEPT ![id[p]].wide = TRUE]
          /\ Goto(p, "timing")
          /\ UNCHANGED faults
       \/ /\ CallFails(id[p])
          /\ Goto(p, "revoking")
          /\ UNCHANGED keys
    /\ UNCHANGED <<now, link, run, cmd, ttl, id, pay, clean, outcome, used,
                   ghosts>>

\* (defect) a duration of 0 sets no timeout, so an earlier one stays
TimeoutUnlessZero(p) ==
    IF ttl[p] = 0 THEN keys[id[p]].timeout ELSE now + ttl[p]

\* set_timeout, where 0 clears
Timeout(p) == IF ttl[p] = 0 THEN 0 ELSE now + ttl[p]

\* The last call: the key is cached.
SetTimeout(p) ==
    /\ pc[p] = "timing" /\ Alive(id[p])
    /\ keys' = [keys EXCEPT ![id[p]].timeout = Timeout(p)]
    /\ End(p, "cached")
    /\ keeps' = /\ ttl[p] = 0
                /\ link = id[p] /\ keys[link].payload = pay[p]
                /\ \A q \in Procs \ {p} : pc[q] = "idle"
    /\ UNCHANGED <<now, link, used, faults, added, gone, undone, barred>>

SetTimeoutFails(p) ==
    /\ pc[p] = "timing" /\ CallFails(id[p])
    /\ Goto(p, "revoking")
    /\ UNCHANGED <<kernel, run, cmd, ttl, id, pay, clean, outcome, used,
                   ghosts>>

\* The rollback of a store that failed after add_key: revoke that exact key,
Revoke(p) ==
    /\ pc[p] = "revoking"
    /\ Goto(p, "unlinking")
    /\ \/ /\ keys' = [keys EXCEPT ![id[p]].revoked = TRUE]
          /\ clean' = [clean EXCEPT ![p] = TRUE]
          /\ UNCHANGED faults
       \/ CallFails(id[p]) /\ UNCHANGED <<keys, clean>>
    /\ UNCHANGED <<now, link, run, cmd, ttl, id, pay, outcome, used, ghosts>>

\* then unlink it; what failed here too is reported with the error.
Unlink(p) ==
    /\ pc[p] = "unlinking"
    /\ \/ link = id[p] /\ link' = 0 /\ UNCHANGED faults
       \/ link # id[p] /\ UNCHANGED <<link, faults>>
       \/ link = id[p] /\ Fault /\ UNCHANGED link
    /\ undone' = IF clean[p] \/ link' # link
                 THEN undone \cup {pay[p]} ELSE undone
    /\ End(p, "error")
    /\ UNCHANGED <<now, keys, used, added, gone, barred, keeps>>
-----------------------------------------------------------------------------
(* opening with the cached key: tryCache                                   *)

\* cacheLoad searches,
Open(p) ==
    /\ Begin(p, "open")
    /\ Found
    /\ id' = [id EXCEPT ![p] = link]
    /\ Goto(p, "reading")
    /\ UNCHANGED <<kernel, ttl, pay, used, faults, added, gone, undone>>

\* then reads what it found, if it is still there and this session may.
Read(p) ==
    /\ pc[p] = "reading" /\ Alive(id[p])
    /\ pay' = [pay EXCEPT ![p] = keys[id[p]].payload]
    /\ Goto(p, "checking")
    /\ UNCHANGED <<kernel, run, cmd, ttl, id, clean, outcome, used, faults,
                   ghosts>>

ReadFails(p) ==
    /\ pc[p] = "reading"
    /\ \/ CallFails(id[p])
       \/ ~keys[id[p]].wide /\ UNCHANGED faults
    /\ End(p, "miss")
    /\ UNCHANGED <<kernel, used, ghosts>>

\* (defect) an entry is still good in its last second
ExpiredAfter(p) == pay[p].expiry > 0 /\ now > pay[p].expiry

Expired(p) == pay[p].expiry > 0 /\ now >= pay[p].expiry

\* The vault is opened with it, unless its own deadline has passed: then
\* whatever the keyring has is dropped.
Check(p) ==
    /\ pc[p] = "checking"
    /\ IF Expired(p)
       THEN /\ Goto(p, "dropping")
            /\ pay' = [pay EXCEPT ![p] = Nothing]
            /\ UNCHANGED <<run, cmd, ttl, id, clean, outcome, used>>
       ELSE /\ used' = [used EXCEPT ![p] = [offer |-> pay[p], at |-> now]]
            /\ End(p, "opened")
    /\ UNCHANGED <<kernel, faults, ghosts>>
-----------------------------------------------------------------------------
(* cacheForget, from forget, from passwd and from tryCache                 *)

Forget(p) ==
    /\ Begin(p, "forget")
    /\ Goto(p, "dropping")
    /\ UNCHANGED <<kernel, ttl, id, pay, used, faults, added, gone, undone>>

ForgetSearch(p) ==
    /\ pc[p] = "dropping"
    /\ \/ /\ Found
          /\ id' = [id EXCEPT ![p] = link]
          /\ Goto(p, "removing")
          /\ UNCHANGED <<run, cmd, ttl, pay, clean, outcome>>
       \/ ~Found /\ End(p, "miss")
    /\ UNCHANGED <<kernel, used, faults, ghosts>>

\* (defect) the result of the unlink is ignored
ForgetUnlinkUnchecked(p) ==
    /\ pc[p] = "removing"
    /\ link' = IF link = id[p] THEN 0 ELSE link
    /\ gone' = IF cmd[p] = "forget" THEN added ELSE gone
    /\ End(p, "forgot")
    /\ UNCHANGED <<now, keys, used, faults, added, undone, barred, keeps>>

ForgetUnlink(p) ==
    /\ pc[p] = "removing"
    /\ \/ /\ link = id[p] /\ link' = 0
          /\ gone' = IF cmd[p] = "forget" THEN added ELSE gone
          /\ End(p, "forgot")
          /\ UNCHANGED faults
       \/ /\ \/ link # id[p] /\ UNCHANGED faults
             \/ link = id[p] /\ Fault
          /\ End(p, "error")
          /\ UNCHANGED <<link, gone>>
    /\ UNCHANGED <<now, keys, used, added, undone, barred, keeps>>
-----------------------------------------------------------------------------
(* What happens around the commands.                                       *)

Tick == now < MaxTime /\ now' = now + 1
        /\ UNCHANGED <<keys, link, local, used, faults, ghosts>>

Kill(p) ==
    /\ pc[p] # "idle"
    /\ Fault
    /\ End(p, "killed")
    /\ UNCHANGED <<kernel, used, ghosts>>

Step(p) ==
    \/ Add(p) \/ AddFails(p) \/ SetPerm(p) \/ SetTimeout(p)
    \/ SetTimeoutFails(p) \/ Revoke(p) \/ Unlink(p)
    \/ Read(p) \/ ReadFails(p) \/ Check(p)
    \/ ForgetSearch(p) \/ ForgetUnlink(p)

Next ==
    \/ Tick
    \/ \E p \in Procs : Remember(p) \/ Open(p) \/ Forget(p) \/ Step(p) \/ Kill(p)

Spec == Init /\ [][Next]_vars
-----------------------------------------------------------------------------
(* Properties                                                              *)

Outcomes == {"none", "cached", "opened", "forgot", "miss", "error", "killed"}

\* Every variable keeps the shape it has in the kernel and in the code.
TypeOK ==
    /\ now \in Nat /\ keys \in Seq(Key) /\ link \in 0 .. Len(keys)
    /\ pc \in [Procs -> Phases] /\ run \in [Procs -> Nat]
    /\ cmd \in [Procs -> Commands \cup {"none"}] /\ ttl \in [Procs -> Nat]
    /\ id \in [Procs -> 0 .. Len(keys)]
    /\ pay \in [Procs -> Payload \cup {Nothing}]
    /\ clean \in [Procs -> BOOLEAN] /\ outcome \in [Procs -> Outcomes]
    /\ used \in [Procs -> [offer : Payload, at : Nat] \cup {Nothing}]
    /\ faults \in Nat
    /\ added \subseteq Payload /\ gone \subseteq Payload
    /\ undone \subseteq Payload /\ barred \in [Procs -> SUBSET Payload]
    /\ keeps \in BOOLEAN
    /\ \A p \in Procs :
          /\ pc[p] \in {"perm", "timing", "revoking", "unlinking", "reading",
                        "removing"} => id[p] # 0
          /\ pc[p] \in {"adding", "perm", "timing", "revoking", "unlinking",
                        "checking"} => pay[p] # Nothing

\* "Schain never honors an expired entry" (cache_darwin.go:17), and on Linux
\* the embedded deadline is "a second line of defense if
\* configuration/rollback fails" (cache.go:30): no command opens the vault
\* with a key whose remember's time is over, whatever other remembers,
\* failures and kills did to the entry.
NeverLate ==
    \A p \in Procs : used[p] # Nothing =>
        LET by == used[p].offer.by
        IN  by.ttl = 0 \/ used[p].at < by.start + by.ttl

\* A command begun after a forget that reported success does not get hold of
\* a key remembered before it, nor of the key of a remember that failed before
\* it: "failed Linux cache configuration attempts revoke and unlink the
\* inserted key" (README.md:351).  Overlapping remembers, their rollbacks and
\* keys already found do not bring either back.
WithdrawnIsGone ==
    \A p \in Procs : pc[p] = "checking" => pay[p] \notin barred[p]

\* "A service started before you cached the key ... and a fresh ssh login all
\* see it" (README.md:267): the key that a finished remember configured is
\* open to every session for as long as the keyring has it.
UsableEverywhere ==
    \A p \in Procs :
        outcome[p] = "cached" /\ link = id[p] => keys[link].wide

\* "No passphrase until forget" (main.go:555), and "explicit zero clears an
\* earlier timeout" (cache_linux.go:96): what a remember without a duration
\* stored, nobody else at it, is there until somebody forgets or remembers
\* again, however many look at it and whatever timeout the key had before.
KeptUntilForgotten == keeps => Found

\* The offers of the abstract cache: the linked key's payload, and that of a
\* key a process has found and not read yet.
Reachable ==
    {k \in DOMAIN keys : Alive(k) /\
        (k = link \/ \E p \in Procs : pc[p] = "reading" /\ id[p] = k)}

Promise == INSTANCE KeyPromise WITH
    ever <- added,
    offers <- {keys[k].payload : k \in Reachable},
    got <- [p \in Procs |-> IF pc[p] = "checking" THEN pay[p] ELSE Nothing]

\* The keyring and its users implement KeyPromise.
KeyringKeepsPromise == Promise!Spec
-----------------------------------------------------------------------------
(* What the code does not have: see Divergences in the README.             *)

\* "On Linux the kernel enforces the timeout" (README.md:273): with no command
\* under way the linked key has a timeout when its payload has a deadline,
\* and only then.  Two overlapping remembers can mix the two.
TimeoutMatches ==
    (\A p \in Procs : pc[p] = "idle") /\ Found
        => (keys[link].timeout = 0 <=> keys[link].payload.expiry = 0)
=============================================================================
