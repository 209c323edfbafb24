--------------------------- MODULE KeychainDarwin ---------------------------
(***************************************************************************)
(* The remember cache on macOS: one vault's items in the login keychain,   *)
(* the schain processes that store, read and drop them, and the detached   *)
(* sleepers that stand in for the timeout the keychain does not have.      *)
(*                                                                         *)
(* Each use of the security tool is one step.  An item belongs to a        *)
(* service (the vault) and an account ($USER): storing replaces the item   *)
(* of its own account, while reading and deleting name the service only    *)
(* and take one item of it.                                                *)
(***************************************************************************)
EXTENDS Naturals

CONSTANTS
    Procs,      \* schain processes
    Accounts,   \* what $USER is when a command runs
    TTLs,       \* durations given to remember, 0 for none
    Commands,   \* which commands they run
    MaxRuns,    \* bound: commands per process
    MaxTime,    \* bound: the clock
    MaxFaults,  \* bound: failing calls, kills and logouts
    Nothing     \* no payload

ASSUME TTLAssumption == TTLs \subseteq Nat
ASSUME CommandsAssumption == Commands \subseteq {"remember", "open", "forget"}
ASSUME BoundsAssumption ==
    MaxRuns \in Nat /\ MaxTime \in Nat /\ MaxFaults \in Nat

\* What identifies one remember, and what it stores (see KeyringLinux).
Attempt == [proc : Procs, run : Nat, ttl : Nat, start : Nat]
Payload == [by : Attempt, expiry : Nat]

ASSUME NothingAssumption == Nothing \notin Payload

VARIABLES
    now,       \* the clock, in seconds
    items,     \* the keychain's items of this service, by account
    sleepers,  \* the sleepers still asleep
    pc,        \* where each process is in its command
    run,       \* commands each process has run
    cmd,       \* the command it runs
    acct,      \* $USER when it runs it
    pay,       \* the payload it has in hand
    used,      \* what it last opened the vault with, and when
    faults,    \* failing calls, kills and logouts so far
    added,     \* ghost: what remembers have stored
    gone,      \* ghost: of that, what a successful forget came after
    barred,    \* ghost: gone when the process's command began
    keeps      \* ghost: did a remember without a duration have the last word

system == <<now, items, sleepers>>
local == <<pc, run, cmd, acct, pay>>
ghosts == <<added, gone, barred, keeps>>
vars == <<system, local, used, faults, ghosts>>

\* A sleeper remembers nothing but when to wake; by is for the properties.
Sleeper == [by : Attempt, at : Nat]

Phases == {"idle", "storing", "scheduling", "checking", "dropping"}

Stored == {a \in Accounts : items[a] # Nothing}

Init ==
    /\ now = 0 /\ items = [a \in Accounts |-> Nothing] /\ sleepers = {}
    /\ pc = [p \in Procs |-> "idle"]
    /\ run = [p \in Procs |-> 0]
    /\ cmd = [p \in Procs |-> "none"]
    /\ acct \in [Procs -> Accounts]
    /\ pay = [p \in Procs |-> Nothing]
    /\ used = [p \in Procs |-> Nothing]
    /\ faults = 0
    /\ added = {} /\ gone = {}
    /\ barred = [p \in Procs |-> {}] /\ keeps = FALSE
-----------------------------------------------------------------------------
\* The process begins a command.
Begin(p, c) ==
    /\ pc[p] = "idle" /\ run[p] < MaxRuns /\ c \in Commands
    /\ run' = [run EXCEPT ![p] = @ + 1]
    /\ cmd' = [cmd EXCEPT ![p] = c]
    /\ \E a \in Accounts : acct' = [acct EXCEPT ![p] = a]
    /\ barred' = [barred EXCEPT ![p] = gone]
    /\ keeps' = (keeps /\ c = "open")

\* The command ends; payload buffers are wiped.
End(p) ==
    /\ pc' = [pc EXCEPT ![p] = "idle"]
    /\ pay' = [pay EXCEPT ![p] = Nothing]
    /\ UNCHANGED <<run, cmd, acct>>

Goto(p, next) == pc' = [pc EXCEPT ![p] = next]

\* Something fails for a reason of its own.
Fault == faults < MaxFaults /\ faults' = faults + 1

\* security delete-generic-password -s: one item of the service.
DeleteOne ==
    \E a \in Stored : items' = [items EXCEPT ![a] = Nothing]
-----------------------------------------------------------------------------
(* remember: cacheStore and scheduleDelete                                 *)

\* payloadWithExpiry
Stamped(p, t) ==
    [by |-> [proc |-> p, run |-> run[p] + 1, ttl |-> t, start |-> now],
     expiry |-> IF t = 0 THEN 0 ELSE now + t]

Remember(p) ==
    /\ Begin(p, "remember")
    /\ \E t \in TTLs : pay' = [pay EXCEPT ![p] = Stamped(p, t)]
    /\ Goto(p, "storing")
    /\ UNCHANGED <<system, used, faults, added, gone>>

\* add-generic-password -U; without a duration that is all.
Store(p) ==
    /\ pc[p] = "storing"
    /\ items' = [items EXCEPT ![acct[p]] = pay[p]]
    /\ added' = added \cup {pay[p]}
    /\ IF pay[p].by.ttl > 0
       THEN Goto(p, "scheduling") /\ UNCHANGED <<run, cmd, acct, pay, keeps>>
       ELSE /\ End(p)
            /\ keeps' = \A q \in Procs \ {p} :
                            pc[q] = "idle" \/ cmd[q] = "open"
    /\ UNCHANGED <<now, sleepers, used, faults, gone, barred>>

StoreFails(p) ==
    /\ pc[p] = "storing" /\ Fault
    /\ End(p)
    /\ UNCHANGED <<system, used, ghosts>>

\* The detached sleeper; that it could not be started is not reported.
Schedule(p) ==
    /\ pc[p] = "scheduling"
    /\ \/ /\ sleepers' = sleepers \cup
                {[by |-> pay[p].by, at |-> now + pay[p].by.ttl]}
          /\ UNCHANGED faults
       \/ Fault /\ UNCHANGED sleepers
    /\ End(p)
    /\ UNCHANGED <<now, items, used, ghosts>>

\* (defect) the service is quoted wrongly, so the tool finds nothing
WakeMisquoted(s) ==
    /\ s \in sleepers /\ now >= s.at
    /\ sleepers' = sleepers \ {s}
    /\ UNCHANGED <<now, items, local, used, faults, ghosts>>

\* A sleeper wakes when its time is over, or later; nobody hears of it when
\* its one call of the tool fails.
Wake(s) ==
    /\ s \in sleepers /\ now >= s.at
    /\ sleepers' = sleepers \ {s}
    /\ \/ DeleteOne /\ UNCHANGED faults
       \/ Stored = {} /\ UNCHANGED <<items, faults>>
       \/ Stored # {} /\ Fault /\ UNCHANGED items
    /\ UNCHANGED <<now, local, used, ghosts>>
-----------------------------------------------------------------------------
(* opening with the cached key, and forgetting                             *)

\* cacheLoad
Open(p) ==
    /\ Begin(p, "open")
    /\ \E a \in Stored : pay' = [pay EXCEPT ![p] = items[a]]
    /\ Goto(p, "checking")
    /\ UNCHANGED <<system, used, faults, added, gone>>

\* (defect) an entry is still good in its last second
ExpiredAfter(p) == pay[p].expiry > 0 /\ now > pay[p].expiry

Expired(p) == pay[p].expiry > 0 /\ now >= pay[p].expiry

\* tryCache: the vault is opened with it, unless its time is over; then one
\* item, which may be another by now, is dropped.
Check(p) ==
    /\ pc[p] = "checking"
    /\ IF Expired(p)
       THEN /\ Goto(p, "dropping")
            /\ pay' = [pay EXCEPT ![p] = Nothing]
            /\ UNCHANGED <<run, cmd, acct, used>>
       ELSE /\ used' = [used EXCEPT ![p] = [offer |-> pay[p], at |-> now]]
            /\ End(p)
    /\ UNCHANGED <<system, faults, ghosts>>

Forget(p) ==
    /\ Begin(p, "forget")
    /\ Goto(p, "dropping")
    /\ UNCHANGED <<system, pay, used, faults, added, gone>>

\* (defect) what the tool answered is not looked at
DropUnchecked(p) ==
    /\ pc[p] = "dropping"
    /\ \/ DeleteOne /\ UNCHANGED faults
       \/ Stored # {} /\ Fault /\ UNCHANGED items
    /\ gone' = IF cmd[p] = "forget" THEN added ELSE gone
    /\ End(p)
    /\ UNCHANGED <<now, sleepers, used, added, barred, keeps>>

\* cacheForget, for forget, passwd and an entry found expired
Drop(p) ==
    /\ pc[p] = "dropping"
    /\ \/ /\ DeleteOne
          /\ gone' = IF cmd[p] = "forget" THEN added ELSE gone
          /\ UNCHANGED faults
       \/ /\ \/ Stored = {} /\ UNCHANGED faults
             \/ Stored # {} /\ Fault
          /\ UNCHANGED <<items, gone>>
    /\ End(p)
    /\ UNCHANGED <<now, sleepers, used, added, barred, keeps>>
-----------------------------------------------------------------------------
(* What happens around the commands.                                       *)

Tick == now < MaxTime /\ now' = now + 1
        /\ UNCHANGED <<items, sleepers, local, used, faults, ghosts>>

Kill(p) ==
    /\ pc[p] # "idle" /\ Fault
    /\ End(p)
    /\ UNCHANGED <<system, used, ghosts>>

\* The sleepers die with the login session; the keychain is on disk.
Logout ==
    /\ sleepers # {} /\ Fault
    /\ sleepers' = {}
    /\ UNCHANGED <<now, items, local, used, ghosts>>

Step(p) ==
    \/ Store(p) \/ StoreFails(p) \/ Schedule(p) \/ Check(p) \/ Drop(p)

Next ==
    \/ Tick \/ Logout
    \/ \E s \in sleepers : Wake(s)
    \/ \E p \in Procs : Remember(p) \/ Open(p) \/ Forget(p) \/ Step(p) \/ Kill(p)

Spec == Init /\ [][Next]_vars

\* Time passes and the operating system runs what is runnable: a command in
\* its course and a sleeper whose time has come.
FairSpec ==
    /\ Spec /\ WF_vars(Tick)
    /\ \A p \in Procs : WF_vars(Step(p))
    /\ WF_vars(\E s \in sleepers : Wake(s))
-----------------------------------------------------------------------------
(* Properties                                                              *)

\* Every variable keeps the shape it has in the keychain and in the code.
TypeOK ==
    /\ now \in Nat /\ items \in [Accounts -> Payload \cup {Nothing}]
    /\ sleepers \subseteq Sleeper
    /\ pc \in [Procs -> Phases] /\ run \in [Procs -> Nat]
    /\ cmd \in [Procs -> Commands \cup {"none"}] /\ acct \in [Procs -> Accounts]
    /\ pay \in [Procs -> Payload \cup {Nothing}]
    /\ used \in [Procs -> [offer : Payload, at : Nat] \cup {Nothing}]
    /\ faults \in Nat
    /\ added \subseteq Payload /\ gone \subseteq Payload
    /\ barred \in [Procs -> SUBSET Payload] /\ keeps \in BOOLEAN
    /\ \A p \in Procs :
          pc[p] \in {"storing", "scheduling", "checking"} => pay[p] # Nothing

\* "The embedded timestamp still holds, so schain never honors an expired
\* entry either way" (cache_darwin.go:16): no command opens the vault with a
\* key whose remember's time is over, whether its sleeper lives, is late, is
\* dead or was never started.
NeverLate ==
    \A p \in Procs : used[p] # Nothing =>
        LET by == used[p].offer.by
        IN  by.ttl = 0 \/ used[p].at < by.start + by.ttl

\* "Drop the cached key" (README.md:256): a command begun after a forget
\* that reported success gets hold of no key remembered before it.
ForgottenIsGone ==
    \A p \in Procs : pc[p] = "checking" => pay[p] \notin barred[p]

\* "A detached sleeper that deletes the item on schedule" (README.md:273):
\* the item of a remember whose sleeper was started does not stay for ever,
\* even when no command ever looks at it again.  A logout would take the
\* sleeper with it, so this is about what happens after the last fault.
SleeperDeletes ==
    \A p \in Procs, r \in 1 .. MaxRuns :
        LET Mine == \E a \in Stored :
                        items[a].by.proc = p /\ items[a].by.run = r
            Slept == \E s \in sleepers :
                        s.by.proc = p /\ s.by.run = r /\ s.at <= MaxTime
        IN  Mine /\ Slept /\ faults = MaxFaults ~> ~Mine

\* "No passphrase until forget" (main.go:555), "omitting it means no expiry"
\* (README.md:273): what a remember without a duration stored is there until
\* somebody forgets, or remembers again.
KeptUntilForgotten == keeps => Stored # {}

Promise == INSTANCE KeyPromise WITH
    ever <- added,
    offers <- {items[a] : a \in Stored},
    got <- [p \in Procs |-> IF pc[p] = "checking" THEN pay[p] ELSE Nothing]

\* The keychain and its users implement KeyPromise.
KeychainKeepsPromise == Promise!Spec
=============================================================================
