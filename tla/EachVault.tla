------------------------------ MODULE EachVault ------------------------------
(***************************************************************************)
(* eachVault: one command over many vaults (remember --all).               *)
(*                                                                         *)
(* The run goes in passes over the vaults still shut: first with the keys  *)
(* in the OS cache, then with the answers of a configured source, or with  *)
(* one typed passphrase after another.  In a pass every vault has its own  *)
(* goroutine, and a semaphore lets as many work as there are cores.  What  *)
(* a pass came to is added up only when all its goroutines are done.       *)
(*                                                                         *)
(* A vault is named by its place in path order.  Its cache entry is read   *)
(* in the first pass only and written by no callback but its own, so what  *)
(* the run meets is fixed when it starts.                                  *)
(***************************************************************************)
EXTENDS Naturals, FiniteSetsExt

CONSTANTS
    N,            \* vaults
    Workers,      \* vaultWorkers(): the cores
    Passphrases,
    Remembered,   \* a vault whose cached key opens it
    Damaged,      \* a file that is no vault (or cannot be read)
    GaveUp,       \* the helper exits non-zero, or prints nothing
    Unrunnable,   \* the helper will not start, the passphrase file is no use
    NoSource,     \* no helper and no file: passphrases are typed
    Unfinished    \* eachVault has not returned

ASSUME SizeAssumption == N \in Nat \ {0} /\ Workers \in Nat \ {0}
ASSUME NamesAssumption ==
    /\ {Remembered, Damaged, GaveUp, Unrunnable} \cap Passphrases = {}
    /\ Damaged \notin {Remembered, GaveUp, Unrunnable} /\ GaveUp # Unrunnable

Paths == 1 .. N

VARIABLES
    vault,    \* what opens each vault
    source,   \* what the configured source answers for each, or NoSource
    fails,    \* the vaults fn fails on
    phase,    \* the pass under way, or where the run is between passes
    left,     \* the vaults still shut
    work,     \* where each goroutine of the pass is, or what it came to
    typed,    \* known: what was typed, by the vault it was asked about
    asked,    \* the vault last asked about
    done, skipped, err,   \* vaultRun; err is the vault that stopped the run
    handed    \* ghost: how often each vault was handed to fn

plan == <<vault, source, fails>>
tally == <<done, skipped, err>>
vars == <<plan, phase, left, work, typed, asked, tally, handed>>

\* A vaultResult: opened and fn returned nil; errBadPassphrase; another
\* failure to open; one no vault could get past (abortErr); fn's error.
Results == {"ok", "shut", "bad", "abort", "failed"}
Passes == {"cached", "source", "typed"}

\* The passphrase typed last, the one its pass tries.
Newest == typed[asked]

In(result) == {p \in left : work[p] = result}
Busy == {p \in left : work[p] \in {"opening", "using"}}

\* forEach starts a goroutine for every vault still shut.
Enter(pass, shut) ==
    /\ phase' = pass
    /\ work' = [p \in Paths |-> IF p \in shut THEN "waiting" ELSE "idle"]

Init ==
    /\ vault \in [Paths -> Passphrases \cup {Remembered, Damaged}]
    /\ source \in [Paths -> Passphrases \cup {GaveUp, Unrunnable}]
                    \cup {NoSource}
    /\ fails \in SUBSET Paths
    /\ phase = "cached"
    /\ left = Paths
    /\ work = [p \in Paths |-> "waiting"]
    /\ typed = [p \in {} |-> {}]
    /\ asked = 0
    /\ done = {} /\ skipped = {} /\ err = 0
    /\ handed = [p \in Paths |-> 0]
-----------------------------------------------------------------------------
(* A goroutine of a pass.                                                  *)

\* It takes a place in the semaphore; giving it back is part of its last step.
Take(p) ==
    /\ p \in left /\ work[p] = "waiting"
    /\ Cardinality(Busy) < Workers
    /\ work' = [work EXCEPT ![p] = "opening"]
    /\ UNCHANGED <<plan, phase, left, typed, asked, tally, handed>>

\* tryCache: whatever goes wrong only means the key is not there.
OpenCached(p) == IF vault[p] = Remembered THEN "using" ELSE "shut"

\* openVault: a file that is no vault is told from a wrong passphrase.
OpenWith(p, pass) ==
    CASE vault[p] = Damaged -> "bad"
      [] vault[p] = pass    -> "using"
      [] OTHER              -> "shut"

OpenSource(p) ==
    CASE source[p] = GaveUp     -> "bad"
      [] source[p] = Unrunnable -> "abort"
      [] OTHER                  -> OpenWith(p, source[p])

\* (defect) a pass tries the passphrase typed first
OpensFirst(p) ==
    CASE phase = "cached" -> OpenCached(p)
      [] phase = "source" -> OpenSource(p)
      [] phase = "typed"  -> OpenWith(p, typed[Min(DOMAIN typed)])

\* (defect) what was typed is tried on the vault it was asked about only
OpensAsked(p) ==
    CASE phase = "cached" -> OpenCached(p)
      [] phase = "source" -> OpenSource(p)
      [] phase = "typed"  -> IF p = asked THEN OpenWith(p, Newest) ELSE "shut"

Opens(p) ==
    CASE phase = "cached" -> OpenCached(p)
      [] phase = "source" -> OpenSource(p)
      [] phase = "typed"  -> OpenWith(p, Newest)

Open(p) ==
    /\ p \in left /\ work[p] = "opening"
    /\ work' = [work EXCEPT ![p] = Opens(p)]
    /\ UNCHANGED <<plan, phase, left, typed, asked, tally, handed>>

\* (defect) the goroutine records the error itself, so the first to fail counts
UseCounts(p) ==
    /\ p \in left /\ work[p] = "using"
    /\ work' = [work EXCEPT ![p] = IF p \in fails THEN "failed" ELSE "ok"]
    /\ handed' = [handed EXCEPT ![p] = @ + 1]
    /\ err' = IF p \in fails /\ err = 0 THEN p ELSE err
    /\ UNCHANGED <<plan, phase, left, typed, asked, done, skipped>>

Use(p) ==
    /\ p \in left /\ work[p] = "using"
    /\ work' = [work EXCEPT ![p] = IF p \in fails THEN "failed" ELSE "ok"]
    /\ handed' = [handed EXCEPT ![p] = @ + 1]
    /\ UNCHANGED <<plan, phase, left, typed, asked, tally>>
-----------------------------------------------------------------------------
(* Between passes: every goroutine is done.                                *)

Joined == \A p \in left : work[p] \in Results

\* The first failure in path order that stops the run, 0 if there is none.
Stopper ==
    LET stops == In("abort") \cup In("failed")
    IN  IF err # 0 \/ stops = {} THEN err ELSE Min(stops)

\* (defect) pass returns the vaults it was given
RemainingAll == left

Remaining == In("shut")

\* (defect) a vault that could not be read is dropped without a word
AddedUnread(wrong) ==
    /\ left' = Remaining \ wrong
    /\ done' = done \cup In("ok")
    /\ skipped' = skipped \cup wrong
    /\ err' = Stopper

\* pass adds up, in path order, what the goroutines hand back; shut is what
\* it leaves shut, wrong what eachVault gives up on besides.
Added(wrong) ==
    /\ left' = Remaining \ wrong
    /\ done' = done \cup In("ok")
    /\ skipped' = skipped \cup In("bad") \cup wrong
    /\ err' = Stopper

Over ==
    /\ phase' = "over"
    /\ work' = [p \in Paths |-> "idle"]

\* After the cached keys: the source if there is one, else the first prompt.
AfterCached ==
    /\ phase = "cached" /\ Joined
    /\ Added({})
    /\ IF err' # 0 \/ left' = {} THEN Over
       ELSE IF source # NoSource THEN Enter("source", left')
       ELSE Enter("ask", {})
    /\ UNCHANGED <<plan, typed, asked, handed>>

\* A source is asked once: what it could not open is skipped, unless the run
\* was stopped.
AfterSource ==
    /\ phase = "source" /\ Joined
    /\ Added(IF Stopper = 0 THEN Remaining ELSE {})
    /\ Over
    /\ UNCHANGED <<plan, typed, asked, handed>>

\* (defect) no vault is given up on
GivenUpNever == {}

\* The vault asked about, if what was typed for it did not open it.
GivenUp ==
    IF Stopper = 0 /\ Remaining # {} /\ Min(Remaining) = asked
    THEN {asked} ELSE {}

AfterTyped ==
    /\ phase = "typed" /\ Joined
    /\ Added(GivenUp)
    /\ IF err' # 0 \/ left' = {} THEN Over ELSE Enter("ask", {})
    /\ UNCHANGED <<plan, typed, asked, handed>>

\* The prompt for the first vault still shut is answered.
AskAnswer(p) ==
    /\ phase = "ask" /\ p = Min(left)
    /\ asked' = p
    /\ \E w \in Passphrases :
          typed' = [a \in DOMAIN typed \cup {p} |->
                       IF a = p THEN w ELSE typed[a]]
    /\ Enter("typed", left)
    /\ UNCHANGED <<plan, left, tally, handed>>

\* No terminal, end of input or an interrupt at the prompt.
PromptDies ==
    /\ phase = "ask"
    /\ err' = Min(left)
    /\ Over
    /\ UNCHANGED <<plan, left, typed, asked, done, skipped, handed>>

Goroutine(p) == Take(p) \/ Open(p) \/ Use(p)

Between ==
    \/ AfterCached \/ AfterSource \/ AfterTyped
    \/ \E p \in left : AskAnswer(p)
    \/ PromptDies

Next == (\E p \in Paths : Goroutine(p)) \/ Between

Spec == Init /\ [][Next]_vars

\* Goroutines that can run do, and the user answers the prompt or ends it.
FairSpec == Spec /\ WF_vars(Between) /\ \A p \in Paths : WF_vars(Goroutine(p))
-----------------------------------------------------------------------------
(* Properties                                                              *)

\* The variables keep the shape their Go counterparts have.
TypeOK ==
    /\ vault \in [Paths -> Passphrases \cup {Remembered, Damaged}]
    /\ source \in [Paths -> Passphrases \cup {GaveUp, Unrunnable}]
                    \cup {NoSource}
    /\ fails \subseteq Paths
    /\ phase \in Passes \cup {"ask", "over"}
    /\ left \subseteq Paths
    /\ work \in [Paths -> {"idle", "waiting", "opening", "using"} \cup Results]
    /\ DOMAIN typed \subseteq Paths
    /\ typed \in [DOMAIN typed -> Passphrases]
    /\ asked \in Paths \cup {0}
    /\ done \subseteq Paths /\ skipped \subseteq Paths
    /\ err \in Paths \cup {0}
    /\ handed \in [Paths -> Nat]

\* "A pass only has to try the newest passphrase, since the ones before it
\* have already failed on everything still shut" (chain.go:385): no vault
\* that waits for the next question opens with anything typed before.
NewestSuffices ==
    phase = "ask" =>
        \A p \in left, a \in DOMAIN typed : vault[p] # typed[a]

\* Every vault is accounted for: at the end of a run nothing stopped each one
\* is done or skipped and not both, and one that was stopped leaves out only
\* what no callback has finished.
Accounted ==
    phase = "over" =>
        /\ done \cap skipped = {}
        /\ done = {p \in Paths : handed[p] = 1 /\ p \notin fails}
        /\ err = 0 => done \cup skipped = Paths
        /\ skipped \cap {p \in Paths : handed[p] # 0} = {}

\* fn (a write to the OS key store) gets no vault twice, in whichever pass it
\* opened.
HandedOnce == \A p \in Paths : handed[p] <= 1

\* "A tree with three [passphrases] costs three [prompts] however they are
\* scattered" (README.md:262): two questions are about vaults with the same
\* passphrase only if the first was answered wrongly.
OnePromptPerPassphrase ==
    \A a, b \in DOMAIN typed :
        a < b /\ vault[a] = vault[b] /\ vault[a] # Damaged
            => typed[a] # vault[a]

\* "What schain counts and prints does not depend on which vault finished
\* first" (chain.go:443), and the prompts come in "the order schain has
\* always asked in" (chain.go:387): the run implements EachVaultPromise.
Promise == INSTANCE EachVaultPromise
    WITH result <- IF phase = "over"
                   THEN [done |-> done, skipped |-> skipped, err |-> err]
                   ELSE Unfinished

BatchKeepsPromise == Promise!Spec

\* However the vaults open or fail, the run comes to its end: no goroutine
\* waits for ever on the semaphore, and no question is asked for ever.
Ends == <>(phase = "over")
=============================================================================
