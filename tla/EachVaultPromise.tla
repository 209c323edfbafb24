-------------------------- MODULE EachVaultPromise --------------------------
(***************************************************************************)
(* What a batch command (remember --all) promises: which questions it asks *)
(* and what it reports, said without workers and passes.                   *)
(*                                                                         *)
(* A question is about the first vault that nothing known opens; the run   *)
(* is over when there is none, or when something failed that stops it; and *)
(* what it reports follows from the vaults and the answers alone.          *)
(***************************************************************************)
EXTENDS Naturals, FiniteSetsExt

CONSTANTS
    N,            \* vaults, numbered in path order
    Passphrases,
    Remembered,   \* a vault whose cached key opens it
    Damaged,      \* a file that is no vault
    GaveUp,       \* the helper refuses to answer for one vault
    Unrunnable,   \* the helper cannot run, the passphrase file cannot be read
    NoSource,     \* no helper and no file: passphrases are typed
    Unfinished    \* no result yet

Paths == 1 .. N

VARIABLES
    vault,    \* what opens each vault: a passphrase, or one of the above
    source,   \* what the configured source answers for each vault
    fails,    \* the vaults whose callback fails
    typed,    \* what was typed for each vault that was asked about
    result    \* what the run reported

plan == <<vault, source, fails>>
vars == <<plan, typed, result>>

Report(done, skipped, err) ==
    [done |-> done, skipped |-> skipped, err |-> err]

FirstOf(S) == IF S = {} THEN 0 ELSE Min(S)

Cached == {p \in Paths : vault[p] = Remembered}

Init ==
    /\ vault \in [Paths -> Passphrases \cup {Remembered, Damaged}]
    /\ source \in [Paths -> Passphrases \cup {GaveUp, Unrunnable}]
                    \cup {NoSource}
    /\ fails \in SUBSET Paths
    /\ typed = [p \in {} |-> {}]
    /\ result = Unfinished
-----------------------------------------------------------------------------
Asked == DOMAIN typed

\* A vault given up on after its own question stays so, whatever is typed
\* later.
Opened ==
    Cached \cup {p \in Paths : \E a \in Asked :
                    typed[a] = vault[p] /\ (p \in Asked => a <= p)}

\* That a file is no vault shows when the first passphrase is tried on it.
Broken == IF Asked = {} THEN {} ELSE {p \in Paths : vault[p] = Damaged}

Shut == Paths \ (Opened \cup Broken \cup Asked)

Failed == Opened \cap fails

Ask ==
    /\ result = Unfinished /\ source = NoSource
    /\ Failed = {} /\ Shut # {}
    /\ \E w \in Passphrases :
          typed' = [a \in Asked \cup {Min(Shut)} |->
                       IF a \in Asked THEN typed[a] ELSE w]
    /\ UNCHANGED <<plan, result>>

\* The prompt dies: the run ends there.
Die ==
    /\ result = Unfinished /\ source = NoSource
    /\ Failed = {} /\ Shut # {}
    /\ result' = Report(Opened, Broken \cup (Asked \ Opened), Min(Shut))
    /\ UNCHANGED <<plan, typed>>

\* Nothing is left to ask, or a callback failed: then the last question is
\* not counted as answered wrongly.
FinishTyped ==
    /\ result = Unfinished /\ source = NoSource
    /\ Failed # {} \/ Shut = {}
    /\ result' = Report(Opened \ fails,
                        Broken \cup {a \in Asked \ Opened :
                                        Failed = {} \/ a # Max(Asked)},
                        FirstOf(Failed))
    /\ UNCHANGED <<plan, typed>>

\* With a source every vault is tried once, with its own answer.
FinishSource ==
    /\ result = Unfinished /\ source # NoSource
    /\ LET rest == Paths \ Cached
           dead == {p \in rest : source[p] = Unrunnable}
           open == Cached \cup {p \in rest : source[p] = vault[p]}
           bad  == {p \in rest \ dead : source[p] = GaveUp
                                        \/ vault[p] = Damaged}
           stop == dead \cup (open \cap fails)
       IN  result' =
             IF Cached \cap fails # {}
             THEN Report(Cached \ fails, {}, Min(Cached \cap fails))
             ELSE Report(open \ fails,
                         IF stop = {} THEN Paths \ open ELSE bad,
                         FirstOf(stop))
    /\ UNCHANGED <<plan, typed>>

Next == Ask \/ Die \/ FinishTyped \/ FinishSource

Spec == Init /\ [][Next]_vars
=============================================================================
