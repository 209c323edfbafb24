---------------------------- MODULE UnlockPromise ----------------------------
(***************************************************************************)
(* What opening a chain promises: which passphrases it asks for, and which *)
(* vaults are open at the end.  There is no list of known passphrases      *)
(* here: an answer given once opens every vault it fits.                   *)
(***************************************************************************)
EXTENDS Naturals, Sequences

CONSTANTS
    N,            \* vaults from here to the root, nearest first
    Passphrases,
    Damaged       \* the passphrase of a file that is no vault

V == 1 .. N

VARIABLES
    pass,         \* the passphrase of each vault
    remembered,   \* vaults whose key is cached
    roots,        \* vaults with SCHAIN_ROOT
    inherit,      \* no SCHAIN_NO_INHERIT
    source,       \* is a passphrase source configured
    asked,        \* the questions: which vault, what answer
    result,       \* running, open or failed
    opened        \* at the end: the chain, root-most first

given == <<pass, remembered, roots, inherit, source>>
vars == <<given, asked, result, opened>>

Init ==
    /\ pass \in [V -> Passphrases \cup {Damaged}]
    /\ remembered \in SUBSET {v \in V : pass[v] # Damaged}
    /\ roots \in SUBSET V
    /\ inherit \in BOOLEAN /\ source \in BOOLEAN
    /\ asked = <<>> /\ result = "running" /\ opened = <<>>

\* The chain goes on past v.
Beyond(v) == v < N /\ inherit /\ v \notin roots

InChain(v) == \A u \in 1 .. v - 1 : Beyond(u)

Answered(v) == \E i \in DOMAIN asked : asked[i].answer = pass[v]

Opens(v) == v \in remembered \/ Answered(v)

\* v is the first vault that does not open with what is known.
Shut(v) == InChain(v) /\ ~Opens(v) /\ \A u \in 1 .. v - 1 : Opens(u)

\* A question is about the first vault still shut, unless an earlier answer
\* already showed that its file is no vault.
Ask(v, a) ==
    /\ result = "running" /\ ~source /\ Shut(v)
    /\ asked # <<>> => pass[v] # Damaged
    /\ asked' = Append(asked, [vault |-> v, answer |-> a])
    /\ result' = IF a = pass[v] THEN "running" ELSE "failed"
    /\ UNCHANGED <<given, opened>>

Succeed ==
    /\ result = "running" /\ result' = "open"
    /\ \E v \in V : /\ InChain(v) /\ ~Beyond(v)
                    /\ ~source => \A u \in 1 .. v : Opens(u)
                    /\ opened' = [i \in 1 .. v |-> v + 1 - i]
    /\ UNCHANGED <<given, asked>>

\* A dead prompt, a damaged vault, or a source without the right answer.
GiveUp ==
    /\ result = "running" /\ result' = "failed"
    /\ \E v \in V : InChain(v) /\ v \notin remembered /\ (source \/ Shut(v))
    /\ UNCHANGED <<given, asked, opened>>

Next ==
    \/ \E v \in V, a \in Passphrases : Ask(v, a)
    \/ Succeed \/ GiveUp

Spec == Init /\ [][Next]_vars
=============================================================================
