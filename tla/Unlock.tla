------------------------------- MODULE Unlock -------------------------------
(***************************************************************************)
(* Opening the chain of vaults for a directory, nearest first: openChain,  *)
(* loadChain and unlockKnown.  One process, one command; what varies is    *)
(* what is cached, what the vaults' passphrases are and what the user or   *)
(* the passphrase source answers.                                          *)
(*                                                                         *)
(* A typed passphrase is a buffer that must be overwritten in the end.     *)
(* known lists the buffers that opened something, in an array that is      *)
(* rearranged in place while the next vault walks it.                      *)
(***************************************************************************)
EXTENDS Naturals, Sequences

CONSTANTS
    N,            \* vaults from here to the root, nearest first
    Passphrases,
    Damaged       \* the passphrase of a file that is no vault

ASSUME NAssumption == N \in Nat \ {0}
ASSUME DamagedAssumption == Damaged \notin Passphrases

V == 1 .. N

VARIABLES
    pass,         \* the passphrase of each vault
    remembered,   \* vaults whose key is cached
    roots,        \* vaults with SCHAIN_ROOT
    inherit,      \* no SCHAIN_NO_INHERIT
    source,       \* is a passphrase source configured
    pc,           \* where unlockKnown is
    at,           \* the vault being opened
    i,            \* the known passphrase being tried
    typed,        \* buffers: which vault was asked about, what was typed
    known,        \* the buffers that opened a vault, by their number
    wiped,        \* the buffers overwritten
    open          \* the vaults opened, root-most first

given == <<pass, remembered, roots, inherit, source>>
vars == <<given, pc, at, i, typed, known, wiped, open>>

Init ==
    /\ pass \in [V -> Passphrases \cup {Damaged}]
    /\ remembered \in SUBSET {v \in V : pass[v] # Damaged}
    /\ roots \in SUBSET V
    /\ inherit \in BOOLEAN /\ source \in BOOLEAN
    /\ pc = "cached" /\ at = 1 /\ i = 1
    /\ typed = <<>> /\ known = <<>> /\ wiped = {} /\ open = <<>>
-----------------------------------------------------------------------------
\* (defect) SCHAIN_ROOT takes its own vault out of the chain
LastAbove == at = N \/ ~inherit \/ at + 1 \in roots

\* The walk ends with the vault just opened.
Last == at = N \/ ~inherit \/ at \in roots

\* A vault opened, with the list as it is now: on to the next, if any.
Opened(list, buffers) ==
    /\ open' = <<at>> \o open
    /\ typed' = buffers /\ known' = list
    /\ pc' = IF Last THEN "done" ELSE "cached"
    /\ at' = IF Last THEN at ELSE at + 1
    /\ i' = 1
    /\ UNCHANGED wiped

Known == {known[j] : j \in DOMAIN known}

\* The chain is handed out; wipeAll.
Done ==
    /\ pc = "done" /\ pc' = "open"
    /\ wiped' = wiped \cup Known /\ known' = <<>>
    /\ UNCHANGED <<given, at, i, typed, open>>

\* It did not: everything opened so far is closed, every passphrase wiped.
Fail(buffers, extra) ==
    /\ pc' = "failed" /\ typed' = buffers
    /\ wiped' = wiped \cup Known \cup extra
    /\ known' = <<>> /\ open' = <<>>
    /\ UNCHANGED <<at, i>>

Goto(next) == pc' = next /\ UNCHANGED <<at, typed, known, wiped, open>>

\* A cached key opens the vault, or the passphrases are next.
Cached ==
    /\ pc = "cached"
    /\ IF at \in remembered
       THEN Opened(known, typed)
       ELSE /\ Goto(IF source THEN "source"
                    ELSE IF known = <<>> THEN "prompt" ELSE "trying")
            /\ i' = 1
    /\ UNCHANGED given

\* The source's answer for this vault is the answer.
Source ==
    /\ pc = "source"
    /\ \/ pass[at] # Damaged /\ Opened(known, typed)
       \/ Fail(typed, {})
    /\ UNCHANGED given

\* (defect) the passphrase that worked is put first over whatever was there
ToFrontOver(list, k) == [list EXCEPT ![1] = list[k]]

\* copy(k[1:i+1], k[:i]); k[0] = p
ToFront(list, k) ==
    [j \in DOMAIN list |-> IF j = 1 THEN list[k]
                           ELSE IF j <= k THEN list[j - 1] ELSE list[j]]

\* The passphrase at i is tried; a damaged vault fails on the first.
Try ==
    /\ pc = "trying"
    /\ \/ /\ typed[known[i]].answer = pass[at]
          /\ Opened(ToFront(known, i), typed)
       \/ /\ pass[at] = Damaged
          /\ Fail(typed, {})
       \/ /\ pass[at] \notin {Damaged, typed[known[i]].answer}
          /\ IF i < Len(known)
             THEN i' = i + 1 /\ UNCHANGED <<pc, at, typed, known, wiped, open>>
             ELSE Goto("prompt") /\ UNCHANGED i
    /\ UNCHANGED given

\* (defect) a passphrase that opened nothing is not overwritten
PromptUnwiped(a) ==
    /\ pc = "prompt"
    /\ LET buffers == Append(typed, [vault |-> at, answer |-> a])
       IN  IF a = pass[at]
           THEN Opened(<<Len(buffers)>> \o known, buffers)
           ELSE Fail(buffers, {})
    /\ UNCHANGED given

\* The user is asked about this vault.
Prompt(a) ==
    /\ pc = "prompt"
    /\ LET buffers == Append(typed, [vault |-> at, answer |-> a])
       IN  IF a = pass[at]
           THEN Opened(<<Len(buffers)>> \o known, buffers)
           ELSE Fail(buffers, {Len(buffers)})
    /\ UNCHANGED given

PromptDies == pc = "prompt" /\ Fail(typed, {}) /\ UNCHANGED given

Next ==
    \/ Cached \/ Source \/ Try \/ PromptDies \/ Done
    \/ \E a \in Passphrases : Prompt(a)

Spec == Init /\ [][Next]_vars
-----------------------------------------------------------------------------
(* Properties                                                              *)

Over == pc \in {"open", "failed"}

\* Every variable keeps the shape it has in the code; known lists buffers.
TypeOK ==
    /\ pass \in [V -> Passphrases \cup {Damaged}]
    /\ remembered \subseteq V /\ roots \subseteq V
    /\ inherit \in BOOLEAN /\ source \in BOOLEAN
    /\ pc \in {"cached", "source", "trying", "prompt", "done", "open", "failed"}
    /\ at \in V /\ i \in Nat \ {0}
    /\ typed \in Seq([vault : V, answer : Passphrases])
    /\ known \in Seq(DOMAIN typed)
    /\ wiped \subseteq DOMAIN typed /\ open \in Seq(V)
    /\ pc = "trying" => i <= Len(known)

\* "A chain created with one passphrase asks once" (chain.go:296): nobody is
\* asked about a vault that an earlier answer opens.
OnePrompt ==
    \A j, k \in DOMAIN typed :
        j < k => pass[typed[k].vault] # typed[j].answer

\* Moving passphrases around in the list loses none: when the command goes
\* on, every buffer typed into is overwritten, and unless the whole chain
\* opened no vault's key and secrets are left in memory either.
NothingLeft ==
    /\ Over => wiped = DOMAIN typed
    /\ pc = "failed" => open = <<>>

Promise == INSTANCE UnlockPromise WITH
    asked <- typed,
    result <- IF Over THEN pc ELSE "running",
    opened <- IF pc = "open" THEN open ELSE <<>>

\* loadChain implements UnlockPromise.
ChainKeepsPromise == Promise!Spec
=============================================================================
