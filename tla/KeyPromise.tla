----------------------------- MODULE KeyPromise -----------------------------
(***************************************************************************)
(* What the remember cache promises about ONE vault's key, whatever OS     *)
(* store keeps it: a key is handed out only after a remember offered it,   *)
(* only while its deadline is ahead, and never again once it was           *)
(* withdrawn.  It may be withdrawn at any time.                            *)
(*                                                                         *)
(* KeyringLinux and KeychainDarwin implement this module.                  *)
(***************************************************************************)
EXTENDS Naturals

CONSTANTS
    Procs,     \* schain processes
    Nothing    \* no offer in hand

\* An offer is what one remember stored; expiry 0 is none.
Offer == [by : [proc : Procs, run : Nat, ttl : Nat, start : Nat],
          expiry : Nat]

VARIABLES
    now,       \* the clock
    ever,      \* offers made so far
    offers,    \* the offers that can still be fetched
    got,       \* the offer each process has fetched
    used       \* the offer each process last opened its vault with, and when

vars == <<now, ever, offers, got, used>>

\* The time the remember named, counted from when it was given.
Due(o) == o.by.start + o.by.ttl
InTime(o, t) == o.by.ttl = 0 \/ t < Due(o)

Init ==
    /\ now = 0 /\ ever = {} /\ offers = {}
    /\ got = [p \in Procs |-> Nothing]
    /\ used = [p \in Procs |-> Nothing]

Tick ==
    /\ now' = now + 1
    /\ offers' \subseteq offers
    /\ UNCHANGED <<ever, got, used>>

\* A new offer may displace the old one; one made before is never made again.
Put(o) ==
    /\ o \notin ever
    /\ ever' = ever \cup {o}
    /\ offers' \subseteq offers \cup {o}
    /\ UNCHANGED <<now, got, used>>

Withdraw ==
    /\ offers' \subseteq offers
    /\ UNCHANGED <<now, ever, got, used>>

Fetch(p) ==
    /\ \E o \in offers : got' = [got EXCEPT ![p] = o]
    /\ offers' \subseteq offers
    /\ UNCHANGED <<now, ever, used>>

Use(p) ==
    /\ got[p] # Nothing /\ InTime(got[p], now)
    /\ used' = [used EXCEPT ![p] = [offer |-> got[p], at |-> now]]
    /\ got' = [got EXCEPT ![p] = Nothing]
    /\ UNCHANGED <<now, ever, offers>>

\* An offer past its time, or in hand when its process dies.
Discard(p) ==
    /\ got' = [got EXCEPT ![p] = Nothing]
    /\ offers' \subseteq offers
    /\ UNCHANGED <<now, ever, used>>

Next ==
    \/ Tick \/ Withdraw
    \/ \E o \in ever' : Put(o)
    \/ \E p \in Procs : Fetch(p) \/ Use(p) \/ Discard(p)

Spec == Init /\ [][Next]_vars
=============================================================================
