------------------------- MODULE KeyringLinuxProofs -------------------------
(***************************************************************************)
(* What KeyringLinux guarantees for any number of processes, durations,    *)
(* commands and failing calls: no key is used after its time, a forgotten  *)
(* key and one whose store failed are gone, a finished store is open to    *)
(* every session, and the whole implements KeyPromise.                     *)
(***************************************************************************)
EXTENDS KeyringLinux, TLAPS

USE TTLAssumption, CommandsAssumption, BoundsAssumption, NothingAssumption
-----------------------------------------------------------------------------
(* The sequence of keys                                                    *)

\* A key is written over.
LEMMA Overwritten ==
    ASSUME keys \in Seq(Key), NEW i \in 1 .. Len(keys), NEW k \in Key,
           keys' = [keys EXCEPT ![i] = k]
    PROVE  /\ keys' \in Seq(Key) /\ Len(keys') = Len(keys)
           /\ keys'[i] = k
           /\ \A j \in 1 .. Len(keys) : j # i => keys'[j] = keys[j]
OBVIOUS

\* A key is made.
LEMMA Appended ==
    ASSUME keys \in Seq(Key), NEW k \in Key, keys' = Append(keys, k)
    PROVE  /\ keys' \in Seq(Key) /\ Len(keys') = Len(keys) + 1
           /\ keys'[Len(keys) + 1] = k
           /\ \A j \in 1 .. Len(keys) : keys'[j] = keys[j]
OBVIOUS

\* The keys after a step: as they are, one written over or one more.
Grown(i, k) ==
    /\ keys' \in Seq(Key) /\ i \in 1 .. Len(keys') /\ keys'[i] = k
    /\ Len(keys) \in Nat /\ Len(keys') \in {Len(keys), Len(keys) + 1}
    /\ Len(keys') > Len(keys) => i = Len(keys) + 1
    /\ \A j \in 1 .. Len(keys) : j # i => keys'[j] = keys[j]

LEMMA OverwrittenGrown ==
    ASSUME keys \in Seq(Key), NEW i \in 1 .. Len(keys), NEW k \in Key,
           keys' = [keys EXCEPT ![i] = k]
    PROVE  Grown(i, k) /\ Len(keys') = Len(keys)
BY Overwritten DEF Grown

LEMMA AppendedGrown ==
    ASSUME keys \in Seq(Key), NEW k \in Key, keys' = Append(keys, k)
    PROVE  Grown(Len(keys) + 1, k) /\ Len(keys') = Len(keys) + 1
BY Appended DEF Grown
-----------------------------------------------------------------------------
(* Types                                                                   *)

LEMMA InitType == Init => TypeOK
<1> SUFFICES ASSUME Init PROVE TypeOK
  OBVIOUS
<1>0. keys \in Seq(Key) /\ Len(keys) = 0 /\ link = 0
  BY DEF Init
<1>1. /\ keys \in Seq(Key) /\ link \in 0 .. Len(keys)
  BY <1>0
<1>8. /\ now \in Nat /\ faults \in Nat /\ keeps \in BOOLEAN
      /\ added \subseteq Payload /\ gone \subseteq Payload
      /\ undone \subseteq Payload
  BY DEF Init
<1>2. /\ pc \in [Procs -> Phases] /\ run \in [Procs -> Nat]
      /\ ttl \in [Procs -> Nat]
  BY DEF Init, Phases
<1>3. /\ cmd \in [Procs -> Commands \cup {"none"}]
      /\ pay \in [Procs -> Payload \cup {Nothing}]
  BY DEF Init
<1>4. id \in [Procs -> 0 .. Len(keys)]
  BY <1>0 DEF Init
<1>5. clean \in [Procs -> BOOLEAN] /\ outcome \in [Procs -> Outcomes]
  BY DEF Init, Outcomes
<1>6. /\ used \in [Procs -> [offer : Payload, at : Nat] \cup {Nothing}]
      /\ barred \in [Procs -> SUBSET Payload]
  BY DEF Init
<1>7. \A p \in Procs : pc[p] = "idle"
  BY DEF Init
<1> QED
  BY <1>1, <1>2, <1>3, <1>4, <1>5, <1>6, <1>7, <1>8 DEF TypeOK

\* What remember stores has the shape of a payload.
LEMMA StampedType ==
    ASSUME TypeOK, NEW p \in Procs, NEW t \in TTLs
    PROVE  /\ Stamped(p, t) \in Payload /\ Stamped(p, t) # Nothing
           /\ Stamped(p, t).by.proc = p /\ Stamped(p, t).by.run = run[p] + 1
BY DEF Stamped, Payload, Attempt, TypeOK

\* The key add_key leaves: which one, and that it holds the payload.
LEMMA AddedKey ==
    ASSUME TypeOK, NEW p \in Procs, Add(p)
    PROVE  \E i, k : /\ Grown(i, k) /\ k \in Key /\ k.payload = pay[p]
                     /\ id' = [id EXCEPT ![p] = i]
                     /\ link' = i /\ link' \in 1 .. Len(keys')
                     /\ ~k.revoked
                     /\ i \in 1 .. Len(keys) => i = link /\ k.wide = keys[i].wide
<1>1. pay[p] \in Payload /\ keys \in Seq(Key) /\ link \in 0 .. Len(keys)
  BY DEF Add, TypeOK
<1>2. CASE Update(p)
  <2>1. link \in 1 .. Len(keys) /\ keys[link] \in Key /\ ~keys[link].revoked
    BY <1>1, <1>2 DEF Update
  <2>2. PICK t \in {0} \cup (IF Alive(link) THEN {keys[link].timeout} ELSE {}) :
          keys' = [keys EXCEPT ![link].payload = pay[p], ![link].timeout = t]
    BY <1>2 DEF Update
  <2> DEFINE k == [keys[link] EXCEPT !.payload = pay[p], !.timeout = t]
  <2>3. t \in Nat
    BY <2>1, <2>2 DEF Key
  <2>4. /\ k \in Key /\ k.payload = pay[p] /\ ~k.revoked
        /\ k.wide = keys[link].wide
    BY <1>1, <2>1, <2>3 DEF Key
  <2>5. keys' = [keys EXCEPT ![link] = k]
    BY <2>2
  <2> HIDE DEF k
  <2>6. Grown(link, k) /\ Len(keys') = Len(keys)
    BY <1>1, <2>1, <2>4, <2>5, OverwrittenGrown
  <2>7. id' = [id EXCEPT ![p] = link] /\ link' = link
    BY <1>2 DEF Update
  <2> QED
    BY <2>1, <2>4, <2>6, <2>7
<1>3. CASE Insert(p)
  <2> DEFINE k == [payload |-> pay[p], timeout |-> 0,
                   wide |-> FALSE, revoked |-> FALSE]
             i == Len(keys) + 1
  <2>1. k \in Key /\ k.payload = pay[p] /\ ~k.revoked
    BY <1>1 DEF Key
  <2>2. keys' = Append(keys, k) /\ id' = [id EXCEPT ![p] = i] /\ link' = i
    BY <1>3 DEF Insert
  <2> HIDE DEF k
  <2>3. Grown(i, k) /\ Len(keys') = i
    BY <1>1, <2>1, <2>2, AppendedGrown
  <2>4. i \notin 1 .. Len(keys) /\ i \in 1 .. Len(keys')
    BY <1>1, <2>3
  <2> HIDE DEF i
  <2> QED
    BY <2>1, <2>2, <2>3, <2>4
<1> QED
  BY <1>2, <1>3 DEF Add

\* The three calls that change a key, each in one place.
Same(i, k) ==
    k \in Key /\ Grown(i, k) /\ Len(keys') = Len(keys) /\ i \in 1 .. Len(keys)

LEMMA PermKey ==
    ASSUME TypeOK, NEW p \in Procs, pc[p] = "perm",
           keys' = [keys EXCEPT ![id[p]].wide = TRUE]
    PROVE  Same(id[p], [keys[id[p]] EXCEPT !.wide = TRUE])
<1>1. keys \in Seq(Key) /\ id[p] \in 1 .. Len(keys) /\ keys[id[p]] \in Key
  BY DEF TypeOK
<1>2. [keys[id[p]] EXCEPT !.wide = TRUE] \in Key
  BY <1>1 DEF Key
<1> QED
  BY <1>1, <1>2, OverwrittenGrown DEF Same

LEMMA TimedKey ==
    ASSUME TypeOK, NEW p \in Procs, pc[p] = "timing",
           keys' = [keys EXCEPT ![id[p]].timeout = Timeout(p)]
    PROVE  Same(id[p], [keys[id[p]] EXCEPT !.timeout = Timeout(p)])
<1>1. keys \in Seq(Key) /\ id[p] \in 1 .. Len(keys) /\ keys[id[p]] \in Key
  BY DEF TypeOK
<1>2. Timeout(p) \in Nat
  BY DEF TypeOK, Timeout
<1>3. [keys[id[p]] EXCEPT !.timeout = Timeout(p)] \in Key
  BY <1>1, <1>2 DEF Key
<1> QED
  BY <1>1, <1>3, OverwrittenGrown DEF Same

LEMMA RevokedKey ==
    ASSUME TypeOK, NEW p \in Procs, pc[p] = "revoking",
           keys' = [keys EXCEPT ![id[p]].revoked = TRUE]
    PROVE  Same(id[p], [keys[id[p]] EXCEPT !.revoked = TRUE])
<1>1. keys \in Seq(Key) /\ id[p] \in 1 .. Len(keys) /\ keys[id[p]] \in Key
  BY DEF TypeOK
<1>2. [keys[id[p]] EXCEPT !.revoked = TRUE] \in Key
  BY <1>1 DEF Key
<1> QED
  BY <1>1, <1>2, OverwrittenGrown DEF Same

\* What each type needs of the keys holds again when they grew.
LEMMA GrownType ==
    ASSUME TypeOK, NEW i, NEW k, Grown(i, k)
    PROVE  /\ keys' \in Seq(Key)
           /\ 0 .. Len(keys) \subseteq 0 .. Len(keys')
           /\ i \in 0 .. Len(keys') /\ i # 0
BY DEF TypeOK, Grown

LEMMA NextType == TypeOK /\ [Next]_vars => TypeOK'
<1> SUFFICES ASSUME TypeOK, [Next]_vars PROVE TypeOK'
  OBVIOUS
<1> USE DEF Phases, Outcomes, Goto, Fault, kernel, local, ghosts
<1>1. CASE Tick
  BY <1>1 DEF Tick, TypeOK
<1>2. ASSUME NEW p \in Procs, Remember(p) PROVE TypeOK'
  <2>1. PICK t \in TTLs : /\ ttl' = [ttl EXCEPT ![p] = t]
                          /\ pay' = [pay EXCEPT ![p] = Stamped(p, t)]
    BY <1>2 DEF Remember
  <2>2. Stamped(p, t) \in Payload /\ Stamped(p, t) # Nothing
    BY StampedType
  <2> QED
    BY <1>2, <2>1, <2>2 DEF Remember, Begin, TypeOK
<1>3. ASSUME NEW p \in Procs, Open(p) PROVE TypeOK'
  BY <1>3 DEF Open, Begin, Found, TypeOK
<1>4. ASSUME NEW p \in Procs, Forget(p) PROVE TypeOK'
  BY <1>4 DEF Forget, Begin, TypeOK
<1>5. ASSUME NEW p \in Procs, Kill(p) PROVE TypeOK'
  BY <1>5 DEF Kill, End, TypeOK
<1>6. ASSUME NEW p \in Procs, Add(p) PROVE TypeOK'
  <2>1. PICK i, k : /\ Grown(i, k) /\ id' = [id EXCEPT ![p] = i]
                    /\ link' = i /\ link' \in 1 .. Len(keys')
    BY <1>6, AddedKey
  <2>2. /\ keys' \in Seq(Key) /\ i \in 0 .. Len(keys') /\ i # 0
        /\ 0 .. Len(keys) \subseteq 0 .. Len(keys')
    BY <2>1, GrownType
  <2>3. id' \in [Procs -> 0 .. Len(keys')] /\ id'[p] # 0
    BY <2>1, <2>2 DEF TypeOK
  <2>4. /\ pc' = [pc EXCEPT ![p] = "perm"] /\ pay[p] # Nothing
        /\ added' = added \cup {pay[p]} /\ pay[p] \in Payload
        /\ UNCHANGED <<now, run, cmd, ttl, pay, clean, outcome, used, faults,
                       gone, undone, barred, keeps>>
    BY <1>6 DEF Add, TypeOK
  <2>5. \A q \in Procs \ {p} : pc'[q] = pc[q] /\ id'[q] = id[q]
    BY <2>1, <2>4 DEF TypeOK
  <2>6. \A q \in Procs :
          /\ pc'[q] \in {"perm", "timing", "revoking", "unlinking", "reading",
                          "removing"} => id'[q] # 0
          /\ pc'[q] \in {"adding", "perm", "timing", "revoking", "unlinking",
                          "checking"} => pay'[q] # Nothing
    BY <2>3, <2>4, <2>5 DEF TypeOK
  <2>7. link' \in 0 .. Len(keys')
    BY <2>1, <2>2
  <2>8. pc' \in [Procs -> Phases] /\ added' \subseteq Payload
    BY <2>4 DEF TypeOK
  <2> QED
    BY <2>2, <2>3, <2>4, <2>6, <2>7, <2>8 DEF TypeOK
<1>7. ASSUME NEW p \in Procs, AddFails(p) PROVE TypeOK'
  BY <1>7 DEF AddFails, End, TypeOK
<1>8. ASSUME NEW p \in Procs, SetPerm(p) PROVE TypeOK'
  <2>1. keys' \in Seq(Key) /\ Len(keys') = Len(keys)
    <3>1. CASE keys' = [keys EXCEPT ![id[p]].wide = TRUE]
      BY <1>8, <3>1, PermKey DEF SetPerm, Same, Grown
    <3> QED
      BY <1>8, <3>1 DEF SetPerm, TypeOK
  <2>2. faults' \in Nat
    BY <1>8 DEF SetPerm, CallFails, TypeOK
  <2> QED
    BY <1>8, <2>1, <2>2 DEF SetPerm, TypeOK
<1>9. ASSUME NEW p \in Procs, SetTimeout(p) PROVE TypeOK'
  <2>1. keys' \in Seq(Key) /\ Len(keys') = Len(keys)
    BY <1>9, TimedKey DEF SetTimeout, Same, Grown
  <2> QED
    BY <1>9, <2>1 DEF SetTimeout, End, TypeOK
<1>10. ASSUME NEW p \in Procs, SetTimeoutFails(p) PROVE TypeOK'
  BY <1>10 DEF SetTimeoutFails, CallFails, TypeOK
<1>11. ASSUME NEW p \in Procs, Revoke(p) PROVE TypeOK'
  <2>1. keys' \in Seq(Key) /\ Len(keys') = Len(keys)
    <3>1. CASE keys' = [keys EXCEPT ![id[p]].revoked = TRUE]
      BY <1>11, <3>1, RevokedKey DEF Revoke, Same, Grown
    <3> QED
      BY <1>11, <3>1 DEF Revoke, TypeOK
  <2>2. faults' \in Nat
    BY <1>11 DEF Revoke, CallFails, TypeOK
  <2> QED
    BY <1>11, <2>1, <2>2 DEF Revoke, TypeOK
<1>12. ASSUME NEW p \in Procs, Unlink(p) PROVE TypeOK'
  <2>1. undone' \subseteq Payload
    BY <1>12 DEF Unlink, TypeOK
  <2> QED
    BY <1>12, <2>1 DEF Unlink, End, TypeOK
<1>13. ASSUME NEW p \in Procs, Read(p) PROVE TypeOK'
  <2>1. id[p] \in 1 .. Len(keys) /\ keys \in Seq(Key)
    BY <1>13 DEF Read, TypeOK
  <2>2. keys[id[p]] \in Key
    BY <2>1
  <2>3. keys[id[p]].payload \in Payload /\ keys[id[p]].payload # Nothing
    BY <2>2 DEF Key
  <2> QED
    BY <1>13, <2>3 DEF Read, TypeOK
<1>14. ASSUME NEW p \in Procs, ReadFails(p) PROVE TypeOK'
  BY <1>14 DEF ReadFails, CallFails, End, TypeOK
<1>15. ASSUME NEW p \in Procs, Check(p) PROVE TypeOK'
  <2>1. CASE Expired(p)
    BY <1>15, <2>1 DEF Check, TypeOK
  <2>2. CASE ~Expired(p)
    <3>1. pay[p] \in Payload /\ now \in Nat
      BY <1>15 DEF Check, TypeOK
    <3>2. [offer |-> pay[p], at |-> now] \in [offer : Payload, at : Nat]
      BY <3>1
    <3>3. used' \in [Procs -> [offer : Payload, at : Nat] \cup {Nothing}]
      BY <1>15, <2>2, <3>2 DEF Check, TypeOK
    <3>4. End(p, "opened") /\ UNCHANGED <<kernel, faults, ghosts>>
      BY <1>15, <2>2 DEF Check
    <3> HIDE DEF Expired
    <3> QED
      BY <3>3, <3>4 DEF End, TypeOK, kernel, ghosts
  <2> QED
    BY <2>1, <2>2
<1>16. ASSUME NEW p \in Procs, ForgetSearch(p) PROVE TypeOK'
  <2>1. CASE Found /\ id' = [id EXCEPT ![p] = link]
    BY <1>16, <2>1 DEF ForgetSearch, Found, End, TypeOK
  <2>2. CASE ~Found /\ End(p, "miss")
    BY <1>16, <2>2 DEF ForgetSearch, End, TypeOK
  <2> QED
    BY <1>16, <2>1, <2>2 DEF ForgetSearch
<1>17. ASSUME NEW p \in Procs, ForgetUnlink(p) PROVE TypeOK'
  <2>1. gone' \subseteq Payload /\ faults' \in Nat /\ link' \in 0 .. Len(keys)
    BY <1>17 DEF ForgetUnlink, TypeOK
  <2>2. UNCHANGED <<now, keys, used, added, undone, barred, keeps>>
    BY <1>17 DEF ForgetUnlink
  <2>3. PICK how \in {"forgot", "error"} : End(p, how)
    BY <1>17 DEF ForgetUnlink
  <2> QED
    BY <2>1, <2>2, <2>3 DEF End, TypeOK
<1>18. CASE UNCHANGED vars
  BY <1>18 DEF vars, TypeOK
<1> QED
  BY <1>1, <1>2, <1>3, <1>4, <1>5, <1>6, <1>7, <1>8, <1>9, <1>10, <1>11,
     <1>12, <1>13, <1>14, <1>15, <1>16, <1>17, <1>18 DEF Next, Step

\* The variables keep their types.
THEOREM TypeCorrect == Spec => []TypeOK
BY InitType, NextType, PTL DEF Spec
-----------------------------------------------------------------------------
(* What a step leaves of the keys there are                                *)

\* Every payload stays where it is and nothing dead comes back.
Steady ==
    /\ keys \in Seq(Key) /\ keys' \in Seq(Key) /\ Len(keys') = Len(keys)
    /\ \A j \in 1 .. Len(keys) :
          /\ keys'[j].payload = keys[j].payload
          /\ keys[j].wide => keys'[j].wide
          /\ keys[j].revoked => keys'[j].revoked
          /\ Alive(j)' => Alive(j)

\* add_key puts the payload in hand in one key, which the keyring then has.
AddsAt(p, i) ==
    /\ keys \in Seq(Key) /\ keys' \in Seq(Key)
    /\ i \in 1 .. Len(keys') /\ link' = i /\ id' = [id EXCEPT ![p] = i]
    /\ keys'[i].payload = pay[p]
    /\ \A j \in 1 .. Len(keys') : j # i => j \in 1 .. Len(keys) /\ keys'[j] = keys[j]
    /\ \A j \in 1 .. Len(keys) :
          /\ j \in 1 .. Len(keys')
          /\ keys[j].wide => keys'[j].wide
          /\ keys[j].revoked => keys'[j].revoked

LEMMA AddsSomewhere ==
    ASSUME TypeOK, NEW p \in Procs, Add(p)
    PROVE  \E i : AddsAt(p, i)
<1>1. PICK i, k : /\ Grown(i, k) /\ k \in Key /\ k.payload = pay[p]
                  /\ id' = [id EXCEPT ![p] = i]
                  /\ link' = i /\ link' \in 1 .. Len(keys') /\ ~k.revoked
                  /\ i \in 1 .. Len(keys) => i = link /\ k.wide = keys[i].wide
  BY AddedKey
<1>2. keys \in Seq(Key) /\ keys' \in Seq(Key) /\ i \in 1 .. Len(keys')
  BY <1>1 DEF TypeOK, Grown
<1>3. \A j \in 1 .. Len(keys') : j # i => j \in 1 .. Len(keys) /\ keys'[j] = keys[j]
  BY <1>1, <1>2 DEF Grown
<1>4. \A j \in 1 .. Len(keys) : j \in 1 .. Len(keys')
  BY <1>1, <1>2 DEF Grown
<1>5. i \in 1 .. Len(keys) => ~keys[i].revoked
  <2>1. CASE Update(p)
    BY <1>1, <2>1 DEF Update
  <2>2. CASE Insert(p)
    <3>1. link' = Len(keys) + 1
      BY <2>2 DEF Insert
    <3> QED
      BY <1>1, <1>2, <3>1
  <2> QED
    BY <2>1, <2>2 DEF Add
<1>6. ASSUME NEW j \in 1 .. Len(keys)
      PROVE  (keys[j].wide => keys'[j].wide) /\ (keys[j].revoked => keys'[j].revoked)
  <2>1. CASE j # i
    BY <2>1, <1>3, <1>4
  <2>2. CASE j = i
    <3>1. keys'[i] = k /\ k.wide = keys[i].wide /\ ~keys[i].revoked
      BY <2>2, <1>1, <1>5 DEF Grown
    <3> QED
      BY <2>2, <3>1
  <2> QED
    BY <2>1, <2>2
<1>7. keys'[i].payload = pay[p]
  BY <1>1 DEF Grown
<1>8. AddsAt(p, i)
  BY <1>1, <1>2, <1>3, <1>4, <1>6, <1>7 DEF AddsAt
<1> QED
  BY <1>8

\* A key of which only one field changes, which is no older timeout.
LEMMA SteadySame ==
    ASSUME TypeOK, NEW i, NEW k, Same(i, k), UNCHANGED now,
           k.payload = keys[i].payload, keys[i].wide => k.wide,
           keys[i].revoked => k.revoked, Alive(i) \/ k.revoked
    PROVE  Steady
<1>1. keys \in Seq(Key) /\ keys' \in Seq(Key) /\ Len(keys') = Len(keys)
  BY DEF TypeOK, Same, Grown
<1>2. keys'[i] = k /\ \A j \in 1 .. Len(keys) : j # i => keys'[j] = keys[j]
  BY DEF Same, Grown
<1>3. \A j \in 1 .. Len(keys) : Alive(j)' => Alive(j)
  BY <1>2 DEF Alive
<1> QED
  BY <1>1, <1>2, <1>3 DEF Steady

LEMMA SteadyUnchanged ==
    ASSUME TypeOK, UNCHANGED <<now, keys>>
    PROVE  Steady
BY DEF TypeOK, Steady, Alive

LEMMA SteadyTick ==
    ASSUME TypeOK, Tick
    PROVE  Steady
<1>1. keys \in Seq(Key) /\ UNCHANGED keys /\ now' = now + 1 /\ now \in Nat
  BY DEF TypeOK, Tick
<1>2. \A j \in 1 .. Len(keys) : keys[j] \in Key
  BY <1>1
<1>3. \A j \in 1 .. Len(keys) : keys[j].timeout \in Nat
  BY <1>2 DEF Key
<1>4. \A j \in 1 .. Len(keys) : Alive(j)' => Alive(j)
  BY <1>1, <1>3 DEF Alive
<1> QED
  BY <1>1, <1>4 DEF Steady

LEMMA SteadyPerm ==
    ASSUME TypeOK, NEW p \in Procs, SetPerm(p)
    PROVE  Steady
<1>1. CASE Alive(id[p]) /\ keys' = [keys EXCEPT ![id[p]].wide = TRUE]
  <2> DEFINE i == id[p]
             k == [keys[i] EXCEPT !.wide = TRUE]
  <2>1. Same(i, k) /\ UNCHANGED now
    BY <1>1, PermKey DEF SetPerm
  <2>2. keys[i] \in Key
    BY <2>1 DEF Same, TypeOK
  <2>3. /\ k.payload = keys[i].payload /\ k.wide
        /\ k.revoked = keys[i].revoked
    BY <2>2 DEF Key
  <2>4. Alive(i)
    BY <1>1
  <2> HIDE DEF i, k
  <2> QED
    BY <2>1, <2>3, <2>4, SteadySame
<1> QED
  BY <1>1, SteadyUnchanged DEF SetPerm

LEMMA SteadyTimeout ==
    ASSUME TypeOK, NEW p \in Procs, SetTimeout(p)
    PROVE  Steady
<1> DEFINE i == id[p]
           k == [keys[i] EXCEPT !.timeout = Timeout(p)]
<1>1. Same(i, k) /\ UNCHANGED now /\ Alive(i)
  BY TimedKey DEF SetTimeout
<1>2. keys[i] \in Key
  BY <1>1 DEF Same, TypeOK
<1>3. /\ k.payload = keys[i].payload /\ k.wide = keys[i].wide
      /\ k.revoked = keys[i].revoked
  BY <1>2 DEF Key
<1> HIDE DEF i, k
<1> QED
  BY <1>1, <1>3, SteadySame

LEMMA SteadyRevoke ==
    ASSUME TypeOK, NEW p \in Procs, Revoke(p)
    PROVE  Steady
<1>1. CASE keys' = [keys EXCEPT ![id[p]].revoked = TRUE]
  <2> DEFINE i == id[p]
             k == [keys[i] EXCEPT !.revoked = TRUE]
  <2>1. Same(i, k) /\ UNCHANGED now
    BY <1>1, RevokedKey DEF Revoke
  <2>2. keys[i] \in Key
    BY <2>1 DEF Same, TypeOK
  <2>3. k.payload = keys[i].payload /\ k.wide = keys[i].wide /\ k.revoked
    BY <2>2 DEF Key
  <2> HIDE DEF i, k
  <2> QED
    BY <2>1, <2>3, SteadySame
<1> QED
  BY <1>1, SteadyUnchanged DEF Revoke

\* Every step but add_key's leaves the payloads as they are.
LEMMA AddsOrSteady ==
    ASSUME TypeOK, [Next]_vars
    PROVE  Steady \/ \E p \in Procs : Add(p)
<1> USE DEF kernel
<1>1. CASE Tick
  BY <1>1, SteadyTick
<1>2. ASSUME NEW p \in Procs, Remember(p) \/ Open(p) \/ Forget(p) \/ Kill(p)
      PROVE  Steady
  BY <1>2, SteadyUnchanged DEF Remember, Open, Forget, Kill
<1>3. ASSUME NEW p \in Procs, AddFails(p) \/ SetTimeoutFails(p) \/ Unlink(p)
      PROVE  Steady
  BY <1>3, SteadyUnchanged DEF AddFails, SetTimeoutFails, Unlink
<1>4. ASSUME NEW p \in Procs, SetPerm(p) \/ SetTimeout(p) \/ Revoke(p)
      PROVE  Steady
  BY <1>4, SteadyPerm, SteadyTimeout, SteadyRevoke
<1>5. ASSUME NEW p \in Procs, Read(p) \/ ReadFails(p) \/ Check(p)
      PROVE  Steady
  BY <1>5, SteadyUnchanged DEF Read, ReadFails, Check
<1>6. ASSUME NEW p \in Procs, ForgetSearch(p) \/ ForgetUnlink(p)
      PROVE  Steady
  BY <1>6, SteadyUnchanged DEF ForgetSearch, ForgetUnlink
<1>7. CASE UNCHANGED vars
  BY <1>7, SteadyUnchanged DEF vars
<1> QED
  BY <1>1, <1>2, <1>3, <1>4, <1>5, <1>6, <1>7 DEF Next, Step

\* What a step does to what processes have in hand and have used.
PayStays == UNCHANGED <<pay, used>>
PayDropped(p) == pay' = [pay EXCEPT ![p] = Nothing] /\ UNCHANGED used

LEMMA PayMoves ==
    ASSUME TypeOK, [Next]_vars
    PROVE  \/ PayStays
           \/ \E p \in Procs :
                 PayDropped(p) \/ Remember(p) \/ Read(p) \/ Check(p)
<1> USE DEF local, PayStays
<1>1. CASE Tick
  BY <1>1 DEF Tick
<1>2. ASSUME NEW p \in Procs, Open(p) \/ Forget(p)
      PROVE  PayStays
  BY <1>2 DEF Open, Forget
<1>3. ASSUME NEW p \in Procs, Kill(p) \/ AddFails(p) \/ ReadFails(p)
      PROVE  PayDropped(p)
  BY <1>3 DEF Kill, AddFails, ReadFails, End, PayDropped
<1>4. ASSUME NEW p \in Procs, SetTimeout(p) \/ Unlink(p) \/ ForgetUnlink(p)
      PROVE  PayDropped(p)
  BY <1>4 DEF SetTimeout, Unlink, ForgetUnlink, End, PayDropped
<1>5. ASSUME NEW p \in Procs, Add(p) \/ SetPerm(p) \/ SetTimeoutFails(p) \/ Revoke(p)
      PROVE  PayStays
  BY <1>5 DEF Add, SetPerm, SetTimeoutFails, Revoke
<1>6. ASSUME NEW p \in Procs, ForgetSearch(p)
      PROVE  PayStays \/ PayDropped(p)
  BY <1>6 DEF ForgetSearch, End, PayDropped
<1>7. CASE UNCHANGED vars
  BY <1>7 DEF vars
<1> QED
  BY <1>1, <1>2, <1>3, <1>4, <1>5, <1>6, <1>7 DEF Next, Step
-----------------------------------------------------------------------------
(* No key is used after its time                                           *)

\* A payload's deadline is the one its remember named.
Due(o) == o.expiry = IF o.by.ttl = 0 THEN 0 ELSE o.by.start + o.by.ttl

\* Every payload there is, in a key or in hand, says when it ends.
AllDue ==
    /\ \A j \in 1 .. Len(keys) : Due(keys[j].payload)
    /\ \A p \in Procs : pay[p] # Nothing => Due(pay[p])

LateInv == TypeOK /\ AllDue /\ NeverLate

LEMMA LateInit == Init => LateInv
BY InitType DEF Init, LateInv, AllDue, NeverLate

\* A payload that is not expired is in time.
LEMMA UsedInTime ==
    ASSUME TypeOK, NEW p \in Procs, pay[p] # Nothing, Due(pay[p]), ~Expired(p)
    PROVE  pay[p].by.ttl = 0 \/ now < pay[p].by.start + pay[p].by.ttl
<1> DEFINE o == pay[p]
<1>1. now \in Nat /\ o \in Payload
  BY DEF TypeOK
<1>2. o.expiry \in Nat /\ o.by.ttl \in Nat /\ o.by.start \in Nat
  BY <1>1 DEF Payload, Attempt
<1>3. o.expiry = 0 \/ now < o.expiry
  BY <1>1, <1>2 DEF Expired
<1>4. o.by.ttl # 0 => o.expiry = o.by.start + o.by.ttl
  BY DEF Due
<1> HIDE DEF o
<1>5. o.by.ttl = 0 \/ now < o.by.start + o.by.ttl
  BY <1>1, <1>2, <1>3, <1>4
<1> QED
  BY <1>5 DEF o

LEMMA KeysDue ==
    ASSUME LateInv, [Next]_vars
    PROVE  \A j \in 1 .. Len(keys') : Due(keys'[j].payload)
<1>1. CASE Steady
  BY <1>1 DEF Steady, LateInv, AllDue, Due
<1>2. ASSUME NEW p \in Procs, Add(p)
      PROVE  \A j \in 1 .. Len(keys') : Due(keys'[j].payload)
  <2>1. PICK i : AddsAt(p, i)
    BY <1>2, AddsSomewhere DEF LateInv
  <2>2. Due(pay[p])
    BY <1>2 DEF Add, TypeOK, LateInv, AllDue
  <2> QED
    BY <2>1, <2>2 DEF AddsAt, LateInv, AllDue, Due
<1> QED
  BY <1>1, <1>2, AddsOrSteady DEF LateInv

LEMMA LateNext == LateInv /\ [Next]_vars => LateInv'
<1> SUFFICES ASSUME LateInv, [Next]_vars PROVE LateInv'
  OBVIOUS
<1>0. TypeOK /\ TypeOK' /\ AllDue /\ NeverLate
  BY NextType DEF LateInv
<1>1. \A j \in 1 .. Len(keys') : Due(keys'[j].payload)
  BY KeysDue
<1> SUFFICES (\A p \in Procs : pay'[p] # Nothing => Due(pay'[p])) /\ NeverLate'
  BY <1>0, <1>1 DEF LateInv, AllDue, Due
<1>2. CASE PayStays
  BY <1>0, <1>2 DEF PayStays, AllDue, NeverLate, Due
<1>3. ASSUME NEW p \in Procs, PayDropped(p)
      PROVE (\A q \in Procs : pay'[q] # Nothing => Due(pay'[q])) /\ NeverLate'
  BY <1>0, <1>3 DEF PayDropped, AllDue, NeverLate, TypeOK
<1>4. ASSUME NEW p \in Procs, Remember(p)
      PROVE (\A q \in Procs : pay'[q] # Nothing => Due(pay'[q])) /\ NeverLate'
  <2>1. PICK t \in TTLs : pay' = [pay EXCEPT ![p] = Stamped(p, t)]
    BY <1>4 DEF Remember
  <2>2. Due(Stamped(p, t))
    BY DEF Due, Stamped
  <2>3. UNCHANGED used
    BY <1>4 DEF Remember
  <2> HIDE DEF Due
  <2> QED
    BY <1>0, <2>1, <2>2, <2>3 DEF TypeOK, AllDue, NeverLate
<1>5. ASSUME NEW p \in Procs, Read(p)
      PROVE (\A q \in Procs : pay'[q] # Nothing => Due(pay'[q])) /\ NeverLate'
  <2>1. /\ pay' = [pay EXCEPT ![p] = keys[id[p]].payload]
        /\ UNCHANGED used /\ id[p] \in 1 .. Len(keys)
    BY <1>0, <1>5 DEF Read, TypeOK
  <2>2. Due(keys[id[p]].payload)
    BY <1>0, <2>1 DEF AllDue
  <2> QED
    BY <1>0, <2>1, <2>2 DEF TypeOK, AllDue, NeverLate
<1>6. ASSUME NEW p \in Procs, Check(p)
      PROVE (\A q \in Procs : pay'[q] # Nothing => Due(pay'[q])) /\ NeverLate'
  <2>1. pay' = [pay EXCEPT ![p] = Nothing]
    BY <1>6 DEF Check, End
  <2>2. \A q \in Procs : pay'[q] # Nothing => Due(pay'[q])
    BY <1>0, <2>1 DEF TypeOK, AllDue
  <2>3. CASE Expired(p)
    <3>1. UNCHANGED used
      BY <1>6, <2>3 DEF Check
    <3> QED
      BY <1>0, <2>2, <3>1 DEF NeverLate
  <2>4. CASE ~Expired(p)
    <3>1. pay[p] # Nothing /\ Due(pay[p])
      BY <1>0, <1>6 DEF Check, TypeOK, AllDue
    <3>2. pay[p].by.ttl = 0 \/ now < pay[p].by.start + pay[p].by.ttl
      BY <1>0, <2>4, <3>1, UsedInTime
    <3>3. used' = [used EXCEPT ![p] = [offer |-> pay[p], at |-> now]]
      BY <1>6, <2>4 DEF Check
    <3>4. NeverLate'
      BY <1>0, <3>2, <3>3 DEF NeverLate, TypeOK
    <3> QED
      BY <2>2, <3>4
  <2> QED
    BY <2>3, <2>4
<1> QED
  BY <1>0, <1>2, <1>3, <1>4, <1>5, <1>6, PayMoves

\* No command opens the vault with a key whose remember's time is over.
THEOREM AlwaysInTime == Spec => []NeverLate
<1>1. LateInv => NeverLate
  BY DEF LateInv
<1> QED
  BY LateInit, LateNext, <1>1, PTL DEF Spec
-----------------------------------------------------------------------------
(* Each remember stores a payload of its own                               *)

\* Past add_key, and not done yet.
Storing == {"perm", "timing", "revoking", "unlinking"}

\* What was added, withdrawn or is in a key, by whom; and that a payload is
\* in one key only, the one its remember works on.
FreshInv ==
    /\ TypeOK
    /\ gone \cup undone \subseteq added
    /\ \A p \in Procs : barred[p] \subseteq gone \cup undone
    /\ \A j \in 1 .. Len(keys) : keys[j].payload \in added
    /\ \A o \in added : o.by.run <= run[o.by.proc]
    /\ \A p \in Procs : pc[p] = "adding" =>
          pay[p].by.proc = p /\ pay[p].by.run = run[p] /\ pay[p] \notin added
    /\ \A p \in Procs : pc[p] \in Storing => pay[p] \in added
    /\ \A p \in Procs : pc[p] \in Storing =>
          \A j \in 1 .. Len(keys) : keys[j].payload = pay[p] => j = id[p]

LEMMA FreshInit == Init => FreshInv
<1> SUFFICES ASSUME Init PROVE FreshInv
  OBVIOUS
<1>1. TypeOK /\ Len(keys) = 0
  BY InitType DEF Init
<1> QED
  BY <1>1 DEF Init, FreshInv, Storing

\* What a step of p's leaves alone.
Others(p) ==
    \A q \in Procs \ {p} :
        /\ pc'[q] = pc[q] /\ run'[q] = run[q] /\ pay'[q] = pay[q]
        /\ id'[q] = id[q] /\ clean'[q] = clean[q]
        /\ outcome'[q] = outcome[q] /\ barred'[q] = barred[q]

Act(p) == Remember(p) \/ Open(p) \/ Forget(p) \/ Step(p) \/ Kill(p)

\* A command of one process changes nothing of another's.
LEMMA OneActs ==
    ASSUME TypeOK, NEW p \in Procs, Act(p)
    PROVE  Others(p)
<1> USE DEF TypeOK, Others, Goto, local, ghosts
<1>1. CASE Remember(p) \/ Open(p) \/ Forget(p)
  BY <1>1 DEF Remember, Open, Forget, Begin
<1>2. CASE Add(p)
  <2>1. /\ pc' = [pc EXCEPT ![p] = "perm"]
        /\ UNCHANGED <<run, pay, clean, outcome, barred>>
    BY <1>2 DEF Add
  <2>2. \E i : id' = [id EXCEPT ![p] = i]
    BY <1>2 DEF Add, Update, Insert
  <2> QED
    BY <2>1, <2>2
<1>9. CASE SetTimeoutFails(p) \/ Revoke(p)
  BY <1>9 DEF SetTimeoutFails, Revoke
<1>3. CASE SetPerm(p)
  <2>1. \E next : pc' = [pc EXCEPT ![p] = next]
    BY <1>3 DEF SetPerm
  <2>2. UNCHANGED <<run, pay, id, clean, outcome, barred>>
    BY <1>3 DEF SetPerm
  <2> QED
    BY <2>1, <2>2
<1>8. ASSUME NEW how, End(p, how), UNCHANGED barred PROVE Others(p)
  BY <1>8 DEF End
<1>4. CASE AddFails(p) \/ SetTimeout(p) \/ Unlink(p) \/ ReadFails(p) \/ Kill(p)
  BY <1>8, <1>4 DEF AddFails, SetTimeout, Unlink, ReadFails, Kill
<1>5. CASE Read(p) \/ ForgetSearch(p)
  BY <1>5, <1>8 DEF Read, ForgetSearch
<1>6. CASE Check(p)
  BY <1>6, <1>8 DEF Check
<1>7. CASE ForgetUnlink(p)
  BY <1>7, <1>8 DEF ForgetUnlink
<1> QED
  BY <1>1, <1>2, <1>3, <1>4, <1>5, <1>6, <1>7, <1>9 DEF Act, Step

\* A step that adds nothing keeps FreshInv.
Calm(p) ==
    /\ Others(p) /\ Steady /\ UNCHANGED added
    /\ run[p] <= run'[p] /\ pc'[p] # "adding"
    /\ pc'[p] \in Storing =>
          pc[p] \in Storing /\ pay'[p] = pay[p] /\ id'[p] = id[p]
    /\ gone \cup undone \subseteq gone' \cup undone'
    /\ gone' \cup undone' \subseteq added
    /\ barred'[p] \subseteq gone' \cup undone'

LEMMA CalmFresh ==
    ASSUME FreshInv, TypeOK', NEW p \in Procs, Calm(p)
    PROVE  FreshInv'
<1>0. TypeOK
  BY DEF FreshInv
<1>1. \A q \in Procs \ {p} :
          /\ pc'[q] = pc[q] /\ run'[q] = run[q] /\ pay'[q] = pay[q]
          /\ id'[q] = id[q] /\ barred'[q] = barred[q]
  BY DEF Calm, Others
<1>2. \A q \in Procs : barred'[q] \subseteq gone' \cup undone'
  <2>1. \A q \in Procs \ {p} : barred'[q] \subseteq gone' \cup undone'
    BY <1>1 DEF Calm, FreshInv
  <2> QED
    BY <2>1 DEF Calm
<1>3. \A j \in 1 .. Len(keys') : keys'[j].payload \in added'
  BY DEF Calm, Steady, FreshInv
<1>4. \A o \in added' : o.by.run <= run'[o.by.proc]
  <2> SUFFICES ASSUME NEW o \in added PROVE o.by.run <= run'[o.by.proc]
    BY DEF Calm
  <2>1. o.by.proc \in Procs /\ o.by.run \in Nat /\ o.by.run <= run[o.by.proc]
    BY <1>0 DEF FreshInv, TypeOK, Payload, Attempt
  <2>2. run[p] \in Nat /\ run'[p] \in Nat /\ run[p] <= run'[p]
    BY <1>0 DEF TypeOK, Calm
  <2>3. CASE o.by.proc = p
    BY <2>1, <2>2, <2>3
  <2>4. CASE o.by.proc # p
    BY <1>1, <2>1, <2>4
  <2> QED
    BY <2>3, <2>4
<1>5. \A q \in Procs : pc'[q] = "adding" =>
          pay'[q].by.proc = q /\ pay'[q].by.run = run'[q] /\ pay'[q] \notin added'
  BY <1>1 DEF Calm, FreshInv
<1>6. \A q \in Procs : pc'[q] \in Storing =>
          pc[q] \in Storing /\ pay'[q] = pay[q] /\ id'[q] = id[q]
  BY <1>1 DEF Calm
<1>7. \A q \in Procs : pc'[q] \in Storing => pay'[q] \in added'
  BY <1>6 DEF Calm, FreshInv
<1>8. \A q \in Procs : pc'[q] \in Storing =>
          \A j \in 1 .. Len(keys') : keys'[j].payload = pay'[q] => j = id'[q]
  BY <1>6 DEF Calm, Steady, FreshInv
<1> QED
  BY <1>2, <1>3, <1>4, <1>5, <1>7, <1>8 DEF Calm, FreshInv

\* add_key's step.
LEMMA AddFresh ==
    ASSUME FreshInv, TypeOK', NEW p \in Procs, Add(p)
    PROVE  FreshInv'
<1>0. TypeOK
  BY DEF FreshInv
<1>1. PICK i : AddsAt(p, i)
  BY <1>0, AddsSomewhere
<1>2. PICK o : o = pay[p]
  OBVIOUS
<1>3. /\ pc' = [pc EXCEPT ![p] = "perm"] /\ added' = added \cup {o}
      /\ UNCHANGED <<run, pay, gone, undone, barred>>
      /\ o.by.proc = p /\ o.by.run = run[p] /\ o \notin added /\ run[p] \in Nat
  BY <1>0, <1>2 DEF Add, Goto, FreshInv, TypeOK
<1>4. id' = [id EXCEPT ![p] = i] /\ keys'[i].payload = o
  BY <1>1, <1>2 DEF AddsAt
<1>5. \A j \in 1 .. Len(keys') : j # i =>
          j \in 1 .. Len(keys) /\ keys'[j].payload = keys[j].payload
  BY <1>1 DEF AddsAt
<1>6. \A j \in 1 .. Len(keys') : keys'[j].payload \in added'
  BY <1>3, <1>4, <1>5 DEF FreshInv
<1>7. \A q \in added' : q.by.run <= run'[q.by.proc]
  <2>1. o.by.run <= run'[o.by.proc]
    BY <1>3
  <2>2. \A q \in added : q.by.run <= run'[q.by.proc]
    BY <1>3 DEF FreshInv
  <2> QED
    BY <1>3, <2>1, <2>2
<1>8. ASSUME NEW q \in Procs, pc'[q] = "adding"
      PROVE  pay'[q].by.proc = q /\ pay'[q].by.run = run'[q] /\ pay'[q] \notin added'
  <2>1. q # p /\ pc[q] = "adding"
    BY <1>0, <1>3, <1>8 DEF TypeOK
  <2>2. pay[q].by.proc = q /\ pay[q].by.run = run[q] /\ pay[q] \notin added
    BY <2>1 DEF FreshInv
  <2> QED
    BY <1>3, <2>1, <2>2
<1>9. ASSUME NEW q \in Procs, pc'[q] \in Storing
      PROVE  /\ pay'[q] \in added'
             /\ \A j \in 1 .. Len(keys') : keys'[j].payload = pay'[q] => j = id'[q]
  <2>1. CASE q = p
    <3>1. pay'[q] = o /\ id'[q] = i
      BY <1>0, <1>2, <1>3, <1>4, <2>1 DEF TypeOK
    <3>2. \A j \in 1 .. Len(keys') : j # i => keys'[j].payload \in added
      BY <1>5 DEF FreshInv
    <3> QED
      BY <1>3, <3>1, <3>2
  <2>2. CASE q # p
    <3>1. pc[q] \in Storing /\ pay'[q] = pay[q] /\ id'[q] = id[q]
      BY <1>0, <1>3, <1>4, <1>9, <2>2 DEF TypeOK
    <3>2. /\ pay[q] \in added
          /\ \A j \in 1 .. Len(keys) : keys[j].payload = pay[q] => j = id[q]
      BY <3>1 DEF FreshInv
    <3>3. pay[q] # o
      BY <1>3, <3>2
    <3> QED
      BY <1>3, <1>4, <1>5, <3>1, <3>2, <3>3
  <2> QED
    BY <2>1, <2>2
<1> QED
  BY <1>3, <1>6, <1>7, <1>8, <1>9 DEF FreshInv

LEMMA RememberFresh ==
    ASSUME FreshInv, TypeOK', NEW p \in Procs, Remember(p)
    PROVE  FreshInv'
<1>0. TypeOK
  BY DEF FreshInv
<1>1. PICK t \in TTLs : pay' = [pay EXCEPT ![p] = Stamped(p, t)]
  BY DEF Remember
<1>2. PICK o : o = Stamped(p, t)
  OBVIOUS
<1>3. o.by.proc = p /\ o.by.run = run[p] + 1 /\ pay' = [pay EXCEPT ![p] = o]
  BY <1>0, <1>1, <1>2, StampedType
<1>4. /\ pc' = [pc EXCEPT ![p] = "adding"] /\ run' = [run EXCEPT ![p] = @ + 1]
      /\ barred' = [barred EXCEPT ![p] = gone \cup undone]
      /\ UNCHANGED <<keys, id, added, gone, undone>>
  BY DEF Remember, Begin, Goto, kernel
<1>5. ASSUME NEW q \in added
      PROVE  /\ q.by.proc \in Procs /\ q.by.run \in Nat
             /\ run[q.by.proc] \in Nat /\ q.by.run <= run[q.by.proc]
  <2>1. q.by.proc \in Procs /\ q.by.run \in Nat
    BY <1>0 DEF TypeOK, Payload, Attempt
  <2> QED
    BY <1>0, <2>1 DEF FreshInv, TypeOK
<1>6. ASSUME NEW q \in added
      PROVE  q.by.run <= run'[q.by.proc]
  <2>1. \A r \in Procs : run[r] \in Nat /\ run'[r] >= run[r]
    BY <1>0, <1>4 DEF TypeOK
  <2>2. PICK r \in Procs : r = q.by.proc
    BY <1>5
  <2>3. q.by.run \in Nat /\ q.by.run <= run[r] /\ run[r] \in Nat
    BY <1>5, <2>2
  <2>4. run'[r] \in Nat
    BY DEF TypeOK
  <2> QED
    BY <2>1, <2>2, <2>3, <2>4
<1>7. o \notin added
  BY <1>3, <1>5
<1>8. \A q \in Procs : pc'[q] = "adding" =>
          pay'[q].by.proc = q /\ pay'[q].by.run = run'[q] /\ pay'[q] \notin added'
  <2>1. pay'[p] = o /\ run'[p] = run[p] + 1
    BY <1>0, <1>3, <1>4 DEF TypeOK
  <2>2. \A q \in Procs \ {p} : pc'[q] = pc[q] /\ pay'[q] = pay[q] /\ run'[q] = run[q]
    BY <1>0, <1>3, <1>4 DEF TypeOK
  <2> QED
    BY <1>3, <1>4, <1>7, <2>1, <2>2 DEF FreshInv
<1>9. \A q \in Procs : pc'[q] \in Storing =>
          pc[q] \in Storing /\ pay'[q] = pay[q]
  BY <1>0, <1>3, <1>4 DEF TypeOK, Storing
<1>10. \A q \in Procs : barred'[q] \subseteq gone' \cup undone'
  BY <1>0, <1>4 DEF FreshInv, TypeOK
<1> QED
  BY <1>4, <1>6, <1>8, <1>9, <1>10 DEF FreshInv

\* Every other step of a process is calm.
LEMMA OthersCalm ==
    ASSUME FreshInv, NEW p \in Procs, Act(p), ~Add(p), ~Remember(p)
    PROVE  Calm(p)
<1>0. TypeOK /\ Others(p)
  BY OneActs DEF FreshInv
<1>11. run[p] \in Nat /\ run[p] <= run[p] /\ run[p] <= run[p] + 1
  BY <1>0 DEF TypeOK
<1>12. gone \cup undone \subseteq added /\ barred[p] \subseteq gone \cup undone
  BY DEF FreshInv
<1> USE DEF Goto, Storing, kernel, ghosts
<1>1. CASE Open(p) \/ Forget(p)
  <2>1. /\ run'[p] = run[p] + 1 /\ pc'[p] \in {"reading", "dropping"}
        /\ barred'[p] = gone \cup undone
        /\ UNCHANGED <<now, keys, added, gone, undone>>
    BY <1>0, <1>1 DEF Open, Forget, Begin, TypeOK
  <2>2. Steady
    BY <1>0, <2>1, SteadyUnchanged
  <2> QED
    BY <1>0, <1>11, <1>12, <2>1, <2>2 DEF Calm
<1>2. ASSUME NEW how, End(p, how), Steady, UNCHANGED <<added, gone, barred>>,
             undone' \in {undone, undone \cup {pay[p]}},
             undone' # undone => pay[p] \in added
      PROVE  Calm(p)
  <2>1. pc'[p] = "idle" /\ run'[p] = run[p]
    BY <1>0, <1>2 DEF End, TypeOK
  <2>2. /\ gone \cup undone \subseteq gone' \cup undone'
        /\ gone' \cup undone' \subseteq added
    BY <1>2, <1>12
  <2> QED
    BY <1>0, <1>11, <1>12, <1>2, <2>1, <2>2 DEF Calm
<1>3. CASE AddFails(p) \/ ReadFails(p) \/ Kill(p)
  <2>1. Steady
    BY <1>0, <1>3, SteadyUnchanged DEF AddFails, ReadFails, Kill
  <2> QED
    BY <1>2, <1>3, <2>1 DEF AddFails, ReadFails, Kill
<1>4. CASE SetTimeout(p)
  <2>1. Steady
    BY <1>0, <1>4, SteadyTimeout
  <2> QED
    BY <1>2, <1>4, <2>1 DEF SetTimeout
<1>5. CASE Unlink(p)
  <2>1. Steady /\ pay[p] \in added
    BY <1>0, <1>5, SteadyUnchanged DEF Unlink, FreshInv
  <2>2. undone' \in {undone, undone \cup {pay[p]}}
    BY <1>5 DEF Unlink
  <2> QED
    BY <1>2, <1>5, <2>1, <2>2 DEF Unlink
<1>6. CASE SetPerm(p) \/ SetTimeoutFails(p) \/ Revoke(p)
  <2>1. Steady
    BY <1>0, <1>6, SteadyPerm, SteadyRevoke, SteadyUnchanged DEF SetTimeoutFails
  <2>2. pc[p] \in Storing
    BY <1>6 DEF SetPerm, SetTimeoutFails, Revoke
  <2>3. pc'[p] \in Storing
    BY <1>0, <1>6 DEF SetPerm, SetTimeoutFails, Revoke, TypeOK
  <2>4. UNCHANGED <<run, pay, id, added, gone, undone, barred>>
    BY <1>6 DEF SetPerm, SetTimeoutFails, Revoke
  <2>5. pc'[p] # "adding"
    BY <2>3
  <2> QED
    BY <1>0, <1>11, <1>12, <2>1, <2>2, <2>4, <2>5 DEF Calm
<1>7. CASE Read(p)
  <2>1. Steady /\ pc'[p] = "checking"
    BY <1>0, <1>7, SteadyUnchanged DEF Read, TypeOK
  <2>2. UNCHANGED <<run, added, gone, undone, barred>>
    BY <1>7 DEF Read
  <2> QED
    BY <1>0, <1>11, <1>12, <2>1, <2>2 DEF Calm
<1>8. CASE Check(p)
  <2>1. Steady
    BY <1>0, <1>8, SteadyUnchanged DEF Check
  <2>2. CASE Expired(p)
    <3>1. pc'[p] = "dropping" /\ UNCHANGED <<run, added, gone, undone, barred>>
      BY <1>0, <1>8, <2>2 DEF Check, TypeOK
    <3> QED
      BY <1>0, <1>11, <1>12, <2>1, <3>1 DEF Calm
  <2>3. CASE ~Expired(p)
    BY <1>2, <1>8, <2>1, <2>3 DEF Check
  <2> QED
    BY <2>2, <2>3
<1>9. CASE ForgetSearch(p)
  <2>1. Steady /\ UNCHANGED <<added, gone, undone, barred>>
    BY <1>0, <1>9, SteadyUnchanged DEF ForgetSearch
  <2>2. CASE End(p, "miss")
    BY <1>2, <2>1, <2>2
  <2>3. CASE pc' = [pc EXCEPT ![p] = "removing"] /\ UNCHANGED run
    <3>1. pc'[p] = "removing"
      BY <1>0, <2>3 DEF TypeOK
    <3> QED
      BY <1>0, <1>11, <1>12, <2>1, <2>3, <3>1 DEF Calm
  <2> QED
    BY <1>9, <2>2, <2>3 DEF ForgetSearch
<1>10. CASE ForgetUnlink(p)
  <2>1. Steady /\ UNCHANGED <<added, undone, barred>>
    BY <1>0, <1>10, SteadyUnchanged DEF ForgetUnlink
  <2>2. pc'[p] = "idle" /\ run'[p] = run[p]
    BY <1>0, <1>10 DEF ForgetUnlink, End, TypeOK
  <2>3. gone' \in {gone, added}
    BY <1>10 DEF ForgetUnlink
  <2> QED
    BY <1>0, <1>11, <1>12, <2>1, <2>2, <2>3 DEF Calm
<1> QED
  BY <1>1, <1>3, <1>4, <1>5, <1>6, <1>7, <1>8, <1>9, <1>10 DEF Act, Step

LEMMA FreshNext == FreshInv /\ [Next]_vars => FreshInv'
<1> SUFFICES ASSUME FreshInv, [Next]_vars PROVE FreshInv'
  OBVIOUS
<1>1. TypeOK'
  BY NextType DEF FreshInv
<1>2. CASE Tick \/ UNCHANGED vars
  <2>1. UNCHANGED <<keys, pc, run, pay, id, added, gone, undone, barred>>
    BY <1>2 DEF Tick, vars, kernel, local, ghosts
  <2> QED
    BY <1>1, <2>1 DEF FreshInv
<1>3. ASSUME NEW p \in Procs, Act(p) PROVE FreshInv'
  BY <1>1, <1>3, AddFresh, RememberFresh, OthersCalm, CalmFresh
<1> QED
  BY <1>2, <1>3 DEF Next, Act
-----------------------------------------------------------------------------
(* What was withdrawn is gone                                              *)

\* No key loses its permissions or comes back from its revocation.
Persist ==
    \A j \in 1 .. Len(keys) :
        /\ j \in 1 .. Len(keys')
        /\ keys[j].wide => keys'[j].wide
        /\ keys[j].revoked => keys'[j].revoked

LEMMA KeysPersist == TypeOK /\ [Next]_vars => Persist
<1> SUFFICES ASSUME TypeOK, [Next]_vars PROVE Persist
  OBVIOUS
<1>1. CASE Steady
  BY <1>1 DEF Steady, Persist
<1>2. ASSUME NEW p \in Procs, Add(p) PROVE Persist
  BY <1>2, AddsSomewhere DEF AddsAt, Persist
<1> QED
  BY <1>1, <1>2, AddsOrSteady

\* A rollback that counts its revocation as done did revoke its key.
CleanInv ==
    /\ \A p \in Procs :
          pc[p] \in {"adding", "perm", "timing", "revoking"} => ~clean[p]
    /\ \A p \in Procs :
          pc[p] = "unlinking" /\ clean[p] => keys[id[p]].revoked

LEMMA CleanNext ==
    ASSUME TypeOK, TypeOK', CleanInv, [Next]_vars
    PROVE  CleanInv'
<1>1. CASE Tick \/ UNCHANGED vars
  BY <1>1 DEF Tick, vars, kernel, local, CleanInv
<1>2. ASSUME NEW p \in Procs, Act(p) PROVE CleanInv'
  <2>1. \A q \in Procs \ {p} :
            pc'[q] = pc[q] /\ clean'[q] = clean[q] /\ id'[q] = id[q]
    BY <1>2, OneActs DEF Others
  <2>2. ASSUME NEW q \in Procs \ {p}
        PROVE  /\ pc'[q] \in {"adding", "perm", "timing", "revoking"} => ~clean'[q]
               /\ pc'[q] = "unlinking" /\ clean'[q] => keys'[id'[q]].revoked
    <3>1. pc'[q] \in {"adding", "perm", "timing", "revoking"} => ~clean'[q]
      BY <2>1 DEF CleanInv
    <3>2. ASSUME pc'[q] = "unlinking", clean'[q] PROVE keys'[id'[q]].revoked
      <4>1. id[q] \in 1 .. Len(keys) /\ keys[id[q]].revoked
        BY <2>1, <3>2 DEF TypeOK, CleanInv
      <4> QED
        BY <2>1, <4>1, KeysPersist DEF Persist
    <3> QED
      BY <3>1, <3>2
  <2>3. /\ pc'[p] \in {"adding", "perm", "timing", "revoking"} => ~clean'[p]
        /\ pc'[p] = "unlinking" /\ clean'[p] => keys'[id'[p]].revoked
    <3> USE DEF TypeOK, Goto, local
    <3>1. CASE Remember(p) \/ Open(p) \/ Forget(p)
      BY <1>2, <3>1 DEF Remember, Open, Forget, Begin
    <3>2. CASE Add(p)
      BY <3>2 DEF Add, CleanInv
    <3>3. CASE SetPerm(p)
      <4>1. pc[p] = "perm" /\ clean' = clean /\ pc'[p] # "unlinking"
        BY <3>3 DEF SetPerm
      <4> QED
        BY <4>1 DEF CleanInv
    <3>4. CASE SetTimeoutFails(p)
      BY <3>4 DEF SetTimeoutFails, CleanInv
    <3>5. CASE Revoke(p)
      <4>1. pc[p] = "revoking" /\ pc'[p] = "unlinking" /\ id' = id /\ ~clean[p]
        BY <3>5 DEF Revoke, CleanInv
      <4>2. CASE clean' = clean
        BY <4>1, <4>2
      <4>3. CASE keys' = [keys EXCEPT ![id[p]].revoked = TRUE]
        <5>1. Same(id[p], [keys[id[p]] EXCEPT !.revoked = TRUE])
          BY <4>1, <4>3, RevokedKey
        <5>2. keys[id[p]] \in Key
          BY <5>1 DEF Same
        <5>3. keys'[id[p]].revoked
          BY <5>1, <5>2 DEF Same, Grown, Key
        <5> QED
          BY <4>1, <5>3
      <4> QED
        BY <3>5, <4>2, <4>3 DEF Revoke
    <3>6. ASSUME NEW how, End(p, how)
          PROVE  /\ pc'[p] \in {"adding", "perm", "timing", "revoking"} => ~clean'[p]
                 /\ pc'[p] = "unlinking" /\ clean'[p] => keys'[id'[p]].revoked
      BY <3>6 DEF End
    <3>7. CASE AddFails(p) \/ SetTimeout(p) \/ Unlink(p) \/ ReadFails(p) \/ Kill(p)
      BY <3>6, <3>7 DEF AddFails, SetTimeout, Unlink, ReadFails, Kill
    <3>8. CASE Read(p)
      BY <3>8 DEF Read
    <3>9. CASE Check(p)
      BY <3>6, <3>9 DEF Check
    <3>10. CASE ForgetSearch(p)
      BY <3>6, <3>10 DEF ForgetSearch
    <3>11. CASE ForgetUnlink(p)
      BY <3>6, <3>11 DEF ForgetUnlink
    <3> QED
      BY <1>2, <3>1, <3>2, <3>3, <3>4, <3>5, <3>7, <3>8, <3>9, <3>10, <3>11
         DEF Act, Step
  <2> QED
    BY <2>2, <2>3 DEF CleanInv
<1> QED
  BY <1>1, <1>2 DEF Next, Act

GoneInv ==
    /\ FreshInv /\ CleanInv /\ WithdrawnIsGone
    /\ Found => keys[link].payload \notin gone \cup undone
    /\ \A p \in Procs :
          pc[p] = "reading" => keys[id[p]].payload \notin barred[p]

LEMMA GoneInit == Init => GoneInv
BY FreshInit DEF Init, GoneInv, CleanInv, WithdrawnIsGone, Found

\* What the keyring has after a step was not withdrawn.
LEMMA FoundNext ==
    ASSUME GoneInv, NEW p \in Procs, Act(p), Found'
    PROVE  keys'[link'].payload \notin gone' \cup undone'
<1>0. TypeOK /\ FreshInv
  BY DEF GoneInv, FreshInv
<1>1. CASE Add(p)
  <2>1. PICK i : AddsAt(p, i)
    BY <1>0, <1>1, AddsSomewhere
  <2>2. pay[p] \notin gone' \cup undone'
    BY <1>0, <1>1 DEF Add, FreshInv
  <2> QED
    BY <2>1, <2>2 DEF AddsAt
<1>2. ASSUME Steady, UNCHANGED <<link, gone, undone>>
      PROVE  keys'[link'].payload \notin gone' \cup undone'
  <2>1. link \in 1 .. Len(keys) /\ Alive(link)'
    BY <1>0, <1>2 DEF Found, TypeOK
  <2>2. Found /\ keys'[link].payload = keys[link].payload
    BY <1>2, <2>1 DEF Steady, Found
  <2> QED
    BY <1>2, <2>2 DEF GoneInv
<1>3. CASE Unlink(p)
  <2>1. Steady /\ UNCHANGED <<now, keys, gone>> /\ pc[p] = "unlinking"
    BY <1>0, <1>3, SteadyUnchanged DEF Unlink
  <2>2. link' = link
    BY <1>3 DEF Unlink, Found
  <2>3. Found /\ link \in 1 .. Len(keys)
    BY <1>0, <2>1, <2>2 DEF Found, Alive, TypeOK
  <2>4. CASE undone' = undone
    BY <1>2, <2>1, <2>2, <2>4
  <2>5. CASE undone' # undone
    <3>1. clean[p] /\ undone' = undone \cup {pay[p]}
      BY <1>3, <2>2, <2>5 DEF Unlink
    <3>2. keys[id[p]].revoked
      BY <2>1, <3>1 DEF GoneInv, CleanInv
    <3>3. link # id[p]
      BY <2>3, <3>2 DEF Found, Alive
    <3>4. keys[link].payload # pay[p]
      BY <1>0, <2>1, <2>3, <3>3 DEF FreshInv, Storing
    <3> QED
      BY <2>1, <2>2, <2>3, <3>1, <3>4 DEF GoneInv
  <2> QED
    BY <2>4, <2>5
<1>4. CASE ForgetUnlink(p)
  <2>1. Steady /\ UNCHANGED undone
    BY <1>0, <1>4, SteadyUnchanged DEF ForgetUnlink
  <2>2. UNCHANGED <<link, gone>>
    BY <1>4 DEF ForgetUnlink, Found
  <2> QED
    BY <1>2, <2>1, <2>2
<1>5. Remember(p) => Steady
  BY <1>0, SteadyUnchanged DEF Remember, kernel
<1>6. CASE Remember(p)
  BY <1>2, <1>5, <1>6 DEF Remember, kernel
<1>7. CASE ~Add(p) /\ ~Remember(p) /\ ~Unlink(p) /\ ~ForgetUnlink(p)
  <2>1. Steady
    BY <1>0, <1>7, OthersCalm DEF Calm
  <2>2. UNCHANGED <<link, gone, undone>>
    <3>1. CASE Open(p) \/ Forget(p) \/ Kill(p) \/ AddFails(p)
      BY <3>1 DEF Open, Forget, Kill, AddFails, kernel, ghosts
    <3>2. CASE SetPerm(p) \/ SetTimeout(p) \/ SetTimeoutFails(p) \/ Revoke(p)
      BY <3>2 DEF SetPerm, SetTimeout, SetTimeoutFails, Revoke, kernel, ghosts
    <3>3. CASE Read(p) \/ ReadFails(p) \/ Check(p) \/ ForgetSearch(p)
      BY <3>3 DEF Read, ReadFails, Check, ForgetSearch, kernel, ghosts
    <3> QED
      BY <1>7, <3>1, <3>2, <3>3 DEF Act, Step
  <2> QED
    BY <1>2, <2>1, <2>2
<1> QED
  BY <1>1, <1>3, <1>4, <1>6, <1>7

\* What a process reads or has read was not withdrawn when it began.
LEMMA BarredNext ==
    ASSUME GoneInv, TypeOK', NEW p \in Procs, Act(p), NEW q \in Procs
    PROVE  /\ pc'[q] = "reading" => keys'[id'[q]].payload \notin barred'[q]
           /\ pc'[q] = "checking" => pay'[q] \notin barred'[q]
<1>0. TypeOK /\ FreshInv /\ [Next]_vars
  BY DEF GoneInv, FreshInv, Act, Next
<1>1. ASSUME pc'[q] = "reading", pc[q] = "reading", id'[q] = id[q],
             barred'[q] = barred[q]
      PROVE  keys'[id'[q]].payload \notin barred'[q]
  <2>1. id[q] \in 1 .. Len(keys) /\ keys[id[q]].payload \notin barred[q]
    BY <1>0, <1>1 DEF TypeOK, GoneInv
  <2>2. CASE Steady
    BY <1>1, <2>1, <2>2 DEF Steady
  <2>3. ASSUME NEW r \in Procs, Add(r)
        PROVE  keys'[id'[q]].payload \notin barred'[q]
    <3>1. PICK i : AddsAt(r, i)
      BY <1>0, <2>3, AddsSomewhere
    <3>2. pay[r] \notin added /\ barred[q] \subseteq added
      BY <1>0, <2>3 DEF Add, FreshInv
    <3>3. CASE id[q] = i
      BY <1>1, <3>1, <3>2, <3>3 DEF AddsAt
    <3>4. CASE id[q] # i
      <4>1. id[q] \in 1 .. Len(keys')
        BY <2>1, <3>1 DEF AddsAt
      <4>2. keys'[id[q]] = keys[id[q]]
        BY <3>1, <3>4, <4>1 DEF AddsAt
      <4> QED
        BY <1>1, <2>1, <4>2
    <3> QED
      BY <3>3, <3>4
  <2> QED
    BY <1>0, <2>2, <2>3, AddsOrSteady
<1>2. CASE q # p
  <2>1. /\ pc'[q] = pc[q] /\ pay'[q] = pay[q] /\ id'[q] = id[q]
        /\ barred'[q] = barred[q]
    BY <1>0, <1>2, OneActs DEF Others
  <2> QED
    BY <1>1, <2>1 DEF GoneInv, WithdrawnIsGone
<1>3. CASE q = p /\ Open(p)
  <2>1. /\ pc'[p] = "reading" /\ id'[p] = link /\ barred'[p] = gone \cup undone
        /\ UNCHANGED keys /\ Found
    BY <1>0, <1>3 DEF Open, Begin, Goto, kernel, TypeOK
  <2> QED
    BY <1>3, <2>1 DEF GoneInv
<1>4. CASE q = p /\ Read(p)
  <2>1. /\ pc'[p] = "checking" /\ pay'[p] = keys[id[p]].payload
        /\ barred'[p] = barred[p] /\ pc[p] = "reading"
    BY <1>0, <1>4 DEF Read, Goto, ghosts, TypeOK
  <2> QED
    BY <1>4, <2>1 DEF GoneInv
<1>5. CASE q = p /\ ~Open(p) /\ ~Read(p)
  <2>1. pc'[p] \notin {"reading", "checking"}
    <3> USE DEF TypeOK, Goto
    <3>1. CASE Remember(p) \/ Forget(p) \/ Add(p)
      BY <3>1 DEF Remember, Forget, Add
    <3>2. CASE SetPerm(p) \/ SetTimeoutFails(p) \/ Revoke(p)
      BY <1>0, <3>2 DEF SetPerm, SetTimeoutFails, Revoke
    <3>3. ASSUME NEW how, End(p, how)
          PROVE  pc'[p] \notin {"reading", "checking"}
      BY <1>0, <3>3 DEF End
    <3>4. CASE AddFails(p) \/ SetTimeout(p) \/ Unlink(p) \/ ReadFails(p) \/ Kill(p)
      BY <3>3, <3>4 DEF AddFails, SetTimeout, Unlink, ReadFails, Kill
    <3>5. CASE Check(p)
      BY <1>0, <3>3, <3>5 DEF Check
    <3>6. CASE ForgetSearch(p)
      BY <1>0, <3>3, <3>6 DEF ForgetSearch
    <3>7. CASE ForgetUnlink(p)
      BY <3>3, <3>7 DEF ForgetUnlink
    <3> QED
      BY <1>5, <3>1, <3>2, <3>4, <3>5, <3>6, <3>7 DEF Act, Step
  <2> QED
    BY <1>5, <2>1
<1> QED
  BY <1>2, <1>3, <1>4, <1>5

LEMMA GoneNext == GoneInv /\ [Next]_vars => GoneInv'
<1> SUFFICES ASSUME GoneInv, [Next]_vars PROVE GoneInv'
  OBVIOUS
<1>1. TypeOK /\ TypeOK' /\ FreshInv /\ FreshInv' /\ CleanInv'
  BY FreshNext, CleanNext DEF GoneInv, FreshInv
<1>2. CASE Tick \/ UNCHANGED vars
  <2>1. Steady
    BY <1>1, <1>2, SteadyTick, SteadyUnchanged DEF vars, kernel
  <2>2. UNCHANGED <<keys, link, pc, id, pay, gone, undone, barred>>
    BY <1>2 DEF Tick, vars, kernel, local, ghosts
  <2>3. ASSUME Found' PROVE Found
    <3>1. link # 0 /\ link \in 1 .. Len(keys) /\ Alive(link)'
      BY <1>1, <2>2, <2>3 DEF Found, TypeOK
    <3>2. Alive(link)
      BY <2>1, <2>2, <3>1 DEF Steady, Alive
    <3> QED
      BY <3>1, <3>2 DEF Found
  <2> QED
    BY <1>1, <2>2, <2>3 DEF GoneInv, WithdrawnIsGone
<1>3. ASSUME NEW p \in Procs, Act(p) PROVE GoneInv'
  <2>1. Found' => keys'[link'].payload \notin gone' \cup undone'
    BY <1>3, FoundNext
  <2>2. \A q \in Procs :
          /\ pc'[q] = "reading" => keys'[id'[q]].payload \notin barred'[q]
          /\ pc'[q] = "checking" => pay'[q] \notin barred'[q]
    BY <1>1, <1>3, BarredNext
  <2> QED
    BY <1>1, <2>1, <2>2 DEF GoneInv, WithdrawnIsGone
<1> QED
  BY <1>2, <1>3 DEF Next, Act

\* A command begun after a successful forget gets hold of no key remembered
\* before it, nor of one whose remember had failed.
THEOREM WithdrawnStaysGone == Spec => []WithdrawnIsGone
<1>1. GoneInv => WithdrawnIsGone
  BY DEF GoneInv
<1> QED
  BY GoneInit, GoneNext, <1>1, PTL DEF Spec
-----------------------------------------------------------------------------
(* A key that was configured is open to every session                      *)

WideInv ==
    /\ \A p \in Procs : pc[p] = "timing" => keys[id[p]].wide
    /\ \A p \in Procs : outcome[p] = "cached" =>
          pc[p] = "idle" /\ id[p] # 0 /\ keys[id[p]].wide

LEMMA WideNext == TypeOK /\ TypeOK' /\ WideInv /\ [Next]_vars => WideInv'
<1> SUFFICES ASSUME TypeOK, TypeOK', WideInv, [Next]_vars PROVE WideInv'
  OBVIOUS
<1>1. CASE Tick \/ UNCHANGED vars
  BY <1>1 DEF Tick, vars, kernel, local, WideInv
<1>2. ASSUME NEW p \in Procs, Act(p) PROVE WideInv'
  <2>0. \A j \in 1 .. Len(keys) : keys[j].wide => keys'[j].wide
    BY KeysPersist DEF Persist
  <2>1. ASSUME NEW q \in Procs \ {p}
        PROVE  /\ pc'[q] = "timing" => keys'[id'[q]].wide
               /\ outcome'[q] = "cached" =>
                     pc'[q] = "idle" /\ id'[q] # 0 /\ keys'[id'[q]].wide
    <3>1. pc'[q] = pc[q] /\ id'[q] = id[q] /\ outcome'[q] = outcome[q]
      BY <1>2, OneActs DEF Others
    <3>2. id[q] # 0 => id[q] \in 1 .. Len(keys)
      BY DEF TypeOK
    <3>3. pc[q] = "timing" => id[q] # 0 /\ keys[id[q]].wide
      BY DEF TypeOK, WideInv
    <3>4. outcome[q] = "cached" =>
             pc[q] = "idle" /\ id[q] # 0 /\ keys[id[q]].wide
      BY DEF WideInv
    <3> QED
      BY <2>0, <3>1, <3>2, <3>3, <3>4
  <2>2. /\ pc'[p] = "timing" => keys'[id'[p]].wide
        /\ outcome'[p] = "cached" =>
              pc'[p] = "idle" /\ id'[p] # 0 /\ keys'[id'[p]].wide
    <3> USE DEF TypeOK, Goto, local
    <3>0. outcome[p] = "cached" => pc[p] = "idle"
      BY DEF WideInv
    <3>1. CASE Remember(p) \/ Open(p) \/ Forget(p)
      BY <1>2, <3>1 DEF Remember, Open, Forget, Begin
    <3>2. CASE Add(p) \/ SetTimeoutFails(p) \/ Revoke(p)
      BY <3>0, <3>2 DEF Add, SetTimeoutFails, Revoke
    <3>3. CASE SetPerm(p)
      <4>1. pc[p] = "perm" /\ UNCHANGED <<id, outcome>> /\ pc'[p] # "idle"
        BY <3>3 DEF SetPerm
      <4>2. CASE keys' = [keys EXCEPT ![id[p]].wide = TRUE]
        <5>1. Same(id[p], [keys[id[p]] EXCEPT !.wide = TRUE])
          BY <4>1, <4>2, PermKey
        <5>2. keys'[id[p]].wide
          BY <5>1 DEF Same, Grown, Key
        <5> QED
          BY <3>0, <4>1, <5>2
      <4>3. CASE pc' = [pc EXCEPT ![p] = "revoking"]
        BY <3>0, <4>1, <4>3
      <4> QED
        BY <3>3, <4>2, <4>3 DEF SetPerm
    <3>4. CASE SetTimeout(p)
      <4>1. /\ id[p] \in 1 .. Len(keys) /\ id[p] # 0 /\ keys[id[p]].wide
            /\ pc'[p] = "idle" /\ UNCHANGED id
        BY <3>4 DEF SetTimeout, End, WideInv
      <4> QED
        BY <2>0, <4>1
    <3>5. ASSUME NEW how, how # "cached", End(p, how)
          PROVE  /\ pc'[p] = "timing" => keys'[id'[p]].wide
                 /\ outcome'[p] = "cached" =>
                       pc'[p] = "idle" /\ id'[p] # 0 /\ keys'[id'[p]].wide
      BY <3>5 DEF End
    <3>6. CASE AddFails(p) \/ Unlink(p) \/ ReadFails(p) \/ Kill(p)
      BY <3>5, <3>6 DEF AddFails, Unlink, ReadFails, Kill
    <3>7. CASE Read(p)
      BY <3>0, <3>7 DEF Read
    <3>8. CASE Check(p)
      BY <3>0, <3>5, <3>8 DEF Check
    <3>9. CASE ForgetSearch(p)
      BY <3>0, <3>5, <3>9 DEF ForgetSearch
    <3>10. CASE ForgetUnlink(p)
      BY <3>5, <3>10 DEF ForgetUnlink
    <3> QED
      BY <1>2, <3>1, <3>2, <3>3, <3>4, <3>6, <3>7, <3>8, <3>9, <3>10
         DEF Act, Step
  <2> QED
    BY <2>1, <2>2 DEF WideInv
<1> QED
  BY <1>1, <1>2 DEF Next, Act

\* The key of a remember that reported success is open to every session, for
\* as long as the keyring has it.
THEOREM AlwaysUsable == Spec => []UsableEverywhere
<1>1. Init => WideInv
  BY DEF Init, WideInv
<1>2. WideInv => UsableEverywhere
  BY DEF WideInv, UsableEverywhere
<1> QED
  BY <1>1, <1>2, TypeCorrect, WideNext, PTL DEF Spec
-----------------------------------------------------------------------------
(* What was remembered without a duration is kept                          *)

\* Whose duration is the payload's in hand.
OwnTTL ==
    \A p \in Procs :
        pc[p] \in {"adding"} \cup Storing => pay[p].by.ttl = ttl[p]

LEMMA OwnNext == FreshInv /\ OwnTTL /\ [Next]_vars => OwnTTL'
<1> SUFFICES ASSUME FreshInv, OwnTTL, [Next]_vars PROVE OwnTTL'
  OBVIOUS
<1>0. TypeOK
  BY DEF FreshInv
<1>1. CASE Tick \/ UNCHANGED vars
  BY <1>1 DEF Tick, vars, local, OwnTTL
<1>2. ASSUME NEW p \in Procs, Remember(p) PROVE OwnTTL'
  <2>1. PICK t \in TTLs : /\ ttl' = [ttl EXCEPT ![p] = t]
                          /\ pay' = [pay EXCEPT ![p] = Stamped(p, t)]
    BY <1>2 DEF Remember
  <2>2. Stamped(p, t).by.ttl = t
    BY DEF Stamped
  <2>3. pay'[p].by.ttl = ttl'[p]
    BY <1>0, <2>1, <2>2 DEF TypeOK
  <2>4. \A q \in Procs \ {p} : pc'[q] = pc[q] /\ pay'[q] = pay[q] /\ ttl'[q] = ttl[q]
    BY <1>0, <1>2, <2>1, OneActs DEF Act, Others, TypeOK
  <2> QED
    BY <2>3, <2>4 DEF OwnTTL
<1>3. ASSUME NEW p \in Procs, Act(p), ~Remember(p) PROVE OwnTTL'
  <2>1. UNCHANGED ttl
    <3>1. CASE Open(p) \/ Forget(p) \/ Kill(p) \/ AddFails(p) \/ Add(p)
      BY <3>1 DEF Open, Forget, Kill, AddFails, Add, End
    <3>2. CASE SetPerm(p) \/ SetTimeout(p) \/ SetTimeoutFails(p) \/ Revoke(p)
      BY <3>2 DEF SetPerm, SetTimeout, SetTimeoutFails, Revoke, End
    <3>3. CASE Unlink(p) \/ Read(p) \/ ReadFails(p) \/ Check(p)
      BY <3>3 DEF Unlink, Read, ReadFails, Check, End
    <3>4. CASE ForgetSearch(p) \/ ForgetUnlink(p)
      BY <3>4 DEF ForgetSearch, ForgetUnlink, End
    <3> QED
      BY <1>3, <3>1, <3>2, <3>3, <3>4 DEF Act, Step
  <2>2. \A q \in Procs \ {p} : pc'[q] = pc[q] /\ pay'[q] = pay[q]
    BY <1>0, <1>3, OneActs DEF Others
  <2>3. pc'[p] \in {"adding"} \cup Storing =>
           pc[p] \in {"adding"} \cup Storing /\ pay'[p] = pay[p]
    <3>1. CASE Add(p)
      BY <3>1 DEF Add
    <3>2. CASE ~Add(p)
      BY <1>3, <3>2, OthersCalm DEF Calm
    <3> QED
      BY <3>1, <3>2
  <2> QED
    BY <2>1, <2>2, <2>3 DEF OwnTTL
<1> QED
  BY <1>1, <1>2, <1>3 DEF Next, Act

\* While keeps holds, the linked key has no end of its own, nor has what
\* anybody has read, and nobody is at anything but opening the vault.
KeepInv ==
    keeps =>
        /\ link # 0 /\ ~keys[link].revoked /\ keys[link].timeout = 0
        /\ keys[link].payload.expiry = 0
        /\ \A p \in Procs : pc[p] \in {"idle", "reading", "checking"}
        /\ \A p \in Procs : pc[p] = "reading" => id[p] = link
        /\ \A p \in Procs : pc[p] = "checking" => pay[p].expiry = 0

\* The last call of a remember without a duration, nobody else at it.
LEMMA KeepBegins ==
    ASSUME LateInv, FreshInv, OwnTTL, NEW p \in Procs, SetTimeout(p), keeps'
    PROVE  KeepInv'
<1>0. TypeOK /\ pc[p] = "timing"
  BY DEF LateInv, SetTimeout
<1>1. /\ ttl[p] = 0 /\ link = id[p] /\ keys[link].payload = pay[p]
      /\ \A q \in Procs \ {p} : pc[q] = "idle"
      /\ link' = link /\ Alive(id[p])
  BY DEF SetTimeout
<1>2. Same(id[p], [keys[id[p]] EXCEPT !.timeout = Timeout(p)])
  BY <1>0, TimedKey DEF SetTimeout
<1>3. keys[id[p]] \in Key /\ keys'[id[p]] = [keys[id[p]] EXCEPT !.timeout = Timeout(p)]
  BY <1>0, <1>2 DEF Same, Grown, TypeOK
<1>4. Timeout(p) = 0
  BY <1>1 DEF Timeout
<1>5. /\ keys'[id[p]].timeout = 0 /\ keys'[id[p]].payload = keys[id[p]].payload
      /\ keys'[id[p]].revoked = keys[id[p]].revoked
  BY <1>3, <1>4 DEF Key
<1>6. ~keys[id[p]].revoked /\ id[p] # 0
  BY <1>0, <1>1 DEF Alive, TypeOK
<1>7. pay[p].expiry = 0
  BY <1>0, <1>1 DEF LateInv, AllDue, Due, OwnTTL, Storing, TypeOK
<1>8. \A q \in Procs : pc'[q] = "idle"
  BY <1>0, <1>1 DEF SetTimeout, End, TypeOK
<1> QED
  BY <1>1, <1>5, <1>6, <1>7, <1>8 DEF KeepInv

\* It stays so while others only open the vault.
LEMMA KeepGoesOn ==
    ASSUME TypeOK, KeepInv, NEW p \in Procs, Act(p), ~SetTimeout(p), keeps'
    PROVE  KeepInv'
<1>0. \A q \in Procs \ {p} :
          pc'[q] = pc[q] /\ id'[q] = id[q] /\ pay'[q] = pay[q]
  BY OneActs DEF Others
<1>1. keeps /\ ~Remember(p) /\ ~Forget(p)
  <2>1. ~Remember(p) /\ ~Forget(p)
    BY DEF Remember, Forget, Begin
  <2>2. ASSUME Open(p) PROVE keeps
    BY <2>2 DEF Open, Begin, TypeOK
  <2>3. ASSUME UNCHANGED keeps PROVE keeps
    BY <2>3
  <2>4. CASE Add(p) \/ AddFails(p) \/ SetPerm(p) \/ SetTimeoutFails(p)
    BY <2>1, <2>3, <2>4 DEF Add, AddFails, SetPerm, SetTimeoutFails, ghosts
  <2>5. CASE Revoke(p) \/ Unlink(p) \/ Read(p) \/ ReadFails(p) \/ Check(p)
    BY <2>1, <2>3, <2>5 DEF Revoke, Unlink, Read, ReadFails, Check, ghosts
  <2>6. CASE ForgetSearch(p) \/ ForgetUnlink(p) \/ Kill(p)
    BY <2>1, <2>3, <2>6 DEF ForgetSearch, ForgetUnlink, Kill, ghosts
  <2> QED
    BY <2>1, <2>2, <2>4, <2>5, <2>6 DEF Act, Step
<1>2. /\ link # 0 /\ ~keys[link].revoked /\ keys[link].timeout = 0
      /\ keys[link].payload.expiry = 0
      /\ \A q \in Procs : pc[q] \in {"idle", "reading", "checking"}
      /\ \A q \in Procs : pc[q] = "reading" => id[q] = link
      /\ \A q \in Procs : pc[q] = "checking" => pay[q].expiry = 0
  BY <1>1 DEF KeepInv
<1>3. ASSUME UNCHANGED <<keys, link>>,
             pc'[p] \in {"idle", "reading", "checking"},
             pc'[p] = "reading" => id'[p] = link,
             pc'[p] = "checking" => pay'[p].expiry = 0
      PROVE  KeepInv'
  <2>1. \A q \in Procs :
            /\ pc'[q] \in {"idle", "reading", "checking"}
            /\ pc'[q] = "reading" => id'[q] = link
            /\ pc'[q] = "checking" => pay'[q].expiry = 0
    BY <1>0, <1>2, <1>3
  <2> QED
    BY <1>2, <1>3, <2>1 DEF KeepInv
<1>4. CASE Open(p)
  <2>1. pc'[p] = "reading" /\ id'[p] = link /\ UNCHANGED <<keys, link>>
    BY <1>4 DEF Open, Goto, kernel, TypeOK
  <2> QED
    BY <1>3, <2>1
<1>5. CASE Read(p)
  <2>1. /\ pc[p] = "reading" /\ pc'[p] = "checking"
        /\ pay'[p] = keys[id[p]].payload /\ UNCHANGED <<keys, link>>
    BY <1>5 DEF Read, Goto, kernel, TypeOK
  <2> QED
    BY <1>2, <1>3, <2>1
<1>6. ASSUME NEW how, End(p, how), UNCHANGED <<keys, link>> PROVE KeepInv'
  <2>1. pc'[p] = "idle"
    BY <1>6 DEF End, TypeOK
  <2> QED
    BY <1>3, <1>6, <2>1
<1>7. CASE ReadFails(p) \/ Kill(p)
  BY <1>6, <1>7 DEF ReadFails, Kill, kernel
<1>8. CASE Check(p)
  <2>1. ~Expired(p) /\ UNCHANGED <<keys, link>>
    BY <1>2, <1>8 DEF Check, Expired, kernel
  <2> QED
    BY <1>6, <1>8, <2>1 DEF Check
<1>9. CASE Add(p) \/ AddFails(p) \/ SetPerm(p) \/ SetTimeoutFails(p)
  BY <1>2, <1>9 DEF Add, AddFails, SetPerm, SetTimeoutFails
<1>10. CASE Revoke(p) \/ Unlink(p) \/ ForgetSearch(p) \/ ForgetUnlink(p)
  BY <1>2, <1>10 DEF Revoke, Unlink, ForgetSearch, ForgetUnlink
<1> QED
  BY <1>1, <1>4, <1>5, <1>7, <1>8, <1>9, <1>10 DEF Act, Step

KeptInv == LateInv /\ FreshInv /\ OwnTTL /\ KeepInv

LEMMA KeptNext == KeptInv /\ [Next]_vars => KeptInv'
<1> SUFFICES ASSUME KeptInv, [Next]_vars PROVE KeepInv'
  BY LateNext, FreshNext, OwnNext DEF KeptInv
<1>1. CASE Tick \/ UNCHANGED vars
  BY <1>1 DEF Tick, vars, kernel, local, ghosts, KeptInv, KeepInv
<1>2. ASSUME NEW p \in Procs, Act(p) PROVE KeepInv'
  <2>1. CASE ~keeps'
    BY <2>1 DEF KeepInv
  <2>2. CASE keeps'
    BY <1>2, <2>2, KeepBegins, KeepGoesOn DEF KeptInv, LateInv
  <2> QED
    BY <2>1, <2>2
<1> QED
  BY <1>1, <1>2 DEF Next, Act

\* The key of a remember without a duration, which ended with nobody else at
\* it, is found until somebody remembers or forgets again.
THEOREM AlwaysKept == Spec => []KeptUntilForgotten
<1>1. Init => KeptInv
  BY LateInit, FreshInit DEF Init, KeptInv, OwnTTL, KeepInv, Storing
<1>2. KeptInv => KeptUntilForgotten
  BY DEF KeptInv, KeepInv, KeptUntilForgotten, Found, Alive
<1> QED
  BY <1>1, <1>2, KeptNext, PTL DEF Spec
-----------------------------------------------------------------------------
(* The keyring implements KeyPromise                                       *)

\* The offers and what processes have fetched, as Promise takes them.
Offers == {keys[k].payload : k \in Reachable}
Got == [p \in Procs |-> IF pc[p] = "checking" THEN pay[p] ELSE Nothing]

\* What one process's step does to what it has fetched.
LEMMA GotOfOne ==
    ASSUME NEW p \in Procs, Others(p)
    PROVE  Got' = [Got EXCEPT ![p] = IF pc'[p] = "checking" THEN pay'[p]
                                     ELSE Nothing]
BY DEF Got, Others

\* One that is not checking before nor after has fetched nothing.
LEMMA GotSame ==
    ASSUME NEW p \in Procs, Others(p), pc[p] # "checking", pc'[p] # "checking"
    PROVE  Got' = Got
BY DEF Got, Others

\* The keys keep their payloads, none comes back to life and the keyring
\* links no other: whoever finds one finds the linked one.
LEMMA FewerOffers ==
    ASSUME Steady, link' \in {link, 0},
           \A q \in Procs : pc'[q] = "reading" =>
              (pc[q] = "reading" /\ id'[q] = id[q]) \/ id'[q] = link
    PROVE  Offers' \subseteq Offers
<1>1. DOMAIN keys = 1 .. Len(keys) /\ DOMAIN keys' = 1 .. Len(keys)
  BY DEF Steady
<1>2. ASSUME NEW k \in Reachable'
      PROVE  k \in Reachable /\ keys'[k].payload = keys[k].payload
  <2>1. k \in 1 .. Len(keys) /\ Alive(k)'
    BY <1>1, <1>2 DEF Reachable
  <2>2. Alive(k) /\ keys'[k].payload = keys[k].payload
    BY <2>1 DEF Steady
  <2>3. k = link' \/ \E q \in Procs : pc'[q] = "reading" /\ id'[q] = k
    BY <1>2 DEF Reachable
  <2>4. k # 0
    BY <2>1 DEF Steady
  <2>5. k = link \/ \E q \in Procs : pc[q] = "reading" /\ id[q] = k
    BY <2>3, <2>4
  <2> QED
    BY <1>1, <2>1, <2>2, <2>5 DEF Reachable
<1> QED
  BY <1>2 DEF Offers

\* add_key's key is the only one that gets a payload.
LEMMA OneMoreOffer ==
    ASSUME NEW p \in Procs, NEW i, AddsAt(p, i), UNCHANGED now, Others(p),
           pc'[p] # "reading"
    PROVE  Offers' \subseteq Offers \cup {pay[p]}
<1>1. DOMAIN keys = 1 .. Len(keys) /\ DOMAIN keys' = 1 .. Len(keys')
  BY DEF AddsAt
<1>2. ASSUME NEW k \in Reachable'
      PROVE  k = i \/ (k \in Reachable /\ keys'[k].payload = keys[k].payload)
  <2> SUFFICES ASSUME k # i
               PROVE  k \in Reachable /\ keys'[k].payload = keys[k].payload
    OBVIOUS
  <2>1. k \in 1 .. Len(keys) /\ keys'[k] = keys[k]
    BY <1>1, <1>2 DEF Reachable, AddsAt
  <2>2. Alive(k)
    BY <1>2, <2>1 DEF Reachable, Alive
  <2>3. \E q \in Procs : pc'[q] = "reading" /\ id'[q] = k
    BY <1>2 DEF Reachable, AddsAt
  <2>4. \E q \in Procs : pc[q] = "reading" /\ id[q] = k
    BY <2>3 DEF Others
  <2> QED
    BY <1>1, <2>1, <2>2, <2>4 DEF Reachable
<1>3. keys'[i].payload = pay[p]
  BY DEF AddsAt
<1> QED
  BY <1>2, <1>3 DEF Offers

LEMMA InitRefines == Init => Promise!Init
<1> SUFFICES ASSUME Init PROVE Promise!Init
  OBVIOUS
<1>1. Reachable = {}
  BY DEF Init, Reachable
<1>2. \A p \in Procs : pc[p] # "checking"
  BY DEF Init
<1> QED
  BY <1>1, <1>2 DEF Init, Promise!Init

\* Which steps take an offer away at most, and touch nothing else of Promise's.
Takes(p) ==
    \/ Remember(p) \/ Open(p) \/ Forget(p) \/ AddFails(p) \/ SetPerm(p)
    \/ SetTimeout(p) \/ SetTimeoutFails(p) \/ Revoke(p) \/ Unlink(p)
    \/ ReadFails(p) \/ ForgetSearch(p) \/ ForgetUnlink(p)

\* They keep what is linked or unlink it, and find no key but the linked one.
LEMMA TakesOnly ==
    ASSUME TypeOK, NEW p \in Procs, Takes(p)
    PROVE  /\ UNCHANGED <<now, added, used>> /\ link' \in {link, 0}
           /\ pc[p] # "checking" /\ pc'[p] # "checking"
           /\ pc'[p] = "reading" => id'[p] = link
<1> USE DEF TypeOK, Goto, kernel, ghosts
<1>1. CASE Remember(p) \/ Open(p) \/ Forget(p)
  BY <1>1 DEF Remember, Open, Forget, Begin
<1>2. ASSUME NEW how, End(p, how)
      PROVE  pc'[p] = "idle"
  BY <1>2 DEF End
<1>3. CASE AddFails(p) \/ SetTimeout(p) \/ ReadFails(p)
  BY <1>2, <1>3 DEF AddFails, SetTimeout, ReadFails
<1>4. CASE Unlink(p)
  BY <1>2, <1>4 DEF Unlink
<1>5. CASE ForgetUnlink(p)
  BY <1>2, <1>5 DEF ForgetUnlink
<1>6. CASE ForgetSearch(p)
  BY <1>2, <1>6 DEF ForgetSearch
<1>7. CASE SetPerm(p)
  <2>1. pc[p] = "perm" /\ UNCHANGED <<now, link, used, added>>
    BY <1>7 DEF SetPerm
  <2>2. pc'[p] \in {"timing", "revoking"}
    BY <1>7 DEF SetPerm
  <2> QED
    BY <2>1, <2>2
<1>8. CASE SetTimeoutFails(p) \/ Revoke(p)
  BY <1>8 DEF SetTimeoutFails, Revoke
<1> QED
  BY <1>1, <1>3, <1>4, <1>5, <1>6, <1>7, <1>8 DEF Takes

LEMMA TakesRefines ==
    ASSUME TypeOK, [Next]_vars, NEW p \in Procs, Takes(p)
    PROVE  Promise!Withdraw
<1>1. Act(p) /\ Others(p)
  BY OneActs DEF Takes, Act, Step
<1>2. /\ UNCHANGED <<now, added, used>> /\ link' \in {link, 0}
      /\ pc[p] # "checking" /\ pc'[p] # "checking"
      /\ pc'[p] = "reading" => id'[p] = link
  BY TakesOnly
<1>3. Steady
  BY SteadyUnchanged, SteadyPerm, SteadyTimeout, SteadyRevoke
  DEF Takes, Remember, Open, Forget, AddFails, SetTimeoutFails, Unlink,
      ReadFails, ForgetSearch, ForgetUnlink, kernel
<1>4. Got' = Got
  BY <1>1, <1>2, GotSame
<1>5. Offers' \subseteq Offers
  BY <1>1, <1>2, <1>3, FewerOffers DEF Others
<1> QED
  BY <1>2, <1>4, <1>5 DEF Promise!Withdraw, Offers, Got

\* The key found is the one read.
LEMMA ReadRefines ==
    ASSUME TypeOK, NEW p \in Procs, Read(p)
    PROVE  Promise!Fetch(p)
<1>1. /\ Others(p) /\ UNCHANGED <<now, keys, link, added, used>>
      /\ pc[p] = "reading" /\ Alive(id[p])
      /\ pc'[p] = "checking" /\ pay'[p] = keys[id[p]].payload
  BY OneActs DEF Act, Step, Read, Goto, TypeOK, kernel, ghosts
<1>2. Got' = [Got EXCEPT ![p] = keys[id[p]].payload]
  BY <1>1, GotOfOne
<1>3. id[p] \in DOMAIN keys
  BY <1>1 DEF TypeOK
<1>4. keys[id[p]].payload \in Offers
  BY <1>1, <1>3 DEF Offers, Reachable
<1>5. Offers' \subseteq Offers
  BY <1>1, SteadyUnchanged, FewerOffers DEF Others
<1> QED
  BY <1>1, <1>2, <1>4, <1>5 DEF Promise!Fetch, Offers, Got

\* An entry past its time is dropped, another opens the vault.
LEMMA CheckRefines ==
    ASSUME LateInv, NEW p \in Procs, Check(p)
    PROVE  Promise!Use(p) \/ Promise!Discard(p)
<1>0. TypeOK
  BY DEF LateInv
<1>1. /\ Others(p) /\ UNCHANGED <<now, keys, link, added>> /\ pc[p] = "checking"
  BY <1>0, OneActs DEF Act, Step, Check, kernel, ghosts
<1>2. CASE Expired(p)
  <2>1. pc'[p] = "dropping" /\ UNCHANGED used
    BY <1>0, <1>2 DEF Check, Goto, TypeOK
  <2>2. Got' = [Got EXCEPT ![p] = Nothing]
    BY <1>1, <2>1, GotOfOne
  <2>3. Offers' \subseteq Offers
    BY <1>0, <1>1, <2>1, SteadyUnchanged, FewerOffers DEF Others
  <2>4. Promise!Discard(p)
    BY <1>1, <2>1, <2>2, <2>3 DEF Promise!Discard, Offers, Got
  <2> QED
    BY <2>4
<1>3. CASE ~Expired(p)
  <2>1. /\ pc'[p] = "idle" /\ UNCHANGED id
        /\ used' = [used EXCEPT ![p] = [offer |-> pay[p], at |-> now]]
    BY <1>0, <1>3 DEF Check, End, TypeOK
  <2>2. Got' = [Got EXCEPT ![p] = Nothing]
    BY <1>1, <2>1, GotOfOne
  <2>3. \A q \in Procs : (pc'[q] = "reading" <=> pc[q] = "reading") /\ id'[q] = id[q]
    BY <1>1, <2>1 DEF Others
  <2>4. \A k : Alive(k)' <=> Alive(k)
    BY <1>1 DEF Alive
  <2>5. Reachable' = Reachable
    BY <1>1, <2>3, <2>4 DEF Reachable
  <2>6. Offers' = Offers
    BY <1>1, <2>5 DEF Offers
  <2>7. Got[p] = pay[p] /\ pay[p] # Nothing /\ Due(pay[p])
    BY <1>0, <1>1 DEF Got, TypeOK, LateInv, AllDue
  <2>8. pay[p].by.ttl = 0 \/ now < pay[p].by.start + pay[p].by.ttl
    BY <1>0, <1>3, <2>7, UsedInTime
  <2>9. Promise!InTime(pay[p], now)
    BY <2>8 DEF Promise!InTime, Promise!Due
  <2>10. Promise!Use(p)
    BY <1>1, <2>1, <2>2, <2>6, <2>7, <2>9 DEF Promise!Use, Offers, Got
  <2> QED
    BY <2>10
<1> QED
  BY <1>2, <1>3

\* add_key offers the payload, which nobody offered before.
LEMMA AddRefines ==
    ASSUME FreshInv, NEW p \in Procs, Add(p)
    PROVE  \E o \in added' : Promise!Put(o)
<1>0. TypeOK
  BY DEF FreshInv
<1>1. PICK i : AddsAt(p, i)
  BY <1>0, AddsSomewhere
<1>2. PICK o : o = pay[p]
  OBVIOUS
<1>3. /\ Others(p) /\ o \notin added /\ added' = added \cup {o}
      /\ UNCHANGED <<now, used>> /\ pc[p] = "adding" /\ pc'[p] = "perm"
  BY <1>0, <1>2, OneActs DEF Act, Step, Add, Goto, FreshInv, TypeOK
<1>4. Got' = Got
  BY <1>3, GotSame
<1>5. Offers' \subseteq Offers \cup {o}
  BY <1>1, <1>2, <1>3, OneMoreOffer
<1>6. Promise!Put(o)
  BY <1>3, <1>4, <1>5 DEF Promise!Put, Offers, Got
<1> QED
  BY <1>3, <1>6

\* A process dies with what it has in hand.
LEMMA KillRefines ==
    ASSUME TypeOK, NEW p \in Procs, Kill(p)
    PROVE  Promise!Discard(p)
<1>1. /\ Others(p) /\ UNCHANGED <<now, keys, link, added, used>>
      /\ pc'[p] = "idle"
  BY OneActs DEF Act, Kill, End, TypeOK, kernel, ghosts
<1>2. Got' = [Got EXCEPT ![p] = Nothing]
  BY <1>1, GotOfOne
<1>3. Offers' \subseteq Offers
  BY <1>1, SteadyUnchanged, FewerOffers DEF Others
<1> QED
  BY <1>1, <1>2, <1>3 DEF Promise!Discard, Offers, Got

LEMMA StepRefines ==
    LateInv /\ FreshInv /\ [Next]_vars => [Promise!Next]_(Promise!vars)
<1> SUFFICES ASSUME LateInv, FreshInv, [Next]_vars
             PROVE  \/ Promise!Next
                    \/ UNCHANGED <<now, added, Offers, Got, used>>
  BY DEF Promise!vars, Offers, Got
<1>0. TypeOK
  BY DEF FreshInv
<1>1. CASE Tick
  <2>1. /\ now' = now + 1 /\ UNCHANGED <<keys, link, pc, id, pay, added, used>>
    BY <1>1 DEF Tick, local, ghosts
  <2>2. Got' = Got
    BY <2>1 DEF Got
  <2>3. Offers' \subseteq Offers
    BY <1>0, <1>1, <2>1, SteadyTick, FewerOffers
  <2>4. Promise!Tick
    BY <2>1, <2>2, <2>3 DEF Promise!Tick, Offers, Got
  <2> QED
    BY <2>4 DEF Promise!Next
<1>2. ASSUME NEW p \in Procs, Takes(p) PROVE Promise!Next
  BY <1>0, <1>2, TakesRefines DEF Promise!Next
<1>3. ASSUME NEW p \in Procs, Add(p) PROVE Promise!Next
  BY <1>3, AddRefines DEF Promise!Next
<1>4. ASSUME NEW p \in Procs, Read(p) PROVE Promise!Next
  BY <1>0, <1>4, ReadRefines DEF Promise!Next
<1>5. ASSUME NEW p \in Procs, Check(p) PROVE Promise!Next
  BY <1>5, CheckRefines DEF Promise!Next
<1>6. ASSUME NEW p \in Procs, Kill(p) PROVE Promise!Next
  BY <1>0, <1>6, KillRefines DEF Promise!Next
<1>7. CASE UNCHANGED vars
  <2>1. UNCHANGED <<now, keys, link, pc, id, pay, added, used>>
    BY <1>7 DEF vars, kernel, local, ghosts
  <2>2. \A k : Alive(k)' <=> Alive(k)
    BY <2>1 DEF Alive
  <2>3. Reachable' = Reachable
    BY <2>1, <2>2 DEF Reachable
  <2> QED
    BY <2>1, <2>3 DEF Offers, Got
<1> QED
  BY <1>1, <1>2, <1>3, <1>4, <1>5, <1>6, <1>7 DEF Next, Step, Takes

\* Every behaviour of the keyring is one that KeyPromise allows.
THEOREM Refines == Spec => KeyringKeepsPromise
<1>1. Spec => [](LateInv /\ FreshInv)
  BY LateInit, LateNext, FreshInit, FreshNext, PTL DEF Spec
<1> QED
  BY InitRefines, StepRefines, <1>1, PTL DEF Spec, KeyringKeepsPromise, Promise!Spec
=============================================================================
