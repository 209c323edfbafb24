------------------------ MODULE KeychainDarwinProofs ------------------------
(***************************************************************************)
(* What KeychainDarwin guarantees for any number of processes, accounts,   *)
(* durations and commands: no entry is used after its time, the whole      *)
(* implements KeyPromise, and with one account what was forgotten is gone. *)
(***************************************************************************)
EXTENDS KeychainDarwin, TLAPS

USE TTLAssumption, CommandsAssumption, BoundsAssumption, NothingAssumption
-----------------------------------------------------------------------------
(* Types                                                                   *)

LEMMA InitType == Init => TypeOK
<1> SUFFICES ASSUME Init PROVE TypeOK
  OBVIOUS
<1>1. /\ now \in Nat /\ items \in [Accounts -> Payload \cup {Nothing}]
      /\ sleepers \subseteq Sleeper /\ acct \in [Procs -> Accounts]
      /\ faults \in Nat /\ keeps \in BOOLEAN
      /\ added \subseteq Payload /\ gone \subseteq Payload
  BY DEF Init
<1>2. pc \in [Procs -> Phases] /\ run \in [Procs -> Nat]
  BY DEF Init, Phases
<1>3. /\ cmd \in [Procs -> Commands \cup {"none"}]
      /\ pay \in [Procs -> Payload \cup {Nothing}]
  BY DEF Init
<1>4. /\ used \in [Procs -> [offer : Payload, at : Nat] \cup {Nothing}]
      /\ barred \in [Procs -> SUBSET Payload]
  BY DEF Init
<1>5. \A p \in Procs : pc[p] = "idle"
  BY DEF Init
<1> QED
  BY <1>1, <1>2, <1>3, <1>4, <1>5 DEF TypeOK

\* What remember stores has the shape of a payload.
LEMMA StampedType ==
    ASSUME TypeOK, NEW p \in Procs, NEW t \in TTLs
    PROVE  /\ Stamped(p, t) \in Payload /\ Stamped(p, t) # Nothing
           /\ Stamped(p, t).by.proc = p /\ Stamped(p, t).by.run = run[p] + 1
BY DEF Stamped, Payload, Attempt, TypeOK

LEMMA NextType == TypeOK /\ [Next]_vars => TypeOK'
<1> SUFFICES ASSUME TypeOK, [Next]_vars PROVE TypeOK'
  OBVIOUS
<1> USE DEF TypeOK, Phases, Goto, End, Fault, system, local, ghosts
<1>1. CASE Tick
  BY <1>1 DEF Tick
<1>2. CASE Logout
  BY <1>2 DEF Logout
<1>3. ASSUME NEW s \in sleepers, Wake(s) PROVE TypeOK'
  BY <1>3 DEF Wake, Fault, DeleteOne, Stored
<1>4. ASSUME NEW p \in Procs, Remember(p) PROVE TypeOK'
  <2>1. PICK t \in TTLs : pay' = [pay EXCEPT ![p] = Stamped(p, t)]
    BY <1>4 DEF Remember
  <2>2. Stamped(p, t) \in Payload /\ Stamped(p, t) # Nothing
    BY StampedType
  <2> QED
    BY <1>4, <2>1, <2>2 DEF Remember, Begin
<1>5. ASSUME NEW p \in Procs, Open(p) PROVE TypeOK'
  BY <1>5 DEF Open, Begin, Stored
<1>6. ASSUME NEW p \in Procs, Forget(p) PROVE TypeOK'
  BY <1>6 DEF Forget, Begin
<1>7. ASSUME NEW p \in Procs, Store(p) PROVE TypeOK'
  BY <1>7 DEF Store
<1>8. ASSUME NEW p \in Procs, StoreFails(p) PROVE TypeOK'
  BY <1>8 DEF StoreFails
<1>9. ASSUME NEW p \in Procs, Schedule(p) PROVE TypeOK'
  <2>1. [by |-> pay[p].by, at |-> now + pay[p].by.ttl] \in Sleeper
    BY <1>9 DEF Schedule, Sleeper, Payload, Attempt
  <2> QED
    BY <1>9, <2>1 DEF Schedule
<1>10. ASSUME NEW p \in Procs, Check(p) PROVE TypeOK'
  BY <1>10 DEF Check
<1>11. ASSUME NEW p \in Procs, Drop(p) PROVE TypeOK'
  BY <1>11 DEF Drop, DeleteOne, Stored
<1>12. ASSUME NEW p \in Procs, Kill(p) PROVE TypeOK'
  BY <1>12 DEF Kill
<1>13. CASE UNCHANGED vars
  BY <1>13 DEF vars
<1> QED
  BY <1>1, <1>2, <1>3, <1>4, <1>5, <1>6, <1>7, <1>8, <1>9, <1>10, <1>11,
     <1>12, <1>13 DEF Next, Step

\* The variables keep their types.
THEOREM TypeCorrect == Spec => []TypeOK
BY InitType, NextType, PTL DEF Spec
-----------------------------------------------------------------------------
(* No key is used after its time                                           *)

\* A payload's deadline is the one its remember named.
Due(o) == o.expiry = IF o.by.ttl = 0 THEN 0 ELSE o.by.start + o.by.ttl

\* Every payload there is, in the keychain or in hand, says when it ends.
AllDue ==
    /\ \A a \in Accounts : items[a] # Nothing => Due(items[a])
    /\ \A p \in Procs : pay[p] # Nothing => Due(pay[p])

LateInv == TypeOK /\ AllDue /\ NeverLate

LEMMA LateInit == Init => LateInv
BY InitType DEF Init, LateInv, AllDue, NeverLate

\* A payload that is not expired is in time.
LEMMA UsedInTime ==
    ASSUME TypeOK, NEW p \in Procs, pay[p] # Nothing, Due(pay[p]), ~Expired(p)
    PROVE  pay[p].by.ttl = 0 \/ now < pay[p].by.start + pay[p].by.ttl
<1> DEFINE o == pay[p]
<1>1. now \in Nat /\ o \in Payload
  BY DEF TypeOK
<1>2. o.expiry \in Nat /\ o.by.ttl \in Nat /\ o.by.start \in Nat
  BY <1>1 DEF Payload, Attempt
<1>3. o.expiry = 0 \/ now < o.expiry
  BY <1>1, <1>2 DEF Expired
<1>4. o.by.ttl # 0 => o.expiry = o.by.start + o.by.ttl
  BY DEF Due
<1> HIDE DEF o
<1>5. o.by.ttl = 0 \/ now < o.by.start + o.by.ttl
  BY <1>1, <1>2, <1>3, <1>4
<1> QED
  BY <1>5 DEF o

LEMMA LateNext == LateInv /\ [Next]_vars => LateInv'
<1> SUFFICES ASSUME LateInv, [Next]_vars PROVE LateInv'
  OBVIOUS
<1>0. TypeOK /\ TypeOK'
  BY NextType DEF LateInv
<1> USE <1>0 DEF LateInv, AllDue, NeverLate, Goto, End, system, local, ghosts
<1>1. CASE Tick
  BY <1>1 DEF Tick
<1>2. CASE Logout
  BY <1>2 DEF Logout
<1>3. ASSUME NEW s \in sleepers, Wake(s) PROVE LateInv'
  BY <1>3 DEF Wake, Fault, DeleteOne, Stored, TypeOK
<1>4. ASSUME NEW p \in Procs, Remember(p) PROVE LateInv'
  <2>1. PICK t \in TTLs : pay' = [pay EXCEPT ![p] = Stamped(p, t)]
    BY <1>4 DEF Remember
  <2>2. Due(Stamped(p, t))
    BY DEF Due, Stamped
  <2> QED
    BY <1>4, <2>1, <2>2 DEF Remember, TypeOK
<1>5. ASSUME NEW p \in Procs, Open(p) PROVE LateInv'
  BY <1>5 DEF Open, Stored, TypeOK
<1>6. ASSUME NEW p \in Procs, Forget(p) PROVE LateInv'
  BY <1>6 DEF Forget
<1>7. ASSUME NEW p \in Procs, Store(p) PROVE LateInv'
  BY <1>7 DEF Store, TypeOK
<1>8. ASSUME NEW p \in Procs, StoreFails(p) PROVE LateInv'
  BY <1>8 DEF StoreFails, TypeOK
<1>9. ASSUME NEW p \in Procs, Schedule(p) PROVE LateInv'
  BY <1>9 DEF Schedule, TypeOK
<1>10. ASSUME NEW p \in Procs, Check(p) PROVE LateInv'
  <2>1. CASE Expired(p)
    BY <1>10, <2>1 DEF Check, TypeOK
  <2>2. CASE ~Expired(p)
    <3>1. pay[p] # Nothing /\ Due(pay[p])
      BY <1>10 DEF Check, TypeOK
    <3>2. pay[p].by.ttl = 0 \/ now < pay[p].by.start + pay[p].by.ttl
      BY <2>2, <3>1, UsedInTime
    <3> QED
      BY <1>10, <2>2, <3>2 DEF Check, TypeOK
  <2> QED
    BY <2>1, <2>2
<1>11. ASSUME NEW p \in Procs, Drop(p) PROVE LateInv'
  BY <1>11 DEF Drop, DeleteOne, Stored, TypeOK
<1>12. ASSUME NEW p \in Procs, Kill(p) PROVE LateInv'
  BY <1>12 DEF Kill, TypeOK
<1>13. CASE UNCHANGED vars
  BY <1>13 DEF vars
<1> QED
  BY <1>1, <1>2, <1>3, <1>4, <1>5, <1>6, <1>7, <1>8, <1>9, <1>10, <1>11,
     <1>12, <1>13 DEF Next, Step

\* No command opens the vault with a key whose remember's time is over.
THEOREM AlwaysInTime == Spec => []NeverLate
<1>1. LateInv => NeverLate
  BY DEF LateInv
<1> QED
  BY LateInit, LateNext, <1>1, PTL DEF Spec
-----------------------------------------------------------------------------
(* Each remember stores a payload of its own                               *)

FreshInv ==
    /\ TypeOK
    /\ gone \subseteq added
    /\ \A a \in Accounts : items[a] # Nothing => items[a] \in added
    /\ \A o \in added : o.by.run <= run[o.by.proc]
    /\ \A p \in Procs : pc[p] = "storing" =>
          pay[p].by.proc = p /\ pay[p].by.run = run[p] /\ pay[p] \notin added

LEMMA FreshInit == Init => FreshInv
BY InitType DEF Init, FreshInv

LEMMA FreshNext == FreshInv /\ [Next]_vars => FreshInv'
<1> SUFFICES ASSUME FreshInv, [Next]_vars PROVE FreshInv'
  OBVIOUS
<1>0. TypeOK /\ TypeOK'
  BY NextType DEF FreshInv
<1>a. \A o \in added : o.by.proc \in Procs /\ o.by.run \in Nat
  BY <1>0 DEF TypeOK, Payload, Attempt
<1> USE <1>0 DEF FreshInv, Goto, End, system, local, ghosts
<1>1. CASE Tick
  BY <1>1 DEF Tick
<1>2. CASE Logout
  BY <1>2 DEF Logout
<1>3. ASSUME NEW s \in sleepers, Wake(s) PROVE FreshInv'
  BY <1>3 DEF Wake, Fault, DeleteOne, Stored, TypeOK
<1>4. ASSUME NEW p \in Procs, Remember(p) PROVE FreshInv'
  <2>1. PICK t \in TTLs : pay' = [pay EXCEPT ![p] = Stamped(p, t)]
    BY <1>4 DEF Remember
  <2> DEFINE o == Stamped(p, t)
  <2>2. o.by.proc = p /\ o.by.run = run[p] + 1
    BY StampedType
  <2> HIDE DEF o
  <2>3. run' = [run EXCEPT ![p] = @ + 1] /\ pc' = [pc EXCEPT ![p] = "storing"]
    BY <1>4 DEF Remember, Begin
  <2>4. pay' = [pay EXCEPT ![p] = o]
    BY <2>1 DEF o
  <2>5. UNCHANGED <<items, added>> /\ gone' \subseteq added'
    BY <1>4 DEF Remember, Begin
  <2>6. run \in [Procs -> Nat] /\ pc \in [Procs -> Phases]
        /\ pay \in [Procs -> Payload \cup {Nothing}]
    BY DEF TypeOK
  <2>7. \A q \in added : q.by.run <= run'[q.by.proc]
    BY <1>a, <2>3, <2>6
  <2>8. o \notin added
    BY <1>a, <2>2, <2>6
  <2>9. \A q \in Procs : pc'[q] = "storing" =>
          pay'[q].by.proc = q /\ pay'[q].by.run = run'[q] /\ pay'[q] \notin added
    BY <2>2, <2>3, <2>4, <2>6, <2>8
  <2> QED
    BY <2>5, <2>7, <2>9
<1>5. ASSUME NEW p \in Procs, Open(p) PROVE FreshInv'
  <2>1. \A o \in added : o.by.run <= run'[o.by.proc]
    BY <1>a, <1>5 DEF Open, Begin, TypeOK
  <2> QED
    BY <1>5, <2>1 DEF Open, Begin, TypeOK
<1>6. ASSUME NEW p \in Procs, Forget(p) PROVE FreshInv'
  <2>1. \A o \in added : o.by.run <= run'[o.by.proc]
    BY <1>a, <1>6 DEF Forget, Begin, TypeOK
  <2> QED
    BY <1>6, <2>1 DEF Forget, Begin, TypeOK
<1>7. ASSUME NEW p \in Procs, Store(p) PROVE FreshInv'
  <2>1. /\ pc[p] = "storing" /\ added' = added \cup {pay[p]} /\ UNCHANGED run
        /\ pay[p].by.proc = p /\ pay[p].by.run = run[p] /\ run[p] \in Nat
    BY <1>7 DEF Store, TypeOK
  <2>2. \A o \in added' : o.by.run <= run'[o.by.proc]
    <3>1. pay[p].by.run <= run'[pay[p].by.proc]
      BY <2>1
    <3>2. \A o \in added : o.by.run <= run'[o.by.proc]
      BY <2>1
    <3> QED
      BY <2>1, <3>1, <3>2
  <2>3. \A q \in Procs : pc'[q] = "storing" =>
          /\ q # p /\ pc[q] = "storing" /\ pay'[q] = pay[q]
          /\ pay[q].by.proc = q /\ pay[q].by.run = run[q] /\ pay[q] \notin added
    <3>0. /\ pc \in [Procs -> Phases]
          /\ pay \in [Procs -> Payload \cup {Nothing}]
      BY DEF TypeOK
    <3>1. /\ pc'[p] # "storing"
          /\ \A q \in Procs \ {p} : pc'[q] = pc[q] /\ pay'[q] = pay[q]
      <4>1. \/ pc' = [pc EXCEPT ![p] = "scheduling"] /\ pay' = pay
            \/ /\ pc' = [pc EXCEPT ![p] = "idle"]
               /\ pay' = [pay EXCEPT ![p] = Nothing]
        BY <1>7 DEF Store
      <4> QED
        BY <3>0, <4>1
    <3>2. \A q \in Procs : pc'[q] = "storing" =>
            q # p /\ pc[q] = "storing" /\ pay'[q] = pay[q]
      BY <3>1
    <3> QED
      BY <3>2
  <2>4. \A q \in Procs : pc'[q] = "storing" => pay'[q] # pay[p]
    BY <2>1, <2>3
  <2>5. \A a \in Accounts : items'[a] # Nothing => items'[a] \in added'
    BY <1>7, <2>1 DEF Store, TypeOK
  <2>6. gone' \subseteq added'
    BY <1>7, <2>1 DEF Store
  <2>7. \A q \in Procs : pc'[q] = "storing" =>
          /\ pay'[q].by.proc = q /\ pay'[q].by.run = run'[q]
          /\ pay'[q] \notin added'
    BY <2>1, <2>3, <2>4
  <2> QED
    BY <2>2, <2>5, <2>6, <2>7
<1>8. ASSUME NEW p \in Procs, StoreFails(p) PROVE FreshInv'
  BY <1>8 DEF StoreFails, TypeOK
<1>9. ASSUME NEW p \in Procs, Schedule(p) PROVE FreshInv'
  BY <1>9 DEF Schedule, TypeOK
<1>10. ASSUME NEW p \in Procs, Check(p) PROVE FreshInv'
  BY <1>10 DEF Check, TypeOK
<1>11. ASSUME NEW p \in Procs, Drop(p) PROVE FreshInv'
  BY <1>11 DEF Drop, DeleteOne, Stored, TypeOK
<1>12. ASSUME NEW p \in Procs, Kill(p) PROVE FreshInv'
  BY <1>12 DEF Kill, TypeOK
<1>13. CASE UNCHANGED vars
  BY <1>13 DEF vars
<1> QED
  BY <1>1, <1>2, <1>3, <1>4, <1>5, <1>6, <1>7, <1>8, <1>9, <1>10, <1>11,
     <1>12, <1>13 DEF Next, Step
-----------------------------------------------------------------------------
(* What was forgotten is gone, where $USER never changes                   *)

GoneInv ==
    /\ FreshInv /\ ForgottenIsGone
    /\ \A a \in Accounts : items[a] # Nothing => items[a] \notin gone

LEMMA GoneInit == Init => GoneInv
BY FreshInit DEF Init, GoneInv, ForgottenIsGone

LEMMA GoneNext ==
    ASSUME \A a, b \in Accounts : a = b
    PROVE  GoneInv /\ [Next]_vars => GoneInv'
<1> SUFFICES ASSUME GoneInv, [Next]_vars PROVE GoneInv'
  OBVIOUS
<1>0. FreshInv /\ FreshInv' /\ TypeOK
  BY FreshNext DEF GoneInv, FreshInv
<1> USE <1>0 DEF GoneInv, ForgottenIsGone, Goto, End, system, local, ghosts
<1>1. CASE Tick
  BY <1>1 DEF Tick
<1>2. CASE Logout
  BY <1>2 DEF Logout
<1>3. ASSUME NEW s \in sleepers, Wake(s) PROVE GoneInv'
  BY <1>3 DEF Wake, Fault, DeleteOne, Stored, TypeOK
<1>4. ASSUME NEW p \in Procs, Remember(p) PROVE GoneInv'
  BY <1>4 DEF Remember, Begin, TypeOK
<1>5. ASSUME NEW p \in Procs, Open(p) PROVE GoneInv'
  BY <1>5 DEF Open, Begin, Stored, TypeOK
<1>6. ASSUME NEW p \in Procs, Forget(p) PROVE GoneInv'
  BY <1>6 DEF Forget, Begin, TypeOK
<1>7. ASSUME NEW p \in Procs, Store(p) PROVE GoneInv'
  <2>1. pay[p] \notin gone
    BY <1>7 DEF Store, FreshInv
  <2> QED
    BY <1>7, <2>1 DEF Store, TypeOK
<1>8. ASSUME NEW p \in Procs, StoreFails(p) PROVE GoneInv'
  BY <1>8 DEF StoreFails, TypeOK
<1>9. ASSUME NEW p \in Procs, Schedule(p) PROVE GoneInv'
  BY <1>9 DEF Schedule, TypeOK
<1>10. ASSUME NEW p \in Procs, Check(p) PROVE GoneInv'
  BY <1>10 DEF Check, TypeOK
<1>11. ASSUME NEW p \in Procs, Drop(p) PROVE GoneInv'
  <2>1. CASE DeleteOne
    <3>1. \A a \in Accounts : items'[a] = Nothing
      BY <2>1 DEF DeleteOne, Stored, TypeOK
    <3> QED
      BY <1>11, <3>1 DEF Drop, TypeOK
  <2>2. CASE UNCHANGED <<items, gone>>
    BY <1>11, <2>2 DEF Drop, TypeOK
  <2> QED
    BY <1>11, <2>1, <2>2 DEF Drop
<1>12. ASSUME NEW p \in Procs, Kill(p) PROVE GoneInv'
  BY <1>12 DEF Kill, TypeOK
<1>13. CASE UNCHANGED vars
  BY <1>13 DEF vars
<1> QED
  BY <1>1, <1>2, <1>3, <1>4, <1>5, <1>6, <1>7, <1>8, <1>9, <1>10, <1>11,
     <1>12, <1>13 DEF Next, Step

\* With one account, no command begun after a successful forget gets hold of
\* a key remembered before it.
THEOREM ForgetForgets ==
    ASSUME \A a, b \in Accounts : a = b
    PROVE  Spec => []ForgottenIsGone
<1>1. GoneInv => ForgottenIsGone
  BY DEF GoneInv
<1>2. GoneInv /\ [Next]_vars => GoneInv'
  BY GoneNext
<1> QED
  BY GoneInit, <1>1, <1>2, PTL DEF Spec
-----------------------------------------------------------------------------
(* The keychain implements KeyPromise                                      *)

Offers == {items[a] : a \in Stored}
Got == [p \in Procs |-> IF pc[p] = "checking" THEN pay[p] ELSE Nothing]

\* A step of one process that changes what it has got, if anything.
LEMMA GotOfOne ==
    ASSUME NEW p \in Procs,
           \A q \in Procs \ {p} : pc'[q] = pc[q] /\ pay'[q] = pay[q]
    PROVE  Got' = [Got EXCEPT ![p] = IF pc'[p] = "checking" THEN pay'[p]
                                     ELSE Nothing]
BY DEF Got

\* One that is not checking before nor after has got nothing.
LEMMA GotSame ==
    ASSUME NEW p \in Procs, pc[p] # "checking", pc'[p] # "checking",
           \A q \in Procs \ {p} : pc'[q] = pc[q] /\ pay'[q] = pay[q]
    PROVE  Got' = Got
BY DEF Got

\* How a command's end changes its process, and no other.
LEMMA EndOfOne ==
    ASSUME TypeOK, NEW p \in Procs, End(p)
    PROVE  /\ pc'[p] = "idle"
           /\ \A q \in Procs \ {p} : pc'[q] = pc[q] /\ pay'[q] = pay[q]
BY DEF End, TypeOK

LEMMA OffersType == FreshInv => Offers \subseteq added
BY DEF FreshInv, Offers, Stored

LEMMA InitRefines == Init => Promise!Init
<1> SUFFICES ASSUME Init PROVE Promise!Init
  OBVIOUS
<1>1. Stored = {}
  BY DEF Init, Stored
<1>2. \A p \in Procs : pc[p] # "checking"
  BY DEF Init
<1> QED
  BY <1>1, <1>2 DEF Init, Promise!Init

LEMMA StepRefines ==
    LateInv /\ FreshInv /\ [Next]_vars => [Promise!Next]_(Promise!vars)
<1> SUFFICES ASSUME LateInv, FreshInv, [Next]_vars
             PROVE  \/ Promise!Next
                    \/ UNCHANGED <<now, added, Offers, Got, used>>
  BY DEF Promise!vars, Offers, Got
<1>0. TypeOK
  BY DEF FreshInv
<1> USE <1>0 DEF system, local, ghosts
<1>1. CASE Tick
  <2>1. now' = now + 1 /\ UNCHANGED <<added, Offers, Got, used>>
    BY <1>1 DEF Tick, Offers, Got, Stored
  <2>2. Promise!Tick
    BY <2>1 DEF Promise!Tick, Offers, Got
  <2> QED
    BY <2>2 DEF Promise!Next
<1>2. CASE Logout
  BY <1>2 DEF Logout, Offers, Got, Stored
<1>3. ASSUME NEW s \in sleepers, Wake(s) PROVE Promise!Next
  <2>1. UNCHANGED <<now, added, Got, used>>
    BY <1>3 DEF Wake, Got
  <2>2. Offers' \subseteq Offers
    BY <1>3 DEF Wake, Fault, DeleteOne, Offers, Stored, TypeOK
  <2>3. Promise!Withdraw
    BY <2>1, <2>2 DEF Promise!Withdraw, Offers, Got
  <2> QED
    BY <2>3 DEF Promise!Next
<1>4. ASSUME NEW p \in Procs, Remember(p)
      PROVE  UNCHANGED <<now, added, Offers, Got, used>>
  <2>1. /\ pc[p] = "idle" /\ pc' = [pc EXCEPT ![p] = "storing"]
        /\ \E o : pay' = [pay EXCEPT ![p] = o]
        /\ UNCHANGED <<now, added, items, used>>
    BY <1>4 DEF Remember, Begin, Goto
  <2>2. /\ pc'[p] = "storing"
        /\ \A q \in Procs \ {p} : pc'[q] = pc[q] /\ pay'[q] = pay[q]
    BY <2>1 DEF TypeOK
  <2>3. Got' = Got
    BY <2>1, <2>2, GotSame
  <2> QED
    BY <2>1, <2>3 DEF Offers, Stored
<1>5. ASSUME NEW p \in Procs, Open(p) PROVE Promise!Next
  <2>1. PICK a \in Stored : pay' = [pay EXCEPT ![p] = items[a]]
    BY <1>5 DEF Open
  <2>2. /\ pc' = [pc EXCEPT ![p] = "checking"]
        /\ UNCHANGED <<now, added, items, used>>
    BY <1>5 DEF Open, Goto
  <2>3. /\ pc'[p] = "checking" /\ pay'[p] = items[a]
        /\ \A q \in Procs \ {p} : pc'[q] = pc[q] /\ pay'[q] = pay[q]
    BY <2>1, <2>2 DEF TypeOK
  <2>4. Got' = [Got EXCEPT ![p] = items[a]]
    BY <2>3, GotOfOne
  <2>5. items[a] \in Offers /\ Offers' = Offers
    BY <2>2 DEF Offers, Stored
  <2>6. Promise!Fetch(p)
    BY <2>2, <2>4, <2>5 DEF Promise!Fetch, Offers, Got
  <2> QED
    BY <2>6 DEF Promise!Next
<1>6. ASSUME NEW p \in Procs, Forget(p)
      PROVE  UNCHANGED <<now, added, Offers, Got, used>>
  <2>1. /\ pc[p] = "idle" /\ pc' = [pc EXCEPT ![p] = "dropping"]
        /\ UNCHANGED <<now, added, items, pay, used>>
    BY <1>6 DEF Forget, Begin, Goto
  <2>2. /\ pc'[p] = "dropping"
        /\ \A q \in Procs \ {p} : pc'[q] = pc[q] /\ pay'[q] = pay[q]
    BY <2>1 DEF TypeOK
  <2>3. Got' = Got
    BY <2>1, <2>2, GotSame
  <2> QED
    BY <2>1, <2>3 DEF Offers, Stored
<1>7. ASSUME NEW p \in Procs, Store(p) PROVE Promise!Next
  <2>0. PICK o : o = pay[p]
    OBVIOUS
  <2>1. /\ pc[p] = "storing" /\ o \notin added
        /\ added' = added \cup {o} /\ UNCHANGED <<now, used>>
        /\ items' = [items EXCEPT ![acct[p]] = o] /\ acct[p] \in Accounts
    BY <1>7, <2>0 DEF Store, FreshInv, TypeOK
  <2>2. \/ pc' = [pc EXCEPT ![p] = "scheduling"] /\ pay' = pay
        \/ pc' = [pc EXCEPT ![p] = "idle"] /\ pay' = [pay EXCEPT ![p] = Nothing]
    BY <1>7 DEF Store, Goto, End
  <2>3. /\ pc'[p] # "checking"
        /\ \A q \in Procs \ {p} : pc'[q] = pc[q] /\ pay'[q] = pay[q]
    BY <2>2 DEF TypeOK
  <2>4. Got' = Got
    BY <2>1, <2>3, GotSame
  <2>5. Offers' \subseteq Offers \cup {o}
    BY <2>1 DEF Offers, Stored, TypeOK
  <2>6. Promise!Put(o)
    BY <2>1, <2>4, <2>5 DEF Promise!Put, Offers, Got
  <2>7. \E q \in added' : Promise!Put(q)
    BY <2>1, <2>6
  <2> QED
    BY <2>7 DEF Promise!Next
<1>8. ASSUME NEW p \in Procs, StoreFails(p)
      PROVE  UNCHANGED <<now, added, Offers, Got, used>>
  <2>1. pc[p] = "storing" /\ End(p) /\ UNCHANGED <<now, added, items, used>>
    BY <1>8 DEF StoreFails
  <2>2. Got' = Got
    BY <2>1, EndOfOne, GotSame
  <2> QED
    BY <2>1, <2>2 DEF Offers, Stored
<1>9. ASSUME NEW p \in Procs, Schedule(p)
      PROVE  UNCHANGED <<now, added, Offers, Got, used>>
  <2>1. pc[p] = "scheduling" /\ End(p) /\ UNCHANGED <<now, added, items, used>>
    BY <1>9 DEF Schedule
  <2>2. Got' = Got
    BY <2>1, EndOfOne, GotSame
  <2> QED
    BY <2>1, <2>2 DEF Offers, Stored
<1>10. ASSUME NEW p \in Procs, Check(p) PROVE Promise!Next
  <2>1. pc[p] = "checking" /\ UNCHANGED <<now, added, items>>
    BY <1>10 DEF Check
  <2>2. Offers' = Offers
    BY <2>1 DEF Offers, Stored
  <2>3. CASE Expired(p)
    <3>1. /\ pc' = [pc EXCEPT ![p] = "dropping"] /\ UNCHANGED used
          /\ pay' = [pay EXCEPT ![p] = Nothing]
      BY <1>10, <2>3 DEF Check, Goto
    <3>2. /\ pc'[p] = "dropping"
          /\ \A q \in Procs \ {p} : pc'[q] = pc[q] /\ pay'[q] = pay[q]
      BY <3>1 DEF TypeOK
    <3>3. Got' = [Got EXCEPT ![p] = Nothing]
      BY <3>2, GotOfOne
    <3>4. Promise!Discard(p)
      BY <2>1, <2>2, <3>1, <3>3 DEF Promise!Discard, Offers, Got
    <3> QED
      BY <3>4 DEF Promise!Next
  <2>4. CASE ~Expired(p)
    <3>1. /\ used' = [used EXCEPT ![p] = [offer |-> pay[p], at |-> now]]
          /\ End(p)
      BY <1>10, <2>4 DEF Check
    <3>2. Got' = [Got EXCEPT ![p] = Nothing]
      BY <3>1, EndOfOne, GotOfOne
    <3>3. Got[p] = pay[p] /\ pay[p] # Nothing /\ Due(pay[p])
      BY <2>1 DEF Got, TypeOK, LateInv, AllDue
    <3>4. pay[p].by.ttl = 0 \/ now < pay[p].by.start + pay[p].by.ttl
      BY <2>4, <3>3, UsedInTime
    <3>5. Promise!InTime(pay[p], now)
      BY <3>4 DEF Promise!InTime, Promise!Due
    <3>6. Promise!Use(p)
      BY <2>1, <2>2, <3>1, <3>2, <3>3, <3>5 DEF Promise!Use, Offers, Got
    <3> QED
      BY <3>6 DEF Promise!Next
  <2> QED
    BY <2>3, <2>4
<1>11. ASSUME NEW p \in Procs, Drop(p) PROVE Promise!Next
  <2>1. pc[p] = "dropping" /\ End(p) /\ UNCHANGED <<now, added, used>>
    BY <1>11 DEF Drop
  <2>2. Got' = Got
    BY <2>1, EndOfOne, GotSame
  <2>3. Offers' \subseteq Offers
    BY <1>11 DEF Drop, DeleteOne, Offers, Stored, TypeOK
  <2>4. Promise!Withdraw
    BY <2>1, <2>2, <2>3 DEF Promise!Withdraw, Offers, Got
  <2> QED
    BY <2>4 DEF Promise!Next
<1>12. ASSUME NEW p \in Procs, Kill(p) PROVE Promise!Next
  <2>1. End(p) /\ UNCHANGED <<now, added, items, used>>
    BY <1>12 DEF Kill
  <2>2. Got' = [Got EXCEPT ![p] = Nothing]
    BY <2>1, EndOfOne, GotOfOne
  <2>3. Offers' = Offers
    BY <2>1 DEF Offers, Stored
  <2>4. Promise!Discard(p)
    BY <2>1, <2>2, <2>3 DEF Promise!Discard, Offers, Got
  <2> QED
    BY <2>4 DEF Promise!Next
<1>13. CASE UNCHANGED vars
  BY <1>13 DEF vars, Offers, Got, Stored
<1> QED
  BY <1>1, <1>2, <1>3, <1>4, <1>5, <1>6, <1>7, <1>8, <1>9, <1>10, <1>11,
     <1>12, <1>13 DEF Next, Step

\* Every behaviour of the keychain is one that KeyPromise allows.
THEOREM Refines == Spec => KeychainKeepsPromise
<1>1. Spec => [](LateInv /\ FreshInv)
  BY LateInit, LateNext, FreshInit, FreshNext, PTL DEF Spec
<1> QED
  BY InitRefines, StepRefines, <1>1, PTL DEF Spec, KeychainKeepsPromise, Promise!Spec
=============================================================================
