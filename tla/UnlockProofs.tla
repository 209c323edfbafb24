---------------------------- MODULE UnlockProofs ----------------------------
(***************************************************************************)
(* What Unlock guarantees for chains of any length and any passphrases:    *)
(* nobody is asked twice for one passphrase, every buffer typed into is    *)
(* overwritten, and the whole implements UnlockPromise.                    *)
(***************************************************************************)
EXTENDS Unlock, TLAPS

USE NAssumption, DamagedAssumption
-----------------------------------------------------------------------------
(* Types, and the list that is rearranged while it is walked               *)

Buffer == [vault : V, answer : Passphrases]

\* The passphrase moved to the front: the list has the same ones as before.
LEMMA FrontKeepsAll ==
    ASSUME NEW S, NEW list \in Seq(S), NEW k \in 1 .. Len(list)
    PROVE  /\ ToFront(list, k) \in Seq(S)
           /\ {ToFront(list, k)[j] : j \in DOMAIN ToFront(list, k)}
                  = {list[j] : j \in DOMAIN list}
<1> DEFINE n == Len(list)
           f == ToFront(list, k)
<1>1. n \in Nat /\ DOMAIN list = 1 .. n /\ \A j \in 1 .. n : list[j] \in S
  OBVIOUS
<1>2. f = [j \in 1 .. n |-> IF j = 1 THEN list[k]
                            ELSE IF j <= k THEN list[j - 1] ELSE list[j]]
  BY <1>1 DEF ToFront
<1> HIDE DEF n, f
<1>3. k \in 1 .. n
  BY DEF n
<1>4. \A j \in 1 .. n : \E m \in 1 .. n : f[j] = list[m]
  <2> TAKE j \in 1 .. n
  <2>1. CASE j = 1
    BY <1>2, <1>3, <2>1
  <2>2. CASE j # 1 /\ j <= k
    <3>1. j - 1 \in 1 .. n /\ f[j] = list[j - 1]
      BY <1>1, <1>2, <1>3, <2>2
    <3> QED
      BY <3>1
  <2>3. CASE j # 1 /\ j > k
    BY <1>2, <1>3, <1>1, <2>3
  <2> QED
    BY <1>1, <1>3, <2>1, <2>2, <2>3
<1>5. \A m \in 1 .. n : \E j \in 1 .. n : f[j] = list[m]
  <2> TAKE m \in 1 .. n
  <2>1. CASE m = k
    <3>1. 1 \in 1 .. n /\ f[1] = list[m]
      BY <1>1, <1>2, <1>3, <2>1
    <3> QED
      BY <3>1
  <2>2. CASE m < k
    <3>1. m + 1 \in 1 .. n /\ m + 1 # 1 /\ m + 1 <= k /\ (m + 1) - 1 = m
      BY <1>1, <1>3, <2>2
    <3>2. f[m + 1] = list[m]
      BY <1>2, <3>1
    <3> QED
      BY <3>1, <3>2
  <2>3. CASE m > k
    <3>1. m # 1 /\ ~(m <= k)
      BY <1>1, <1>3, <2>3
    <3>2. f[m] = list[m]
      BY <1>2, <3>1
    <3> QED
      BY <3>2
  <2> QED
    BY <1>1, <1>3, <2>1, <2>2, <2>3
<1>6. DOMAIN f = 1 .. n /\ \A j \in 1 .. n : f[j] \in S
  BY <1>1, <1>2, <1>4
<1>7. f \in Seq(S)
  <2>1. f = [j \in 1 .. n |-> f[j]]
    BY <1>2, <1>6
  <2>2. f \in [1 .. n -> S]
    BY <1>6, <2>1
  <2> QED
    BY <1>1, <2>2
<1>8. {f[j] : j \in DOMAIN f} = {list[j] : j \in DOMAIN list}
  <2>1. {f[j] : j \in 1 .. n} \subseteq {list[j] : j \in 1 .. n}
    BY <1>4
  <2>2. {list[j] : j \in 1 .. n} \subseteq {f[j] : j \in 1 .. n}
    BY <1>5
  <2> QED
    BY <1>1, <1>6, <2>1, <2>2
<1> QED
  BY <1>7, <1>8 DEF f

\* The one that was just typed comes first.
LEMMA FrontNew ==
    ASSUME NEW S, known \in Seq(S), NEW b \in S, known' = <<b>> \o known
    PROVE  /\ known' \in Seq(S)
           /\ \A j \in DOMAIN known' :
                 known'[j] = b \/ \E m \in DOMAIN known : known'[j] = known[m]
           /\ \E j \in DOMAIN known' : known'[j] = b
           /\ \A m \in DOMAIN known : \E j \in DOMAIN known' : known'[j] = known[m]
<1> DEFINE n == Len(known)
<1>0. PICK f, list : f = known' /\ list = known
  OBVIOUS
<1>1. n \in Nat /\ DOMAIN list = 1 .. n
  BY <1>0
<1>2. f \in Seq(S) /\ Len(f) = n + 1 /\ DOMAIN f = 1 .. n + 1
  BY <1>0
<1>3. f[1] = b /\ \A j \in 2 .. n + 1 : f[j] = list[j - 1]
  BY <1>0
<1> HIDE DEF n
<1>4. \A m \in 1 .. n : m + 1 \in 2 .. n + 1 /\ f[m + 1] = list[m]
  BY <1>1, <1>3
<1>5. \A j \in 1 .. n + 1 : j = 1 \/ (j \in 2 .. n + 1 /\ j - 1 \in 1 .. n)
  BY <1>1
<1>6. ASSUME NEW j \in 1 .. n + 1
      PROVE  f[j] = b \/ \E m \in 1 .. n : f[j] = list[m]
  BY <1>3, <1>5
<1>7. \A m \in 1 .. n : m + 1 \in 1 .. n + 1
  BY <1>1
<1>8. 1 \in 1 .. n + 1
  BY <1>1
<1>9. f[1] = b /\ \A m \in 1 .. n : \E j \in 1 .. n + 1 : f[j] = list[m]
  BY <1>3, <1>4, <1>7
<1>10. DOMAIN known' = 1 .. n + 1 /\ DOMAIN known = 1 .. n
  BY <1>0, <1>1, <1>2
<1>11. \A j \in 1 .. n + 1 :
          known'[j] = b \/ \E m \in 1 .. n : known'[j] = known[m]
  BY <1>0, <1>6
<1>12. known'[1] = b
       /\ \A m \in 1 .. n : \E j \in 1 .. n + 1 : known'[j] = known[m]
  BY <1>0, <1>9
<1> QED
  BY <1>0, <1>2, <1>8, <1>10, <1>11, <1>12

\* What is typed goes after what was typed before.
LEMMA BufferAdded ==
    ASSUME typed \in Seq(Buffer), NEW b \in Buffer, typed' = Append(typed, b)
    PROVE  /\ typed' \in Seq(Buffer) /\ Len(typed') = Len(typed) + 1
           /\ DOMAIN typed' = DOMAIN typed \cup {Len(typed')}
           /\ typed'[Len(typed')] = b
           /\ \A j \in DOMAIN typed : typed'[j] = typed[j]
OBVIOUS

\* Every step: the list is walked on, a vault opens, or the command ends.
\* It opens with what there is (SameOpens) or with what is typed (NewOpens).
Walks ==
    /\ UNCHANGED <<at, typed, known, wiped, open>>
    /\ ~Over /\ i' \in {1, i, i + 1}
    /\ \/ /\ pc = "cached" /\ at \notin remembered /\ i' = 1
          /\ \/ source /\ pc' = "source"
             \/ ~source /\ pc' = "prompt" /\ known = <<>>
             \/ ~source /\ pc' = "trying" /\ known # <<>>
       \/ /\ pc = "trying" /\ pass[at] # typed[known[i]].answer
          /\ pass[at] # Damaged
          /\ \/ pc' = "trying" /\ i' = i + 1 /\ i < Len(known)
             \/ pc' = "prompt" /\ i >= Len(known)

\* Some answer opens v.
Fits(v) == \E b \in DOMAIN typed : typed[b].answer = pass[v]

SameOpens ==
    /\ ~Over
    /\ \E list \in Seq(DOMAIN typed) :
          Opened(list, typed) /\ {list[j] : j \in DOMAIN list} = Known
    /\ \/ pc = "cached" /\ at \in remembered
       \/ pc = "source"
       \/ pc = "trying" /\ Fits(at)

Answer(a) == [vault |-> at, answer |-> a]

NewOpens ==
    /\ pc = "prompt"
    /\ \E a \in Passphrases :
          /\ a = pass[at]
          /\ Opened(<<Len(typed) + 1>> \o known, Append(typed, Answer(a)))

SameFails ==
    /\ Fail(typed, {})
    /\ pc \in {"source", "prompt"} \/ (pc = "trying" /\ pass[at] = Damaged)

NewFails ==
    /\ pc = "prompt"
    /\ \E a \in Passphrases :
          a # pass[at] /\ Fail(Append(typed, Answer(a)), {Len(typed) + 1})

LEMMA StepIs ==
    ASSUME TypeOK, Next
    PROVE  UNCHANGED given /\ (Walks \/ SameOpens \/ NewOpens \/ SameFails
                               \/ NewFails \/ Done)
<1>0. known \in Seq(DOMAIN typed) /\ typed \in Seq(Buffer)
  BY DEF TypeOK, Buffer
<1>1. CASE Cached
  <2>1. CASE at \in remembered
    <3>1. ~Over /\ Opened(known, typed) /\ UNCHANGED given /\ pc = "cached"
      BY <1>1, <2>1 DEF Cached, Over
    <3> QED
      BY <1>0, <2>1, <3>1 DEF SameOpens, Known
  <2>2. CASE at \notin remembered
    BY <1>1, <2>2 DEF Cached, Goto, Walks, Over
  <2> QED
    BY <2>1, <2>2
<1>2. CASE Source
  <2>1. ~Over /\ UNCHANGED given /\ pc = "source"
    BY <1>2 DEF Source, Over
  <2>2. CASE Opened(known, typed)
    BY <1>0, <2>1, <2>2 DEF SameOpens, Known
  <2> QED
    BY <1>2, <2>1, <2>2 DEF Source, SameFails
<1>3. CASE Try
  <2>1. ~Over /\ UNCHANGED given /\ pc = "trying"
    BY <1>3 DEF Try, Over
  <2>2. CASE /\ typed[known[i]].answer = pass[at]
             /\ Opened(ToFront(known, i), typed)
    <3>1. i \in 1 .. Len(known) /\ known[i] \in DOMAIN typed
      BY <1>0, <2>1 DEF TypeOK
    <3>2. /\ ToFront(known, i) \in Seq(DOMAIN typed)
          /\ {ToFront(known, i)[j] : j \in DOMAIN ToFront(known, i)}
                 = {known[j] : j \in DOMAIN known}
      BY <1>0, <3>1, FrontKeepsAll
    <3>3. Fits(at)
      BY <2>2, <3>1 DEF Fits
    <3> QED
      BY <2>1, <2>2, <3>2, <3>3 DEF SameOpens, Known
  <2>3. CASE pass[at] = Damaged /\ Fail(typed, {})
    BY <2>1, <2>3 DEF SameFails
  <2>4. CASE /\ pass[at] \notin {Damaged, typed[known[i]].answer}
             /\ i < Len(known)
             /\ i' = i + 1 /\ UNCHANGED <<pc, at, typed, known, wiped, open>>
    BY <2>1, <2>4 DEF Walks
  <2>5. CASE /\ pass[at] \notin {Damaged, typed[known[i]].answer}
             /\ ~(i < Len(known)) /\ Goto("prompt") /\ UNCHANGED i
    <3>1. i >= Len(known)
      BY <1>0, <2>5 DEF TypeOK
    <3> QED
      BY <2>1, <2>5, <3>1 DEF Walks, Goto
  <2> QED
    BY <1>3, <2>2, <2>3, <2>4, <2>5 DEF Try
<1>4. ASSUME NEW a \in Passphrases, Prompt(a)
      PROVE  UNCHANGED given /\ (NewOpens \/ NewFails)
  <2>1. Len(Append(typed, Answer(a))) = Len(typed) + 1
    BY <1>0 DEF Answer, TypeOK, Buffer
  <2>2. pc = "prompt" /\ UNCHANGED given
    BY <1>4 DEF Prompt
  <2>3. CASE a = pass[at]
    <3>1. Opened(<<Len(typed) + 1>> \o known, Append(typed, Answer(a)))
      BY <1>4, <2>1, <2>3 DEF Prompt, Answer
    <3> QED
      BY <2>2, <2>3, <3>1 DEF NewOpens
  <2>4. CASE a # pass[at]
    <3>1. Fail(Append(typed, Answer(a)), {Len(typed) + 1})
      BY <1>4, <2>1, <2>4 DEF Prompt, Answer
    <3> QED
      BY <2>2, <2>4, <3>1 DEF NewFails
  <2> QED
    BY <2>3, <2>4
<1>5. CASE PromptDies
  BY <1>5 DEF PromptDies, SameFails
<1>6. CASE Done
  BY <1>6 DEF Done
<1> QED
  BY <1>1, <1>2, <1>3, <1>4, <1>5, <1>6 DEF Next
-----------------------------------------------------------------------------
(* Nobody is asked twice, and nothing is left                              *)

\* While the command runs, every buffer opened something and is in the list;
\* those tried on this vault do not open it.
Inv ==
    /\ TypeOK /\ OnePrompt
    /\ ~Over => Known = DOMAIN typed /\ wiped = {}
    /\ Over => wiped = DOMAIN typed
    /\ pc = "trying" =>
          \A j \in 1 .. i - 1 : typed[known[j]].answer # pass[at]
    /\ pc = "prompt" => \A j \in DOMAIN typed : typed[j].answer # pass[at]
    /\ pc = "failed" => open = <<>>

LEMMA InvInit == Init => Inv
<1> SUFFICES ASSUME Init PROVE Inv
  OBVIOUS
<1>1. /\ typed = <<>> /\ known = <<>> /\ open = <<>> /\ wiped = {}
      /\ pc = "cached" /\ at = 1 /\ i = 1
  BY DEF Init
<1>2. typed \in Seq(Buffer) /\ known \in Seq(DOMAIN typed) /\ open \in Seq(V)
  BY <1>1
<1>3. DOMAIN typed = {} /\ Known = {}
  BY <1>1 DEF Known
<1>4. /\ pass \in [V -> Passphrases \cup {Damaged}]
      /\ remembered \subseteq V /\ roots \subseteq V
      /\ inherit \in BOOLEAN /\ source \in BOOLEAN
  BY DEF Init
<1>5. 1 \in V
  BY DEF V
<1>6. TypeOK
  BY <1>1, <1>2, <1>3, <1>4, <1>5 DEF TypeOK, Buffer
<1> QED
  BY <1>1, <1>3, <1>6 DEF Inv, OnePrompt, Over

\* The walk along the list: what was tried did not fit.
LEMMA InvWalks ==
    ASSUME Inv, UNCHANGED given, Walks
    PROVE  Inv'
<1>0. /\ TypeOK /\ known \in Seq(DOMAIN typed) /\ Known = DOMAIN typed
      /\ wiped = {} /\ i \in Nat \ {0}
  BY DEF Inv, TypeOK, Walks
<1>1. /\ UNCHANGED <<pass, remembered, roots, inherit, source>>
      /\ UNCHANGED <<at, typed, known, wiped, open>>
  BY DEF Walks, given
<1>2. pc' \in {"source", "prompt", "trying"}
  BY DEF Walks
<1>3. i' \in Nat \ {0} /\ (pc' = "trying" => i' <= Len(known))
  <2>1. i' \in Nat \ {0}
    BY <1>0 DEF Walks
  <2>2. ASSUME pc' = "trying"
        PROVE  i' <= Len(known)
    <3>1. CASE i' = 1 /\ known # <<>>
      BY <1>0, <3>1
    <3>2. CASE i' = i + 1 /\ i < Len(known)
      BY <1>0, <3>2
    <3> QED
      BY <2>2, <3>1, <3>2 DEF Walks
  <2> QED
    BY <2>1, <2>2
<1>4. TypeOK'
  BY <1>0, <1>1, <1>2, <1>3 DEF TypeOK
<1>5. ASSUME pc' = "trying", NEW j \in 1 .. i' - 1
      PROVE  typed[known[j]].answer # pass[at]
  <2>1. CASE i' = 1
    BY <1>5, <2>1
  <2>2. CASE pc = "trying" /\ pass[at] # typed[known[i]].answer /\ i' = i + 1
    <3>1. CASE j = i
      BY <2>2, <3>1
    <3>2. CASE j # i
      <4>1. j \in 1 .. i - 1
        BY <1>0, <1>5, <2>2, <3>2
      <4> QED
        BY <2>2, <4>1 DEF Inv
    <3> QED
      BY <3>1, <3>2
  <2> QED
    BY <1>5, <2>1, <2>2 DEF Walks
<1>6. ASSUME pc' = "prompt", NEW b \in DOMAIN typed
      PROVE  typed[b].answer # pass[at]
  <2>1. PICK j \in DOMAIN known : b = known[j]
    BY <1>0 DEF Known
  <2>2. j \in 1 .. Len(known)
    BY <1>0, <2>1
  <2>3. CASE known = <<>>
    BY <1>0, <2>2, <2>3
  <2>4. CASE /\ pc = "trying" /\ pass[at] # typed[known[i]].answer
             /\ i >= Len(known)
    <3>1. j = i \/ j \in 1 .. i - 1
      BY <1>0, <2>2, <2>4
    <3> QED
      BY <2>1, <2>4, <3>1 DEF Inv
  <2> QED
    BY <1>6, <2>3, <2>4 DEF Walks
<1>7. OnePrompt'
  BY <1>1 DEF Inv, OnePrompt
<1>8. Known' = Known
  BY <1>1 DEF Known
<1> QED
  BY <1>0, <1>1, <1>2, <1>4, <1>5, <1>6, <1>7, <1>8 DEF Inv, Over

\* Another vault opens with a passphrase there is.
LEMMA InvSameOpens ==
    ASSUME Inv, UNCHANGED given, SameOpens
    PROVE  Inv'
<1>0. /\ TypeOK /\ Known = DOMAIN typed /\ wiped = {} /\ at \in V
      /\ open \in Seq(V) /\ N \in Nat
  BY DEF Inv, TypeOK, SameOpens
<1>1. UNCHANGED <<pass, remembered, roots, inherit, source>>
  BY DEF given
<1>2. PICK list \in Seq(DOMAIN typed) :
        Opened(list, typed) /\ {list[j] : j \in DOMAIN list} = Known
  BY DEF SameOpens
<1>3. /\ typed' = typed /\ known' = list /\ wiped' = wiped /\ i' = 1
      /\ pc' \in {"done", "cached"} /\ open' = <<at>> \o open
  BY <1>2 DEF Opened
<1>4. at' \in V
  BY <1>0, <1>2 DEF Opened, Last, V
<1>5. open' \in Seq(V)
  BY <1>0, <1>3
<1>6. TypeOK'
  BY <1>0, <1>1, <1>2, <1>3, <1>4, <1>5 DEF TypeOK
<1>7. OnePrompt'
  BY <1>1, <1>3 DEF Inv, OnePrompt
<1>8. Known' = DOMAIN typed'
  BY <1>0, <1>2, <1>3 DEF Known
<1> QED
  BY <1>0, <1>3, <1>6, <1>7, <1>8 DEF Inv, Over

\* A vault opens with what is typed, which nothing typed before did.
LEMMA InvNewOpens ==
    ASSUME Inv, UNCHANGED given, NewOpens
    PROVE  Inv'
<1>0. /\ TypeOK /\ Known = DOMAIN typed /\ wiped = {} /\ at \in V
      /\ open \in Seq(V) /\ typed \in Seq(Buffer) /\ known \in Seq(DOMAIN typed)
      /\ pc = "prompt"
  BY DEF Inv, TypeOK, NewOpens, Over, Buffer
<1>1. UNCHANGED <<pass, remembered, roots, inherit, source>>
  BY DEF given
<1>2. PICK a \in Passphrases :
        /\ a = pass[at]
        /\ Opened(<<Len(typed) + 1>> \o known, Append(typed, Answer(a)))
  BY DEF NewOpens
<1>3. /\ typed' = Append(typed, Answer(a))
      /\ known' = <<Len(typed) + 1>> \o known /\ wiped' = wiped /\ i' = 1
      /\ pc' \in {"done", "cached"} /\ open' = <<at>> \o open
  BY <1>2 DEF Opened
<1>4. at' \in V
  BY <1>0, <1>2 DEF Opened, Last, V
<1>5. open' \in Seq(V)
  BY <1>0, <1>3
<1>6. Answer(a) \in Buffer /\ Answer(a).vault = at /\ Answer(a).answer = a
  BY <1>0 DEF Answer, Buffer
<1>7. /\ typed' \in Seq(Buffer) /\ Len(typed') = Len(typed) + 1
      /\ DOMAIN typed' = DOMAIN typed \cup {Len(typed')}
      /\ typed'[Len(typed')] = Answer(a)
      /\ \A j \in DOMAIN typed : typed'[j] = typed[j]
  BY <1>0, <1>3, <1>6, BufferAdded
<1> DEFINE b == Len(typed) + 1
<1>8. b \in DOMAIN typed' /\ known \in Seq(DOMAIN typed')
  <2>1. DOMAIN typed \subseteq DOMAIN typed'
    BY <1>7
  <2> QED
    BY <1>0, <1>7, <2>1
<1>9. known' = <<b>> \o known
  BY <1>3
<1> HIDE DEF b
<1>10. /\ known' \in Seq(DOMAIN typed')
       /\ \A j \in DOMAIN known' :
             known'[j] = b \/ \E m \in DOMAIN known : known'[j] = known[m]
       /\ \E j \in DOMAIN known' : known'[j] = b
       /\ \A m \in DOMAIN known : \E j \in DOMAIN known' : known'[j] = known[m]
  BY <1>8, <1>9, FrontNew
<1>11. TypeOK'
  BY <1>0, <1>1, <1>3, <1>4, <1>5, <1>7, <1>10 DEF TypeOK, Buffer
<1>12. Known' = DOMAIN typed'
  BY <1>0, <1>7, <1>10 DEF Known, b
<1>13. OnePrompt'
  <2> SUFFICES ASSUME NEW j \in DOMAIN typed', NEW k \in DOMAIN typed', j < k
               PROVE  pass[typed'[k].vault] # typed'[j].answer
    BY <1>1 DEF OnePrompt
  <2>1. j \in DOMAIN typed
    BY <1>0, <1>7
  <2>2. CASE k \in DOMAIN typed
    BY <1>7, <2>1, <2>2 DEF Inv, OnePrompt
  <2>3. CASE k = Len(typed')
    <3>1. typed'[k].vault = at
      BY <1>6, <1>7, <2>3
    <3>2. typed[j].answer # pass[at]
      BY <1>0, <2>1 DEF Inv
    <3> QED
      BY <1>7, <2>1, <3>1, <3>2
  <2> QED
    BY <1>7, <2>2, <2>3
<1> QED
  BY <1>0, <1>3, <1>11, <1>12, <1>13 DEF Inv, Over

\* The command fails: what is in the list and what is in hand is wiped.
LEMMA InvFails ==
    ASSUME Inv, UNCHANGED given, SameFails \/ NewFails
    PROVE  Inv'
<1>0. /\ TypeOK /\ Known = DOMAIN typed /\ wiped = {} /\ typed \in Seq(Buffer)
  BY DEF Inv, TypeOK, SameFails, NewFails, Over, Buffer
<1>1. UNCHANGED <<pass, remembered, roots, inherit, source>>
  BY DEF given
<1>2. CASE SameFails
  <2>1. /\ pc' = "failed" /\ typed' = typed /\ wiped' = wiped \cup Known
        /\ known' = <<>> /\ open' = <<>> /\ UNCHANGED <<at, i>>
    BY <1>2 DEF SameFails, Fail
  <2>2. TypeOK'
    BY <1>0, <1>1, <2>1 DEF TypeOK
  <2>3. OnePrompt'
    BY <1>1, <2>1 DEF Inv, OnePrompt
  <2> QED
    BY <1>0, <2>1, <2>2, <2>3 DEF Inv, Over
<1>3. CASE NewFails
  <2>1. PICK a \in Passphrases :
          Fail(Append(typed, Answer(a)), {Len(typed) + 1})
    BY <1>3 DEF NewFails
  <2>2. /\ pc' = "failed" /\ typed' = Append(typed, Answer(a))
        /\ wiped' = wiped \cup Known \cup {Len(typed) + 1}
        /\ known' = <<>> /\ open' = <<>> /\ UNCHANGED <<at, i>>
    BY <2>1 DEF Fail
  <2>3. Answer(a) \in Buffer /\ Answer(a).vault = at
    BY <1>0 DEF Answer, Buffer, TypeOK
  <2>4. /\ typed' \in Seq(Buffer) /\ Len(typed') = Len(typed) + 1
        /\ DOMAIN typed' = DOMAIN typed \cup {Len(typed')}
        /\ typed'[Len(typed')] = Answer(a)
        /\ \A j \in DOMAIN typed : typed'[j] = typed[j]
    BY <1>0, <2>2, <2>3, BufferAdded
  <2>5. wiped' = DOMAIN typed'
    BY <1>0, <2>2, <2>4
  <2>6. known' \in Seq(DOMAIN typed') /\ open' \in Seq(V)
    BY <2>2
  <2>7. TypeOK'
    BY <1>0, <1>1, <2>2, <2>4, <2>5, <2>6 DEF TypeOK, Buffer
  <2>8. OnePrompt'
    <3> SUFFICES ASSUME NEW j \in DOMAIN typed', NEW k \in DOMAIN typed', j < k
                 PROVE  pass[typed'[k].vault] # typed'[j].answer
      BY <1>1 DEF OnePrompt
    <3>1. j \in DOMAIN typed
      BY <1>0, <2>4
    <3>2. CASE k \in DOMAIN typed
      BY <2>4, <3>1, <3>2 DEF Inv, OnePrompt
    <3>3. CASE k = Len(typed')
      <4>1. typed'[k].vault = at
        BY <2>3, <2>4, <3>3
      <4>2. typed[j].answer # pass[at]
        BY <1>3, <3>1 DEF Inv, NewFails
      <4> QED
        BY <2>4, <3>1, <4>1, <4>2
    <3> QED
      BY <2>4, <3>2, <3>3
  <2> QED
    BY <2>2, <2>5, <2>7, <2>8 DEF Inv, Over
<1> QED
  BY <1>2, <1>3

LEMMA InvDone ==
    ASSUME Inv, Done
    PROVE  Inv'
<1>1. /\ pc' = "open" /\ wiped' = wiped \cup Known /\ known' = <<>>
      /\ UNCHANGED <<pass, remembered, roots, inherit, source>>
      /\ UNCHANGED <<at, i, typed, open>>
      /\ TypeOK /\ Known = DOMAIN typed /\ wiped = {}
  BY DEF Done, Inv, given, Over
<1>2. TypeOK'
  BY <1>1 DEF TypeOK
<1> QED
  BY <1>1, <1>2 DEF Inv, OnePrompt, Over

LEMMA InvNext == Inv /\ [Next]_vars => Inv'
<1> SUFFICES ASSUME Inv, [Next]_vars PROVE Inv'
  OBVIOUS
<1>1. CASE Next
  <2>1. TypeOK
    BY DEF Inv
  <2> QED
    BY <1>1, <2>1, StepIs, InvWalks, InvSameOpens, InvNewOpens, InvFails, InvDone
<1>2. CASE UNCHANGED vars
  BY <1>2 DEF vars, given, Inv, TypeOK, OnePrompt, Over, Known
<1> QED
  BY <1>1, <1>2

\* The list, the buffers and the chain keep their types, and no walk along
\* the list runs off its end.
THEOREM TypeCorrect == Spec => []TypeOK
BY InvInit, InvNext, PTL DEF Spec, Inv

\* loadChain and unlockKnown ask about no vault that an earlier answer opens:
\* every answer that opened a vault is in the list, and a question is asked
\* only after the whole list was tried.
THEOREM OneAnswerEach == Spec => []OnePrompt
BY InvInit, InvNext, PTL DEF Spec, Inv

\* wipeAll and the failure paths of loadChain overwrite every buffer, and a
\* failure closes what was open.
THEOREM AlwaysWiped == Spec => []NothingLeft
<1>1. Inv => NothingLeft
  BY DEF Inv, NothingLeft
<1> QED
  BY <1>1, InvInit, InvNext, PTL DEF Spec
-----------------------------------------------------------------------------
(* loadChain implements UnlockPromise                                      *)

\* The n nearest vaults are open, the root-most of them first.
OpenIs(n) == Len(open) = n /\ \A j \in 1 .. n : open[j] = n + 1 - j

Opens(v) == v \in remembered \/ Fits(v)

\* The chain goes on past every vault opened, each of them opens with what is
\* known, and where the next one is being opened says what was tried.
Ref ==
    /\ pc # "failed" => \A u \in 1 .. at - 1 : u < N /\ inherit /\ u \notin roots
    /\ pc \in {"cached", "source", "trying", "prompt"} => OpenIs(at - 1)
    /\ pc \in {"done", "open"} => OpenIs(at) /\ Last
    /\ ~source /\ pc # "failed" => \A u \in 1 .. at - 1 : Opens(u)
    /\ ~source /\ pc = "done" => Opens(at)
    /\ pc = "source" => source /\ at \notin remembered
    /\ pc \in {"trying", "prompt"} => ~source /\ at \notin remembered
    /\ pc = "prompt" => typed = <<>> \/ pass[at] # Damaged

\* One more vault is opened, before those there are.
LEMMA OneMoreOpen ==
    ASSUME NEW n \in Nat, open \in Seq(V), OpenIs(n), open' = <<n + 1>> \o open
    PROVE  OpenIs(n + 1)'
<1>1. Len(open) = n /\ Len(open') = n + 1
  BY DEF OpenIs
<1>2. open'[1] = n + 1 /\ \A j \in 2 .. n + 1 : open'[j] = open[j - 1]
  BY <1>1
<1>3. ASSUME NEW j \in 1 .. n + 1
      PROVE  open'[j] = (n + 1) + 1 - j
  <2>1. CASE j = 1
    BY <1>2, <2>1
  <2>2. CASE j # 1
    <3>1. j \in 2 .. n + 1 /\ j - 1 \in 1 .. n
      BY <2>2
    <3>2. open[j - 1] = n + 1 - (j - 1)
      BY <3>1 DEF OpenIs
    <3>3. open'[j] = open[j - 1]
      BY <1>2, <3>1
    <3>4. n + 1 - (j - 1) = (n + 1) + 1 - j
      BY <3>1
    <3> QED
      BY <3>2, <3>3, <3>4
  <2> QED
    BY <2>1, <2>2
<1> QED
  BY <1>1, <1>3 DEF OpenIs

LEMMA RefInit == Init => Ref
<1> SUFFICES ASSUME Init PROVE Ref
  OBVIOUS
<1>1. pc = "cached" /\ at = 1 /\ open = <<>>
  BY DEF Init
<1>2. 1 .. at - 1 = {} /\ OpenIs(at - 1)
  BY <1>1 DEF OpenIs
<1> QED
  BY <1>1, <1>2 DEF Ref

LEMMA RefWalks ==
    ASSUME Inv, Ref, UNCHANGED given, Walks
    PROVE  Ref'
<1>1. /\ UNCHANGED <<pass, remembered, roots, inherit, source>>
      /\ UNCHANGED <<at, typed, known, open>>
      /\ pc \in {"cached", "trying"} /\ pc' \in {"source", "prompt", "trying"}
      /\ pc' = "source" => source /\ at \notin remembered
  BY DEF given, Walks
<1>2. pc' \in {"trying", "prompt"} => ~source /\ at \notin remembered
  BY DEF Walks, Ref
<1>3. ASSUME pc' = "prompt"
      PROVE  typed = <<>> \/ pass[at] # Damaged
  <2>1. CASE known = <<>>
    <3>1. typed \in Seq(Buffer) /\ Known = {} /\ DOMAIN typed = Known
      BY <2>1 DEF Inv, TypeOK, Known, Walks, Buffer
    <3> QED
      BY <3>1
  <2> QED
    BY <1>3, <2>1 DEF Walks
<1>4. \A u : Opens(u)' <=> Opens(u)
  BY <1>1 DEF Opens, Fits
<1>5. OpenIs(at - 1)'
  BY <1>1 DEF Ref, OpenIs
<1> QED
  BY <1>1, <1>2, <1>3, <1>4, <1>5 DEF Ref

\* A vault opens, with typed at least what it was.
LEMMA RefOpens ==
    ASSUME Inv, Ref, UNCHANGED given, NEW list, NEW buffers,
           Opened(list, buffers),
           pc \in {"cached", "source", "trying", "prompt"},
           \A u : Fits(u) => Fits(u)',
           NEW n, n = at, source \/ n \in remembered \/ Fits(n)'
    PROVE  Ref'
<1>1. /\ UNCHANGED <<pass, remembered, roots, inherit, source>>
      /\ open' = <<at>> \o open /\ open \in Seq(V) /\ at \in V /\ at \in Nat
      /\ at - 1 \in Nat
  BY DEF given, Opened, Inv, TypeOK, V
<1>2. OpenIs(at - 1) /\ \A u \in 1 .. at - 1 : u < N /\ inherit /\ u \notin roots
  BY DEF Ref
<1>3. n = at
  OBVIOUS
<1>4. OpenIs((n - 1) + 1)'
  <2>1. n - 1 \in Nat /\ OpenIs(n - 1) /\ open' = <<(n - 1) + 1>> \o open
    BY <1>1, <1>2, <1>3
  <2> QED
    BY <1>1, <2>1, OneMoreOpen
<1>5. (n - 1) + 1 = n
  BY <1>1, <1>3
<1>6. OpenIs(n)'
  BY <1>4, <1>5
<1>7. ~source => \A u \in 1 .. n : Opens(u)'
  <2> SUFFICES ASSUME ~source, NEW u \in 1 .. n PROVE Opens(u)'
    OBVIOUS
  <2>1. CASE u = n
    BY <1>1, <1>3, <2>1 DEF Opens
  <2>2. CASE u # n
    <3>1. u \in 1 .. at - 1
      BY <1>1, <1>3, <2>2
    <3>2. Opens(u)
      BY <3>1 DEF Ref
    <3> QED
      BY <1>1, <3>2 DEF Opens
  <2> QED
    BY <2>1, <2>2
<1>8. CASE Last
  <2>1. pc' = "done" /\ at' = n
    BY <1>3, <1>8 DEF Opened
  <2>2. OpenIs(at)'
    BY <1>6, <2>1 DEF OpenIs
  <2>3. Last'
    BY <1>1, <1>3, <1>8, <2>1 DEF Last
  <2>4. ~source => Opens(at)' /\ \A u \in 1 .. n - 1 : Opens(u)'
    <3>1. n \in 1 .. n /\ \A u \in 1 .. n - 1 : u \in 1 .. n
      BY <1>1, <1>3
    <3> QED
      BY <1>7, <2>1, <3>1 DEF Opens, Fits
  <2> QED
    BY <1>1, <1>2, <1>3, <2>1, <2>2, <2>3, <2>4 DEF Ref
<1>9. CASE ~Last
  <2>1. pc' = "cached" /\ at' = n + 1
    BY <1>3, <1>9 DEF Opened
  <2>2. OpenIs(at - 1)'
    BY <1>1, <1>3, <1>6, <2>1 DEF OpenIs
  <2>3. at' - 1 = n
    BY <1>1, <1>3, <2>1
  <2>4. \A u \in 1 .. n : u < N /\ inherit /\ u \notin roots
    BY <1>1, <1>2, <1>3, <1>9 DEF Last, V
  <2> QED
    BY <1>1, <1>7, <2>1, <2>2, <2>3, <2>4 DEF Ref
<1> QED
  BY <1>8, <1>9


LEMMA RefNext == Inv /\ Ref /\ [Next]_vars => Ref'
<1> SUFFICES ASSUME Inv, Ref, [Next]_vars PROVE Ref'
  OBVIOUS
<1>0. TypeOK /\ typed \in Seq(Buffer)
  BY DEF Inv, TypeOK, Buffer
<1>1. ASSUME UNCHANGED given, SameOpens PROVE Ref'
  <2>1. PICK list : Opened(list, typed)
    BY <1>1 DEF SameOpens
  <2>2. \A u : Fits(u) => Fits(u)'
    BY <1>1, <2>1 DEF Fits, Opened, given
  <2>3. PICK n : n = at
    OBVIOUS
  <2>4. source \/ n \in remembered \/ Fits(n)'
    BY <1>1, <2>2, <2>3 DEF SameOpens, Ref
  <2>5. pc \in {"cached", "source", "trying", "prompt"}
    BY <1>1 DEF SameOpens
  <2> QED
    BY <1>1, <2>1, <2>2, <2>3, <2>4, <2>5, RefOpens
<1>2. ASSUME UNCHANGED given, NewOpens PROVE Ref'
  <2>1. PICK a \in Passphrases :
          /\ a = pass[at]
          /\ Opened(<<Len(typed) + 1>> \o known, Append(typed, Answer(a)))
    BY <1>2 DEF NewOpens
  <2>2. typed' = Append(typed, Answer(a))
    BY <2>1 DEF Opened
  <2>3. Answer(a) \in Buffer /\ Answer(a).answer = a
    BY <1>0 DEF Answer, Buffer, TypeOK
  <2>4. /\ DOMAIN typed' = DOMAIN typed \cup {Len(typed')}
        /\ typed'[Len(typed')] = Answer(a)
        /\ \A j \in DOMAIN typed : typed'[j] = typed[j]
    BY <1>0, <2>2, <2>3, BufferAdded
  <2>5. \A u : Fits(u) => Fits(u)'
    BY <1>2, <2>4 DEF Fits, given
  <2>6. PICK n : n = at
    OBVIOUS
  <2>7. Fits(n)'
    BY <1>2, <2>1, <2>3, <2>4, <2>6 DEF Fits, given
  <2>8. pc \in {"cached", "source", "trying", "prompt"}
    BY <1>2 DEF NewOpens
  <2> QED
    BY <1>2, <2>1, <2>5, <2>6, <2>7, <2>8, RefOpens
<1>3. CASE SameFails \/ NewFails
  <2>1. pc' = "failed"
    BY <1>3 DEF SameFails, NewFails, Fail
  <2> QED
    BY <2>1 DEF Ref
<1>4. CASE Done
  <2>1. /\ pc = "done" /\ pc' = "open"
        /\ UNCHANGED <<pass, remembered, roots, inherit, source, at, typed, open>>
    BY <1>4 DEF Done, given
  <2>2. \A u : Opens(u)' <=> Opens(u)
    BY <2>1 DEF Opens, Fits
  <2>3. OpenIs(at)' /\ Last'
    BY <2>1 DEF Ref, OpenIs, Last
  <2> QED
    BY <2>1, <2>2, <2>3 DEF Ref
<1>5. CASE UNCHANGED vars
  <2>1. /\ UNCHANGED <<pc, pass, remembered, roots, inherit, source>>
        /\ UNCHANGED <<at, typed, open>>
    BY <1>5 DEF vars, given
  <2>2. \A u : Opens(u)' <=> Opens(u)
    BY <2>1 DEF Opens, Fits
  <2>3. /\ OpenIs(at)' <=> OpenIs(at)
        /\ OpenIs(at - 1)' <=> OpenIs(at - 1)
        /\ Last' <=> Last
    BY <2>1 DEF OpenIs, Last
  <2> QED
    BY <2>1, <2>2, <2>3 DEF Ref
<1> QED
  BY <1>0, <1>1, <1>2, <1>3, <1>4, <1>5, StepIs, RefWalks

\* What the outside sees: how the command ended, and with which vaults.
Result == IF Over THEN pc ELSE "running"
Chain == IF pc = "open" THEN open ELSE <<>>

LEMMA InitRefines == Init => Promise!Init
BY DEF Init, Promise!Init, Promise!V, V, Over

\* The vault asked about is the first that does not open.
LEMMA AskedIsShut ==
    ASSUME Inv, Ref, pc \in {"trying", "prompt"}, ~Fits(at)
    PROVE  at \in V /\ Promise!Shut(at)
<1>1. at \in V /\ ~source /\ at \notin remembered
  BY DEF Inv, TypeOK, Ref
<1>2. \A u \in 1 .. at - 1 : u < N /\ inherit /\ u \notin roots /\ Opens(u)
  BY <1>1 DEF Ref
<1> QED
  BY <1>1, <1>2 DEF Promise!Shut, Promise!InChain, Promise!Beyond,
     Promise!Opens, Promise!Answered, Opens, Fits

LEMMA StepRefines ==
    Inv /\ Ref /\ [Next]_vars => [Promise!Next]_(Promise!vars)
<1> SUFFICES ASSUME Inv, Ref, [Next]_vars
             PROVE  Promise!Next \/ UNCHANGED <<given, typed, Result, Chain>>
  BY DEF Promise!vars, Promise!given, given, Result, Chain
<1>0. TypeOK
  BY DEF Inv
<1>1. CASE UNCHANGED given /\ (Walks \/ SameOpens)
  <2>1. UNCHANGED typed /\ pc' \in {"source", "prompt", "trying", "cached", "done"}
    BY <1>1 DEF Walks, SameOpens, Opened
  <2>2. ~Over
    BY <1>1 DEF Walks, SameOpens
  <2> QED
    BY <1>1, <2>1, <2>2 DEF Result, Chain, Over
<1>2. CASE UNCHANGED given /\ (NewOpens \/ NewFails)
  <2>1. pc = "prompt" /\ at \in V /\ Promise!Shut(at)
    <3>1. pc = "prompt" /\ ~Fits(at)
      BY <1>2 DEF NewOpens, NewFails, Inv, Fits
    <3> QED
      BY <3>1, AskedIsShut
  <2>2. ~source /\ (typed # <<>> => pass[at] # Damaged)
    BY <2>1 DEF Ref
  <2>3. CASE NewOpens
    <3>1. PICK a \in Passphrases :
            /\ a = pass[at]
            /\ Opened(<<Len(typed) + 1>> \o known, Append(typed, Answer(a)))
      BY <2>3 DEF NewOpens
    <3>2. typed' = Append(typed, Answer(a)) /\ pc' \in {"cached", "done"}
      BY <3>1 DEF Opened
    <3>3. Promise!Ask(at, a)
      BY <1>2, <2>1, <2>2, <3>1, <3>2
      DEF Promise!Ask, Promise!given, given, Answer, Over
    <3> QED
      BY <2>1, <3>3 DEF Promise!Next, Promise!V, V
  <2>4. CASE NewFails
    <3>1. PICK a \in Passphrases :
            a # pass[at] /\ Fail(Append(typed, Answer(a)), {Len(typed) + 1})
      BY <2>4 DEF NewFails
    <3>2. typed' = Append(typed, Answer(a)) /\ pc' = "failed"
      BY <3>1 DEF Fail
    <3>3. Promise!Ask(at, a)
      BY <1>2, <2>1, <2>2, <3>1, <3>2
      DEF Promise!Ask, Promise!given, given, Answer, Over
    <3> QED
      BY <2>1, <3>3 DEF Promise!Next, Promise!V, V
  <2> QED
    BY <1>2, <2>3, <2>4
<1>3. CASE UNCHANGED given /\ SameFails
  <2>1. pc' = "failed" /\ UNCHANGED typed /\ pc \in {"source", "prompt", "trying"}
    BY <1>3 DEF SameFails, Fail
  <2>2. /\ at \in V /\ at \notin remembered /\ Promise!InChain(at)
        /\ source \/ Promise!Shut(at)
    <3>1. CASE pc = "source"
      BY <3>1 DEF Ref, Inv, TypeOK, Promise!InChain, Promise!Beyond
    <3>2. CASE pc \in {"trying", "prompt"}
      <4>1. ~Fits(at)
        <5>1. \A b \in DOMAIN typed : typed[b].answer \in Passphrases
          <6>1. typed \in Seq(Buffer)
            BY <1>0 DEF TypeOK, Buffer
          <6>2. \A b \in DOMAIN typed : typed[b] \in Buffer
            BY <6>1
          <6> QED
            BY <6>2 DEF Buffer
        <5> QED
          BY <1>3, <3>2, <5>1 DEF SameFails, Fits, Inv
      <4>2. at \in V /\ Promise!Shut(at)
        BY <3>2, <4>1, AskedIsShut
      <4> QED
        BY <3>2, <4>2 DEF Ref, Promise!Shut
    <3> QED
      BY <2>1, <3>1, <3>2
  <2>3. Promise!GiveUp
    BY <1>3, <2>1, <2>2 DEF Promise!GiveUp, Promise!given, given, Over,
       Promise!V, V
  <2> QED
    BY <2>3 DEF Promise!Next
<1>4. CASE Done
  <2>1. /\ pc = "done" /\ pc' = "open" /\ UNCHANGED <<given, at, typed, open>>
    BY <1>4 DEF Done
  <2>2. at \in V /\ at \in Nat /\ open \in Seq(V) /\ OpenIs(at)
    BY <1>0, <2>1 DEF TypeOK, V, Ref
  <2>3. /\ Promise!InChain(at) /\ ~Promise!Beyond(at)
        /\ ~source => \A u \in 1 .. at : Promise!Opens(u)
    <3>1. \A u \in 1 .. at - 1 : u < N /\ inherit /\ u \notin roots
      BY <2>1 DEF Ref
    <3>2. ~Promise!Beyond(at)
      BY <2>1, <2>2 DEF Ref, Last, Promise!Beyond, V
    <3>3. ASSUME ~source, NEW u \in 1 .. at
          PROVE  Opens(u)
      <4>1. u = at \/ u \in 1 .. at - 1
        BY <2>2
      <4> QED
        BY <2>1, <3>3, <4>1 DEF Ref
    <3> QED
      BY <3>1, <3>2, <3>3 DEF Promise!InChain, Promise!Beyond,
         Promise!Opens, Promise!Answered, Opens, Fits
  <2>4. open = [j \in 1 .. at |-> at + 1 - j]
    BY <2>2 DEF OpenIs
  <2>5. Promise!Succeed
    BY <2>1, <2>2, <2>3, <2>4 DEF Promise!Succeed, Promise!given, given, Over,
       Promise!V, V
  <2> QED
    BY <2>5 DEF Promise!Next
<1>5. CASE UNCHANGED vars
  BY <1>5 DEF vars, given, Result, Chain, Over
<1> QED
  BY <1>0, <1>1, <1>2, <1>3, <1>4, <1>5, StepIs

\* Every run of loadChain is one that UnlockPromise allows: the chain is the
\* right one, root-most first, and the questions are the ones needed.
THEOREM Refines == Spec => ChainKeepsPromise
BY InvInit, InvNext, RefInit, RefNext, InitRefines, StepRefines, PTL
   DEF Spec, ChainKeepsPromise, Promise!Spec
=============================================================================
