--------------------------- MODULE EachVaultProofs ---------------------------
(***************************************************************************)
(* What EachVault guarantees for any number of vaults, passphrases and     *)
(* cores.                                                                  *)
(***************************************************************************)
EXTENDS EachVault, WellFoundedInduction, TLAPS

USE SizeAssumption, NamesAssumption
-----------------------------------------------------------------------------
(* The first of a set of vaults                                            *)

Lower == {z \in Nat \X Nat : z[1] < z[2]}

LEMMA LowerWellFounded == IsWellFoundedOn(Lower, Nat)
BY NatLessThanWellFounded DEF Lower, OpToRel

\* A nonempty set of numbers has a least element, and Min is it.
LEMMA MinIsLeast ==
    ASSUME NEW S, S \subseteq Nat, S # {}
    PROVE  Min(S) \in S /\ \A y \in S : Min(S) <= y
<1>1. PICK x \in S : \A y \in S : ~(<<y, x>> \in Lower)
  BY LowerWellFounded, WFMin
<1>2. \A y \in S : x <= y
  <2> TAKE y \in S
  <2>1. x \in Nat /\ y \in Nat
    OBVIOUS
  <2>2. ~(y < x)
    <3> SUFFICES ASSUME y < x PROVE FALSE
      OBVIOUS
    <3>1. /\ <<y, x>> \in Nat \X Nat
          /\ <<y, x>>[1] = y /\ <<y, x>>[2] = x
      BY <2>1
    <3>2. <<y, x>> \in Lower
      BY <3>1, SMT DEF Lower
    <3> QED
      BY <1>1, <3>2
  <2> QED
    BY <2>1, <2>2
<1> QED
  BY <1>2 DEF Min

\* The first of a set of vaults is one of them.
LEMMA FirstPath ==
    ASSUME NEW S, S \subseteq Paths, S # {}
    PROVE  /\ Min(S) \in S /\ Min(S) \in Paths /\ Min(S) # 0
           /\ \A y \in S : Min(S) <= y
<1>1. S \subseteq Nat
  BY DEF Paths
<1>2. Min(S) \in S /\ \A y \in S : Min(S) <= y
  BY <1>1, MinIsLeast
<1>3. Min(S) \in Paths
  BY <1>2
<1>4. \A p \in Paths : p # 0
  BY DEF Paths
<1> QED
  BY <1>2, <1>3, <1>4
-----------------------------------------------------------------------------
(* The inductive invariant                                                 *)

\* fn has been called for a vault still shut only if its goroutine says so.
Calls ==
    \A p \in left :
        /\ handed[p] = IF work[p] \in {"ok", "failed"} THEN 1 ELSE 0
        /\ work[p] = "ok" => p \notin fails
        /\ work[p] = "failed" => p \in fails

\* What is written down of a vault no longer shut.
Books ==
    /\ \A p \in Paths \ left :
          /\ handed[p] \in {0, 1}
          /\ p \in done <=> handed[p] = 1 /\ p \notin fails
          /\ p \in skipped => handed[p] = 0
    /\ left \cap (done \cup skipped) = {}
    /\ err = 0 => Paths \subseteq left \cup done \cup skipped

\* The phases: an error ends the run, nothing works between passes, and the
\* run asks or ends for a reason.
Control ==
    /\ phase # "over" => err = 0
    /\ phase \in {"ask", "over"} => work = [p \in Paths |-> "idle"]
    /\ phase = "ask" => left # {}
    /\ phase = "over" /\ err = 0 => left = {}
    /\ phase = "typed" => asked \in DOMAIN typed

\* Nothing typed opens a vault still shut, except what this pass is trying.
Tried ==
    phase # "over" =>
        \A p \in left, a \in DOMAIN typed :
            typed[a] = vault[p] =>
                phase = "typed" /\ a = asked /\ work[p] # "shut"

\* The questions were about vaults before all those still shut, except the
\* one this pass is trying to answer.
Ordered ==
    phase # "over" =>
        \A p \in left, a \in DOMAIN typed :
            a < p \/ (phase = "typed" /\ a = asked /\ a <= p)

IInv == Calls /\ Books /\ Control /\ Tried /\ Ordered
            /\ OnePromptPerPassphrase

LEMMA InitInv == Init => TypeOK /\ IInv
<1> SUFFICES ASSUME Init PROVE TypeOK /\ IInv
  OBVIOUS
<1>1. DOMAIN typed = {}
  BY DEF Init
<1>2. TypeOK
  BY <1>1 DEF Init, TypeOK, Passes
<1>3. Calls /\ Books /\ Control
  BY DEF Init, Calls, Books, Control
<1>4. Tried /\ Ordered /\ OnePromptPerPassphrase
  BY <1>1 DEF Tried, Ordered, OnePromptPerPassphrase
<1> QED
  BY <1>2, <1>3, <1>4 DEF IInv
-----------------------------------------------------------------------------
(* The goroutines                                                          *)

\* The outcome of opening a vault: never the ones fn decides.
LEMMA OpensType ==
    ASSUME NEW p \in Paths
    PROVE  Opens(p) \in {"using", "shut", "bad", "abort"}
              \/ phase \notin Passes
BY DEF Opens, OpenCached, OpenSource, OpenWith, Passes

LEMMA TakeStep ==
    ASSUME TypeOK, IInv, NEW p \in Paths, Take(p) PROVE TypeOK' /\ IInv'
<1>1. TypeOK'
  BY DEF TypeOK, Take, plan, tally
<1>2. Calls' /\ Books'
  BY DEF IInv, Calls, Books, TypeOK, Take, plan, tally
<1>3. Control'
  BY DEF IInv, Control, TypeOK, Take, plan, tally
<1>4. Tried' /\ Ordered' /\ OnePromptPerPassphrase'
  BY DEF IInv, Tried, Ordered, OnePromptPerPassphrase, TypeOK, Take, plan,
         tally
<1> QED
  BY <1>1, <1>2, <1>3, <1>4 DEF IInv

LEMMA OpenStep ==
    ASSUME TypeOK, IInv, NEW p \in Paths, Open(p) PROVE TypeOK' /\ IInv'
<1>1. phase \in Passes
  BY DEF IInv, Control, TypeOK, Open, Passes
<1>2. Opens(p) \in {"using", "shut", "bad", "abort"}
  BY <1>1, OpensType
<1>3. TypeOK'
  BY <1>2 DEF TypeOK, Open, plan, tally, Results
<1>4. Calls' /\ Books'
  BY <1>2 DEF IInv, Calls, Books, TypeOK, Open, plan, tally
<1>5. Control'
  BY <1>1 DEF IInv, Control, TypeOK, Open, plan, tally, Passes
<1>6. Tried'
  <2>1. phase = "typed" /\ Opens(p) = "shut" => vault[p] # typed[asked]
    BY DEF Opens, OpenWith, Newest
  <2> QED
    BY <2>1 DEF IInv, Tried, TypeOK, Open, plan, tally
<1>7. Ordered' /\ OnePromptPerPassphrase'
  BY DEF IInv, Ordered, OnePromptPerPassphrase, Open, plan, tally
<1> QED
  BY <1>3, <1>4, <1>5, <1>6, <1>7 DEF IInv

LEMMA UseStep ==
    ASSUME TypeOK, IInv, NEW p \in Paths, Use(p) PROVE TypeOK' /\ IInv'
<1>1. TypeOK'
  BY DEF TypeOK, Use, plan, tally, Results
<1>2. Calls' /\ Books'
  BY DEF IInv, Calls, Books, TypeOK, Use, plan, tally
<1>3. Control'
  BY DEF IInv, Control, TypeOK, Use, plan, tally
<1>4. Tried' /\ Ordered' /\ OnePromptPerPassphrase'
  BY DEF IInv, Tried, Ordered, OnePromptPerPassphrase, TypeOK, Use, plan,
         tally
<1> QED
  BY <1>1, <1>2, <1>3, <1>4 DEF IInv
-----------------------------------------------------------------------------
(* Between passes                                                          *)

\* An error of this pass is an error, and only that.
LEMMA StopperIs ==
    ASSUME TypeOK, err = 0
    PROVE  /\ Stopper \in Paths \cup {0}
           /\ Stopper = 0 <=> In("abort") = {} /\ In("failed") = {}
<1> DEFINE stops == In("abort") \cup In("failed")
<1>1. stops \subseteq Paths
  BY DEF In, TypeOK
<1>2. CASE stops = {}
  BY <1>2 DEF Stopper
<1>3. CASE stops # {}
  <2>1. Min(stops) \in Paths /\ Min(stops) # 0
    BY <1>1, <1>3, FirstPath
  <2>2. Stopper = Min(stops)
    BY <1>3 DEF Stopper
  <2> QED
    BY <1>3, <2>1, <2>2
<1> QED
  BY <1>2, <1>3

\* Adding up a pass keeps the books, and what stays shut was not handed over.
LEMMA AddedBooks ==
    ASSUME TypeOK, IInv, phase \in Passes, Joined, NEW wrong,
           wrong \subseteq Remaining, Added(wrong),
           UNCHANGED <<plan, handed>>
    PROVE  /\ Books'
           /\ left' \subseteq Paths /\ left' = Remaining \ wrong
           /\ done' \subseteq Paths /\ skipped' \subseteq Paths
           /\ err' \in Paths \cup {0} /\ err' = Stopper
           /\ \A p \in left' : handed'[p] = 0
<1>0. err = 0
  BY DEF IInv, Control, Passes
<1>1. /\ Stopper \in Paths \cup {0}
      /\ Stopper = 0 <=> In("abort") = {} /\ In("failed") = {}
  BY <1>0, StopperIs
<1>2. /\ left' = Remaining \ wrong
      /\ done' = done \cup In("ok")
      /\ skipped' = skipped \cup In("bad") \cup wrong
      /\ err' = Stopper
      /\ handed' = handed /\ fails' = fails
  BY DEF Added, plan
<1>3. /\ left' \subseteq left
      /\ \A p \in left' : handed[p] = 0
  BY <1>2 DEF Remaining, In, IInv, Calls
<1>4. ASSUME NEW p \in Paths \ left'
      PROVE  /\ handed[p] \in {0, 1}
             /\ p \in done' <=> handed[p] = 1 /\ p \notin fails
             /\ p \in skipped' => handed[p] = 0
             /\ Stopper = 0 => p \in done' \cup skipped'
  <2>1. CASE p \notin left
    BY <1>0, <1>2, <2>1 DEF IInv, Books, Remaining, In
  <2>2. CASE p \in left
    <3>1. p \notin done \cup skipped
      BY <2>2 DEF IInv, Books
    <3>2. work[p] \in Results
      BY <2>2 DEF Joined
    <3>3. work[p] = "shut" <=> p \in wrong
      BY <1>2, <1>4, <2>2 DEF Remaining, In
    <3>4. /\ p \in done' <=> work[p] = "ok"
          /\ p \in skipped' <=> work[p] \in {"bad", "shut"}
      BY <1>2, <2>2, <3>1, <3>3 DEF In
    <3>5. /\ handed[p] = IF work[p] \in {"ok", "failed"} THEN 1 ELSE 0
          /\ work[p] = "ok" => p \notin fails
          /\ work[p] = "failed" => p \in fails
      BY <2>2 DEF IInv, Calls
    <3>6. Stopper = 0 => work[p] \notin {"abort", "failed"}
      BY <1>1, <2>2 DEF In
    <3> QED
      BY <3>2, <3>4, <3>5, <3>6 DEF Results
  <2> QED
    BY <2>1, <2>2
<1>5. left' \cap (done' \cup skipped') = {}
  BY <1>2, <1>3 DEF IInv, Books, Remaining, In
<1>6. Books'
  BY <1>2, <1>4, <1>5 DEF Books
<1>7. done' \subseteq Paths /\ skipped' \subseteq Paths
  BY <1>2, <1>3 DEF TypeOK, In, Remaining
<1>8. left' \subseteq Paths
  BY <1>3 DEF TypeOK
<1> QED
  BY <1>1, <1>2, <1>3, <1>6, <1>7, <1>8

\* A pass whose goroutines have not started: what the invariant needs of it.
LEMMA FreshCalls ==
    ASSUME NEW S, work' = [p \in Paths |-> IF p \in S THEN "waiting" ELSE "idle"],
           left' \subseteq Paths, \A p \in left' : handed'[p] = 0
    PROVE  Calls'
BY DEF Calls

\* After a pass, the vaults that stay shut open with nothing typed so far.
LEMMA RemainingTried ==
    ASSUME TypeOK, IInv, phase # "over", NEW p \in Remaining,
           NEW a \in DOMAIN typed
    PROVE  typed[a] # vault[p]
BY DEF IInv, Tried, Remaining, In

\* How a pass may end: it stops with nothing shut or an error, and goes on
\* with what is shut and was not asked about yet.
LEMMA PassEnds ==
    ASSUME TypeOK, IInv, phase \in Passes, Joined,
           NEW wrong, wrong \subseteq Remaining, Added(wrong),
           UNCHANGED <<plan, typed, asked, handed>>,
           phase' \in {"source", "ask", "over"},
           phase' = "over" => err' # 0 \/ left' = {},
           phase' # "over" => err' = 0 /\ left' # {},
           \/ work' = [p \in Paths |-> "idle"]
           \/ /\ phase' = "source"
              /\ work' = [p \in Paths |->
                             IF p \in left' THEN "waiting" ELSE "idle"],
           phase' # "over" => \A p \in left', a \in DOMAIN typed : a < p
    PROVE  TypeOK' /\ IInv'
<1>1. /\ Books'
      /\ left' \subseteq Paths /\ left' = Remaining \ wrong
      /\ done' \subseteq Paths /\ skipped' \subseteq Paths
      /\ err' \in Paths \cup {0} /\ err' = Stopper
      /\ \A p \in left' : handed'[p] = 0
  BY AddedBooks
<1>2. TypeOK'
  BY <1>1 DEF TypeOK, plan, Passes
<1>3. Calls'
  BY <1>1 DEF Calls
<1>4. Control'
  BY DEF Control
<1>5. Tried'
  <2>1. phase # "over"
    BY DEF Passes
  <2>2. \A p \in left', a \in DOMAIN typed : typed[a] # vault[p]
    BY <1>1, <2>1, RemainingTried
  <2> QED
    BY <2>2 DEF Tried, plan
<1>6. Ordered'
  BY DEF Ordered
<1>7. OnePromptPerPassphrase'
  BY DEF IInv, OnePromptPerPassphrase, plan
<1> QED
  BY <1>1, <1>2, <1>3, <1>4, <1>5, <1>6, <1>7 DEF IInv

LEMMA AfterCachedStep ==
    ASSUME TypeOK, IInv, AfterCached PROVE TypeOK' /\ IInv'
<1>1. /\ phase = "cached" /\ phase \in Passes /\ Joined
      /\ {} \subseteq Remaining /\ Added({})
      /\ UNCHANGED <<plan, typed, asked, handed>>
  BY DEF AfterCached, Passes
<1>2. \A p \in left', a \in DOMAIN typed : a < p
  BY <1>1 DEF IInv, Ordered, Added, Remaining, In
<1>3. CASE err' # 0 \/ left' = {}
  <2>1. phase' = "over" /\ work' = [p \in Paths |-> "idle"]
    BY <1>3 DEF AfterCached, Over
  <2> QED
    BY <1>1, <1>3, <2>1, PassEnds
<1>4. CASE ~(err' # 0 \/ left' = {}) /\ source # NoSource
  <2>1. /\ phase' = "source"
        /\ work' = [p \in Paths |-> IF p \in left' THEN "waiting" ELSE "idle"]
    BY <1>4 DEF AfterCached, Enter
  <2> QED
    BY <1>1, <1>2, <1>4, <2>1, PassEnds
<1>5. CASE ~(err' # 0 \/ left' = {}) /\ source = NoSource
  <2>1. phase' = "ask" /\ work' = [p \in Paths |-> "idle"]
    BY <1>5 DEF AfterCached, Enter
  <2> QED
    BY <1>1, <1>2, <1>5, <2>1, PassEnds
<1> QED
  BY <1>3, <1>4, <1>5

LEMMA AfterSourceStep ==
    ASSUME TypeOK, IInv, AfterSource PROVE TypeOK' /\ IInv'
<1> DEFINE wrong == IF Stopper = 0 THEN Remaining ELSE {}
<1>1. /\ phase \in Passes /\ Joined
      /\ wrong \subseteq Remaining /\ Added(wrong)
      /\ UNCHANGED <<plan, typed, asked, handed>>
      /\ phase' = "over" /\ work' = [p \in Paths |-> "idle"]
  BY DEF AfterSource, Passes, Over
<1>2. err' = Stopper /\ left' = Remaining \ wrong
  BY <1>1 DEF Added
<1>3. err' # 0 \/ left' = {}
  BY <1>2
<1> QED
  BY <1>1, <1>3, PassEnds

LEMMA AfterTypedStep ==
    ASSUME TypeOK, IInv, AfterTyped PROVE TypeOK' /\ IInv'
<1>1. /\ phase = "typed" /\ phase \in Passes /\ Joined
      /\ GivenUp \subseteq Remaining /\ Added(GivenUp)
      /\ UNCHANGED <<plan, typed, asked, handed>>
  <2>1. Remaining \subseteq Paths
    BY DEF Remaining, In, TypeOK
  <2>2. Remaining # {} => Min(Remaining) \in Remaining
    BY <2>1, FirstPath
  <2> QED
    BY <2>2 DEF AfterTyped, Passes, GivenUp
<1>2. err' = Stopper /\ left' = Remaining \ GivenUp
  BY <1>1 DEF Added
<1>3. CASE err' # 0 \/ left' = {}
  <2>1. phase' = "over" /\ work' = [p \in Paths |-> "idle"]
    BY <1>3 DEF AfterTyped, Over
  <2> QED
    BY <1>1, <1>3, <2>1, PassEnds
<1>4. CASE err' = 0 /\ left' # {}
  <2>1. phase' = "ask" /\ work' = [p \in Paths |-> "idle"]
    BY <1>4 DEF AfterTyped, Enter
  <2>2. ASSUME NEW p \in left', NEW a \in DOMAIN typed PROVE a < p
    <3>1. p \in left /\ p \in Remaining /\ p \notin GivenUp
      BY <1>2 DEF Remaining, In
    <3>2. a < p \/ (a = asked /\ a <= p)
      BY <1>1, <3>1 DEF IInv, Ordered
    <3>3. a = asked => a # p
      <4> SUFFICES ASSUME a = asked, a = p PROVE FALSE
        OBVIOUS
      <4>1. Remaining \subseteq Paths /\ Remaining # {} /\ asked \in Remaining
        BY <3>1 DEF Remaining, In, TypeOK
      <4>2. \A q \in Paths : q \in Nat
        BY DEF Paths
      <4>3. ASSUME NEW q \in Remaining PROVE asked <= q
        <5>1. asked < q \/ asked <= q
          BY <1>1 DEF IInv, Ordered, Control, Remaining, In
        <5> QED
          BY <4>1, <4>2, <5>1
      <4>4. /\ Min(Remaining) \in Remaining
            /\ \A q \in Remaining : Min(Remaining) <= q
        BY <4>1, FirstPath
      <4>5. Min(Remaining) = asked
        <5>1. Min(Remaining) <= asked /\ asked <= Min(Remaining)
          BY <4>1, <4>3, <4>4
        <5>2. Min(Remaining) \in Nat /\ asked \in Nat
          BY <4>1, <4>4, <4>2
        <5> QED
          BY <5>1, <5>2
      <4> QED
        BY <1>2, <1>4, <3>1, <4>1, <4>5 DEF GivenUp
    <3>4. a \in Paths /\ p \in Paths
      BY <3>1 DEF TypeOK
    <3> QED
      BY <3>2, <3>3, <3>4 DEF Paths
  <2> QED
    BY <1>1, <1>4, <2>1, <2>2, PassEnds
<1> QED
  BY <1>3, <1>4
-----------------------------------------------------------------------------
(* The prompt                                                              *)

LEMMA AskAnswerStep ==
    ASSUME TypeOK, IInv, NEW p \in left, AskAnswer(p)
    PROVE  TypeOK' /\ IInv'
<1>1. /\ phase = "ask" /\ p = Min(left) /\ asked' = p /\ p \in Paths
      /\ UNCHANGED <<plan, left, tally, handed>>
      /\ phase' = "typed"
      /\ work' = [q \in Paths |-> IF q \in left THEN "waiting" ELSE "idle"]
  BY DEF AskAnswer, Enter, TypeOK
<1>2. PICK w \in Passphrases :
        typed' = [a \in DOMAIN typed \cup {p} |->
                     IF a = p THEN w ELSE typed[a]]
  BY DEF AskAnswer
<1>3. /\ DOMAIN typed' = DOMAIN typed \cup {p}
      /\ typed'[p] = w
      /\ \A a \in DOMAIN typed \ {p} : typed'[a] = typed[a]
  BY <1>2
<1>4. \A q \in left : p <= q
  BY <1>1, FirstPath DEF TypeOK
<1>5. \A q \in left, a \in DOMAIN typed : a < q /\ typed[a] # vault[q]
  BY <1>1 DEF IInv, Ordered, Tried
<1>6. DOMAIN typed \subseteq Paths /\ left \subseteq Paths
  BY DEF TypeOK
<1>7. TypeOK'
  <2>1. typed' \in [DOMAIN typed' -> Passphrases]
    BY <1>2 DEF TypeOK
  <2>2. DOMAIN typed' \subseteq Paths
    BY <1>1, <1>3, <1>6
  <2> QED
    BY <1>1, <2>1, <2>2 DEF TypeOK, plan, tally, Passes
<1>8. Calls'
  <2>1. \A q \in left : handed[q] = 0
    BY <1>1, <1>6 DEF IInv, Calls, Control
  <2> QED
    BY <1>1, <1>6, <2>1 DEF Calls
<1>9. Books'
  BY <1>1 DEF IInv, Books, plan, tally
<1>10. Control'
  BY <1>1, <1>3 DEF IInv, Control, tally
<1>11. Tried'
  BY <1>1, <1>3, <1>5, <1>6 DEF Tried, plan
<1>12. Ordered'
  BY <1>1, <1>3, <1>4, <1>5 DEF Ordered
<1>13. OnePromptPerPassphrase'
  <2> SUFFICES ASSUME NEW a \in DOMAIN typed', NEW b \in DOMAIN typed',
                      a < b, vault[a] = vault[b], vault[a] # Damaged
               PROVE  typed'[a] # vault[a]
    BY <1>1 DEF OnePromptPerPassphrase, plan
  <2>1. a # p
    <3> SUFFICES ASSUME a = p PROVE FALSE
      OBVIOUS
    <3>1. b \in DOMAIN typed /\ b \in Paths /\ p \in Paths
      BY <1>1, <1>3, <1>6 DEF Paths
    <3> QED
      BY <1>5, <3>1 DEF Paths
  <2>2. CASE b = p
    BY <1>3, <1>5, <2>1, <2>2
  <2>3. CASE b # p
    BY <1>3, <2>1, <2>3 DEF IInv, OnePromptPerPassphrase
  <2> QED
    BY <2>2, <2>3
<1> QED
  BY <1>7, <1>8, <1>9, <1>10, <1>11, <1>12, <1>13 DEF IInv

LEMMA PromptDiesStep ==
    ASSUME TypeOK, IInv, PromptDies PROVE TypeOK' /\ IInv'
<1>1. /\ phase = "ask" /\ err' = Min(left) /\ phase' = "over"
      /\ work = [p \in Paths |-> "idle"] /\ work' = work
      /\ UNCHANGED <<plan, left, typed, asked, done, skipped, handed>>
  BY DEF PromptDies, Over, IInv, Control
<1>2. err' \in Paths /\ err' # 0
  <2>1. left \subseteq Paths /\ left # {}
    BY <1>1 DEF TypeOK, IInv, Control
  <2> QED
    BY <1>1, <2>1, FirstPath
<1>3. TypeOK'
  BY <1>1, <1>2 DEF TypeOK, plan
<1>4. Calls' /\ Books' /\ Control'
  BY <1>1, <1>2 DEF IInv, Calls, Books, Control, plan
<1>5. Tried' /\ Ordered' /\ OnePromptPerPassphrase'
  BY <1>1 DEF IInv, Tried, Ordered, OnePromptPerPassphrase, plan
<1> QED
  BY <1>3, <1>4, <1>5 DEF IInv
-----------------------------------------------------------------------------
(* Every step, and the theorems                                            *)

LEMMA StepInv == TypeOK /\ IInv /\ [Next]_vars => TypeOK' /\ IInv'
<1> SUFFICES ASSUME TypeOK, IInv, [Next]_vars PROVE TypeOK' /\ IInv'
  OBVIOUS
<1>1. CASE Next
  <2>1. ASSUME NEW p \in Paths, Goroutine(p) PROVE TypeOK' /\ IInv'
    BY <2>1, TakeStep, OpenStep, UseStep DEF Goroutine
  <2>2. CASE Between
    BY <2>2, AfterCachedStep, AfterSourceStep, AfterTypedStep, AskAnswerStep,
       PromptDiesStep DEF Between
  <2> QED
    BY <1>1, <2>1, <2>2 DEF Next
<1>2. CASE UNCHANGED vars
  <2>1. UNCHANGED <<vault, source, fails, phase, left, work, typed, asked,
                    done, skipped, err, handed>>
    BY <1>2 DEF vars, plan, tally
  <2>2. TypeOK'
    BY <2>1 DEF TypeOK
  <2>3. Calls' /\ Books' /\ Control'
    BY <2>1 DEF IInv, Calls, Books, Control
  <2>4. Tried' /\ Ordered' /\ OnePromptPerPassphrase'
    BY <2>1 DEF IInv, Tried, Ordered, OnePromptPerPassphrase
  <2> QED
    BY <2>2, <2>3, <2>4 DEF IInv
<1> QED
  BY <1>1, <1>2

LEMMA Invariance == Spec => [](TypeOK /\ IInv)
BY InitInv, StepInv, PTL DEF Spec

\* The variables of a run over any number of vaults keep their types.
THEOREM TypeCorrect == Spec => []TypeOK
BY Invariance, PTL

\* However many vaults and passphrases there are, whoever finishes first and
\* whatever is typed, no vault that waits for a question opens with anything
\* typed before it: trying the newest passphrase only is enough.
THEOREM NewestIsEnough == Spec => []NewestSuffices
<1>1. TypeOK /\ IInv => NewestSuffices
  BY DEF IInv, Tried, NewestSuffices
<1> QED
  BY <1>1, Invariance, PTL

\* However many passes a run takes, fn gets no vault twice.
THEOREM NeverHandedTwice == Spec => []HandedOnce
<1>1. TypeOK /\ IInv => HandedOnce
  <2> SUFFICES ASSUME TypeOK, IInv, NEW p \in Paths PROVE handed[p] <= 1
    BY DEF HandedOnce
  <2>1. handed[p] \in {0, 1}
    BY DEF IInv, Calls, Books
  <2> QED
    BY <2>1
<1> QED
  BY <1>1, Invariance, PTL

\* Every vault of a finished run is done, skipped, or left out by an error.
THEOREM AllAccounted == Spec => []Accounted
<1>1. TypeOK /\ IInv => Accounted
  <2> SUFFICES ASSUME TypeOK, IInv, phase = "over" PROVE Accounted
    BY DEF Accounted
  <2>1. \A p \in left : handed[p] = 0
    BY DEF IInv, Calls, Control, TypeOK
  <2>2. \A p \in left : p \notin done \cup skipped
    BY DEF IInv, Books
  <2>3. \A p \in Paths \ left :
          /\ p \in done <=> handed[p] = 1 /\ p \notin fails
          /\ p \in skipped => handed[p] = 0
    BY DEF IInv, Books
  <2>4. done \subseteq Paths /\ skipped \subseteq Paths
    BY DEF TypeOK
  <2>5. done = {p \in Paths : handed[p] = 1 /\ p \notin fails}
    BY <2>1, <2>2, <2>3, <2>4
  <2>6. \A p \in skipped : handed[p] = 0
    BY <2>2, <2>3, <2>4
  <2>7. err = 0 => done \cup skipped = Paths
    BY <2>4 DEF IInv, Control, Books
  <2> QED
    BY <2>4, <2>5, <2>6, <2>7 DEF Accounted
<1> QED
  BY <1>1, Invariance, PTL

\* With any number of passphrases, a second question about a passphrase is
\* asked only when the first was answered wrongly.
THEOREM OnePromptEach == Spec => []OnePromptPerPassphrase
BY Invariance, PTL DEF IInv
-----------------------------------------------------------------------------
(* The run as EachVaultPromise tells it: between passes the books hold     *)
(* what the abstract specification computes from the answers, and in a     *)
(* pass each goroutine comes to what opening its vault must come to.       *)

Cached == Promise!Cached
Opened == Promise!Opened
Broken == Promise!Broken
Failed == Promise!Failed

\* A goroutine that is past opening its vault is where that leads to.
Found ==
    phase \in Passes =>
        \A p \in left :
            \/ work[p] \in {"waiting", "opening", Opens(p)}
            \/ Opens(p) = "using" /\ work[p] \in {"ok", "failed"}

AtFirst ==
    phase = "cached" =>
        /\ typed = [p \in {} |-> {}]
        /\ left = Paths /\ done = {} /\ skipped = {}

AtSource ==
    phase = "source" =>
        /\ source # NoSource /\ typed = [p \in {} |-> {}]
        /\ left = Paths \ Cached /\ done = Cached /\ skipped = {}
        /\ Cached \cap fails = {}

AtPrompt ==
    phase = "ask" =>
        /\ source = NoSource /\ Failed = {}
        /\ left = Paths \ (Opened \cup Broken \cup DOMAIN typed)
        /\ done = Opened
        /\ skipped = Broken \cup (DOMAIN typed \ Opened)

\* While an answer is tried: what the books say is of the others, and of a
\* vault still shut only this answer can say anything.
AtAnswer ==
    phase = "typed" =>
        /\ source = NoSource
        /\ asked \in left /\ \A p \in left : asked <= p
        /\ \A p \in left :
              /\ vault[p] # Remembered
              /\ p \in DOMAIN typed => p = asked
              /\ DOMAIN typed # {asked} => vault[p] # Damaged
        /\ done = Opened \ left
        /\ skipped = (Broken \cup (DOMAIN typed \ Opened)) \ left

Ref == Found /\ AtFirst /\ AtSource /\ AtPrompt /\ AtAnswer

\* The abstract specification's least element is the same one.
LEMMA SameMin == \A S : Promise!Min(S) = Min(S)
BY DEF Promise!Min, Min

LEMMA SamePaths == Promise!Paths = Paths
BY DEF Promise!Paths, Paths

LEMMA InitRef == Init => Promise!Init /\ Ref
<1> SUFFICES ASSUME Init PROVE Promise!Init /\ Ref
  OBVIOUS
<1>1. Promise!Init
  BY SamePaths DEF Init, Promise!Init
<1>2. Found
  BY DEF Init, Found
<1>3. AtFirst /\ AtSource /\ AtPrompt /\ AtAnswer
  BY DEF Init, AtFirst, AtSource, AtPrompt, AtAnswer
<1> QED
  BY <1>1, <1>2, <1>3 DEF Ref

\* What the vaults opened by now are, said of one vault.
LEMMA OpenedIs ==
    ASSUME NEW p \in Paths
    PROVE  p \in Opened <=>
              \/ vault[p] = Remembered
              \/ \E a \in DOMAIN typed :
                    typed[a] = vault[p] /\ (p \in DOMAIN typed => a <= p)
BY SamePaths DEF Opened, Promise!Opened, Promise!Cached, Promise!Asked

LEMMA BrokenIs ==
    ASSUME NEW p \in Paths
    PROVE  p \in Broken <=> DOMAIN typed # {} /\ vault[p] = Damaged
BY SamePaths DEF Broken, Promise!Broken, Promise!Asked

LEMMA Kinds ==
    /\ Cached \subseteq Paths /\ Opened \subseteq Paths
    /\ Broken \subseteq Paths
    /\ \A p \in Paths : p \in Cached <=> vault[p] = Remembered
    /\ Failed = Opened \cap fails
BY SamePaths DEF Cached, Opened, Broken, Failed, Promise!Cached,
       Promise!Opened, Promise!Broken, Promise!Failed, Promise!Asked
-----------------------------------------------------------------------------
(* The goroutines, again                                                   *)

\* Nothing but the goroutines' places changes in a step of theirs.
LEMMA GoroutineRef ==
    ASSUME TypeOK, IInv, Ref, NEW p \in Paths, Goroutine(p)
    PROVE  Ref' /\ UNCHANGED Promise!vars
<1>1. /\ UNCHANGED <<vault, source, fails, phase, left, typed, asked, done,
                     skipped, err>>
      /\ p \in left /\ work[p] \in {"waiting", "opening", "using"}
  BY DEF Goroutine, Take, Open, Use, plan, tally
<1>2. phase \in Passes
  BY <1>1 DEF IInv, Control, TypeOK, Passes
<1>3. Cached' = Cached /\ Opened' = Opened /\ Broken' = Broken
        /\ Failed' = Failed
  BY <1>1 DEF Cached, Opened, Broken, Failed, Promise!Cached, Promise!Opened,
     Promise!Broken, Promise!Failed, Promise!Asked, Promise!Paths
<1>4. \A q \in Paths : Opens(q)' = Opens(q)
  BY <1>1 DEF Opens, OpenCached, OpenSource, OpenWith, Newest
<1>5. Found'
  <2>1. \A q \in Paths \ {p} : work'[q] = work[q]
    BY DEF Goroutine, Take, Open, Use, TypeOK
  <2>2. \/ work'[p] \in {"opening", Opens(p)}
        \/ work[p] = "using" /\ work'[p] \in {"ok", "failed"}
    BY DEF Goroutine, Take, Open, Use, TypeOK
  <2>3. work[p] = "using" => Opens(p) = "using"
    BY <1>1, <1>2 DEF Ref, Found
  <2>4. left \subseteq Paths
    BY DEF TypeOK
  <2>5. \/ work'[p] \in {"waiting", "opening", Opens(p)}
        \/ Opens(p) = "using" /\ work'[p] \in {"ok", "failed"}
    BY <2>2, <2>3
  <2> QED
    BY <1>1, <1>2, <1>4, <2>1, <2>4, <2>5 DEF Ref, Found
<1>6. AtFirst' /\ AtSource'
  BY <1>1, <1>3 DEF Ref, AtFirst, AtSource
<1>7. AtPrompt' /\ AtAnswer'
  BY <1>1, <1>3 DEF Ref, AtPrompt, AtAnswer
<1>8. UNCHANGED Promise!vars
  BY <1>1 DEF Promise!vars, Promise!plan
<1> QED
  BY <1>5, <1>6, <1>7, <1>8 DEF Ref
-----------------------------------------------------------------------------
(* What a pass came to                                                     *)

\* The abstract variables are the run's own, so what is computed from them
\* changes only with them.
LEMMA SameBooks ==
    ASSUME UNCHANGED <<vault, source, fails, typed>>
    PROVE  /\ Cached' = Cached /\ Opened' = Opened /\ Broken' = Broken
           /\ Failed' = Failed
BY DEF Cached, Opened, Broken, Failed, Promise!Cached, Promise!Opened,
       Promise!Broken, Promise!Failed, Promise!Asked, Promise!Paths

\* When all are done, the results are told apart by what opens each vault and
\* by whether its callback fails.
LEMMA Sorted ==
    ASSUME TypeOK, IInv, Ref, phase \in Passes, Joined
    PROVE  /\ \A r \in Results : In(r) \subseteq left
           /\ \A p \in left :
                 /\ p \in In("ok") <=> Opens(p) = "using" /\ p \notin fails
                 /\ p \in In("failed") <=> Opens(p) = "using" /\ p \in fails
                 /\ \A r \in {"shut", "bad", "abort"} :
                       p \in In(r) <=> Opens(p) = r
<1>1. ASSUME NEW p \in left
      PROVE  /\ p \in In("ok") <=> Opens(p) = "using" /\ p \notin fails
             /\ p \in In("failed") <=> Opens(p) = "using" /\ p \in fails
             /\ \A r \in {"shut", "bad", "abort"} : p \in In(r) <=> Opens(p) = r
  <2>1. work[p] \in Results
    BY DEF Joined
  <2>2. Opens(p) \in {"using", "shut", "bad", "abort"}
    BY OpensType DEF TypeOK
  <2>3. \/ work[p] = Opens(p)
        \/ Opens(p) = "using" /\ work[p] \in {"ok", "failed"}
    BY <2>1 DEF Ref, Found, Results
  <2>4. work[p] = "ok" => p \notin fails
    BY DEF IInv, Calls
  <2>5. work[p] = "failed" => p \in fails
    BY DEF IInv, Calls
  <2>6. \A r : p \in In(r) <=> work[p] = r
    BY DEF In
  <2> QED
    BY <2>1, <2>2, <2>3, <2>4, <2>5, <2>6 DEF Results
<1>2. \A r \in Results : In(r) \subseteq left
  BY DEF In
<1> QED
  BY <1>1, <1>2

\* The first failure that stops a run is the first of the failures.
LEMMA StopperFirst ==
    ASSUME err = 0
    PROVE  Stopper = Promise!FirstOf(In("abort") \cup In("failed"))
BY SameMin DEF Stopper, Promise!FirstOf

LEMMA FirstOfNone ==
    ASSUME NEW S, S \subseteq Paths
    PROVE  Promise!FirstOf(S) = 0 <=> S = {}
BY SameMin, FirstPath DEF Promise!FirstOf

\* A run that is over has nothing more to keep.
LEMMA RefOver ==
    ASSUME phase' = "over" PROVE Ref'
BY DEF Ref, Found, AtFirst, AtSource, AtPrompt, AtAnswer, Passes
-----------------------------------------------------------------------------
(* After the cached keys                                                   *)

LEMMA CachedCame ==
    ASSUME TypeOK, IInv, Ref, AfterCached
    PROVE  /\ left' = Paths \ Cached /\ done' = Cached \ fails
           /\ skipped' = {} /\ err' = Promise!FirstOf(Cached \cap fails)
           /\ err' = 0 <=> Cached \cap fails = {}
           /\ UNCHANGED <<vault, source, fails, typed, asked>>
           /\ typed = [p \in {} |-> {}]
<1>1. /\ phase = "cached" /\ phase \in Passes /\ Joined /\ Added({})
      /\ UNCHANGED <<vault, source, fails, typed, asked>>
  BY DEF AfterCached, plan, Passes
<1>2. /\ left = Paths /\ done = {} /\ skipped = {}
      /\ typed = [p \in {} |-> {}]
  BY <1>1 DEF Ref, AtFirst
<1>3. \A p \in Paths : Opens(p) = IF p \in Cached THEN "using" ELSE "shut"
  BY <1>1, Kinds DEF Opens, OpenCached
<1>4. /\ In("shut") = Paths \ Cached /\ In("ok") = Cached \ fails
      /\ In("failed") = Cached \cap fails
      /\ In("bad") = {} /\ In("abort") = {}
  <2>1. /\ \A r \in Results : In(r) \subseteq Paths
        /\ \A p \in Paths :
              /\ p \in In("ok") <=> Opens(p) = "using" /\ p \notin fails
              /\ p \in In("failed") <=> Opens(p) = "using" /\ p \in fails
              /\ \A r \in {"shut", "bad", "abort"} : p \in In(r) <=> Opens(p) = r
    BY <1>1, <1>2, Sorted
  <2>2. Cached \subseteq Paths
    BY Kinds
  <2> HIDE DEF Cached
  <2>3. /\ In("ok") \subseteq Paths /\ In("failed") \subseteq Paths
        /\ In("shut") \subseteq Paths /\ In("bad") \subseteq Paths
        /\ In("abort") \subseteq Paths
    BY <2>1 DEF Results
  <2> QED
    BY <1>3, <2>1, <2>2, <2>3
<1>5. err = 0
  BY <1>1 DEF IInv, Control
<1>6. Stopper = Promise!FirstOf(Cached \cap fails)
  BY <1>4, <1>5, StopperFirst
<1>7. Cached \cap fails \subseteq Paths
  BY Kinds
<1> QED
  BY <1>1, <1>2, <1>4, <1>6, <1>7, FirstOfNone DEF Added, Remaining

\* Before anything is typed, only the cached keys have opened vaults.
LEMMA NothingTyped ==
    ASSUME typed = [p \in {} |-> {}]
    PROVE  /\ Opened = Cached /\ Broken = {} /\ DOMAIN typed = {}
           /\ Promise!Shut = Paths \ Cached /\ Failed = Cached \cap fails
<1>1. DOMAIN typed = {}
  OBVIOUS
<1> QED
  BY <1>1, SamePaths DEF Opened, Broken, Cached, Failed, Promise!Opened,
     Promise!Broken, Promise!Cached, Promise!Failed, Promise!Shut,
     Promise!Asked

LEMMA AfterCachedRef ==
    ASSUME TypeOK, IInv, Ref, AfterCached
    PROVE  Ref' /\ [Promise!Next]_(Promise!vars)
<1>1. /\ left' = Paths \ Cached /\ done' = Cached \ fails
      /\ skipped' = {} /\ err' = Promise!FirstOf(Cached \cap fails)
      /\ err' = 0 <=> Cached \cap fails = {}
      /\ UNCHANGED <<vault, source, fails, typed, asked>>
      /\ typed = [p \in {} |-> {}]
  BY CachedCame
<1>2. /\ Opened = Cached /\ Broken = {} /\ DOMAIN typed = {}
      /\ Promise!Shut = Paths \ Cached /\ Failed = Cached \cap fails
  BY <1>1, NothingTyped
<1>3. /\ Cached' = Cached /\ Opened' = Opened /\ Broken' = Broken
      /\ Failed' = Failed
  BY <1>1, SameBooks
<1>4. phase = "cached"
  BY DEF AfterCached
<1>5. CASE err' # 0 \/ left' = {}
  <2>1. phase' = "over"
    BY <1>5 DEF AfterCached, Over
  <2>2. Ref'
    BY <2>1, RefOver
  <2>3. CASE source = NoSource
    <3>1. Promise!FinishTyped
      BY <1>1, <1>2, <1>4, <1>5, <2>1, <2>3 DEF Promise!FinishTyped,
         Promise!Report, Promise!plan, Promise!Asked, Opened, Broken, Failed
    <3> QED
      BY <2>2, <3>1 DEF Promise!Next
  <2>4. CASE source # NoSource
    <3>1. Promise!FinishSource
      <4>1. CASE Cached \cap fails # {}
        BY <1>1, <1>4, <2>1, <2>4, <4>1, SameMin, SamePaths
           DEF Promise!FinishSource, Promise!Report, Promise!FirstOf,
           Promise!plan, Cached
      <4>2. CASE Cached \cap fails = {}
        <5>1. Paths = Cached /\ Paths \cap fails = {}
          BY <1>1, <1>5, <4>2, Kinds
        <5> QED
          BY <1>1, <1>4, <2>1, <2>4, <4>2, <5>1, SamePaths
             DEF Promise!FinishSource, Promise!Report, Promise!FirstOf,
             Promise!plan, Cached
      <4> QED
        BY <4>1, <4>2
    <3> QED
      BY <2>2, <3>1 DEF Promise!Next
  <2> QED
    BY <2>3, <2>4
<1>6. CASE ~(err' # 0 \/ left' = {})
  <2>1. phase' \in {"source", "ask"}
    BY <1>6 DEF AfterCached, Enter
  <2>2. UNCHANGED Promise!vars
    BY <1>1, <1>4, <2>1 DEF Promise!vars, Promise!plan
  <2>3. CASE source # NoSource
    <3>1. /\ phase' = "source"
          /\ work' = [p \in Paths |-> IF p \in left' THEN "waiting" ELSE "idle"]
      BY <1>6, <2>3 DEF AfterCached, Enter
    <3>2. Found'
      BY <1>1, <3>1 DEF Found
    <3>3. AtFirst' /\ AtPrompt' /\ AtAnswer'
      BY <3>1 DEF AtFirst, AtPrompt, AtAnswer
    <3>4. AtSource'
      BY <1>1, <1>3, <1>6, <2>3, <3>1 DEF AtSource
    <3> QED
      BY <2>2, <3>2, <3>3, <3>4 DEF Ref
  <2>4. CASE source = NoSource
    <3>1. phase' = "ask"
      BY <1>6, <2>4 DEF AfterCached, Enter
    <3>2. Found' /\ AtFirst' /\ AtSource' /\ AtAnswer'
      BY <3>1 DEF Found, AtFirst, AtSource, AtAnswer, Passes
    <3>3. AtPrompt'
      BY <1>1, <1>2, <1>3, <1>6, <2>4, <3>1 DEF AtPrompt
    <3> QED
      BY <2>2, <3>2, <3>3 DEF Ref
  <2> QED
    BY <2>3, <2>4
<1> QED
  BY <1>5, <1>6
-----------------------------------------------------------------------------
(* After a source has answered                                             *)

\* Which vaults a source opens, is refused by, or cannot be run for.
Given == {p \in Paths \ Cached : source[p] = vault[p]}
Dead == {p \in Paths \ Cached : source[p] = Unrunnable}
Bad ==
    {p \in (Paths \ Cached) \ Dead : source[p] = GaveUp \/ vault[p] = Damaged}

LEMMA AfterSourceRef ==
    ASSUME TypeOK, IInv, Ref, AfterSource
    PROVE  Ref' /\ [Promise!Next]_(Promise!vars)
<1> DEFINE stop == Dead \cup (Given \cap fails)
<1>1. /\ phase = "source" /\ phase \in Passes /\ Joined /\ phase' = "over"
      /\ Added(IF Stopper = 0 THEN Remaining ELSE {})
      /\ UNCHANGED <<vault, source, fails, typed, asked>>
  BY DEF AfterSource, Over, plan, Passes
<1>2. /\ source # NoSource /\ left = Paths \ Cached /\ done = Cached
      /\ skipped = {} /\ Cached \cap fails = {}
  BY <1>1 DEF Ref, AtSource
<1>3. err = 0
  BY <1>1 DEF IInv, Control
<1>4. ASSUME NEW p \in left
      PROVE  Opens(p) = IF p \in Dead THEN "abort"
                        ELSE IF p \in Bad THEN "bad"
                        ELSE IF p \in Given THEN "using" ELSE "shut"
  <2>1. p \in Paths \ Cached
    BY <1>2
  <2>2. /\ p \in Dead <=> source[p] = Unrunnable
        /\ p \in Given <=> source[p] = vault[p]
        /\ p \in Bad <=> /\ source[p] # Unrunnable
                         /\ source[p] = GaveUp \/ vault[p] = Damaged
    BY <2>1 DEF Dead, Given, Bad
  <2>3. Opens(p) = OpenSource(p)
    BY <1>1 DEF Opens
  <2>4. CASE source[p] = GaveUp
    BY <2>2, <2>3, <2>4 DEF OpenSource
  <2>5. CASE source[p] = Unrunnable
    BY <2>2, <2>3, <2>5 DEF OpenSource
  <2>6. CASE source[p] \notin {GaveUp, Unrunnable}
    <3>1. Opens(p) = OpenWith(p, source[p])
      BY <2>3, <2>6 DEF OpenSource
    <3>2. CASE vault[p] = Damaged
      <4>1. Opens(p) = "bad"
        <5>1. source[p] # Damaged
          BY <1>2, <2>1 DEF TypeOK
        <5> QED
          BY <3>1, <3>2, <5>1 DEF OpenWith
      <4>2. p \in Bad /\ p \notin Dead
        BY <2>2, <2>6, <3>2
      <4> QED
        BY <4>1, <4>2
    <3>3. CASE vault[p] # Damaged /\ vault[p] = source[p]
      BY <2>2, <2>6, <3>1, <3>3 DEF OpenWith
    <3>4. CASE vault[p] # Damaged /\ vault[p] # source[p]
      BY <2>2, <2>6, <3>1, <3>4 DEF OpenWith
    <3> QED
      BY <3>2, <3>3, <3>4
  <2> QED
    BY <2>4, <2>5, <2>6
<1>5. /\ Given \subseteq left /\ Dead \subseteq left /\ Bad \subseteq left
      /\ Given \cap Dead = {} /\ Given \cap Bad = {} /\ Dead \cap Bad = {}
  <2>1. /\ Given \subseteq left /\ Dead \subseteq left /\ Bad \subseteq left
        /\ Dead \cap Bad = {}
    BY <1>2 DEF Given, Dead, Bad
  <2>2. ASSUME NEW p \in Given PROVE p \notin Dead /\ p \notin Bad
    <3>1. /\ p \in Paths /\ vault[p] # Remembered /\ source[p] = vault[p]
      BY Kinds DEF Given
    <3>2. vault[p] \in Passphrases \cup {Remembered, Damaged}
      BY <3>1 DEF TypeOK
    <3>3. source[p] \in Passphrases \cup {GaveUp, Unrunnable}
      BY <1>2, <3>1 DEF TypeOK
    <3>4. vault[p] \in Passphrases
      BY <3>1, <3>2, <3>3
    <3> QED
      BY <3>1, <3>4 DEF Dead, Bad
  <2> QED
    BY <2>1, <2>2
<1>6. /\ In("ok") = Given \ fails /\ In("failed") = Given \cap fails
      /\ In("bad") = Bad /\ In("abort") = Dead
      /\ In("shut") = left \ (Given \cup Dead \cup Bad)
  <2>1. /\ In("ok") \subseteq left /\ In("failed") \subseteq left
        /\ In("shut") \subseteq left /\ In("bad") \subseteq left
        /\ In("abort") \subseteq left
    BY DEF In
  <2>2. \A p \in left :
           /\ p \in In("ok") <=> Opens(p) = "using" /\ p \notin fails
           /\ p \in In("failed") <=> Opens(p) = "using" /\ p \in fails
           /\ p \in In("shut") <=> Opens(p) = "shut"
           /\ p \in In("bad") <=> Opens(p) = "bad"
           /\ p \in In("abort") <=> Opens(p) = "abort"
    BY <1>1, Sorted
  <2>3. \A p \in left :
           /\ p \in In("ok") <=> p \in Given /\ p \notin fails
           /\ p \in In("failed") <=> p \in Given /\ p \in fails
           /\ p \in In("shut") <=> p \notin Given \cup Dead \cup Bad
           /\ p \in In("bad") <=> p \in Bad
           /\ p \in In("abort") <=> p \in Dead
    BY <1>4, <1>5, <2>2
  <2> QED
    BY <1>5, <2>1, <2>3
<1>7. /\ Stopper = Promise!FirstOf(stop)
      /\ Stopper = 0 <=> stop = {}
  <2>1. stop \subseteq Paths
    BY DEF Dead, Given
  <2> QED
    BY <1>3, <1>6, <2>1, StopperFirst, FirstOfNone
<1>8. /\ done' = Cached \cup (Given \ fails) /\ err' = Promise!FirstOf(stop)
      /\ skipped' = IF stop = {} THEN left \ Given ELSE Bad
  <2>1. /\ done' = done \cup In("ok") /\ err' = Stopper
        /\ skipped' = skipped \cup In("bad")
                         \cup (IF Stopper = 0 THEN Remaining ELSE {})
    BY <1>1 DEF Added
  <2>2. CASE stop = {}
    BY <1>2, <1>5, <1>6, <1>7, <2>1, <2>2 DEF Remaining
  <2>3. CASE stop # {}
    BY <1>2, <1>5, <1>6, <1>7, <2>1, <2>3 DEF Remaining
  <2> QED
    BY <2>2, <2>3
<1>9. Promise!FinishSource
  <2> DEFINE rest == Promise!Paths \ Promise!Cached
             dead == {p \in rest : source[p] = Unrunnable}
             open == Promise!Cached \cup {p \in rest : source[p] = vault[p]}
             bad == {p \in rest \ dead : source[p] = GaveUp
                                         \/ vault[p] = Damaged}
             halt == dead \cup (open \cap fails)
  <2>1. dead = Dead /\ open = Cached \cup Given /\ bad = Bad
    BY SamePaths DEF Dead, Given, Bad, Cached
  <2>2. halt = stop
    BY <1>2, <2>1
  <2>3. Promise!Paths \ open = left \ Given
    BY <1>2, <2>1, SamePaths
  <2>4. open \ fails = Cached \cup (Given \ fails)
    BY <1>2, <2>1
  <2>5. Promise!Cached \cap fails = {}
    BY <1>2 DEF Cached
  <2>6. [done |-> done', skipped |-> skipped', err |-> err']
          = Promise!Report(open \ fails,
                           IF halt = {} THEN Promise!Paths \ open ELSE bad,
                           Promise!FirstOf(halt))
    BY <1>8, <2>1, <2>2, <2>3, <2>4 DEF Promise!Report
  <2> QED
    BY <1>1, <1>2, <2>5, <2>6 DEF Promise!FinishSource, Promise!plan
<1> QED
  BY <1>1, <1>9, RefOver DEF Promise!Next
-----------------------------------------------------------------------------
(* The prompt, again                                                       *)

\* A question is about the first vault that nothing known opens.
LEMMA AskAnswerRef ==
    ASSUME TypeOK, IInv, Ref, NEW p \in left, AskAnswer(p)
    PROVE  Ref' /\ Promise!Ask
<1>1. /\ phase = "ask" /\ p = Min(left) /\ asked' = p /\ p \in Paths
      /\ UNCHANGED <<vault, source, fails, left, done, skipped, err>>
      /\ phase' = "typed"
      /\ work' = [q \in Paths |-> IF q \in left THEN "waiting" ELSE "idle"]
  BY DEF AskAnswer, Enter, TypeOK, plan, tally
<1>2. PICK w \in Passphrases :
        typed' = [a \in DOMAIN typed \cup {p} |->
                     IF a = p THEN w ELSE typed[a]]
  BY DEF AskAnswer
<1>3. /\ source = NoSource /\ Failed = {}
      /\ left = Paths \ (Opened \cup Broken \cup DOMAIN typed)
      /\ done = Opened /\ skipped = Broken \cup (DOMAIN typed \ Opened)
  BY <1>1 DEF Ref, AtPrompt
<1>4. /\ DOMAIN typed' = DOMAIN typed \cup {p} /\ p \notin DOMAIN typed
      /\ typed'[p] = w
      /\ \A a \in DOMAIN typed : typed'[a] = typed[a]
  BY <1>2, <1>3
<1>5. /\ \A q \in left : p <= q
      /\ left \subseteq Paths /\ DOMAIN typed \subseteq Paths
      /\ \A q \in left, a \in DOMAIN typed : a < q
  BY <1>1, FirstPath DEF TypeOK, IInv, Ordered
<1>6. Promise!Ask
  <2>1. Promise!Shut = left
    BY <1>3, SamePaths DEF Promise!Shut, Opened, Broken, Promise!Asked
  <2>2. Promise!Min(Promise!Shut) = p
    BY <1>1, <2>1, SameMin
  <2>3. typed' = [a \in DOMAIN typed \cup {Promise!Min(Promise!Shut)} |->
                     IF a \in DOMAIN typed THEN typed[a] ELSE w]
    BY <1>2, <1>4, <2>2
  <2> QED
    BY <1>1, <1>3, <2>1, <2>3 DEF Promise!Ask, Promise!Asked, Promise!plan,
       Failed
<1>7. Found'
  BY <1>1, <1>5 DEF Found
<1>8. AtFirst' /\ AtSource' /\ AtPrompt'
  BY <1>1 DEF AtFirst, AtSource, AtPrompt
<1>9. ASSUME NEW q \in Paths \ left
      PROVE  /\ q \in Opened' <=> q \in Opened
             /\ q \in Broken' <=> q \in Broken
             /\ q \in DOMAIN typed' <=> q \in DOMAIN typed
  <2>1. q \in DOMAIN typed' <=> q \in DOMAIN typed
    BY <1>4
  <2>2. q \in Opened \/ q \in Broken \/ q \in DOMAIN typed
    BY <1>3
  <2>3. q \in Opened <=>
              \/ vault[q] = Remembered
              \/ \E a \in DOMAIN typed :
                    typed[a] = vault[q] /\ (q \in DOMAIN typed => a <= q)
    BY OpenedIs
  <2>4. q \in Opened' <=>
              \/ vault[q] = Remembered
              \/ \E a \in DOMAIN typed' :
                    typed'[a] = vault[q] /\ (q \in DOMAIN typed' => a <= q)
    BY <1>1, SamePaths DEF Opened, Promise!Opened, Promise!Cached,
       Promise!Asked
  <2>5. q \in Broken <=> DOMAIN typed # {} /\ vault[q] = Damaged
    BY BrokenIs
  <2>6. q \in Broken' <=> DOMAIN typed' # {} /\ vault[q] = Damaged
    BY <1>1, SamePaths DEF Broken, Promise!Broken, Promise!Asked
  <2>7. q \in DOMAIN typed => q < p
    BY <1>5
  <2>8. ASSUME q \notin Opened, q \in Opened' PROVE FALSE
    <3>1. w = vault[q] /\ (q \in DOMAIN typed => p <= q)
      BY <1>4, <2>3, <2>4, <2>8
    <3>2. q \notin DOMAIN typed
      BY <1>1, <2>7, <3>1 DEF Paths
    <3>3. vault[q] = Damaged
      BY <2>2, <2>5, <2>8, <3>2
    <3> QED
      BY <3>1, <3>3
  <2>9. q \in Opened => q \in Opened'
    BY <1>4, <2>3, <2>4
  <2>10. q \in Broken <=> q \in Broken'
    <3>1. CASE DOMAIN typed # {}
      BY <1>4, <2>5, <2>6, <3>1
    <3>2. CASE DOMAIN typed = {}
      <4>1. vault[q] = Remembered
        BY <2>2, <2>3, <2>5, <3>2
      <4> QED
        BY <2>5, <2>6, <4>1
    <3> QED
      BY <3>1, <3>2
  <2> QED
    BY <2>1, <2>8, <2>9, <2>10
<1>10. AtAnswer'
  <2>1. /\ Opened' \subseteq Paths /\ Broken' \subseteq Paths
        /\ Opened \subseteq Paths /\ Broken \subseteq Paths
    BY SamePaths DEF Opened, Broken, Promise!Opened, Promise!Broken,
       Promise!Cached
  <2>2. DOMAIN typed' \subseteq Paths
    BY <1>1, <1>4, <1>5
  <2>3. done = Opened' \ left
    BY <1>3, <1>9, <2>1
  <2>4. skipped = (Broken' \cup (DOMAIN typed' \ Opened')) \ left
    BY <1>3, <1>5, <1>9, <2>1, <2>2
  <2>5. ASSUME NEW q \in left
        PROVE  /\ vault[q] # Remembered
               /\ q \in DOMAIN typed' => q = p
               /\ DOMAIN typed' # {p} => vault[q] # Damaged
    <3>1. q \in Paths /\ q \notin Opened /\ q \notin Broken
            /\ q \notin DOMAIN typed
      BY <1>3
    <3>2. vault[q] # Remembered
      BY <3>1, OpenedIs
    <3>3. DOMAIN typed # {} => vault[q] # Damaged
      BY <3>1, BrokenIs
    <3> QED
      BY <1>4, <3>1, <3>2, <3>3
  <2> QED
    BY <1>1, <1>3, <1>5, <2>3, <2>4, <2>5 DEF AtAnswer
<1> QED
  BY <1>6, <1>7, <1>8, <1>10 DEF Ref

LEMMA PromptDiesRef ==
    ASSUME TypeOK, IInv, Ref, PromptDies PROVE Ref' /\ Promise!Die
<1>1. /\ phase = "ask" /\ err' = Min(left) /\ phase' = "over"
      /\ UNCHANGED <<vault, source, fails, left, typed, done, skipped>>
  BY DEF PromptDies, Over, plan
<1>2. /\ source = NoSource /\ Failed = {} /\ left # {}
      /\ left = Paths \ (Opened \cup Broken \cup DOMAIN typed)
      /\ done = Opened /\ skipped = Broken \cup (DOMAIN typed \ Opened)
  BY <1>1 DEF Ref, AtPrompt, IInv, Control
<1>3. Promise!Shut = left
  BY <1>2, SamePaths DEF Promise!Shut, Opened, Broken, Promise!Asked
<1>4. Promise!Min(Promise!Shut) = err'
  BY <1>1, <1>3, SameMin
<1>5. Promise!Die
  BY <1>1, <1>2, <1>3, <1>4 DEF Promise!Die, Promise!Report, Promise!Asked,
     Promise!plan, Failed, Opened, Broken
<1> QED
  BY <1>1, <1>5, RefOver
-----------------------------------------------------------------------------
(* After an answer was tried                                               *)

\* What a vault still shut comes to follows from the answers alone.
LEMMA AnswerOpens ==
    ASSUME TypeOK, IInv, Ref, phase = "typed", NEW p \in left
    PROVE  /\ p \in Opened <=> vault[p] = Newest
           /\ p \in Broken <=> vault[p] = Damaged
           /\ p \in DOMAIN typed <=> p = asked
           /\ Opens(p) = IF p \in Broken THEN "bad"
                         ELSE IF p \in Opened THEN "using" ELSE "shut"
<1>1. /\ p \in Paths /\ asked \in DOMAIN typed
      /\ vault[p] # Remembered
      /\ p \in DOMAIN typed => p = asked
      /\ \A a \in DOMAIN typed : typed[a] = vault[p] => a = asked
  BY DEF Ref, AtAnswer, TypeOK, IInv, Control, Tried
<1>2. p \in Broken <=> vault[p] = Damaged
  BY <1>1, BrokenIs
<1>3. p \in DOMAIN typed => asked <= p
  BY <1>1 DEF Paths
<1>4. p \in Opened <=> \E a \in DOMAIN typed :
                  typed[a] = vault[p] /\ (p \in DOMAIN typed => a <= p)
  BY <1>1, OpenedIs
<1>5. p \in Opened <=> vault[p] = Newest
  BY <1>1, <1>3, <1>4 DEF Newest
<1>6. p \in DOMAIN typed <=> p = asked
  BY <1>1
<1>7. Opens(p) = OpenWith(p, Newest)
  BY DEF Opens
<1>8. CASE vault[p] = Damaged
  <2>1. Opens(p) = "bad"
    <3>1. Newest # Damaged
      BY <1>1 DEF Newest, TypeOK
    <3> QED
      BY <1>7, <1>8, <3>1 DEF OpenWith
  <2> QED
    BY <1>2, <1>5, <1>6, <1>8, <2>1
<1>9. CASE vault[p] # Damaged /\ vault[p] = Newest
  <2>1. Opens(p) = "using"
    BY <1>7, <1>9 DEF OpenWith
  <2> QED
    BY <1>2, <1>5, <1>6, <1>9, <2>1
<1>10. CASE vault[p] # Damaged /\ vault[p] # Newest
  <2>1. Opens(p) = "shut"
    BY <1>7, <1>10 DEF OpenWith
  <2> QED
    BY <1>2, <1>5, <1>6, <1>10, <2>1
<1> QED
  BY <1>8, <1>9, <1>10

\* The vault asked about comes after all that were asked about before.
LEMMA AskedIsLast ==
    ASSUME TypeOK, IInv, Ref, phase = "typed"
    PROVE  Promise!Max(DOMAIN typed) = asked
<1>1. /\ asked \in left /\ asked \in DOMAIN typed
      /\ DOMAIN typed \subseteq Paths
  BY DEF Ref, AtAnswer, IInv, Control, TypeOK
<1>2. \A a \in DOMAIN typed : a \in Nat /\ a <= asked
  BY <1>1 DEF IInv, Ordered, Paths
<1>3. \A y \in DOMAIN typed : asked >= y
  BY <1>1, <1>2
<1>4. PICK m : /\ m = Promise!Max(DOMAIN typed) /\ m \in DOMAIN typed
               /\ \A y \in DOMAIN typed : m >= y
  BY <1>1, <1>3 DEF Promise!Max
<1>5. m >= asked /\ asked >= m /\ m \in Nat /\ asked \in Nat
  BY <1>1, <1>2, <1>3, <1>4
<1>6. m = asked
  BY <1>5
<1> QED
  BY <1>4, <1>6

LEMMA AnswerCame ==
    ASSUME TypeOK, IInv, Ref, AfterTyped
    PROVE  /\ done' = Opened \ fails
           /\ err' = Promise!FirstOf(Failed) /\ (err' = 0 <=> Failed = {})
           /\ skipped' = Broken \cup {a \in DOMAIN typed \ Opened :
                                         Failed = {} \/ a # asked}
           /\ Failed = {} =>
                 left' = Paths \ (Opened \cup Broken \cup DOMAIN typed)
<1>1. /\ phase = "typed" /\ phase \in Passes /\ Joined /\ Added(GivenUp)
  BY DEF AfterTyped, Passes
<1>2. /\ asked \in left /\ \A p \in left : asked <= p
      /\ done = Opened \ left
      /\ skipped = (Broken \cup (DOMAIN typed \ Opened)) \ left
      /\ left \subseteq Paths
  BY <1>1 DEF Ref, AtAnswer, TypeOK
<1>3. err = 0
  BY <1>1 DEF IInv, Control
<1>4. ASSUME NEW p \in left
      PROVE  /\ p \in In("ok") <=> p \in Opened /\ p \notin fails
             /\ p \in In("failed") <=> p \in Opened /\ p \in fails
             /\ p \in In("bad") <=> p \in Broken
             /\ p \in In("shut") <=> p \notin Opened \cup Broken
             /\ p \notin In("abort")
             /\ p \in DOMAIN typed <=> p = asked
             /\ p \in Broken => p \notin Opened
  <2>1. /\ p \in In("ok") <=> Opens(p) = "using" /\ p \notin fails
        /\ p \in In("failed") <=> Opens(p) = "using" /\ p \in fails
        /\ p \in In("shut") <=> Opens(p) = "shut"
        /\ p \in In("bad") <=> Opens(p) = "bad"
        /\ p \in In("abort") <=> Opens(p) = "abort"
    BY <1>1, Sorted
  <2>2. /\ p \in Opened <=> vault[p] = Newest
        /\ p \in Broken <=> vault[p] = Damaged
        /\ p \in DOMAIN typed <=> p = asked
        /\ Opens(p) = IF p \in Broken THEN "bad"
                      ELSE IF p \in Opened THEN "using" ELSE "shut"
    BY <1>1, AnswerOpens
  <2>3. Newest \in Passphrases
    BY <1>1 DEF Newest, TypeOK, IInv, Control
  <2>4. p \in Broken => p \notin Opened
    BY <2>2, <2>3
  <2> QED
    BY <2>1, <2>2, <2>4
<1>5. /\ In("ok") \subseteq left /\ In("failed") \subseteq left
      /\ In("bad") \subseteq left /\ In("shut") \subseteq left
      /\ In("abort") \subseteq left
  BY DEF In
<1>6. /\ Opened \subseteq Paths /\ Broken \subseteq Paths
      /\ Failed = Opened \cap fails /\ DOMAIN typed \subseteq Paths
  BY Kinds DEF TypeOK
<1>7. done \cap fails = {}
  BY <1>2, <1>6 DEF IInv, Books
<1>8. Failed = In("failed")
  BY <1>2, <1>4, <1>5, <1>6, <1>7
<1>9. /\ Stopper = Promise!FirstOf(Failed)
      /\ Stopper = 0 <=> Failed = {}
  <2>1. In("abort") \cup In("failed") = Failed
    BY <1>4, <1>5, <1>8
  <2>2. Failed \subseteq Paths
    BY <1>6
  <2> QED
    BY <1>3, <2>1, <2>2, StopperFirst, FirstOfNone
<1>10. GivenUp = IF Failed = {} /\ asked \notin Opened \cup Broken
                 THEN {asked} ELSE {}
  <2>1. asked \in Remaining <=> asked \notin Opened \cup Broken
    BY <1>2, <1>4 DEF Remaining
  <2>2. CASE Remaining = {}
    BY <2>1, <2>2 DEF GivenUp
  <2>3. CASE Remaining # {}
    <3>1. /\ Min(Remaining) \in Remaining
          /\ \A q \in Remaining : Min(Remaining) <= q
      BY <1>2, <1>5, <2>3, FirstPath DEF Remaining
    <3>2. Min(Remaining) \in left
      BY <1>5, <3>1 DEF Remaining
    <3>3. \A q \in Paths : q \in Nat
      BY DEF Paths
    <3>4. asked \in Remaining => Min(Remaining) = asked
      <4> SUFFICES ASSUME asked \in Remaining PROVE Min(Remaining) = asked
        OBVIOUS
      <4>1. Min(Remaining) <= asked /\ asked <= Min(Remaining)
        BY <1>2, <3>1, <3>2
      <4>2. Min(Remaining) \in Nat /\ asked \in Nat
        BY <1>2, <3>2, <3>3
      <4> QED
        BY <4>1, <4>2
    <3>5. asked \in Remaining <=> Min(Remaining) = asked
      BY <3>1, <3>4
    <3> QED
      BY <1>9, <2>1, <2>3, <3>5 DEF GivenUp
  <2> QED
    BY <2>2, <2>3
<1>11. /\ left' = In("shut") \ GivenUp /\ done' = done \cup In("ok")
       /\ skipped' = skipped \cup In("bad") \cup GivenUp /\ err' = Stopper
  BY <1>1 DEF Added, Remaining
<1>12. done' = Opened \ fails
  BY <1>2, <1>4, <1>5, <1>6, <1>7, <1>11
<1>13. skipped' = Broken \cup {a \in DOMAIN typed \ Opened :
                                  Failed = {} \/ a # asked}
  <2> DEFINE rest == {a \in DOMAIN typed \ Opened : Failed = {} \/ a # asked}
  <2>1. ASSUME NEW q \in Paths PROVE q \in skipped' <=> q \in Broken \cup rest
    <3>1. CASE q \notin left
      BY <1>2, <1>5, <1>10, <1>11, <3>1
    <3>2. CASE q \in left
      BY <1>2, <1>4, <1>10, <1>11, <3>2
    <3> QED
      BY <3>1, <3>2
  <2>2. skipped' \subseteq Paths
    BY <1>2, <1>5, <1>6, <1>10, <1>11
  <2>3. Broken \cup rest \subseteq Paths
    BY <1>6
  <2> QED
    BY <2>1, <2>2, <2>3
<1>14. ASSUME Failed = {}
       PROVE  left' = Paths \ (Opened \cup Broken \cup DOMAIN typed)
  <2>1. Paths \subseteq left \cup done \cup skipped
    BY <1>3 DEF IInv, Books
  <2>2. ASSUME NEW q \in Paths
        PROVE  q \in left' <=> q \notin Opened \cup Broken \cup DOMAIN typed
    <3>1. CASE q \notin left
      BY <1>2, <1>5, <1>11, <2>1, <3>1
    <3>2. CASE q \in left
      BY <1>2, <1>4, <1>10, <1>11, <1>14, <3>2
    <3> QED
      BY <3>1, <3>2
  <2>3. left' \subseteq Paths
    BY <1>2, <1>5, <1>11
  <2> QED
    BY <2>2, <2>3
<1> QED
  BY <1>9, <1>11, <1>12, <1>13, <1>14

LEMMA AfterTypedRef ==
    ASSUME TypeOK, IInv, Ref, AfterTyped
    PROVE  Ref' /\ [Promise!Next]_(Promise!vars)
<1>1. /\ phase = "typed" /\ source = NoSource
      /\ UNCHANGED <<vault, source, fails, typed>>
  BY DEF AfterTyped, plan, Ref, AtAnswer
<1>2. /\ done' = Opened \ fails
      /\ err' = Promise!FirstOf(Failed) /\ (err' = 0 <=> Failed = {})
      /\ skipped' = Broken \cup {a \in DOMAIN typed \ Opened :
                                    Failed = {} \/ a # asked}
      /\ Failed = {} => left' = Paths \ (Opened \cup Broken \cup DOMAIN typed)
  BY AnswerCame
<1>3. Promise!Shut = Paths \ (Opened \cup Broken \cup DOMAIN typed)
  BY SamePaths DEF Promise!Shut, Opened, Broken, Promise!Asked
<1>4. CASE err' # 0 \/ left' = {}
  <2>1. phase' = "over"
    BY <1>4 DEF AfterTyped, Over
  <2>2. Failed # {} \/ Promise!Shut = {}
    BY <1>2, <1>3, <1>4
  <2>3. Promise!Max(DOMAIN typed) = asked
    BY <1>1, AskedIsLast
  <2>4. Promise!FinishTyped
    BY <1>1, <1>2, <2>1, <2>2, <2>3 DEF Promise!FinishTyped, Promise!Report,
       Promise!plan, Promise!Asked, Opened, Broken, Failed
  <2> QED
    BY <2>1, <2>4, RefOver DEF Promise!Next
<1>5. CASE ~(err' # 0 \/ left' = {})
  <2>1. phase' = "ask"
    BY <1>5 DEF AfterTyped, Enter
  <2>2. UNCHANGED Promise!vars
    BY <1>1, <2>1 DEF Promise!vars, Promise!plan
  <2>3. /\ Cached' = Cached /\ Opened' = Opened /\ Broken' = Broken
        /\ Failed' = Failed
    BY <1>1, SameBooks
  <2>4. /\ Failed = {} /\ done' = Opened
        /\ skipped' = Broken \cup (DOMAIN typed \ Opened)
    <3>1. Failed = {} /\ Failed = Opened \cap fails
      BY <1>2, <1>5, Kinds
    <3> QED
      BY <1>2, <3>1
  <2>5. AtPrompt'
    BY <1>1, <1>2, <2>1, <2>3, <2>4 DEF AtPrompt
  <2>6. Found' /\ AtFirst' /\ AtSource' /\ AtAnswer'
    BY <2>1 DEF Found, AtFirst, AtSource, AtAnswer, Passes
  <2> QED
    BY <2>2, <2>5, <2>6 DEF Ref
<1> QED
  BY <1>4, <1>5
-----------------------------------------------------------------------------
(* The refinement                                                          *)

LEMMA StepRef ==
    TypeOK /\ IInv /\ Ref /\ [Next]_vars
        => Ref' /\ [Promise!Next]_(Promise!vars)
<1> SUFFICES ASSUME TypeOK, IInv, Ref, [Next]_vars
             PROVE  Ref' /\ [Promise!Next]_(Promise!vars)
  OBVIOUS
<1>1. CASE Next
  <2>1. ASSUME NEW p \in Paths, Goroutine(p)
        PROVE  Ref' /\ [Promise!Next]_(Promise!vars)
    BY <2>1, GoroutineRef
  <2>2. CASE AfterCached
    BY <2>2, AfterCachedRef
  <2>3. CASE AfterSource
    BY <2>3, AfterSourceRef
  <2>4. CASE AfterTyped
    BY <2>4, AfterTypedRef
  <2>5. ASSUME NEW p \in left, AskAnswer(p)
        PROVE  Ref' /\ [Promise!Next]_(Promise!vars)
    BY <2>5, AskAnswerRef DEF Promise!Next
  <2>6. CASE PromptDies
    BY <2>6, PromptDiesRef DEF Promise!Next
  <2> QED
    BY <1>1, <2>1, <2>2, <2>3, <2>4, <2>5, <2>6 DEF Next, Between
<1>2. CASE UNCHANGED vars
  <2>1. UNCHANGED <<vault, source, fails, phase, left, work, typed, asked,
                    done, skipped, err>>
    BY <1>2 DEF vars, plan, tally
  <2>2. /\ Cached' = Cached /\ Opened' = Opened /\ Broken' = Broken
        /\ Failed' = Failed
    BY <2>1, SameBooks
  <2>3. Found'
    <3>1. \A q : Opens(q)' = Opens(q)
      BY <2>1 DEF Opens, OpenCached, OpenSource, OpenWith, Newest
    <3> QED
      BY <2>1, <3>1 DEF Ref, Found
  <2>4. AtFirst' /\ AtSource' /\ AtPrompt' /\ AtAnswer'
    BY <2>1, <2>2 DEF Ref, AtFirst, AtSource, AtPrompt, AtAnswer
  <2>5. UNCHANGED Promise!vars
    BY <2>1 DEF Promise!vars, Promise!plan
  <2> QED
    BY <2>3, <2>4, <2>5 DEF Ref
<1> QED
  BY <1>1, <1>2

\* For any number of vaults, cores and passphrases, whichever goroutine is
\* first: the questions and the report are those EachVaultPromise computes
\* from the vaults and the answers alone.
THEOREM Refines == Spec => BatchKeepsPromise
BY InitInv, InitRef, StepInv, StepRef, PTL DEF Spec, BatchKeepsPromise, Promise!Spec
=============================================================================
