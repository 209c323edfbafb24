---------------------------- MODULE SessionProofs ----------------------------
(***************************************************************************)
(* What shells and commands do to the user's own variables, for any        *)
(* directories, vaults, keys and numbers of shells, loads and changes.     *)
(***************************************************************************)
EXTENDS Session, SequenceTheorems, TLAPS

USE KeysAssumption
-----------------------------------------------------------------------------
(* The stack of frames                                                     *)

\* A sequence has its own elements.
LEMMA OwnElements ==
    ASSUME NEW S, NEW s \in Seq(S)
    PROVE  s \in Seq(ToSet(s)) /\ DOMAIN s = 1 .. Len(s) /\ Len(s) \in Nat
<1>1. s \in [1 .. Len(s) -> S] /\ Len(s) \in Nat /\ DOMAIN s = 1 .. Len(s)
  BY SeqDef
<1>2. s \in [1 .. Len(s) -> ToSet(s)]
  BY <1>1 DEF ToSet
<1> QED
  BY <1>1, <1>2, SeqDef

LEMMA Pushed ==
    ASSUME NEW s, s \in Seq(ToSet(s)), NEW e
    PROVE  /\ Append(s, e) \in Seq(ToSet(Append(s, e)))
           /\ Len(Append(s, e)) = Len(s) + 1
           /\ Append(s, e)[Len(s) + 1] = e
           /\ \A k \in 1 .. Len(s) : Append(s, e)[k] = s[k]
<1> DEFINE S == ToSet(s) \cup {e}
<1>1. s \in Seq(S)
  <2>1. s \in [1 .. Len(s) -> ToSet(s)] /\ Len(s) \in Nat
    BY SeqDef
  <2>2. s \in [1 .. Len(s) -> S]
    BY <2>1
  <2> QED
    BY <2>1, <2>2, SeqDef
<1>2. e \in S
  OBVIOUS
<1> HIDE DEF S
<1>3. /\ Append(s, e) \in Seq(S) /\ Len(Append(s, e)) = Len(s) + 1
      /\ Append(s, e)[Len(s) + 1] = e
      /\ \A k \in 1 .. Len(s) : Append(s, e)[k] = s[k]
  BY <1>1, <1>2, AppendProperties
<1> QED
  BY <1>3, OwnElements

LEMMA Popped ==
    ASSUME NEW s, s \in Seq(ToSet(s)), Len(s) > 0
    PROVE  /\ Front(s) \in Seq(ToSet(Front(s)))
           /\ Len(Front(s)) = Len(s) - 1
           /\ \A k \in 1 .. Len(s) - 1 : Front(s)[k] = s[k]
           /\ Last(s) = s[Len(s)] /\ Len(s) \in DOMAIN s
<1>1. Len(s) \in Nat /\ DOMAIN s = 1 .. Len(s)
  BY OwnElements
<1>2. /\ Front(s) \in Seq(ToSet(s)) /\ Len(Front(s)) = Len(s) - 1
      /\ \A k \in 1 .. Len(s) - 1 : Front(s)[k] = s[k]
  BY <1>1, SubSeqProperties DEF Front
<1> QED
  BY <1>1, <1>2, OwnElements DEF Last
-----------------------------------------------------------------------------
(* The inductive invariant                                                 *)

Fields == {"cwd", "env", "active", "keys", "wrapped", "due", "own",
           "touched", "lost", "want", "first", "place"}

\* A variable is missing or foreign only where a vault's came in its way, and
\* what the inventory lists was a vault's.
Good(f) ==
    /\ DOMAIN f = Fields /\ DOMAIN f.env = Keys /\ DOMAIN f.own = Keys
    /\ f.own[Marker] = Unset
    /\ f.active # <<>> /\ f.keys # None => f.keys \subseteq DOMAIN f.want
    /\ \A n \in Keys : n \in f.lost \ f.touched \/ f.env[n] = f.own[n]

Stack ==
    /\ frames \in Seq(ToSet(frames)) /\ Len(frames) > 0
    /\ frames[1].active = <<>>

IInv == Stack /\ \A k \in 1 .. Len(frames) : Good(frames[k])

LEMMA LoginGood == ASSUME NEW d PROVE Good(Login(d)) /\ Login(d).active = <<>>
BY DEF Good, Login, Fields, Blank

LEMMA OlderGood == ASSUME NEW d PROVE Good(Older(d))
BY DEF Good, Older, Login, Fields, Blank

\* The environment of what is started: a variable of the user's is left out
\* only if a vault defines it, or did in the environment it comes from.
LEMMA StartedGood ==
    ASSUME NEW f, Good(f), NEW c, Loads(f, c), NEW wrapped, NEW first,
           NEW place
    PROVE  /\ Good(Started(f, c, wrapped, first, place))
           /\ Started(f, c, wrapped, first, place).active = c
<1> DEFINE secrets == Merged(f, c)
           want == Wanted(f, c, place)
           g == Started(f, c, wrapped, first, place)
<1>1. /\ DOMAIN g = Fields /\ g.env = Environ(f, secrets) /\ g.own = f.own
      /\ g.keys = Injected(secrets) /\ g.want = want /\ g.touched = {}
      /\ g.lost = DOMAIN f.want \cup DOMAIN want \cup (f.lost \ f.touched)
      /\ g.active = c
  BY DEF Started, InventoryOf, Fields
<1>2. Injected(secrets) \subseteq DOMAIN want
  BY DEF Injected, Merged, Wanted
<1>3. Skipped(f, secrets) \subseteq {Marker} \cup Injected(secrets)
                                       \cup DOMAIN f.want
  BY DEF Skipped, Loads, InventoryFails, Inventory, Good
<1>4. ASSUME NEW n \in Keys
      PROVE  n \in g.lost \ g.touched \/ g.env[n] = g.own[n]
  <2>1. g.env[n] = IF n \in Injected(secrets) THEN secrets[n]
                   ELSE IF n \in Skipped(f, secrets) THEN Unset ELSE f.env[n]
    BY <1>1 DEF Environ
  <2>2. CASE n \in Injected(secrets) \cup DOMAIN f.want
    BY <1>1, <1>2, <2>2
  <2>3. CASE n = Marker
    <3>1. n \notin Injected(secrets) /\ n \in Skipped(f, secrets)
      BY <2>3 DEF Injected, Skipped
    <3> QED
      BY <1>1, <2>1, <2>3, <3>1 DEF Good
  <2>4. CASE n # Marker /\ n \notin Injected(secrets) \cup DOMAIN f.want
    <3>1. g.env[n] = f.env[n]
      BY <1>3, <2>1, <2>4
    <3> QED
      BY <1>1, <3>1 DEF Good
  <2> QED
    BY <2>2, <2>3, <2>4
<1>5. DOMAIN g.env = Keys
  BY <1>1 DEF Environ
<1> QED
  BY <1>1, <1>2, <1>4, <1>5 DEF Good

\* One more frame, or another one in the foreground.
LEMMA PushGood ==
    ASSUME IInv, NEW g, Good(g), frames' = Append(frames, g) PROVE IInv'
<1>1. /\ frames' \in Seq(ToSet(frames')) /\ Len(frames') = Len(frames) + 1
      /\ frames'[Len(frames) + 1] = g
      /\ \A k \in 1 .. Len(frames) : frames'[k] = frames[k]
  BY Pushed DEF IInv, Stack
<1>2. Len(frames) \in Nat
  BY OwnElements DEF IInv, Stack
<1> QED
  BY <1>1, <1>2 DEF IInv, Stack

LEMMA SwapGood ==
    ASSUME IInv, NEW g, Good(g), frames' = Append(Below, g),
           g.active = <<>> \/ Top.active # <<>>
    PROVE  IInv'
<1>1. Len(frames) \in Nat
  BY OwnElements DEF IInv, Stack
<1>2. /\ Below \in Seq(ToSet(Below)) /\ Len(Below) = Len(frames) - 1
      /\ \A k \in 1 .. Len(frames) - 1 : Below[k] = frames[k]
      /\ Top = frames[Len(frames)]
  BY Popped DEF IInv, Stack, Below, Top
<1>3. /\ frames' \in Seq(ToSet(frames')) /\ Len(frames') = Len(Below) + 1
      /\ frames'[Len(Below) + 1] = g
      /\ \A k \in 1 .. Len(Below) : frames'[k] = Below[k]
  BY <1>2, Pushed
<1> QED
  BY <1>1, <1>2, <1>3 DEF IInv, Stack

LEMMA PopGood ==
    ASSUME IInv, frames' = Below, Len(frames) > 1 \/ Top.active # <<>>
    PROVE  IInv'
<1>1. Len(frames) \in Nat
  BY OwnElements DEF IInv, Stack
<1>2. /\ Below \in Seq(ToSet(Below)) /\ Len(Below) = Len(frames) - 1
      /\ \A k \in 1 .. Len(frames) - 1 : Below[k] = frames[k]
      /\ Top = frames[Len(frames)]
  BY Popped DEF IInv, Stack, Below, Top
<1>3. Len(frames) > 1
  BY <1>1, <1>2 DEF IInv, Stack
<1> QED
  BY <1>1, <1>2, <1>3 DEF IInv, Stack

LEMMA TopGood == ASSUME IInv PROVE Good(Top)
<1>1. Len(frames) \in Nat /\ Len(frames) > 0
  BY OwnElements DEF IInv, Stack
<1>2. Top = frames[Len(frames)]
  BY Popped DEF IInv, Stack, Top
<1> QED
  BY <1>1, <1>2 DEF IInv

LEMMA InitInv == Init => IInv
<1> SUFFICES ASSUME Init PROVE IInv
  OBVIOUS
<1>1. PICK d \in Dirs : \/ frames = <<Login(d)>>
                        \/ frames = <<Login(d), Older(d)>>
  BY DEF Init
<1>2. Good(Login(d)) /\ Login(d).active = <<>> /\ Good(Older(d))
  BY LoginGood, OlderGood
<1>3. CASE frames = <<Login(d)>>
  <2>1. frames \in Seq({Login(d)}) /\ Len(frames) = 1 /\ frames[1] = Login(d)
    BY <1>3
  <2> QED
    BY <1>2, <2>1, OwnElements DEF IInv, Stack
<1>4. CASE frames = <<Login(d), Older(d)>>
  <2>1. /\ frames \in Seq({Login(d), Older(d)}) /\ Len(frames) = 2
        /\ frames[1] = Login(d) /\ frames[2] = Older(d)
    BY <1>4
  <2> QED
    BY <1>2, <2>1, OwnElements DEF IInv, Stack
<1> QED
  BY <1>1, <1>3, <1>4

LEMMA SameInv == ASSUME IInv, UNCHANGED frames PROVE IInv'
BY DEF IInv, Stack

\* What a user does to the frame in the foreground.
LEMMA CdGood ==
    ASSUME NEW f, Good(f), NEW d
    PROVE  /\ Good([f EXCEPT !.cwd = d]) /\ Good([f EXCEPT !.due = TRUE])
           /\ [f EXCEPT !.cwd = d].active = f.active
           /\ [f EXCEPT !.due = TRUE].active = f.active
BY DEF Good, Fields

LEMMA ExportGood ==
    ASSUME NEW f, Good(f), NEW n \in Keys \ {Marker}, NEW text
    PROVE  LET g == [f EXCEPT !.env[n] = text, !.own[n] = text,
                              !.touched = @ \cup {n}]
           IN  Good(g) /\ g.active = f.active
<1> DEFINE g == [f EXCEPT !.env[n] = text, !.own[n] = text,
                          !.touched = @ \cup {n}]
<1>1. /\ DOMAIN g = Fields /\ g.env = [f.env EXCEPT ![n] = text]
      /\ g.own = [f.own EXCEPT ![n] = text] /\ g.touched = f.touched \cup {n}
      /\ g.active = f.active /\ g.keys = f.keys /\ g.want = f.want
      /\ g.lost = f.lost
  BY DEF Good, Fields
<1> HIDE DEF g
<1>2. Good(g)
  BY <1>1 DEF Good
<1> QED
  BY <1>1, <1>2 DEF g

LEMMA StepInv == IInv /\ [Next]_vars => IInv'
<1> SUFFICES ASSUME IInv, [Next]_vars PROVE IInv'
  OBVIOUS
<1>0. Good(Top)
  BY TopGood
<1>1. ASSUME NEW inherit \in BOOLEAN, Enter(inherit) \/ Exec(inherit)
      PROVE  IInv'
  <2>1. PICK c, wrapped : Run(c, wrapped)
    BY <1>1 DEF Enter, Exec
  <2>2. /\ Good(Started(Top, c, wrapped, c, Places(Top, c)))
        /\ frames' = Append(frames, Started(Top, c, wrapped, c, Places(Top, c)))
    BY <1>0, <2>1, StartedGood DEF Run
  <2> QED
    BY <2>2, PushGood
<1>2. CASE Reload
  <2>1. Good(Refreshed) /\ Top.active # <<>>
    BY <1>0, <1>2, StartedGood DEF Reload, CanReload, Refreshed
  <2> QED
    BY <1>2, <2>1, SwapGood DEF Reload
<1>3. CASE ReloadFails
  BY <1>3, PopGood DEF ReloadFails
<1>4. CASE ReloadNested
  <2>1. Good(Refreshed)
    BY <1>0, <1>4, StartedGood DEF ReloadNested, CanReload, Refreshed
  <2> QED
    BY <1>4, <2>1, PushGood DEF ReloadNested
<1>5. CASE Exit
  BY <1>5, PopGood DEF Exit
<1>6. ASSUME NEW d \in Dirs, Cd(d) PROVE IInv'
  <2>1. /\ frames' = Append(Below, [Top EXCEPT !.cwd = d])
        /\ Good([Top EXCEPT !.cwd = d])
        /\ [Top EXCEPT !.cwd = d].active = Top.active
    BY <1>0, <1>6, CdGood DEF Cd
  <2> QED
    BY <2>1, SwapGood
<1>7. ASSUME NEW d \in Dirs, EditRoot(d) \/ RemoveVault(d) PROVE IInv'
  BY <1>7, SameInv DEF EditRoot, RemoveVault
<1>8. ASSUME NEW n \in Keys, NEW text \in Literals \cup {Unset},
             Export(n, text)
      PROVE  IInv'
  <2> DEFINE g == [Top EXCEPT !.env[n] = text, !.own[n] = text,
                              !.touched = @ \cup {n}]
  <2>1. frames' = Append(Below, g) /\ n \in Keys \ {Marker}
    BY <1>8 DEF Export
  <2>2. Good(g) /\ g.active = Top.active
    BY <1>0, <2>1, ExportGood
  <2> HIDE DEF g
  <2> QED
    BY <2>1, <2>2, SwapGood
<1>9. ASSUME NEW n \in Keys, NEW value \in Stored \cup {Unset},
             SetHere(n, value)
      PROVE  IInv'
  <2>1. /\ frames' = Append(Below, [Top EXCEPT !.due = TRUE])
        /\ Good([Top EXCEPT !.due = TRUE])
        /\ [Top EXCEPT !.due = TRUE].active = Top.active
    BY <1>0, <1>9, CdGood DEF SetHere
  <2> QED
    BY <2>1, SwapGood
<1>10. ASSUME NEW n \in Keys, NEW value \in Stored \cup {Unset},
              NEW d \in Dirs, Edit(d, n, value)
       PROVE  IInv'
  BY <1>10, SameInv DEF Edit
<1>11. CASE UNCHANGED vars
  BY <1>11, SameInv DEF vars
<1>12. CASE Next
  BY <1>1, <1>2, <1>3, <1>4, <1>5, <1>6, <1>7, <1>8, <1>9, <1>10, <1>12
     DEF Next
<1> QED
  BY <1>11, <1>12

\* However deep the shells are nested, whatever was loaded, edited, exported
\* and reloaded: a variable of the user's is missing, or foreign, only where a
\* vault defines it or did when the shell it comes from was loaded.
THEOREM OwnStays == Spec => []OwnKept
<1>1. IInv => OwnKept
  <2> SUFFICES ASSUME IInv PROVE OwnKept
    OBVIOUS
  <2>1. DOMAIN frames = 1 .. Len(frames)
    BY OwnElements DEF IInv, Stack
  <2> QED
    BY <2>1 DEF IInv, OwnKept, Good
<1> QED
  BY <1>1, InitInv, StepInv, PTL DEF Spec
-----------------------------------------------------------------------------
(* The vaults of a directory, by what is proved of Resolve                 *)

P == INSTANCE ResolveProofs

\* The operators that have a name in both are the same.
LEMMA SameOperators ==
    /\ \A s, t : P!IsPrefix(s, t) <=> IsPrefix(s, t)
    /\ \A S : P!Max(S) = Max(S) /\ P!Min(S) = Min(S)
    /\ P!Names = Names
BY DEF Max, Min, P!Max, P!Min, IsPrefix, P!IsPrefix, Names, P!Names, ToSet,
       P!ToSet

\* What those proofs assume of the tree is assumed here.
LEMMA AssumedThere ==
    /\ Dirs \subseteq Seq(P!Names)
    /\ \A d \in Dirs : \A n \in 0 .. Len(d) : SubSeq(d, 1, n) \in Dirs
    /\ Mains \subseteq Dirs
    /\ None \notin Dirs /\ Free \notin Dirs
    /\ Admin \cap {"none", "checkout", "submodule"} = {}
BY DirsAssumption, SameOperators

LEMMA SamePick == \A d, i : R!Pick(d, i) = P!Pick(d, i)
<1>1. \A d : R!MainOf(d) = P!MainOf(d)
  BY DEF R!MainOf, P!MainOf
<1>2. \A d, i : R!Level(d, i) = P!Level(d, i) /\ R!Levels(d) = P!Levels(d)
  BY DEF R!Level, P!Level, R!Levels, P!Levels
<1>3. \A d : R!WtLevels(d) = P!WtLevels(d)
  BY <1>1, <1>2 DEF R!WtLevels, P!WtLevels
<1>4. \A S : R!Min(S) = P!Min(S)
  BY DEF R!Min, P!Min
<1>5. \A d : /\ R!NearestLevel(d) = P!NearestLevel(d)
             /\ R!WtLevel(d) = P!WtLevel(d)
  BY <1>3, <1>4 DEF R!NearestLevel, P!NearestLevel, R!WtLevel, P!WtLevel
<1>6. \A d : R!WtRoot(d) = P!WtRoot(d) /\ R!WtMain(d) = P!WtMain(d)
  BY <1>1, <1>2, <1>5 DEF R!WtRoot, P!WtRoot, R!WtMain, P!WtMain
<1>7. \A c, d : R!Counterpart(c, d) = P!Counterpart(c, d)
  BY <1>6 DEF R!Counterpart, P!Counterpart, R!Join, P!Join, R!Rel, P!Rel
<1> QED
  BY <1>2, <1>5, <1>7 DEF R!Pick, P!Pick

LEMMA SameVaultDir == \A d, p : R!VaultDir(d, p) = P!VaultDir(d, p)
<1>1. \A d, i : R!Level(d, i) = P!Level(d, i) /\ R!Levels(d) = P!Levels(d)
  BY DEF R!Level, P!Level, R!Levels, P!Levels
<1>2. \A d, p : R!Borrowing(d, p) = P!Borrowing(d, p)
  BY <1>1, SamePick DEF R!Borrowing, P!Borrowing
<1>3. \A S : R!Max(S) = P!Max(S)
  BY DEF R!Max, P!Max
<1> QED
  BY <1>1, <1>2, <1>3 DEF R!VaultDir, P!VaultDir

LEMMA SameResolved == \A d : R!Resolved(d) = P!Resolved(d)
<1>1. \A d : R!Levels(d) = P!Levels(d)
  BY DEF R!Levels, P!Levels
<1>2. \A d : R!Picked(d) = P!Picked(d)
  BY <1>1, SamePick DEF R!Picked, P!Picked
<1>3. \A S : R!Cardinality(S) = P!Cardinality(S)
  BY DEF R!Cardinality, P!Cardinality
<1>4. \A S : R!Ascending(S) = P!Ascending(S)
  BY <1>3 DEF R!Ascending, P!Ascending
<1> QED
  BY <1>2, <1>4, SamePick DEF R!Resolved, P!Resolved

\* The tree of a session: git's files as they were made.
Tree ==
    /\ vaults \subseteq Dirs /\ off \in BOOLEAN
    /\ git = [d \in Dirs |-> IF d \in Mains THEN "checkout"
                             ELSE IF d \in DOMAIN Worktrees THEN Worktrees[d]
                             ELSE "none"]
    /\ admin \in [Admin -> [main : Mains, back : DOMAIN Worktrees]]

LEMMA TreeIs ==
    ASSUME Tree
    PROVE  P!Shape /\ \A cwd \in Dirs : P!Apart(cwd)
<1>1. P!Shape
  <2>1. git \in [Dirs -> {"none", "checkout", "submodule"} \cup Admin]
    BY WorktreesAssumption DEF Tree
  <2>2. admin \in [Admin -> [main : Dirs, back : Dirs \cup {Free}]]
    BY DirsAssumption, WorktreesAssumption DEF Tree
  <2> QED
    BY <2>1, <2>2 DEF Tree, P!Shape
<1>2. ASSUME NEW cwd \in Dirs, P!WtLevel(cwd) >= 0
      PROVE  ~P!IsPrefix(P!WtRoot(cwd), P!WtMain(cwd))
  <2> DEFINE root == P!WtRoot(cwd)
             main == P!WtMain(cwd)
  <2>1. P!WtLevel(cwd) # -1
    BY <1>2
  <2>2. root \in Dirs /\ main = P!MainOf(root) /\ main # None
    BY <1>1, <1>2, <2>1, AssumedThere, P!RootIs
  <2> HIDE DEF root, main
  <2>3. /\ git[root] \in Admin /\ admin[git[root]].main = main
    BY <1>1, <2>2, AssumedThere, P!MainIs
  <2>4. root \in DOMAIN Worktrees
    BY <2>2, <2>3, DirsAssumption DEF Tree
  <2>5. main \in Mains
    BY <2>3 DEF Tree
  <2> QED
    BY <2>4, <2>5, SameOperators, WorktreesAssumption DEF root, main
<1> QED
  BY <1>1, <1>2 DEF P!Apart

\* What is found in a directory: its vaults, the nearest first.
LEMMA FoundIs ==
    ASSUME Tree, NEW cwd \in Dirs
    PROVE  /\ R!Resolved(cwd) \in Seq(vaults)
           /\ \A p \in vaults : R!VaultDir(cwd, p) \in Dirs
           /\ \A j, k \in 1 .. Len(R!Resolved(cwd)) :
                 j < k => Len(R!VaultDir(cwd, R!Resolved(cwd)[k])) <
                              Len(R!VaultDir(cwd, R!Resolved(cwd)[j]))
BY TreeIs, SameResolved, SameVaultDir, AssumedThere, P!DepthsFall
-----------------------------------------------------------------------------
(* Chains                                                                  *)

LEMMA ReverseIs ==
    ASSUME NEW S, NEW s \in Seq(S)
    PROVE  /\ Reverse(s) \in Seq(S) /\ Len(Reverse(s)) = Len(s)
           /\ Len(s) \in Nat
           /\ \A i \in 1 .. Len(s) : Reverse(s)[i] = s[Len(s) - i + 1]
<1>1. Len(s) \in Nat /\ \A i \in 1 .. Len(s) : s[i] \in S
  BY LenProperties, ElementOfSeq
<1>2. Reverse(s) = [i \in 1 .. Len(s) |-> s[Len(s) - i + 1]]
  BY DEF Reverse
<1>3. \A i \in 1 .. Len(s) : Len(s) - i + 1 \in 1 .. Len(s)
  BY <1>1
<1>4. Reverse(s) \in [1 .. Len(s) -> S]
  BY <1>1, <1>2, <1>3
<1> QED
  BY <1>1, <1>2, <1>4, SeqDef

LEMMA SuffixIs ==
    ASSUME NEW S, NEW s \in Seq(S), NEW t \in Seq(S)
    PROVE  IsSuffix(s, t) <=>
               /\ Len(s) <= Len(t)
               /\ \A i \in 1 .. Len(s) : s[i] = t[i + Len(t) - Len(s)]
<1> DEFINE u == Reverse(s)
           v == Reverse(t)
<1>1. /\ u \in Seq(S) /\ Len(u) = Len(s) /\ Len(s) \in Nat
      /\ \A i \in 1 .. Len(s) : u[i] = s[Len(s) - i + 1]
  BY ReverseIs
<1>2. /\ v \in Seq(S) /\ Len(v) = Len(t) /\ Len(t) \in Nat
      /\ \A i \in 1 .. Len(t) : v[i] = t[Len(t) - i + 1]
  BY ReverseIs
<1> HIDE DEF u, v
<1>3. IsPrefix(u, v) <=> /\ Len(s) <= Len(t)
                         /\ \A i \in 1 .. Len(s) : u[i] = v[i]
  BY <1>1, <1>2, SameOperators, AssumedThere, P!PrefixElements
<1>4. ASSUME Len(s) <= Len(t), \A i \in 1 .. Len(s) : u[i] = v[i],
             NEW i \in 1 .. Len(s)
      PROVE  s[i] = t[i + Len(t) - Len(s)]
  <2> DEFINE j == Len(s) - i + 1
  <2>1. /\ j \in 1 .. Len(s) /\ j \in 1 .. Len(t) /\ Len(s) - j + 1 = i
        /\ Len(t) - j + 1 = i + Len(t) - Len(s)
    BY <1>1, <1>2, <1>4
  <2> HIDE DEF j
  <2>2. u[j] = s[i] /\ v[j] = t[i + Len(t) - Len(s)]
    BY <1>1, <1>2, <2>1
  <2> QED
    BY <1>4, <2>1, <2>2
<1>5. ASSUME Len(s) <= Len(t),
             \A i \in 1 .. Len(s) : s[i] = t[i + Len(t) - Len(s)],
             NEW i \in 1 .. Len(s)
      PROVE  u[i] = v[i]
  <2> DEFINE j == Len(s) - i + 1
  <2>1. /\ j \in 1 .. Len(s) /\ i \in 1 .. Len(t)
        /\ j + Len(t) - Len(s) = Len(t) - i + 1
    BY <1>1, <1>2, <1>5
  <2>2. u[i] = s[j] /\ v[i] = t[Len(t) - i + 1]
    BY <1>1, <1>2, <2>1
  <2> HIDE DEF j
  <2> QED
    BY <1>5, <2>1, <2>2
<1>6. IsSuffix(s, t) <=> IsPrefix(u, v)
  BY DEF IsSuffix, u, v
<1> QED
  BY <1>3, <1>4, <1>5, <1>6

LEMMA SuffixOrder ==
    ASSUME NEW S, NEW s \in Seq(S), NEW t \in Seq(S), NEW u \in Seq(S)
    PROVE  /\ IsSuffix(s, s)
           /\ IsSuffix(s, t) /\ IsSuffix(t, u) => IsSuffix(s, u)
<1>1. Len(s) \in Nat /\ Len(t) \in Nat /\ Len(u) \in Nat
  BY LenProperties
<1>2. IsSuffix(s, s)
  <2>1. \A i \in 1 .. Len(s) : i + Len(s) - Len(s) = i
    BY <1>1
  <2> QED
    BY <1>1, <2>1, SuffixIs
<1>3. ASSUME IsSuffix(s, t), IsSuffix(t, u) PROVE IsSuffix(s, u)
  <2>1. /\ Len(s) <= Len(t)
        /\ \A i \in 1 .. Len(s) : s[i] = t[i + Len(t) - Len(s)]
    BY <1>3, SuffixIs
  <2>2. /\ Len(t) <= Len(u)
        /\ \A i \in 1 .. Len(t) : t[i] = u[i + Len(u) - Len(t)]
    BY <1>3, SuffixIs
  <2>3. \A i \in 1 .. Len(s) : s[i] = u[i + Len(u) - Len(s)]
    <3> TAKE i \in 1 .. Len(s)
    <3> DEFINE j == i + Len(t) - Len(s)
    <3>1. j \in 1 .. Len(t) /\ j + Len(u) - Len(t) = i + Len(u) - Len(s)
      BY <1>1, <2>1
    <3> QED
      BY <2>1, <2>2, <3>1
  <2>4. Len(s) <= Len(u)
    BY <1>1, <2>1, <2>2
  <2> QED
    BY <2>3, <2>4, SuffixIs
<1> QED
  BY <1>2, <1>3

\* The vaults read are the nearest, up to the first with SCHAIN_ROOT.
LEMMA CutIs ==
    ASSUME NEW S, NEW s \in Seq(S)
    PROVE  /\ Cut(s) \in Seq(S) /\ Len(Cut(s)) \in 0 .. Len(s)
           /\ \A i \in 1 .. Len(Cut(s)) : Cut(s)[i] = s[i]
           /\ Len(s) > 0 => Len(Cut(s)) > 0
<1> DEFINE roots == {i \in DOMAIN s : s[i] \in rooted}
<1>1. Len(s) \in Nat /\ DOMAIN s = 1 .. Len(s)
  BY OwnElements
<1>2. CASE roots = {}
  BY <1>1, <1>2 DEF Cut
<1>3. CASE roots # {}
  <2>1. roots \subseteq Nat /\ roots \subseteq 1 .. Len(s)
    BY <1>1
  <2>2. Min(roots) \in 1 .. Len(s)
    BY <1>3, <2>1, SameOperators, AssumedThere, P!MinIsLeast
  <2>3. Cut(s) = SubSeq(s, 1, Min(roots))
    BY <1>3 DEF Cut
  <2> DEFINE m == Min(roots)
  <2> HIDE DEF m, roots
  <2>4. /\ m \in 1 .. Len(s) /\ 1 \in Int /\ m \in Int
        /\ \A i \in 1 .. m : s[i] \in S
    BY <1>1, <2>2, ElementOfSeq DEF m
  <2>5. /\ SubSeq(s, 1, m) \in Seq(S)
        /\ Len(SubSeq(s, 1, m)) = IF 1 <= m THEN m - 1 + 1 ELSE 0
        /\ \A i \in 1 .. m - 1 + 1 : SubSeq(s, 1, m)[i] = s[1 + i - 1]
    BY <2>4, SubSeqProperties
  <2> QED
    BY <1>1, <2>3, <2>4, <2>5 DEF m
<1> QED
  BY <1>2, <1>3

LEMMA ChainIs ==
    ASSUME NEW S, NEW s \in Seq(S)
    PROVE  /\ Chain(s) \in Seq(S) /\ Len(Chain(s)) \in 0 .. Len(s)
           /\ Len(s) \in Nat
           /\ \A i \in 1 .. Len(Chain(s)) :
                 Chain(s)[i] = s[Len(Chain(s)) - i + 1]
           /\ Len(s) > 0 => Len(Chain(s)) > 0
<1>1. /\ Cut(s) \in Seq(S) /\ Len(Cut(s)) \in 0 .. Len(s)
      /\ \A i \in 1 .. Len(Cut(s)) : Cut(s)[i] = s[i]
      /\ Len(s) > 0 => Len(Cut(s)) > 0
  BY CutIs
<1>2. /\ Chain(s) \in Seq(S) /\ Len(Chain(s)) = Len(Cut(s))
      /\ \A i \in 1 .. Len(Cut(s)) : Chain(s)[i] = Cut(s)[Len(Cut(s)) - i + 1]
  BY <1>1, ReverseIs DEF Chain
<1>3. Len(s) \in Nat
  BY LenProperties
<1>4. \A i \in 1 .. Len(Cut(s)) : Chain(s)[i] = s[Len(Cut(s)) - i + 1]
  <2> TAKE i \in 1 .. Len(Cut(s))
  <2>1. Len(Cut(s)) - i + 1 \in 1 .. Len(Cut(s))
    BY <1>1, <1>3
  <2> QED
    BY <1>1, <1>2, <2>1
<1> QED
  BY <1>1, <1>2, <1>3, <1>4

\* What is read again of a chain is the end of it.
LEMMA ChainAgain ==
    ASSUME NEW S, NEW s \in Seq(S)
    PROVE  /\ IsSuffix(Chain(Reverse(s)), s) /\ Chain(Reverse(s)) \in Seq(S)
           /\ s # <<>> => Chain(Reverse(s)) # <<>>
<1> DEFINE r == Reverse(s)
           c == Chain(r)
<1>1. /\ r \in Seq(S) /\ Len(r) = Len(s) /\ Len(s) \in Nat
      /\ \A i \in 1 .. Len(s) : r[i] = s[Len(s) - i + 1]
  BY ReverseIs
<1> HIDE DEF r
<1>2. /\ c \in Seq(S) /\ Len(c) \in 0 .. Len(s)
      /\ \A i \in 1 .. Len(c) : c[i] = r[Len(c) - i + 1]
      /\ Len(s) > 0 => Len(c) > 0
  BY <1>1, ChainIs
<1> HIDE DEF c
<1>3. \A i \in 1 .. Len(c) : c[i] = s[i + Len(s) - Len(c)]
  <2> TAKE i \in 1 .. Len(c)
  <2> DEFINE j == Len(c) - i + 1
  <2>1. j \in 1 .. Len(s) /\ Len(s) - j + 1 = i + Len(s) - Len(c)
    BY <1>1, <1>2
  <2> QED
    BY <1>1, <1>2, <2>1
<1>4. IsSuffix(c, s)
  <2>1. Len(c) <= Len(s)
    BY <1>1, <1>2
  <2> QED
    BY <1>2, <1>3, <2>1, SuffixIs
<1>5. s # <<>> => c # <<>>
  <2>1. s # <<>> => Len(s) > 0
    BY <1>1, EmptySeq
  <2>2. Len(c) > 0 => c # <<>>
    BY <1>2, EmptySeq
  <2> QED
    BY <1>2, <2>1, <2>2
<1> QED
  BY <1>2, <1>4, <1>5 DEF c, r
-----------------------------------------------------------------------------
(* What a load makes of a chain                                            *)

\* The vaults of a chain stand for directories, each for one further down
\* than the one before.
Placed(c, place) ==
    /\ \A i \in 1 .. Len(c) : place[c[i]] \in Dirs
    /\ \A i, j \in 1 .. Len(c) :
          i < j => Len(place[c[i]]) < Len(place[c[j]])

LEMMA PlacedEnd ==
    ASSUME NEW S, NEW s \in Seq(S), NEW t \in Seq(S), NEW place,
           IsSuffix(s, t), Placed(t, place)
    PROVE  Placed(s, place)
<1>1. /\ Len(s) \in Nat /\ Len(t) \in Nat /\ Len(s) <= Len(t)
      /\ \A i \in 1 .. Len(s) : s[i] = t[i + Len(t) - Len(s)]
  BY SuffixIs, LenProperties
<1>2. \A i \in 1 .. Len(s) : i + Len(t) - Len(s) \in 1 .. Len(t)
  BY <1>1
<1>3. \A i \in 1 .. Len(s) : place[s[i]] \in Dirs
  BY <1>1, <1>2 DEF Placed
<1>4. ASSUME NEW i \in 1 .. Len(s), NEW j \in 1 .. Len(s), i < j
      PROVE  Len(place[s[i]]) < Len(place[s[j]])
  <2>1. i + Len(t) - Len(s) < j + Len(t) - Len(s)
    BY <1>1, <1>4
  <2> QED
    BY <1>1, <1>2, <1>4, <2>1 DEF Placed
<1> QED
  BY <1>3, <1>4 DEF Placed

\* The last vault of a chain to define a key is the one that stands for the
\* nearest directory.
LEMMA NearestDefines ==
    ASSUME NEW c, c \in Seq(Dirs), NEW place, Placed(c, place), NEW n,
           Definers(c, n) # {}
    PROVE  LET depth(i) == Len(place[c[i]])
           IN  /\ Max(Definers(c, n)) \in Definers(c, n)
               /\ Max(Definers(c, n)) =
                     CHOOSE i \in Definers(c, n) :
                        \A j \in Definers(c, n) : depth(i) >= depth(j)
<1> DEFINE D == Definers(c, n)
           m == Max(D)
           depth(i) == Len(place[c[i]])
<1>1. Len(c) \in Nat /\ DOMAIN c = 1 .. Len(c)
  BY OwnElements
<1>2. D \subseteq 1 .. Len(c) /\ D # {}
  BY <1>1 DEF Definers
<1>3. m \in D /\ \A i \in D : i <= m
  <2> HIDE DEF D
  <2>1. D \subseteq Nat /\ \A i \in D : i <= Len(c)
    BY <1>1, <1>2
  <2> QED
    BY <1>1, <1>2, <2>1, SameOperators, AssumedThere, P!MaxIsGreatest
<1> HIDE DEF D, m
<1>4. \A i \in D : depth(i) \in Nat
  BY <1>2, DirsAssumption, LenProperties DEF Placed
<1>5. \A i \in D : i # m => depth(i) < depth(m)
  <2> TAKE i \in D
  <2>1. i \in 1 .. Len(c) /\ m \in 1 .. Len(c) /\ i <= m
    BY <1>2, <1>3
  <2>2. i # m => i < m
    BY <1>1, <2>1
  <2> QED
    BY <2>1, <2>2 DEF Placed
<1> HIDE DEF depth
<1>6. \A j \in D : depth(m) >= depth(j)
  BY <1>3, <1>4, <1>5
<1>7. ASSUME NEW i \in D, \A j \in D : depth(i) >= depth(j)
      PROVE  i = m
  BY <1>3, <1>4, <1>5, <1>7
<1>8. m = CHOOSE i \in D : \A j \in D : depth(i) >= depth(j)
  BY <1>3, <1>6, <1>7
<1> QED
  BY <1>3, <1>8 DEF D, m, depth

\* The files, and what was made of checkouts.
Disk ==
    /\ Tree
    /\ file \in [Dirs -> [Keys -> Stored \cup {Unset}]]
    /\ rooted \subseteq vaults

\* The shape of a frame.
Typed(f) ==
    /\ f.cwd \in Dirs
    /\ f.env \in [Keys -> Texts \cup {Unset}]
    /\ f.own \in [Keys -> Texts \cup {Unset}]
    /\ DOMAIN f.want \subseteq Keys \ {Marker}
    /\ f.want \in [DOMAIN f.want -> Want]
    /\ f.active \in Seq(Dirs) /\ f.first \in Seq(Dirs)
    /\ f.keys = None \/ f.keys \subseteq Keys \ {Marker}
    /\ f.wrapped \in BOOLEAN /\ f.due \in BOOLEAN
    /\ f.touched \subseteq Keys /\ f.lost \subseteq Keys
    /\ f.wrapped \/ f.keys \notin {None, {}} => f.active # <<>>

\* A frame's variables are what its vaults said or its user's own, what they
\* said is all in the inventory, and its chain is an end of the first one.
Loaded(f) ==
    /\ f.active = <<>> => DOMAIN f.want = {}
    /\ f.active # <<>> /\ f.keys # None => f.keys = DOMAIN f.want
    /\ \A n \in Keys \ f.touched :
          IF n \in DOMAIN f.want THEN f.env[n] = f.want[n].text
          ELSE f.env[n] \in {f.own[n], Unset}
    /\ IsSuffix(f.active, f.first)
    /\ Placed(f.first, f.place)

LEMMA ExpandedIs ==
    ASSUME Disk, NEW f, Typed(f), NEW p \in vaults, NEW value \in Stored
    PROVE  /\ Expanded(f, p, value) \in Texts \cup {Unset}
           /\ value.kind # "home" \/ f.env[Home] # Unset =>
                 Expanded(f, p, value) \in Texts
<1>1. value.kind \in {"text", "dir", "home"} /\ value.text \in Literals
  BY DEF Stored
<1>2. R!VaultDir(f.cwd, p) \in Dirs
  BY FoundIs DEF Disk, Typed
<1>3. f.env[Home] \in Texts \cup {Unset}
  BY DEF Typed
<1>4. CASE value.kind = "text"
  BY <1>1, <1>4 DEF Expanded, Texts
<1>5. CASE value.kind = "dir"
  BY <1>2, <1>5 DEF Expanded, Texts
<1>6. CASE value.kind = "home"
  BY <1>3, <1>6 DEF Expanded
<1> QED
  BY <1>1, <1>4, <1>5, <1>6

\* merge gives every key what the vault that stands for the nearest directory
\* says, and every key of a vault's is in the inventory.
LEMMA MergedIs ==
    ASSUME Disk, NEW f, Typed(f), NEW c \in Seq(vaults), NEW place,
           Placed(c, place), ~ExpandFails(f, c)
    PROVE  LET want == Wanted(f, c, place)
           IN  /\ DOMAIN want = Injected(Merged(f, c))
               /\ DOMAIN want \subseteq Keys \ {Marker}
               /\ want \in [DOMAIN want -> Want]
               /\ \A n \in DOMAIN want : /\ Merged(f, c)[n] = want[n].text
                                         /\ want[n].text \in Texts
<1> DEFINE want == Wanted(f, c, place)
           m(n) == Max(Definers(c, n))
<1>1. /\ c \in Seq(Dirs) /\ DOMAIN c = 1 .. Len(c)
      /\ \A i \in DOMAIN c : c[i] \in vaults /\ c[i] \in Dirs
  <2>1. vaults \subseteq Dirs
    BY DEF Disk, Tree
  <2> QED
    BY <2>1, SeqMonotonic, OwnElements, ElementOfSeq
<1>2. DOMAIN want = {n \in Keys \ {Marker} : Definers(c, n) # {}}
  BY DEF Wanted
<1>3. ASSUME NEW n \in Keys, Definers(c, n) # {}
      PROVE  LET value == file[c[m(n)]][n]
             IN  /\ m(n) \in DOMAIN c /\ c[m(n)] \in vaults
                 /\ value \in Stored
                 /\ Merged(f, c)[n] = Expanded(f, c[m(n)], value)
                 /\ Merged(f, c)[n] \in Texts
  <2> DEFINE i == m(n)
             value == file[c[i]][n]
  <2>1. i \in Definers(c, n)
    BY <1>1, <1>3, NearestDefines
  <2> HIDE DEF m
  <2>2. i \in DOMAIN c /\ value # Unset
    BY <2>1 DEF Definers
  <2>3. c[i] \in vaults /\ c[i] \in Dirs
    BY <1>1, <2>2
  <2>4. value \in Stored
    BY <2>2, <2>3 DEF Disk
  <2>5. Merged(f, c)[n] = Expanded(f, c[i], value)
    BY <1>3 DEF Merged, m
  <2>6. value.kind # "home" \/ f.env[Home] # Unset
    BY <2>2 DEF ExpandFails
  <2> HIDE DEF value, i
  <2>7. Expanded(f, c[i], value) \in Texts
    BY <2>3, <2>4, <2>6, ExpandedIs
  <2> QED
    BY <2>2, <2>3, <2>4, <2>5, <2>7 DEF value, i
<1>4. ASSUME NEW n \in DOMAIN want
      PROVE  /\ want[n] \in Want /\ Merged(f, c)[n] = want[n].text
             /\ want[n].text \in Texts
  <2>1. n \in Keys /\ Definers(c, n) # {}
    BY <1>2
  <2> DEFINE i == m(n)
             value == file[c[i]][n]
  <2>2. want[n] = [text |-> Expanded(f, c[i], value), kind |-> value.kind,
                   vault |-> c[i]]
    <3>1. i = CHOOSE j \in Definers(c, n) : \A k \in Definers(c, n) :
                  Len(place[c[j]]) >= Len(place[c[k]])
      BY <1>1, <2>1, NearestDefines
    <3> HIDE DEF m
    <3> QED
      BY <1>2, <3>1 DEF Wanted
  <2>3. /\ value \in Stored /\ c[i] \in Dirs
        /\ Merged(f, c)[n] = Expanded(f, c[i], value)
        /\ Merged(f, c)[n] \in Texts
    BY <1>1, <1>3, <2>1
  <2> HIDE DEF i, value
  <2> QED
    BY <2>2, <2>3 DEF Want, Stored
<1>5. DOMAIN want = Injected(Merged(f, c))
  <2>1. \A n \in Keys : Definers(c, n) # {} => Merged(f, c)[n] # Unset
    BY <1>3, TextsAssumption
  <2>2. \A n \in Keys : Definers(c, n) = {} => Merged(f, c)[n] = Unset
    BY DEF Merged
  <2> QED
    BY <1>2, <2>1, <2>2 DEF Injected
<1>6. want = [n \in DOMAIN want |-> want[n]]
  BY DEF Wanted
<1> HIDE DEF want
<1>7. want \in [DOMAIN want -> Want]
  BY <1>4, <1>6
<1>8. DOMAIN want \subseteq Keys \ {Marker}
  BY <1>2
<1> QED
  BY <1>4, <1>5, <1>7, <1>8 DEF want

\* What a load starts is loaded, whatever was loaded, exported and edited
\* before: the keys of the last load are all in the inventory that it reads.
LEMMA StartedLoaded ==
    ASSUME Disk, NEW f, Good(f), Typed(f), Loaded(f),
           NEW c \in Seq(vaults), c # <<>>, Loads(f, c),
           NEW wrapped \in BOOLEAN, NEW first \in Seq(Dirs),
           IsSuffix(c, first), NEW place, Placed(first, place)
    PROVE  LET g == Started(f, c, wrapped, first, place)
           IN  Typed(g) /\ Loaded(g)
<1> DEFINE secrets == Merged(f, c)
           want == Wanted(f, c, place)
           g == Started(f, c, wrapped, first, place)
<1>1. /\ g.env = Environ(f, secrets) /\ g.own = f.own /\ g.cwd = f.cwd
      /\ g.keys = Injected(secrets) /\ g.want = want /\ g.touched = {}
      /\ g.lost = DOMAIN f.want \cup DOMAIN want \cup (f.lost \ f.touched)
      /\ g.active = c /\ g.first = first /\ g.place = place
      /\ g.wrapped = wrapped /\ g.due = FALSE
  BY DEF Started, InventoryOf
<1>2. vaults \subseteq Dirs
  BY DEF Disk, Tree
<1>3. c \in Seq(Dirs)
  BY <1>2, SeqMonotonic
<1>4. Placed(c, place)
  BY <1>3, PlacedEnd
<1>5. /\ DOMAIN want = Injected(secrets)
      /\ DOMAIN want \subseteq Keys \ {Marker}
      /\ want \in [DOMAIN want -> Want]
      /\ \A n \in DOMAIN want : /\ secrets[n] = want[n].text
                                /\ want[n].text \in Texts
  BY <1>4, MergedIs DEF Loads
<1> HIDE DEF secrets, want, g
<1>6. ASSUME NEW n \in Keys
      PROVE  g.env[n] = IF n \in Injected(secrets) THEN secrets[n]
                        ELSE IF n \in Skipped(f, secrets) THEN Unset
                        ELSE f.env[n]
  BY <1>1 DEF Environ
<1>7. ASSUME NEW n \in Keys, n \notin DOMAIN want,
             n \notin Skipped(f, secrets)
      PROVE  f.env[n] \in {f.own[n], Unset}
  <2>1. CASE n \in f.touched
    BY <2>1 DEF Good
  <2>2. CASE n \notin f.touched /\ n \in DOMAIN f.want
    <3>1. f.active # <<>>
      BY <2>2 DEF Loaded
    <3>2. Inventory(f) = f.keys /\ f.keys # None
      BY <3>1 DEF Loads, InventoryFails, Inventory
    <3>3. n \in Inventory(f)
      BY <2>2, <3>1, <3>2 DEF Loaded
    <3> QED
      BY <1>7, <3>1, <3>3 DEF Skipped
  <2>3. CASE n \notin f.touched /\ n \notin DOMAIN f.want
    BY <2>3 DEF Loaded
  <2> QED
    BY <2>1, <2>2, <2>3
<1>8. \A n \in Keys : IF n \in DOMAIN want THEN g.env[n] = want[n].text
                      ELSE g.env[n] \in {f.own[n], Unset}
  BY <1>5, <1>6, <1>7
<1>9. g.env \in [Keys -> Texts \cup {Unset}]
  <2>1. g.env = [n \in Keys |-> g.env[n]]
    BY <1>1 DEF Environ
  <2>2. \A n \in Keys : g.env[n] \in Texts \cup {Unset}
    BY <1>5, <1>8 DEF Typed
  <2> QED
    BY <2>1, <2>2
<1>10. Typed(g)
  <2>1. g.lost \subseteq Keys
    BY <1>1, <1>5 DEF Typed
  <2>2. g.keys \subseteq Keys \ {Marker}
    BY <1>1, <1>5
  <2>3. g.cwd \in Dirs /\ g.own \in [Keys -> Texts \cup {Unset}]
    BY <1>1 DEF Typed
  <2> QED
    BY <1>1, <1>3, <1>5, <1>9, <2>1, <2>2, <2>3 DEF Typed
<1>11. Loaded(g)
  BY <1>1, <1>5, <1>8 DEF Loaded
<1> QED
  BY <1>10, <1>11 DEF g

LEMMA LoginLoaded ==
    ASSUME NEW d \in Dirs PROVE Typed(Login(d)) /\ Loaded(Login(d))
<1> DEFINE g == Login(d)
<1>1. /\ g.env = [Blank EXCEPT ![Home] = HomeDir] /\ g.own = g.env
      /\ g.cwd = d /\ g.active = <<>> /\ g.keys = {} /\ g.wrapped = FALSE
      /\ g.due = FALSE /\ g.touched = {} /\ g.lost = {} /\ g.first = <<>>
      /\ g.want = [n \in {} |-> Blank] /\ g.place = <<>>
  BY DEF Login
<1> HIDE DEF g
<1>2. g.env \in [Keys -> Texts \cup {Unset}]
  BY <1>1 DEF Blank, Texts
<1>3. g.want \in [{} -> Want] /\ DOMAIN g.want = {}
  BY <1>1
<1>4. <<>> \in Seq(Dirs) /\ Len(<<>>) = 0
  BY EmptySeq
<1>5. Typed(g)
  BY <1>1, <1>2, <1>3, <1>4 DEF Typed
<1>6. IsSuffix(g.active, g.first) /\ Placed(g.first, g.place)
  <2> DEFINE e == <<>>
  <2>1. e \in Seq(Dirs) /\ Len(e) = 0
    BY <1>4
  <2>2. g.active = e /\ g.first = e
    BY <1>1
  <2> HIDE DEF e
  <2>3. IsSuffix(e, e)
    BY <2>1, SuffixOrder
  <2>4. Placed(e, g.place)
    BY <2>1 DEF Placed
  <2> QED
    BY <2>2, <2>3, <2>4
<1>7. Loaded(g)
  BY <1>1, <1>3, <1>6 DEF Loaded
<1> QED
  BY <1>5, <1>7 DEF g

LEMMA OlderLoaded ==
    ASSUME Disk, NEW d \in Dirs,
           \A n \in Keys : file[d][n] # Unset => file[d][n].kind = "text"
    PROVE  Typed(Older(d)) /\ Loaded(Older(d))
<1> DEFINE g == Older(d)
           defined == {n \in Keys \ {Marker} : file[d][n] # Unset}
<1>0. /\ DOMAIN Login(d) = Fields
      /\ Login(d).env = [Blank EXCEPT ![Home] = HomeDir]
      /\ Login(d).own = Login(d).env /\ Login(d).cwd = d
      /\ Login(d).touched = {} /\ Login(d).wrapped = FALSE
      /\ Login(d).due = FALSE
  BY DEF Login, Fields
<1>1. /\ g.env = [n \in Keys |-> IF n \in defined THEN file[d][n].text
                                 ELSE Login(d).env[n]]
      /\ g.own = Login(d).env
      /\ g.cwd = d /\ g.active = <<d>> /\ g.keys = None /\ g.wrapped = FALSE
      /\ g.due = FALSE /\ g.touched = {} /\ g.lost = defined
      /\ g.first = <<d>> /\ g.place = [p \in {d} |-> p]
      /\ g.want = [n \in defined |-> [text |-> file[d][n].text,
                                      kind |-> "text", vault |-> d]]
  BY <1>0 DEF Older, Fields
<1>2. \A n \in defined : file[d][n].text \in Literals
  BY DEF Disk, Stored
<1>3. Login(d).env \in [Keys -> Texts \cup {Unset}]
  BY <1>0 DEF Blank, Texts
<1> HIDE DEF g
<1>4. g.env \in [Keys -> Texts \cup {Unset}]
  BY <1>1, <1>2, <1>3 DEF Texts
<1>5. g.want \in [defined -> Want] /\ DOMAIN g.want = defined
  BY <1>1, <1>2 DEF Want, Texts
<1>6. <<d>> \in Seq(Dirs) /\ Len(<<d>>) = 1 /\ <<d>>[1] = d /\ <<d>> # <<>>
  OBVIOUS
<1>7. Typed(g)
  BY <1>1, <1>3, <1>4, <1>5, <1>6 DEF Typed
<1>8. IsSuffix(g.active, g.first)
  BY <1>1, <1>6, SuffixOrder
<1>9. Placed(g.first, g.place)
  BY <1>1, <1>6 DEF Placed
<1>10. Loaded(g)
  BY <1>1, <1>5, <1>6, <1>8, <1>9 DEF Loaded
<1> QED
  BY <1>7, <1>10 DEF g

\* Moving about and exporting leave a frame loaded.
LEMMA CdLoaded ==
    ASSUME NEW f, Good(f), Typed(f), Loaded(f), NEW d \in Dirs
    PROVE  /\ Typed([f EXCEPT !.cwd = d]) /\ Loaded([f EXCEPT !.cwd = d])
           /\ Typed([f EXCEPT !.due = TRUE]) /\ Loaded([f EXCEPT !.due = TRUE])
<1> DEFINE g == [f EXCEPT !.cwd = d]
           h == [f EXCEPT !.due = TRUE]
<1>1. /\ g.cwd = d /\ g.env = f.env /\ g.own = f.own /\ g.want = f.want
      /\ g.active = f.active /\ g.first = f.first /\ g.keys = f.keys
      /\ g.wrapped = f.wrapped /\ g.due = f.due /\ g.touched = f.touched
      /\ g.lost = f.lost /\ g.place = f.place
  BY DEF Good, Fields
<1>2. /\ h.cwd = f.cwd /\ h.env = f.env /\ h.own = f.own /\ h.want = f.want
      /\ h.active = f.active /\ h.first = f.first /\ h.keys = f.keys
      /\ h.wrapped = f.wrapped /\ h.due = TRUE /\ h.touched = f.touched
      /\ h.lost = f.lost /\ h.place = f.place
  BY DEF Good, Fields
<1> HIDE DEF g, h
<1>3. Typed(g) /\ Loaded(g)
  BY <1>1 DEF Typed, Loaded
<1>4. Typed(h) /\ Loaded(h)
  BY <1>2 DEF Typed, Loaded
<1> QED
  BY <1>3, <1>4 DEF g, h

LEMMA ExportLoaded ==
    ASSUME NEW f, Good(f), Typed(f), Loaded(f), NEW n \in Keys,
           NEW text \in Literals \cup {Unset}
    PROVE  LET g == [f EXCEPT !.env[n] = text, !.own[n] = text,
                              !.touched = @ \cup {n}]
           IN  Typed(g) /\ Loaded(g)
<1> DEFINE g == [f EXCEPT !.env[n] = text, !.own[n] = text,
                          !.touched = @ \cup {n}]
<1>1. /\ g.env = [f.env EXCEPT ![n] = text]
      /\ g.own = [f.own EXCEPT ![n] = text] /\ g.touched = f.touched \cup {n}
      /\ g.cwd = f.cwd /\ g.want = f.want
      /\ g.active = f.active /\ g.first = f.first /\ g.keys = f.keys
      /\ g.wrapped = f.wrapped /\ g.due = f.due
      /\ g.lost = f.lost /\ g.place = f.place
  BY DEF Good, Fields
<1> HIDE DEF g
<1>2. Typed(g)
  <2>1. text \in Texts \cup {Unset}
    BY DEF Texts
  <2>2. /\ g.env \in [Keys -> Texts \cup {Unset}]
        /\ g.own \in [Keys -> Texts \cup {Unset}]
    BY <1>1, <2>1 DEF Typed
  <2> QED
    BY <1>1, <2>2 DEF Typed
<1>3. \A k \in Keys \ g.touched : /\ k \in Keys \ f.touched
                                  /\ g.env[k] = f.env[k] /\ g.own[k] = f.own[k]
  BY <1>1 DEF Typed
<1>4. Loaded(g)
  BY <1>1, <1>3 DEF Loaded
<1> QED
  BY <1>2, <1>4 DEF g
-----------------------------------------------------------------------------
(* The chain a command loads                                               *)

\* In a directory: what Resolve finds, or the nearest of it.
LEMMA FoundPlaced ==
    ASSUME Disk, Top.cwd \in Dirs, NEW inherit
    PROVE  /\ Found(inherit) \in Seq(vaults)
           /\ Placed(Found(inherit), Places(Top, Found(inherit)))
<1> DEFINE paths == R!Resolved(Top.cwd)
           dir(p) == R!VaultDir(Top.cwd, p)
           s == IF inherit \/ paths = <<>> THEN paths ELSE <<Head(paths)>>
           c == Found(inherit)
           place == Places(Top, c)
<1>1. /\ paths \in Seq(vaults) /\ \A p \in vaults : dir(p) \in Dirs
      /\ \A j, k \in 1 .. Len(paths) :
            j < k => Len(dir(paths[k])) < Len(dir(paths[j]))
  BY FoundIs DEF Disk
<1>2. c = Chain(s)
  BY DEF Found
<1>3. \A i \in DOMAIN c : place[c[i]] = dir(c[i])
  BY DEF Places, ToSet
<1> HIDE DEF paths, dir, c, place
<1>4. /\ s \in Seq(vaults)
      /\ \A j, k \in 1 .. Len(s) : j < k => Len(dir(s[k])) < Len(dir(s[j]))
  <2>1. CASE inherit \/ paths = <<>>
    BY <1>1, <2>1
  <2>2. CASE ~(inherit \/ paths = <<>>)
    <3>1. Head(paths) \in vaults
      BY <1>1, <2>2, HeadTailProperties
    <3>2. s = <<Head(paths)>>
      BY <2>2
    <3>3. <<Head(paths)>> \in Seq(vaults) /\ Len(<<Head(paths)>>) = 1
      BY <3>1
    <3>4. \A j, k \in 1 .. 1 : ~(j < k)
      OBVIOUS
    <3> QED
      BY <3>2, <3>3, <3>4
  <2> QED
    BY <2>1, <2>2
<1> HIDE DEF s
<1>5. /\ c \in Seq(vaults) /\ Len(c) \in 0 .. Len(s) /\ Len(s) \in Nat
      /\ \A i \in 1 .. Len(c) : c[i] = s[Len(c) - i + 1]
  BY <1>2, <1>4, ChainIs
<1>6. \A i \in 1 .. Len(c) : place[c[i]] = dir(c[i]) /\ c[i] \in vaults
  BY <1>3, <1>5, OwnElements, ElementOfSeq
<1>7. ASSUME NEW i \in 1 .. Len(c), NEW j \in 1 .. Len(c), i < j
      PROVE  Len(dir(c[i])) < Len(dir(c[j]))
  <2>1. /\ Len(c) - i + 1 \in 1 .. Len(s) /\ Len(c) - j + 1 \in 1 .. Len(s)
        /\ Len(c) - j + 1 < Len(c) - i + 1
    BY <1>5, <1>7
  <2> QED
    BY <1>4, <1>5, <2>1
<1>8. Placed(c, place)
  BY <1>1, <1>6, <1>7 DEF Placed
<1> QED
  BY <1>5, <1>8 DEF c, place

\* In a shell: what SCHAIN_ACTIVE names, in the order it has there.
LEMMA ReloadedPlaced ==
    ASSUME Disk, Typed(Top), Loaded(Top), CanReload
    PROVE  /\ Reloaded \in Seq(vaults) /\ Reloaded # <<>>
           /\ IsSuffix(Reloaded, Top.first)
<1> DEFINE a == Top.active
<1>1. a \in Seq(Dirs) /\ a # <<>> /\ Top.first \in Seq(Dirs)
      /\ IsSuffix(a, Top.first)
  BY DEF Typed, Loaded, CanReload
<1>2. a \in [1 .. Len(a) -> Dirs] /\ Len(a) \in Nat /\ DOMAIN a = 1 .. Len(a)
  BY <1>1, LenProperties
<1>3. vaults \subseteq Dirs /\ None \notin vaults
  BY DirsAssumption DEF Disk, Tree
<1>4. ToSet(Active(Top)) \subseteq vaults
  BY DEF CanReload
<1>5. \A i \in DOMAIN a : a[i] \notin Colons /\ a[i] \in vaults
  <2> TAKE i \in DOMAIN a
  <2>1. Active(Top)[i] \in vaults
    BY <1>4 DEF Active, ToSet
  <2>2. Active(Top)[i] = IF a[i] \in Colons THEN None ELSE a[i]
    BY DEF Active
  <2> QED
    BY <1>3, <2>1, <2>2
<1>6. Active(Top) = a
  <2>1. Active(Top) = [i \in DOMAIN a |-> a[i]]
    BY <1>5 DEF Active
  <2> HIDE DEF a
  <2> QED
    BY <1>2, <2>1
<1> HIDE DEF a
<1>7. a \in Seq(vaults)
  BY <1>2, <1>5, SeqDef
<1>8. Reloaded = Chain(Reverse(a))
  BY <1>6 DEF Reloaded
<1>9. Reloaded \in Seq(vaults) /\ Reloaded # <<>> /\ IsSuffix(Reloaded, a)
  BY <1>1, <1>7, <1>8, ChainAgain
<1>10. Reloaded \in Seq(Dirs)
  BY <1>3, <1>9, SeqMonotonic
<1> QED
  BY <1>1, <1>9, <1>10, SuffixOrder
-----------------------------------------------------------------------------
(* Every frame is loaded                                                   *)

Counters == loads \in 0 .. MaxLoads /\ changes \in 0 .. MaxChanges

SInv ==
    /\ IInv /\ Disk /\ Counters
    /\ \A f \in ToSet(frames) : Typed(f) /\ Loaded(f)

LEMMA TopIn == ASSUME IInv PROVE Top \in ToSet(frames)
<1>1. Top = frames[Len(frames)] /\ Len(frames) \in DOMAIN frames
  BY Popped DEF IInv, Stack, Top
<1> QED
  BY <1>1 DEF ToSet

LEMMA FramesOf ==
    ASSUME IInv
    PROVE  /\ ToSet(Below) \subseteq ToSet(frames)
           /\ \A g : ToSet(Append(frames, g)) \subseteq ToSet(frames) \cup {g}
           /\ \A g : ToSet(Append(Below, g)) \subseteq ToSet(frames) \cup {g}
<1>1. /\ Below \in Seq(ToSet(Below)) /\ Len(Below) = Len(frames) - 1
      /\ \A k \in 1 .. Len(frames) - 1 : Below[k] = frames[k]
      /\ frames \in Seq(ToSet(frames))
  BY Popped DEF IInv, Stack, Below
<1>2. /\ DOMAIN frames = 1 .. Len(frames) /\ Len(frames) \in Nat
      /\ DOMAIN Below = 1 .. Len(Below)
  BY <1>1, OwnElements
<1>3. ToSet(Below) \subseteq ToSet(frames)
  <2>1. \A k \in DOMAIN Below : k \in DOMAIN frames /\ Below[k] = frames[k]
    BY <1>1, <1>2
  <2> QED
    BY <2>1 DEF ToSet
<1>4. ASSUME NEW s, s \in Seq(ToSet(s)), NEW g
      PROVE  ToSet(Append(s, g)) \subseteq ToSet(s) \cup {g}
  <2>1. /\ Append(s, g) \in Seq(ToSet(Append(s, g)))
        /\ Len(Append(s, g)) = Len(s) + 1 /\ Append(s, g)[Len(s) + 1] = g
        /\ \A k \in 1 .. Len(s) : Append(s, g)[k] = s[k]
    BY <1>4, Pushed
  <2>2. /\ DOMAIN Append(s, g) = 1 .. Len(s) + 1
        /\ DOMAIN s = 1 .. Len(s) /\ Len(s) \in Nat
    BY <1>4, <2>1, OwnElements
  <2>3. \A k \in 1 .. Len(s) + 1 : k \in 1 .. Len(s) \/ k = Len(s) + 1
    BY <2>2
  <2> QED
    BY <2>1, <2>2, <2>3 DEF ToSet
<1> QED
  BY <1>1, <1>3, <1>4

LEMMA LoadedInit == Init => SInv
<1> SUFFICES ASSUME Init PROVE SInv
  OBVIOUS
<1>1. Disk
  <2>1. file \in [Dirs -> [Keys -> Stored \cup {Unset}]]
    <3>1. Blank \in [Keys -> Stored \cup {Unset}]
      BY DEF Blank
    <3> QED
      BY <3>1, TextsAssumption DEF Init
  <2> QED
    BY <2>1 DEF Init, Disk, Tree
<1>2. Counters
  BY BoundsAssumption DEF Init, Counters
<1>3. PICK d \in Dirs :
          \/ frames = <<Login(d)>>
          \/ /\ \A n \in Keys :
                   file[d][n] # Unset => file[d][n].kind = "text"
             /\ frames = <<Login(d), Older(d)>>
  BY DEF Init
<1>4. Typed(Login(d)) /\ Loaded(Login(d))
  BY LoginLoaded
<1>5. \A f \in ToSet(frames) : Typed(f) /\ Loaded(f)
  <2>1. CASE frames = <<Login(d)>>
    <3>1. \A f \in ToSet(frames) : f = Login(d)
      BY <2>1 DEF ToSet
    <3> QED
      BY <1>4, <3>1
  <2>2. CASE frames # <<Login(d)>>
    <3>1. \A f \in ToSet(frames) : f = Login(d) \/ f = Older(d)
      BY <1>3, <2>2 DEF ToSet
    <3>2. Typed(Older(d)) /\ Loaded(Older(d))
      BY <1>1, <1>3, <2>2, OlderLoaded
    <3> QED
      BY <1>4, <3>1, <3>2
  <2> QED
    BY <2>1, <2>2
<1> QED
  BY <1>1, <1>2, <1>5, InitInv DEF SInv

\* What a step does to the files keeps them in shape.
LEMMA DiskStep == SInv /\ [Next]_vars => Disk'
<1> SUFFICES ASSUME SInv, [Next]_vars PROVE Disk'
  OBVIOUS
<1>0. Disk
  BY DEF SInv
<1>1. CASE UNCHANGED disk
  BY <1>0, <1>1 DEF disk, Disk, Tree
<1>2. ASSUME NEW d \in Dirs, NEW n \in Keys, NEW value \in Stored \cup {Unset},
             Edit(d, n, value)
      PROVE  Disk'
  BY <1>0, <1>2 DEF Edit, Disk, Tree
<1>3. ASSUME NEW d \in Dirs, EditRoot(d) PROVE Disk'
  BY <1>0, <1>3 DEF EditRoot, Disk, Tree
<1>4. ASSUME NEW d \in Dirs, RemoveVault(d) PROVE Disk'
  <2>1. /\ vaults' = vaults \ {d} /\ UNCHANGED <<git, admin, off>>
        /\ file' = [file EXCEPT ![d] = Blank] /\ rooted' = rooted \ {d}
    BY <1>4 DEF RemoveVault, R!RemoveVault, R!May
  <2>2. Blank \in [Keys -> Stored \cup {Unset}]
    BY DEF Blank
  <2> QED
    BY <1>0, <2>1, <2>2 DEF Disk, Tree
<1>5. ASSUME NEW n \in Keys, NEW value \in Stored \cup {Unset},
             SetHere(n, value)
      PROVE  Disk'
  <2> DEFINE paths == R!Resolved(Top.cwd)
             target == IF paths = <<>> THEN Top.cwd ELSE Head(paths)
  <2>1. /\ file' = [file EXCEPT ![target][n] = value]
        /\ vaults' = vaults \cup {target}
        /\ UNCHANGED <<git, admin, off, rooted>>
    BY <1>5 DEF SetHere
  <2>2. Top.cwd \in Dirs
    BY TopIn DEF SInv, Typed
  <2>3. paths \in Seq(vaults)
    BY <1>0, <2>2, FoundIs DEF Disk
  <2> HIDE DEF paths
  <2>4. target \in Dirs
    <3>1. paths # <<>> => Head(paths) \in vaults
      BY <2>3, HeadTailProperties
    <3> QED
      BY <1>0, <2>2, <3>1 DEF Disk, Tree
  <2> HIDE DEF target
  <2> QED
    BY <1>0, <2>1, <2>4 DEF Disk, Tree
<1>6. CASE Next /\ ~UNCHANGED disk
  BY <1>2, <1>3, <1>4, <1>5, <1>6
     DEF Next, Enter, Exec, Run, Reload, ReloadFails, ReloadNested, Exit, Cd,
         Export
<1>7. CASE UNCHANGED vars
  BY <1>1, <1>7 DEF vars
<1> QED
  BY <1>1, <1>6, <1>7

LEMMA CountersStep == SInv /\ [Next]_vars => Counters'
<1> SUFFICES ASSUME SInv, [Next]_vars PROVE Counters'
  OBVIOUS
<1>1. Counters /\ MaxLoads \in Nat /\ MaxChanges \in Nat
  BY BoundsAssumption DEF SInv
<1>2. Counted => loads' \in 0 .. MaxLoads
  BY <1>1 DEF Counters, Counted
<1>3. Changing => changes' \in 0 .. MaxChanges
  BY <1>1 DEF Counters, Changing
<1>4. UNCHANGED loads => loads' \in 0 .. MaxLoads
  BY <1>1 DEF Counters
<1>5. UNCHANGED changes => changes' \in 0 .. MaxChanges
  BY <1>1 DEF Counters
<1>6. CASE UNCHANGED vars
  BY <1>4, <1>5, <1>6 DEF vars, Counters
<1>7. CASE Next
  BY <1>2, <1>3, <1>4, <1>5, <1>7
     DEF Counters, Next, Enter, Exec, Run, Reload, ReloadFails, ReloadNested,
         Exit, Cd, Export, Edit, EditRoot, RemoveVault, SetHere
<1> QED
  BY <1>6, <1>7

LEMMA FramesStep ==
    SInv /\ [Next]_vars => (\A f \in ToSet(frames) : Typed(f) /\ Loaded(f))'
<1> SUFFICES ASSUME SInv, [Next]_vars
             PROVE  \A f \in ToSet(frames') : Typed(f) /\ Loaded(f)
  BY DEF ToSet
<1>0. /\ IInv /\ Disk /\ Good(Top) /\ Typed(Top) /\ Loaded(Top)
      /\ \A f \in ToSet(frames) : Typed(f) /\ Loaded(f)
      /\ Top.cwd \in Dirs /\ vaults \subseteq Dirs
  BY TopIn, TopGood DEF SInv, Typed, Disk, Tree
<1>1. ASSUME NEW g, Typed(g), Loaded(g),
             frames' = Append(frames, g) \/ frames' = Append(Below, g)
      PROVE  \A f \in ToSet(frames') : Typed(f) /\ Loaded(f)
  <2>1. /\ ToSet(Append(frames, g)) \subseteq ToSet(frames) \cup {g}
        /\ ToSet(Append(Below, g)) \subseteq ToSet(frames) \cup {g}
    BY <1>0, FramesOf
  <2>2. \A f \in ToSet(frames') : f \in ToSet(frames) \/ f = g
    <3>1. CASE frames' = Append(frames, g)
      BY <2>1, <3>1
    <3>2. CASE frames' = Append(Below, g)
      BY <2>1, <3>2
    <3> QED
      BY <1>1, <3>1, <3>2
  <2> QED
    BY <1>0, <1>1, <2>2
<1>2. CASE frames' = Below \/ UNCHANGED frames
  BY <1>0, <1>2, FramesOf
<1>3. ASSUME NEW inherit \in BOOLEAN, NEW wrapped \in BOOLEAN,
             Run(Found(inherit), wrapped)
      PROVE  \A f \in ToSet(frames') : Typed(f) /\ Loaded(f)
  <2> DEFINE c == Found(inherit)
             g == Started(Top, c, wrapped, c, Places(Top, c))
  <2>1. c \in Seq(vaults) /\ Placed(c, Places(Top, c))
    BY <1>0, FoundPlaced
  <2>2. c # <<>> /\ Loads(Top, c) /\ frames' = Append(frames, g)
    BY <1>3 DEF Run
  <2> HIDE DEF c
  <2>3. c \in Seq(Dirs)
    BY <1>0, <2>1, SeqMonotonic
  <2>4. IsSuffix(c, c)
    BY <2>3, SuffixOrder
  <2>5. Typed(g) /\ Loaded(g)
    BY <1>0, <2>1, <2>2, <2>3, <2>4, StartedLoaded
  <2> HIDE DEF g
  <2> QED
    BY <1>1, <2>2, <2>5
<1>4. CASE Reload \/ ReloadNested
  <2>1. /\ CanReload /\ Loads(Top, Reloaded)
        /\ frames' = Append(frames, Refreshed) \/ frames' = Append(Below, Refreshed)
    BY <1>4 DEF Reload, ReloadNested, CanReload
  <2>2. /\ Reloaded \in Seq(vaults) /\ Reloaded # <<>>
        /\ IsSuffix(Reloaded, Top.first)
    BY <1>0, <2>1, ReloadedPlaced
  <2>3. Top.first \in Seq(Dirs) /\ Placed(Top.first, Top.place)
    BY <1>0 DEF Typed, Loaded
  <2>4. Typed(Refreshed) /\ Loaded(Refreshed)
    BY <1>0, <2>1, <2>2, <2>3, StartedLoaded DEF Refreshed
  <2> QED
    BY <1>1, <2>1, <2>4
<1>5. ASSUME NEW d \in Dirs, Cd(d)
      PROVE  \A f \in ToSet(frames') : Typed(f) /\ Loaded(f)
  <2>1. frames' = Append(Below, [Top EXCEPT !.cwd = d])
    BY <1>5 DEF Cd
  <2>2. Typed([Top EXCEPT !.cwd = d]) /\ Loaded([Top EXCEPT !.cwd = d])
    BY <1>0, CdLoaded
  <2> QED
    BY <1>1, <2>1, <2>2
<1>6. ASSUME NEW n \in Keys, NEW text \in Literals \cup {Unset},
             Export(n, text)
      PROVE  \A f \in ToSet(frames') : Typed(f) /\ Loaded(f)
  <2> DEFINE g == [Top EXCEPT !.env[n] = text, !.own[n] = text,
                              !.touched = @ \cup {n}]
  <2>1. frames' = Append(Below, g)
    BY <1>6 DEF Export
  <2>2. Typed(g) /\ Loaded(g)
    BY <1>0, ExportLoaded
  <2> HIDE DEF g
  <2> QED
    BY <1>1, <2>1, <2>2
<1>7. ASSUME NEW n \in Keys, NEW value \in Stored \cup {Unset},
             SetHere(n, value)
      PROVE  \A f \in ToSet(frames') : Typed(f) /\ Loaded(f)
  <2>1. frames' = Append(Below, [Top EXCEPT !.due = TRUE])
    BY <1>7 DEF SetHere
  <2>2. Typed([Top EXCEPT !.due = TRUE]) /\ Loaded([Top EXCEPT !.due = TRUE])
    BY <1>0, CdLoaded
  <2> QED
    BY <1>1, <2>1, <2>2
<1>8. CASE Next
  <2>1. ASSUME NEW inherit \in BOOLEAN, Enter(inherit) \/ Exec(inherit)
        PROVE  \A f \in ToSet(frames') : Typed(f) /\ Loaded(f)
    BY <1>3, <2>1 DEF Enter, Exec
  <2>2. CASE ReloadFails \/ Exit
    BY <1>2, <2>2 DEF ReloadFails, Exit
  <2>3. ASSUME NEW d \in Dirs, EditRoot(d) \/ RemoveVault(d)
        PROVE  \A f \in ToSet(frames') : Typed(f) /\ Loaded(f)
    BY <1>2, <2>3 DEF EditRoot, RemoveVault
  <2>4. ASSUME NEW n \in Keys, NEW value \in Stored \cup {Unset},
               NEW d \in Dirs, Edit(d, n, value)
        PROVE  \A f \in ToSet(frames') : Typed(f) /\ Loaded(f)
    BY <1>2, <2>4 DEF Edit
  <2> QED
    BY <1>4, <1>5, <1>6, <1>7, <1>8, <2>1, <2>2, <2>3, <2>4 DEF Next
<1>9. CASE UNCHANGED vars
  BY <1>2, <1>9 DEF vars
<1> QED
  BY <1>8, <1>9

LEMMA LoadedStep == SInv /\ [Next]_vars => SInv'
BY StepInv, DiskStep, CountersStep, FramesStep DEF SInv

LEMMA LoadedAlways == Spec => []SInv
BY LoadedInit, LoadedStep, PTL DEF Spec

LEMMA AllFrames ==
    ASSUME SInv
    PROVE  \A k \in DOMAIN frames :
              Good(frames[k]) /\ Typed(frames[k]) /\ Loaded(frames[k])
<1>1. DOMAIN frames = 1 .. Len(frames)
  BY OwnElements DEF SInv, IInv, Stack
<1> QED
  BY <1>1 DEF SInv, IInv, ToSet

\* Frames, vaults and inventories keep their shape, for any tree with any
\* vaults, and any numbers of shells, loads and changes.
THEOREM TypeStays == Spec => []TypeOK
<1>1. SInv => TypeOK
  <2> SUFFICES ASSUME SInv PROVE TypeOK
    OBVIOUS
  <2>1. /\ frames # <<>> /\ frames[1].active = <<>>
    <3>1. frames \in Seq(ToSet(frames)) /\ Len(frames) > 0
          /\ frames[1].active = <<>>
      BY DEF SInv, IInv, Stack
    <3>2. Len(<<>>) = 0
      BY EmptySeq
    <3> QED
      BY <3>1, <3>2
  <2> QED
    BY <2>1, AllFrames DEF SInv, Disk, Tree, Counters, Typed, TypeOK
<1> QED
  BY <1>1, LoadedAlways, PTL

\* "Nearest wins", after any history of shells, reloads, edits and exports: a
\* variable is what the vault that stood for the nearest directory said when it
\* was loaded, and nothing of a vault's is left of an earlier load.
THEOREM EnvStaysTheMerge == Spec => []EnvIsTheMerge
<1>1. SInv => EnvIsTheMerge
  BY AllFrames DEF EnvIsTheMerge, Loaded
<1> QED
  BY <1>1, LoadedAlways, PTL

\* No reload, in a shell or nested in it, adds a vault to the chain the shell
\* was entered with, or changes the order of the chain.
THEOREM ChainStays == Spec => []ChainKept
<1>1. SInv => ChainKept
  BY AllFrames DEF ChainKept, Loaded
<1> QED
  BY <1>1, LoadedAlways, PTL
=============================================================================
