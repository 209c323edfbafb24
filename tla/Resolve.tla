------------------------------- MODULE Resolve -------------------------------
(***************************************************************************)
(* Which vaults a directory composes with, and which directory each stands *)
(* for: resolveVaults, vaultDirs, findWorktree, the warning about vaults   *)
(* out of reach, and what `schain worktree` reports.                       *)
(*                                                                         *)
(* The state is the file system as schain reads it: the directories with a *)
(* vault file and git's own files.  It changes by what people do to        *)
(* checkouts: git worktree add, remove, prune and repair, clone,           *)
(* submodules, cp -r and mv, and vaults that come and go.  schain keeps    *)
(* nothing: every property is about what a command would find in any       *)
(* directory at any time.                                                  *)
(*                                                                         *)
(* A directory is its path, a sequence of names; a vault is named by the   *)
(* directory it is in.                                                     *)
(***************************************************************************)
EXTENDS Integers, Sequences, FiniteSetsExt, SequencesExt

CONSTANTS
    Dirs,     \* the directories, <<>> being the root
    Mains,    \* the checkouts there are at the beginning
    Admin,    \* entries in main checkouts' .git/worktrees
    Free,     \* what an entry that is not there names
    None,     \* no directory
    Events    \* bound: what may happen

Names == UNION {ToSet(d) : d \in Dirs}

ASSUME DirsAssumption ==
    /\ Dirs \subseteq Seq(Names)
    /\ \A d \in Dirs : \A n \in 0 .. Len(d) : SubSeq(d, 1, n) \in Dirs
ASSUME MainsAssumption == Mains \subseteq Dirs
ASSUME NoneAssumption == None \notin Dirs /\ Free \notin Dirs
ASSUME AdminAssumption ==
    Admin \cap {"none", "checkout", "submodule"} = {}

VARIABLES
    vaults,   \* the directories with a vault file
    git,      \* what .git is in each: none, a checkout's, a submodule's file,
              \* or a file naming an entry
    admin,    \* each entry: the checkout it is in, which never changes, and
              \* the worktree it names
    off       \* SCHAIN_NO_WORKTREE

fs == <<vaults, git, admin>>
vars == <<fs, off>>

Below(d) == {e \in Dirs : IsPrefix(d, e)}
Rel(root, d) == SubSeq(d, Len(root) + 1, Len(d))
Join(root, rel) == root \o rel

Init ==
    /\ vaults = {}
    /\ git = [d \in Dirs |-> IF d \in Mains THEN "checkout" ELSE "none"]
    /\ admin \in [Admin -> [main : Dirs, back : {Free}]]
    /\ off \in BOOLEAN
-----------------------------------------------------------------------------
(* findWorktree                                                            *)

\* (defect) the entry need not name this directory
MainOfAny(d) ==
    IF git[d] \in Admin /\ admin[git[d]].back # Free
    THEN admin[git[d]].main ELSE None

\* The main checkout d is a linked worktree of, by git's files: an entry
\* registered in that checkout, not d, which in turn names d.
MainOf(d) ==
    IF git[d] \in Admin /\ admin[git[d]].back = d /\ admin[git[d]].main # d
    THEN admin[git[d]].main ELSE None
-----------------------------------------------------------------------------
(* resolveVaults: the levels from cwd (0) to the root                      *)

Levels(cwd) == 0 .. Len(cwd)
Level(cwd, i) == SubSeq(cwd, 1, Len(cwd) - i)

WtLevels(cwd) == {i \in Levels(cwd) : MainOf(Level(cwd, i)) # None}

\* findWorktreeFrom: the level of the nearest linked worktree.
NearestLevel(cwd) == IF WtLevels(cwd) = {} THEN -1 ELSE Min(WtLevels(cwd))

\* The same for resolveVaults, which heeds SCHAIN_NO_WORKTREE.
WtLevel(cwd) == IF off THEN -1 ELSE NearestLevel(cwd)

WtRoot(cwd) == Level(cwd, NearestLevel(cwd))
WtMain(cwd) == MainOf(WtRoot(cwd))

\* The directory of the main checkout that stands for one in the worktree.
Counterpart(cwd, d) == Join(WtMain(cwd), Rel(WtRoot(cwd), d))

\* (defect) a directory without a vault borrows whether or not there is one
PickUnchecked(cwd, i) ==
    LET d == Level(cwd, i)
    IN  IF d \in vaults THEN d
        ELSE IF i <= WtLevel(cwd) THEN Counterpart(cwd, d) ELSE None

\* The vault of one level: its own, or the main checkout's.
Pick(cwd, i) ==
    LET d == Level(cwd, i)
    IN  IF d \in vaults THEN d
        ELSE IF i <= WtLevel(cwd) /\ Counterpart(cwd, d) \in vaults
             THEN Counterpart(cwd, d) ELSE None

\* The levels that add a vault: the first to pick it.
Picked(cwd) ==
    {i \in Levels(cwd) : /\ Pick(cwd, i) # None
                         /\ \A j \in 0 .. i - 1 : Pick(cwd, j) # Pick(cwd, i)}

\* The numbers of a set, the least first.
Ascending(S) ==
    CHOOSE s \in [1 .. Cardinality(S) -> S] :
        \A j, k \in DOMAIN s : j < k => s[j] < s[k]

\* (defect) what is borrowed is appended after the walk
ResolvedOwnFirst(cwd) ==
    LET own == {i \in Picked(cwd) : Level(cwd, i) \in vaults}
        levels == Ascending(own) \o Ascending(Picked(cwd) \ own)
    IN  [k \in DOMAIN levels |-> Pick(cwd, levels[k])]

\* The vaults, nearest first.
Resolved(cwd) ==
    LET levels == Ascending(Picked(cwd))
    IN  [k \in DOMAIN levels |-> Pick(cwd, levels[k])]

Borrowing(cwd, p) ==
    {i \in Levels(cwd) : Pick(cwd, i) = p /\ Level(cwd, i) \notin vaults}

\* vaultDirs: what ${SCHAIN_DIR} means in vault p.
VaultDir(cwd, p) ==
    IF Borrowing(cwd, p) = {} THEN p ELSE Level(cwd, Max(Borrowing(cwd, p)))

\* (defect) the walk starts one directory too high
UnreachableHigher(cwd) ==
    IF WtLevel(cwd) = -1 THEN {}
    ELSE LET top == WtMain(cwd)
             from == IF Len(top) < 2 THEN <<>> ELSE Front(Front(top))
         IN  {d \in vaults : IsPrefix(d, from)} \ ToSet(Resolved(cwd))

\* warnUnreachable: vaults above the main checkout that were not found.
Unreachable(cwd) ==
    IF WtLevel(cwd) = -1 THEN {}
    ELSE LET top == WtMain(cwd)
             from == IF top = <<>> THEN top ELSE Front(top)
         IN  {d \in vaults : IsPrefix(d, from)} \ ToSet(Resolved(cwd))

\* (defect) the walk takes the root for a nested checkout
WalkSkippingAll(root) ==
    {d \in vaults \cap Below(root) :
        \A e \in Below(root) : IsPrefix(e, d) => git[e] = "none"}

\* cmdWorktree's walk: nested checkouts and what is below them are skipped.
WalkSkipping(root) ==
    {d \in vaults \cap Below(root) :
        \A e \in Below(root) \ {root} : IsPrefix(e, d) => git[e] = "none"}

\* What it calls "from the main checkout", as directories of the worktree;
\* it does not look at SCHAIN_NO_WORKTREE.
Reported(cwd) ==
    LET rels(root) == {Rel(root, d) : d \in WalkSkipping(root)}
    IN  IF NearestLevel(cwd) = -1 THEN {}
        ELSE {Join(WtRoot(cwd), r) :
                 r \in rels(WtMain(cwd)) \ rels(WtRoot(cwd))}
-----------------------------------------------------------------------------
(* What happens to the file system.                                        *)

May(event) == event \in Events /\ UNCHANGED off

\* schain set --here
PutVault(d) ==
    /\ May("vault") /\ d \notin vaults
    /\ vaults' = vaults \cup {d}
    /\ UNCHANGED <<git, admin>>

RemoveVault(d) ==
    /\ May("vault") /\ d \in vaults
    /\ vaults' = vaults \ {d}
    /\ UNCHANGED <<git, admin>>

Empty(d) == \A e \in Below(d) : e \notin vaults /\ git[e] = "none"

\* git worktree add, which wants an empty directory
AddWorktree(e, d) ==
    /\ May("worktree")
    /\ admin[e].back = Free /\ git[admin[e].main] = "checkout" /\ Empty(d)
    /\ admin' = [admin EXCEPT ![e].back = d]
    /\ git' = [git EXCEPT ![d] = e]
    /\ UNCHANGED vaults

\* git clone
Clone(d) ==
    /\ May("clone") /\ Empty(d)
    /\ git' = [git EXCEPT ![d] = "checkout"]
    /\ UNCHANGED <<vaults, admin>>

\* git submodule update --init, inside a checkout or a worktree
Submodule(d) ==
    /\ May("submodule")
    /\ git[d] = "none" /\ \E c \in Dirs : IsPrefix(c, d) /\ git[c] # "none"
    /\ git' = [git EXCEPT ![d] = "submodule"]
    /\ UNCHANGED <<vaults, admin>>

\* The entries, but for those in checkouts at and below d.
Without(d) ==
    [e \in Admin |-> IF IsPrefix(d, admin[e].main)
                     THEN [admin[e] EXCEPT !.back = Free] ELSE admin[e]]

\* a is copied to an empty b, .git and vault files included; moving it also
\* takes it away from a.  Only linked worktrees: nothing points at a clone
\* but its worktrees, and they are lost when it moves.
Duplicate(a, b, keep) ==
    /\ git[a] \in Admin /\ Empty(b)
    /\ ~IsPrefix(a, b) /\ ~IsPrefix(b, a)
    /\ \A d \in Below(a) : Join(b, Rel(a, d)) \in Dirs
    /\ LET copies(S) == {Join(b, Rel(a, d)) : d \in S \cap Below(a)}
           old(S) == IF keep THEN S ELSE S \ Below(a)
       IN  /\ vaults' = old(vaults) \cup copies(vaults)
           /\ git' = [d \in Dirs |->
                IF IsPrefix(b, d) /\ Join(a, Rel(b, d)) \in Dirs
                THEN git[Join(a, Rel(b, d))]
                ELSE IF IsPrefix(a, d) /\ ~keep THEN "none" ELSE git[d]]
    /\ admin' = IF keep THEN admin ELSE Without(a)

Copy(a, b) == May("copy") /\ Duplicate(a, b, TRUE)
Move(a, b) == May("move") /\ Duplicate(a, b, FALSE)

\* git worktree repair, run in d
Repair(d) ==
    /\ May("repair")
    /\ git[d] \in Admin /\ admin[git[d]].back # Free
    /\ admin' = [admin EXCEPT ![git[d]].back = d]
    /\ UNCHANGED <<vaults, git>>

\* git worktree prune, when the worktree it names is gone
Prune(e) ==
    /\ May("prune")
    /\ admin[e].back # Free /\ git[admin[e].back] = "none"
    /\ admin' = [admin EXCEPT ![e].back = Free]
    /\ UNCHANGED <<vaults, git>>

\* git worktree remove --force, with what is in it
RemoveWorktree(d) ==
    /\ May("worktree") /\ MainOf(d) # None
    /\ admin' = [Without(d) EXCEPT ![git[d]].back = Free]
    /\ git' = [e \in Dirs |-> IF IsPrefix(d, e) THEN "none" ELSE git[e]]
    /\ vaults' = vaults \ Below(d)

Next ==
    \/ \E d \in Dirs : \/ PutVault(d) \/ RemoveVault(d) \/ Clone(d)
                       \/ Submodule(d) \/ Repair(d) \/ RemoveWorktree(d)
    \/ \E e \in Admin : \/ Prune(e)
                        \/ \E d \in Dirs : AddWorktree(e, d)
    \/ \E a, b \in Dirs : Copy(a, b) \/ Move(a, b)

Spec == Init /\ [][Next]_vars
-----------------------------------------------------------------------------
(* Properties                                                              *)

\* The state keeps its shape, and what is resolved are vaults that exist.
TypeOK ==
    /\ vaults \subseteq Dirs
    /\ git \in [Dirs -> {"none", "checkout", "submodule"} \cup Admin]
    /\ admin \in [Admin -> [main : Dirs, back : Dirs \cup {Free}]]
    /\ off \in BOOLEAN
    /\ \A cwd \in Dirs : ToSet(Resolved(cwd)) \subseteq vaults

\* The nearest worktree does not have its own main checkout inside it, as it
\* can once that was moved there and repaired.
Apart(cwd) ==
    WtLevel(cwd) >= 0 => ~IsPrefix(WtRoot(cwd), WtMain(cwd))

\* What "nearest wins" rests on (chain.go:14): each vault stands for cwd or a
\* directory above it, each for another one, and the order is theirs, however
\* borrowed vaults and vaults on the way up meet.  A worktree around its main
\* checkout is the exception: a vault met on the way up as its own is then
\* borrowed again for a higher directory.
NearestFirst ==
    \A cwd \in Dirs : Apart(cwd) =>
        LET chain == Resolved(cwd)
            dir(k) == VaultDir(cwd, chain[k])
        IN  /\ \A k \in DOMAIN chain : IsPrefix(dir(k), cwd)
            /\ \A j, k \in DOMAIN chain :
                  j < k => IsStrictPrefix(dir(k), dir(j))

\* "Unregistered or forged metadata does not authorize borrowing"
\* (README.md:241): a vault from outside the directories above cwd is
\* there because an entry of its own checkout names a directory above cwd,
\* whatever was copied, moved, pruned or repaired before.
OnlyRegistered ==
    \A cwd \in Dirs : \A p \in ToSet(Resolved(cwd)) :
        IsPrefix(p, cwd) \/
        \E e \in Admin : /\ ~off /\ admin[e].back # Free
                         /\ IsPrefix(admin[e].main, p)
                         /\ IsPrefix(admin[e].back, cwd)

Linked == {cwd \in Dirs : /\ WtLevel(cwd) >= 0
                          /\ Counterpart(cwd, cwd) \in Dirs}

\* The warning names "vaults the main checkout composes with that this
\* worktree cannot reach" (chain.go:170): of the vaults its counterpart in
\* the main checkout composes with, a directory of a worktree finds each,
\* has one of its own in its place, or is warned.  That is so where the
\* counterpart is in no worktree itself: what it would borrow, the warning
\* does not know.
NothingMissed ==
    \A cwd \in Linked :
        LET there == Counterpart(cwd, cwd)
        IN  WtLevel(there) = -1 => \A p \in ToSet(Resolved(there)) :
                \/ p \in ToSet(Resolved(cwd)) \cup Unreachable(cwd)
                \/ /\ IsPrefix(WtMain(cwd), p)
                   /\ Join(WtRoot(cwd), Rel(WtMain(cwd), p)) \in vaults

\* The vaults of the main checkout that the worktree has no other for.
Unshadowed(cwd, p) ==
    IsPrefix(WtMain(cwd), p) =>
        Join(WtRoot(cwd), Rel(WtMain(cwd), p)) \notin vaults

\* A worktree changes which vaults there are, never which of two wins: of
\* those that its directory and the counterpart in the main checkout both
\* compose with, the same is nearer.  That leaves out what the worktree has a
\* vault of its own in place of: where the worktree is inside the main
\* checkout such a vault can come back, further up.
SamePrecedence ==
    \A cwd \in Linked :
        LET here == Resolved(cwd)
            there == Resolved(Counterpart(cwd, cwd))
        IN  Apart(cwd) /\ WtLevel(Counterpart(cwd, cwd)) = -1 =>
            \A i, j \in DOMAIN here : \A k, l \in DOMAIN there :
                /\ here[i] = there[k] /\ Unshadowed(cwd, here[i])
                /\ here[j] = there[l] /\ Unshadowed(cwd, here[j])
                => (i < j <=> k < l)

\* Below d there is no other checkout.
Whole(d) == \A e \in Below(d) \ {d} : git[e] = "none"

\* Nor is there one where the main checkout has what the worktree has.
WholeThere(cwd) ==
    \A d \in Below(WtRoot(cwd)) \ {WtRoot(cwd)} :
        Counterpart(cwd, d) \in Dirs => git[Counterpart(cwd, d)] = "none"

\* cmdWorktree "reports which vaults this worktree uses" (worktree.go:110):
\* its walk downwards names the directories in which a command, walking
\* upwards, would borrow, and no others.  This is about worktrees where
\* neither checkout has another inside it, on the ways the two have in common:
\* the walk skips those, the way up does not.  The code does not have it where
\* SCHAIN_NO_WORKTREE "turns the whole thing off" (README.md:241): the report
\* goes on as before.
ReportIsUsed ==
    \A cwd \in Dirs :
        NearestLevel(cwd) >= 0 /\ Whole(WtRoot(cwd)) /\ WholeThere(cwd)
        => Reported(cwd) \cap Dirs =
               {d \in Below(WtRoot(cwd)) : Pick(d, 0) \notin {None, d}}

\* With borrowing on, which is the default, the report is what is used.
ReportTrue == ~off => ReportIsUsed

\* "Submodules never borrow" (README.md:241): no directory of a submodule
\* stands for a vault of another checkout.  The code does not have it: a
\* submodule inside a linked worktree is taken for part of the worktree.
SubmodulesNeverBorrow ==
    \A cwd \in Dirs :
        Pick(cwd, 0) \notin {None, cwd} =>
            \A d \in Below(WtRoot(cwd)) :
                IsPrefix(d, cwd) => git[d] # "submodule"
=============================================================================
