------------------------------- MODULE Session -------------------------------
(***************************************************************************)
(* A terminal with schain shells and commands in it: entering a shell,     *)
(* reloading it, schain exec, and the set that a shell's wrapper follows   *)
(* with a reload, while the user moves about and changes variables and     *)
(* anybody edits vaults.                                                   *)
(*                                                                         *)
(* The programs of the terminal are a stack of frames, the last one in the *)
(* foreground; each has its directory and its environment, which schain    *)
(* works out again from the previous frame's at every load.  Which vaults  *)
(* a directory has is Resolve's business.  SCHAIN_ACTIVE, SCHAIN_KEYS and  *)
(* what a vault may say under their names are kept apart from the other    *)
(* variables: see Marker.                                                  *)
(***************************************************************************)
EXTENDS Integers, Sequences, FiniteSetsExt, SequencesExt

CONSTANTS
    Dirs, Mains, Admin, Free, None, Events,  \* as in Resolve
    Worktrees,   \* the linked worktrees: each directory's entry
    Keys,        \* names of variables
    Home,        \* among them HOME
    Marker,      \* and one of schain's own, SCHAIN_KEYS
    Literals,    \* texts that vaults and users give to variables
    HomeDir,     \* what HOME is at login
    Unset,       \* no text
    Colons,      \* directories with a colon in their path
    Contents,    \* what the vault files hold at the beginning
    MaxDepth,    \* bound: frames
    MaxLoads,    \* bound: shells entered, commands run, reloads
    MaxChanges   \* bound: variables and vaults changed

ASSUME KeysAssumption == Home \in Keys /\ Marker \in Keys \ {Home}
ASSUME BoundsAssumption ==
    MaxDepth \in Nat \ {0} /\ MaxLoads \in Nat /\ MaxChanges \in Nat

\* A text is a sequence of names, as a directory is.
Texts == Literals \cup Dirs \cup {HomeDir}

\* What a vault has under a key: a text, or a value marked with --expand
\* that stands for ${SCHAIN_DIR} or ${HOME}.
Stored == [kind : {"text", "dir", "home"}, text : Literals]

ASSUME TextsAssumption ==
    Unset \notin Texts /\ Contents \subseteq [Keys -> Stored \cup {Unset}]

\* What Resolve assumes of the tree.
Names == UNION {ToSet(d) : d \in Dirs}
ASSUME DirsAssumption ==
    /\ Dirs \subseteq Seq(Names)
    /\ \A d \in Dirs : \A n \in 0 .. Len(d) : SubSeq(d, 1, n) \in Dirs
    /\ Mains \subseteq Dirs /\ None \notin Dirs /\ Free \notin Dirs
    /\ Admin \cap {"none", "checkout", "submodule"} = {}

\* git worktree add wants an empty directory: no checkout is inside.
ASSUME WorktreesAssumption ==
    /\ DOMAIN Worktrees \subseteq Dirs
    /\ \A d \in DOMAIN Worktrees : /\ Worktrees[d] \in Admin
                                   /\ \A m \in Mains : ~IsPrefix(d, m)

VARIABLES
    vaults, git, admin, off,  \* as in Resolve
    file,     \* each vault's keys
    rooted,   \* the vaults with SCHAIN_ROOT
    frames,   \* the programs of the terminal
    loads,    \* loads so far
    changes   \* changes so far

disk == <<vaults, git, admin, off, file, rooted>>
vars == <<disk, frames, loads, changes>>

R == INSTANCE Resolve

Blank == [n \in Keys |-> Unset]

\* A frame is
\*   cwd      its directory            active  SCHAIN_ACTIVE
\*   env      its variables            keys    SCHAIN_KEYS
\*   wrapped  is it a shell with the schain function
\*   due      has the function to reload now
\* and, for the properties,
\*   own      the variables as the user's own doing would have them
\*   touched  those the user changed since the load
\*   lost     those of the user's that had to make way to a vault's
\*   want     what the vaults said at the load, by key: text, kind and vault
\*   first    the chain the shell was entered with
\*   place    the directory each of its vaults stood for then
Login(d) ==
    LET env == [Blank EXCEPT ![Home] = HomeDir]
    IN  [cwd |-> d, env |-> env, active |-> <<>>, keys |-> {},
         wrapped |-> FALSE, due |-> FALSE, own |-> env, touched |-> {},
         lost |-> {}, want |-> [n \in {} |-> Blank], first |-> <<>>, place |-> <<>>]

\* A shell of an older schain, without SCHAIN_KEYS.
Older(d) ==
    LET defined == {n \in Keys \ {Marker} : file[d][n] # Unset}
    IN  [Login(d) EXCEPT
            !.active = <<d>>, !.keys = None,
            !.first = <<d>>, !.place = [p \in {d} |-> p],
            !.env = [n \in Keys |->
                        IF n \in defined THEN file[d][n].text ELSE @[n]],
            !.want = [n \in defined |-> [text |-> file[d][n].text,
                                         kind |-> "text", vault |-> d]],
            !.lost = defined]

Init ==
    /\ vaults \in SUBSET Dirs
    /\ git = [d \in Dirs |-> IF d \in Mains THEN "checkout"
                             ELSE IF d \in DOMAIN Worktrees THEN Worktrees[d]
                             ELSE "none"]
    /\ admin \in [Admin -> [main : Mains, back : DOMAIN Worktrees]]
    /\ \A d \in DOMAIN Worktrees : admin[Worktrees[d]].back = d
    /\ off \in BOOLEAN
    /\ file \in [Dirs -> Contents \cup {Blank}]
    /\ \A d \in Dirs : file[d] = Blank <=> d \notin vaults
    /\ rooted = {}
    /\ \E d \in Dirs :
          \/ frames = <<Login(d)>>
          \/ /\ d \in vaults /\ \A n \in Keys : file[d][n] # Unset =>
                                                file[d][n].kind = "text"
             /\ frames = <<Login(d), Older(d)>>
    /\ loads = 0 /\ changes = 0

Top == Last(frames)
Below == Front(frames)

\* The program in the foreground waits for its user.
Idle == ~Top.due
-----------------------------------------------------------------------------
(* loadChain, for vaults nearest first                                     *)

\* (defect) a vault with SCHAIN_ROOT is left out itself
CutAbove(paths) ==
    LET roots == {i \in DOMAIN paths : paths[i] \in rooted}
    IN  IF roots = {} THEN paths ELSE SubSeq(paths, 1, Min(roots) - 1)

\* The vaults read: up to the first with SCHAIN_ROOT.
Cut(paths) ==
    LET roots == {i \in DOMAIN paths : paths[i] \in rooted}
    IN  IF roots = {} THEN paths ELSE SubSeq(paths, 1, Min(roots))

Chain(paths) == Reverse(Cut(paths))

\* A stored value as the child gets it.
Expanded(f, p, value) ==
    CASE value.kind = "text" -> value.text
      [] value.kind = "dir"  -> R!VaultDir(f.cwd, p)
      [] value.kind = "home" -> f.env[Home]

\* Every value of the chain is expanded, those that lose included.
ExpandFails(f, c) ==
    /\ f.env[Home] = Unset
    /\ \E i \in DOMAIN c, n \in Keys :
          file[c[i]][n] # Unset /\ file[c[i]][n].kind = "home"

Definers(c, n) == {i \in DOMAIN c : file[c[i]][n] # Unset}

\* (defect) the first vault to define a key keeps it
MergedFirst(f, c) ==
    [n \in Keys |->
        IF Definers(c, n) = {} THEN Unset
        ELSE LET p == c[Min(Definers(c, n))] IN Expanded(f, p, file[p][n])]

\* merge: root-most first, the nearest overwrites.
Merged(f, c) ==
    [n \in Keys |->
        IF Definers(c, n) = {} THEN Unset
        ELSE LET p == c[Max(Definers(c, n))] IN Expanded(f, p, file[p][n])]
-----------------------------------------------------------------------------
(* secretEnviron                                                           *)

\* The inventory as a command reads it; a variable of its name hides it.
Inventory(f) == IF f.env[Marker] = Unset THEN f.keys ELSE None

InventoryFails(f) == f.active # <<>> /\ Inventory(f) = None

Injected(secrets) == {n \in Keys \ {Marker} : secrets[n] # Unset}

Skipped(f, secrets) ==
    {Marker} \cup Injected(secrets)
             \cup (IF f.active = <<>> THEN {} ELSE Inventory(f))

\* (defect) the keys of the previous load are left in
EnvironStale(f, secrets) ==
    [n \in Keys |-> IF n \in Injected(secrets) THEN secrets[n]
                    ELSE IF n = Marker THEN Unset ELSE f.env[n]]

Environ(f, secrets) ==
    [n \in Keys |-> IF n \in Injected(secrets) THEN secrets[n]
                    ELSE IF n \in Skipped(f, secrets) THEN Unset
                    ELSE f.env[n]]

\* (defect) the inventory takes in what was the user's own
InventoryOfAll(f, secrets) ==
    {n \in Keys \ {Marker} : Environ(f, secrets)[n] # Unset}

InventoryOf(f, secrets) == Injected(secrets)

\* What the vaults say, for the properties: the vault that stands for the
\* nearest directory.
Wanted(f, c, place) ==
    [n \in {n \in Keys \ {Marker} : Definers(c, n) # {}} |->
        LET depth(i) == Len(place[c[i]])
            i == CHOOSE i \in Definers(c, n) :
                    \A j \in Definers(c, n) : depth(i) >= depth(j)
            value == file[c[i]][n]
        IN  [text |-> Expanded(f, c[i], value), kind |-> value.kind,
             vault |-> c[i]]]

\* A program started by f with the chain c in its environment.
Started(f, c, wrapped, first, place) ==
    LET secrets == Merged(f, c)
        want == Wanted(f, c, place)
    IN  [cwd |-> f.cwd, env |-> Environ(f, secrets), active |-> c,
         keys |-> InventoryOf(f, secrets), wrapped |-> wrapped,
         due |-> FALSE, own |-> f.own, touched |-> {},
         lost |-> DOMAIN f.want \cup DOMAIN want \cup (f.lost \ f.touched),
         want |-> want, first |-> first, place |-> place]

Places(f, c) == [p \in ToSet(c) |-> R!VaultDir(f.cwd, p)]

\* A passphrase is missing or wrong, ${HOME} is not set, or there is no
\* inventory to tell the keys of the last load by.
Loads(f, c) == ~ExpandFails(f, c) /\ ~InventoryFails(f)

Counted == loads < MaxLoads /\ loads' = loads + 1

\* openChain in the foreground's directory; inherit is whether the command
\* was given without SCHAIN_NO_INHERIT.
Found(inherit) ==
    LET paths == R!Resolved(Top.cwd)
    IN  Chain(IF inherit \/ paths = <<>> THEN paths ELSE <<Head(paths)>>)

Run(c, wrapped) ==
    /\ Idle /\ Counted
    /\ Len(frames) < MaxDepth /\ c # <<>> /\ Loads(Top, c)
    /\ frames' = Append(frames, Started(Top, c, wrapped, c, Places(Top, c)))
    /\ UNCHANGED <<disk, changes>>

\* schain; it refuses in a schain shell.
Enter(inherit) == Top.active = <<>> /\ Run(Found(inherit), TRUE)

\* schain exec; its command may be a shell.
Exec(inherit) == Run(Found(inherit), FALSE)

\* activeChain: a path with a colon falls apart, into what is no vault.
Active(f) ==
    [i \in DOMAIN f.active |->
        IF f.active[i] \in Colons THEN None ELSE f.active[i]]

\* (defect) SCHAIN_ACTIVE is taken for nearest first
ReloadedReversed == Chain(Active(Top))

\* The chain of a reload, unless a vault is gone.
Reloaded == Chain(Reverse(Active(Top)))

CanReload ==
    Top.active # <<>> /\ ToSet(Active(Top)) \subseteq vaults /\ Loads(Top, Reloaded)

Refreshed == Started(Top, Reloaded, TRUE, Top.first, Top.place)

\* exec schain reload, typed or by the wrapper: the new shell takes the
\* place of the old one.
Reload ==
    /\ CanReload /\ Counted
    /\ frames' = Append(Below, Refreshed)
    /\ UNCHANGED <<disk, changes>>

\* When it fails the shell is gone, and it can always fail at a prompt.
ReloadFails ==
    /\ Top.active # <<>> /\ Counted
    /\ frames' = Below
    /\ UNCHANGED <<disk, changes>>

\* schain reload by a script, which has no wrapper: a shell in the shell.
ReloadNested ==
    /\ Idle /\ CanReload /\ Counted
    /\ Len(frames) < MaxDepth
    /\ frames' = Append(frames, Refreshed)
    /\ UNCHANGED <<disk, changes>>

Exit ==
    /\ Idle /\ Len(frames) > 1
    /\ frames' = Below
    /\ UNCHANGED <<disk, loads, changes>>
-----------------------------------------------------------------------------
(* What users do, here and elsewhere.                                      *)

Changing == changes < MaxChanges /\ changes' = changes + 1

Cd(d) ==
    /\ Idle /\ d # Top.cwd
    /\ frames' = Append(Below, [Top EXCEPT !.cwd = d])
    /\ UNCHANGED <<disk, loads, changes>>

\* export and unset, of anything but schain's own
Export(n, text) ==
    /\ Idle /\ n # Marker /\ Top.env[n] # text /\ Changing
    /\ frames' = Append(Below, [Top EXCEPT !.env[n] = text, !.own[n] = text,
                                           !.touched = @ \cup {n}])
    /\ UNCHANGED <<disk, loads>>

\* schain set, unset or history revert by anybody.
Edit(d, n, value) ==
    /\ d \in vaults /\ file[d][n] # value /\ Changing
    /\ file' = [file EXCEPT ![d][n] = value]
    /\ UNCHANGED <<vaults, git, admin, off, rooted, frames, loads>>

\* schain set SCHAIN_ROOT=1 and schain unset SCHAIN_ROOT
EditRoot(d) ==
    /\ d \in vaults /\ Changing
    /\ rooted' = IF d \in rooted THEN rooted \ {d} ELSE rooted \cup {d}
    /\ UNCHANGED <<vaults, git, admin, off, file, frames, loads>>

\* The same from the foreground shell, on the nearest vault, which set makes
\* if there is none: the wrapper reloads afterwards.
SetHere(n, value) ==
    /\ Top.wrapped /\ Idle /\ Changing /\ loads < MaxLoads
    /\ LET paths == R!Resolved(Top.cwd)
           target == IF paths = <<>> THEN Top.cwd ELSE Head(paths)
       IN  /\ value = Unset => paths # <<>> /\ file[target][n] # Unset
           /\ file' = [file EXCEPT ![target][n] = value]
           /\ vaults' = vaults \cup {target}
    /\ frames' = Append(Below, [Top EXCEPT !.due = TRUE])
    /\ UNCHANGED <<git, admin, off, rooted, loads>>

\* rm
RemoveVault(d) ==
    /\ R!RemoveVault(d) /\ Changing
    /\ file' = [file EXCEPT ![d] = Blank]
    /\ rooted' = rooted \ {d}
    /\ UNCHANGED <<frames, loads>>

Next ==
    \/ \E inherit \in BOOLEAN : Enter(inherit) \/ Exec(inherit)
    \/ Reload \/ ReloadFails \/ ReloadNested \/ Exit
    \/ \E d \in Dirs : Cd(d) \/ EditRoot(d) \/ RemoveVault(d)
    \/ \E n \in Keys :
          \/ \E text \in Literals \cup {Unset} : Export(n, text)
          \/ \E value \in Stored \cup {Unset} :
                SetHere(n, value) \/ \E d \in Dirs : Edit(d, n, value)

Spec == Init /\ [][Next]_vars
-----------------------------------------------------------------------------
(* Properties                                                              *)

Want == [text : Texts \cup {Unset}, kind : {"text", "dir", "home"}, vault : Dirs]

\* Every variable keeps its shape, and a program with keys of schain's in its
\* environment has the chain they came from.
TypeOK ==
    /\ vaults \subseteq Dirs /\ rooted \subseteq vaults
    /\ file \in [Dirs -> [Keys -> Stored \cup {Unset}]]
    /\ frames # <<>> /\ frames[1].active = <<>>
    /\ loads \in 0 .. MaxLoads /\ changes \in 0 .. MaxChanges
    /\ \A k \in DOMAIN frames :
          LET f == frames[k]
          IN  /\ f.cwd \in Dirs
              /\ f.env \in [Keys -> Texts \cup {Unset}]
              /\ f.own \in [Keys -> Texts \cup {Unset}]
              /\ DOMAIN f.want \subseteq Keys \ {Marker}
              /\ f.want \in [DOMAIN f.want -> Want]
              /\ f.active \in Seq(Dirs) /\ f.first \in Seq(Dirs)
              /\ f.keys = None \/ f.keys \subseteq Keys \ {Marker}
              /\ f.wrapped \in BOOLEAN /\ f.due \in BOOLEAN
              /\ f.touched \subseteq Keys /\ f.lost \subseteq Keys
              /\ f.wrapped \/ f.keys \notin {None, {}} => f.active # <<>>

\* "Root-most first, nearest wins" (README.md:84) and "reload removes all
\* previously injected keys before adding the current ones" (:58): whatever was
\* loaded, edited, exported and nested before, a variable the user left alone
\* is what the nearest vault said at the load, or else no vault's at all.
EnvIsTheMerge ==
    \A k \in DOMAIN frames :
        LET f == frames[k]
        IN  \A n \in Keys \ f.touched :
                IF n \in DOMAIN f.want THEN f.env[n] = f.want[n].text
                ELSE f.env[n] \in {f.own[n], Unset}

\* The other way round: a variable of the user's goes missing only when a
\* vault defines it now, or did when the shell it comes from was loaded.
OwnKept ==
    \A k \in DOMAIN frames :
        LET f == frames[k]
        IN  \A n \in Keys :
                \/ n \in f.lost \ f.touched
                \/ f.env[n] = f.own[n]

\* "A running schain shell keeps the chain it started with" (main.go:312):
\* wherever it is reloaded and whatever vaults appear, no vault joins it.
ChainKept ==
    \A k \in DOMAIN frames : IsSuffix(frames[k].active, frames[k].first)
-----------------------------------------------------------------------------
(* What the code does not have: see Divergences in the README.             *)

\* Reload re-enters "the subshell for the vault this shell came from,
\* picking up changes made since" (main.go:751): with SCHAIN_ROOT in no vault
\* it reads the whole of the chain the shell started with.
ChainComesBack ==
    Top.active # <<>> /\ rooted = {} /\ ToSet(Top.first) \subseteq vaults
        => Reloaded = Top.first

\* "${SCHAIN_DIR} is the directory in this checkout that borrowed it"
\* (README.md:146): a shell entered in a worktree keeps the worktree's directory
\* for what was borrowed there, after every reload.
DirFollowsVault ==
    \A k \in DOMAIN frames :
        LET f == frames[k]
        IN  \A n \in DOMAIN f.want \ f.touched :
                LET p == f.want[n].vault
                IN  f.want[n].kind = "dir" /\ f.place[p] # p
                        => f.env[n] = f.place[p]

\* "${HOME} your home directory" (README.md:141): not what a vault calls HOME.
HomeIsYours ==
    \A k \in DOMAIN frames :
        LET f == frames[k]
        IN  \A n \in DOMAIN f.want \ f.touched :
                f.want[n].kind = "home"
                    => f.env[n] = HomeDir \/ f.env[n] = f.own[Home]

\* "Changing secrets from inside the subshell just works" (README.md:56): the
\* chain read back from SCHAIN_ACTIVE is the chain that was loaded.
ChainReadable ==
    \A k \in DOMAIN frames : Active(frames[k]) = frames[k].active
=============================================================================
