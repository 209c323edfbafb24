---------------------------- MODULE VaultHistory ----------------------------
(***************************************************************************)
(* What a command does to the keys of one vault: set, unset, history       *)
(* revert, history on/off and history purge.                               *)
(*                                                                         *)
(* A vault is its secrets, the reserved SCHAIN_HISTORY key (how many past  *)
(* values to keep), the reserved SCHAIN_EXPAND key (which keys are marked  *)
(* for expansion) and the kept past states of each key, newest first.  A   *)
(* command opens the file, changes the copy in memory argument by          *)
(* argument, and saves all of it or none.  One command runs at a time:     *)
(* commands that overlap are module VaultStore's subject.                  *)
(***************************************************************************)
EXTENDS Naturals, Sequences

CONSTANTS
    Keys,            \* the keys, the reserved ones apart
    Vals,            \* the values
    Expandable,      \* the values with a ${...} that checkExpand accepts
    DefaultHistory,  \* past values kept per key when nothing is said
    Counts,          \* the numbers SCHAIN_HISTORY is given
    Unset,           \* SCHAIN_HISTORY is not in the vault
    Garbage,         \* SCHAIN_HISTORY holds no count
    Absent,          \* the state of a key that is not in the vault (Gone)
    NoRevert,        \* no revert to undo
    MaxArgs          \* bound: arguments of a set, unset or purge

ASSUME DefaultAssumption == DefaultHistory \in Nat \ {0}
ASSUME CountsAssumption == Counts \subseteq Nat
ASSUME ExpandableAssumption == Expandable \subseteq Vals
ASSUME AbsentAssumption == Absent \notin Vals
ASSUME SettingsAssumption == {Unset, Garbage} \cap Nat = {}
ASSUME MaxArgsAssumption == MaxArgs \in Nat \ {0}

State == Vals \cup {Absent}
Settings == Nat \cup {Unset, Garbage}

\* The vault struct.  history is a map: a key may have no entry in it.
IsVault(v) ==
    /\ v \in [secrets : [Keys -> State], setting : Settings,
              marks : SUBSET Keys, history : {v.history}]
    /\ DOMAIN v.history \subseteq Keys
    /\ v.history \in [DOMAIN v.history -> Seq(State)]

Commands == {"set", "unset", "revert", "switch", "purge"}

VARIABLES
    file,    \* the vault as saved
    mem,     \* the vault the running command holds
    cmd,     \* the running command, or "none"
    args,    \* how many of its arguments it has handled
    owed,    \* ghost: per key, the past states history must begin with
    owes,    \* ghost: the same for the file
    past,    \* ghost: per key, the states replaced since its last purge
    pasts,   \* ghost: the same for the file
    undone   \* ghost: what the last revert replaced, if nothing came after

vars == <<file, mem, cmd, args, owed, owes, past, pasts, undone>>

Live(v) == {k \in Keys : v.secrets[k] # Absent}

\* The past states of a key; a key without an entry has none.
Kept(v, k) == IF k \in DOMAIN v.history THEN v.history[k] ELSE <<>>

\* The first n of a sequence, or all of it.
Take(s, n) == SubSeq(s, 1, IF Len(s) < n THEN Len(s) ELSE n)

\* x in front of the sequence, cut to n.
Push(x, s, n) == Take(<<x>> \o s, n)
-----------------------------------------------------------------------------
(* The operations on the vault in memory.                                  *)

Keep(v) == IF v.setting \in Nat THEN v.setting ELSE DefaultHistory

WithKept(v, k, s) ==
    [v EXCEPT !.history = [x \in DOMAIN v.history \cup {k} |->
                              IF x = k THEN s ELSE v.history[x]]]

\* (defect) the list is never cut
RecordUncapped(v, k) ==
    IF Keep(v) = 0 THEN v
    ELSE WithKept(v, k, <<v.secrets[k]>> \o Kept(v, k))

\* (defect) the oldest are kept and the newest cut
RecordOldest(v, k) ==
    IF Keep(v) = 0 THEN v
    ELSE WithKept(v, k, Take(Kept(v, k) \o <<v.secrets[k]>>, Keep(v)))

\* (defect) with history off, the list is cut to length zero instead of being
\* left alone
RecordWhenOff(v, k) ==
    WithKept(v, k, Push(v.secrets[k], Kept(v, k), Keep(v)))

Record(v, k) ==
    IF Keep(v) = 0 THEN v
    ELSE WithKept(v, k, Push(v.secrets[k], Kept(v, k), Keep(v)))

Put(v, k, val) ==
    IF v.secrets[k] = val THEN v
    ELSE [Record(v, k) EXCEPT !.secrets[k] = val]

SetExpand(v, k, on) ==
    [v EXCEPT !.marks = IF on THEN @ \cup {k} ELSE @ \ {k}]

\* (defect) the key stays in the list of expanded keys
DropKeepsMark(v, k) == [Record(v, k) EXCEPT !.secrets[k] = Absent]

Drop(v, k) == [SetExpand(Record(v, k), k, FALSE) EXCEPT !.secrets[k] = Absent]

\* history on n, or off when n is 0: off cuts nothing.
Switched(v, n) ==
    [v EXCEPT !.setting = IF n = DefaultHistory THEN Unset ELSE n,
              !.history = IF n = 0 THEN @
                          ELSE [k \in DOMAIN @ |-> Take(@[k], n)]]

\* (defect) purge drops the newest past state only
PurgedNewest(v, ks) ==
    [v EXCEPT !.history =
        [k \in {x \in DOMAIN @ : x \notin ks \/ Len(@[x]) > 1} |->
            IF k \in ks THEN Tail(@[k]) ELSE @[k]]]

Purged(v, ks) == [v EXCEPT !.history = [k \in DOMAIN @ \ ks |-> @[k]]]
-----------------------------------------------------------------------------
\* Ghost: what the history of each key owes after v became w: the state that
\* was replaced, then what it owed, as far as the setting goes.
Owing(v, w) ==
    [k \in Keys |->
        IF v.secrets[k] = w.secrets[k] THEN owed[k]
        ELSE IF Keep(v) = 0 THEN <<>>
        ELSE Push(v.secrets[k], owed[k], Keep(v))]

Replacing(v, w) ==
    [k \in Keys |-> IF v.secrets[k] = w.secrets[k] THEN past[k]
                    ELSE past[k] \cup {v.secrets[k]}]

Empty == [secrets |-> [k \in Keys |-> Absent], setting |-> Unset,
          marks |-> {}, history |-> [k \in {} |-> <<>>]]

Init ==
    /\ file = Empty /\ mem = Empty
    /\ cmd = "none" /\ args = 0
    /\ owed = [k \in Keys |-> <<>>] /\ owes = owed
    /\ past = [k \in Keys |-> {}] /\ pasts = past
    /\ undone = NoRevert

\* A command opens the vault.
Open(c) ==
    /\ cmd = "none"
    /\ cmd' = c
    /\ undone' = IF c = "revert" THEN undone ELSE NoRevert
    /\ UNCHANGED <<file, mem, args, owed, owes, past, pasts>>

\* One argument handled: the vault in memory becomes w.
Becomes(w) ==
    /\ mem' = w
    /\ args' = args + 1
    /\ UNCHANGED <<file, cmd, owes, pasts>>

\* set KEY=value: flag is --expand, --no-expand or neither.
SetArg(k, val, flag) ==
    /\ cmd = "set" /\ args < MaxArgs
    /\ flag = "expand" => val \in Expandable
    /\ LET put == Put(mem, k, val)
       IN  Becomes(IF flag = "neither" THEN put
                   ELSE SetExpand(put, k, flag = "expand"))
    /\ owed' = Owing(mem, mem') /\ past' = Replacing(mem, mem')
    /\ UNCHANGED undone

\* set SCHAIN_HISTORY=n, unset SCHAIN_HISTORY: an ordinary put or drop of a
\* reserved key, so nothing is recorded and nothing is cut.
SetSetting(s) ==
    /\ cmd = "set" /\ args < MaxArgs
    /\ Becomes([mem EXCEPT !.setting = s])
    /\ UNCHANGED <<owed, past, undone>>

UnsetSetting ==
    /\ cmd = "unset" /\ args < MaxArgs
    /\ mem.setting # Unset
    /\ Becomes([mem EXCEPT !.setting = Unset])
    /\ UNCHANGED <<owed, past, undone>>

\* unset SCHAIN_EXPAND: every mark goes with the list.
UnsetMarks ==
    /\ cmd = "unset" /\ args < MaxArgs
    /\ mem.marks # {}
    /\ Becomes([mem EXCEPT !.marks = {}])
    /\ UNCHANGED <<owed, past, undone>>

UnsetArg(k) ==
    /\ cmd = "unset" /\ args < MaxArgs
    /\ k \in Live(mem)
    /\ Becomes(Drop(mem, k))
    /\ owed' = Owing(mem, mem') /\ past' = Replacing(mem, mem')
    /\ UNCHANGED undone

\* (defect) the value is put back without keeping the one it replaces
RevertUnrecorded(k, back) ==
    /\ cmd = "revert" /\ args = 0
    /\ back \in 1 .. Len(Kept(mem, k))
    /\ Kept(mem, k)[back] # mem.secrets[k]
    /\ Becomes([mem EXCEPT !.secrets[k] = Kept(mem, k)[back]])
    /\ owed' = Owing(mem, mem') /\ past' = Replacing(mem, mem')
    /\ undone' = [key |-> k, state |-> mem.secrets[k],
                  marked |-> k \in mem.marks]

\* history revert k back.  A key that already is what it was is left alone
\* and nothing is saved.
Revert(k, back) ==
    /\ cmd = "revert" /\ args = 0
    /\ back \in 1 .. Len(Kept(mem, k))
    /\ LET target == Kept(mem, k)[back]
       IN  /\ target # mem.secrets[k]
           /\ Becomes(IF target = Absent THEN Drop(mem, k)
                      ELSE Put(mem, k, target))
    /\ owed' = Owing(mem, mem') /\ past' = Replacing(mem, mem')
    /\ undone' = [key |-> k, state |-> mem.secrets[k],
                  marked |-> k \in mem.marks]

Switch(n) ==
    /\ cmd = "switch" /\ args = 0
    /\ Becomes(Switched(mem, n))
    /\ owed' = IF n = 0 THEN owed ELSE [k \in Keys |-> Take(owed[k], n)]
    /\ UNCHANGED <<past, undone>>

PurgeKeys(ks) ==
    /\ Becomes(Purged(mem, ks))
    /\ owed' = [k \in Keys |-> IF k \in ks THEN <<>> ELSE owed[k]]
    /\ past' = [k \in Keys |-> IF k \in ks THEN {} ELSE past[k]]
    /\ UNCHANGED undone

\* history purge: the whole map is dropped.
PurgeAll == cmd = "purge" /\ args = 0 /\ PurgeKeys(Keys)

\* history purge KEY...: each must have some history.
PurgeArg(k) ==
    /\ cmd = "purge" /\ args < MaxArgs
    /\ k \in DOMAIN mem.history
    /\ PurgeKeys({k})

Save ==
    /\ cmd # "none" /\ args > 0
    /\ file' = mem /\ owes' = owed /\ pasts' = past
    /\ cmd' = "none" /\ args' = 0
    /\ UNCHANGED <<mem, owed, past, undone>>

\* The command ends unsaved: a key that is not there, a step too far, a
\* refused value or prompt, a refused save, or nothing to change.
Fail ==
    /\ cmd # "none"
    /\ mem' = file /\ owed' = owes /\ past' = pasts
    /\ cmd' = "none" /\ args' = 0
    /\ undone' = NoRevert
    /\ UNCHANGED <<file, owes, pasts>>

Next ==
    \/ \E c \in Commands : Open(c)
    \/ \E k \in Keys, val \in Vals, flag \in {"expand", "literal", "neither"} :
          SetArg(k, val, flag)
    \/ \E s \in Counts \cup {Garbage} : SetSetting(s)
    \/ UnsetSetting
    \/ UnsetMarks
    \/ \E k \in Keys : UnsetArg(k)
    \/ \E k \in Keys : \E back \in 1 .. Len(Kept(mem, k)) : Revert(k, back)
    \/ \E n \in Counts : Switch(n)
    \/ PurgeAll
    \/ \E k \in Keys : PurgeArg(k)
    \/ Save
    \/ Fail

Spec == Init /\ [][Next]_vars
-----------------------------------------------------------------------------
(* Properties                                                              *)

TypeOK ==
    /\ IsVault(file) /\ IsVault(mem)
    /\ cmd \in Commands \cup {"none"}
    /\ args \in Nat
    /\ owed \in [Keys -> Seq(State)] /\ owes \in [Keys -> Seq(State)]
    /\ past \in [Keys -> SUBSET State] /\ pasts \in [Keys -> SUBSET State]
    /\ undone \in [key : Keys, state : State, marked : BOOLEAN] \cup {NoRevert}
    /\ cmd = "none" => mem = file /\ owed = owes /\ past = pasts /\ args = 0

\* "Every set and unset keeps the value it replaced" (README.md:165): what
\* the file keeps of a key begins with the states the key was really in,
\* newest first, as many as the settings in force since promise, through any
\* mix of sets, unsets, reverts, switches, purges and failed commands.
HistoryFaithful ==
    \A k \in Keys : owes[k] = Take(Kept(file, k), Len(owes[k]))

\* "history purge drops what is stored" (README.md:191): the file keeps no
\* state of a key from before its last purge, so no revert brings it back.
PurgeForgets ==
    \A k \in Keys : \A i \in 1 .. Len(Kept(file, k)) :
        Kept(file, k)[i] \in pasts[k]

\* history.go:96 takes the newest past state of every key in the map: no key
\* is ever stored with an empty list.  It also lets an emptied vault go back
\* to the schain1 format (vault.go:240).
NoEmptyHistory ==
    \A v \in {file, mem} : \A k \in DOMAIN v.history : v.history[k] # <<>>

\* A change leaves no more past states of its key than the vault keeps, and
\* history on N leaves no more than N of any key.
CapHolds ==
    [][/\ \A k \in Keys :
            mem'.secrets[k] # mem.secrets[k] /\ cmd' # "none" /\ Keep(mem) > 0
                => Len(Kept(mem', k)) \in 1 .. Keep(mem)
       /\ cmd = "switch" /\ args' > args /\ Keep(mem') > 0
                => \A k \in Keys : Len(Kept(mem', k)) <= Keep(mem')
      ]_vars

\* "A key that is not there has no business in the expand list"
\* (vault.go:425), or setting it again would inherit the mark.
MarksLive == file.marks \subseteq Live(file)

\* Through any mix of commands, saved or failed, the vault in memory and the
\* file keep their shape, no list in the history map is empty, and the file's
\* expand list names only keys the vault has.
WellFormed == TypeOK /\ NoEmptyHistory /\ MarksLive

\* "Reverting is an ordinary change, so the value it replaces is kept too and
\* the revert can itself be reverted" (history.go:171): with history on, the
\* state a saved revert replaced is the next one to revert to.  With history
\* off it is kept nowhere, although kept states can still be put back.
RevertIsKept ==
    cmd = "none" /\ undone # NoRevert /\ Keep(file) > 0 =>
        /\ Kept(file, undone.key) # <<>>
        /\ Kept(file, undone.key)[1] = undone.state
-----------------------------------------------------------------------------
(* What the code does not have: see Divergences in the README.             *)

\* "undo with: schain history revert" (history.go:191): a revert of a revert
\* puts the key back as it was, and a key that was expanded is expanded.  The
\* mark is lost when the first revert removed the key.
UndoRestoresMark ==
    [][\A k \in Keys :
         /\ cmd = "revert" /\ undone # NoRevert /\ undone.key = k
         /\ mem'.secrets[k] # mem.secrets[k] /\ cmd' = "revert"
         /\ mem'.secrets[k] = undone.state
         => (undone.marked => k \in mem'.marks)]_vars
=============================================================================
