# A TLA+ model of schain

schain keeps environment variables in encrypted vault files (`.schain`), one
per directory, and composes the vaults from the current directory up to the
root into the environment of a shell or a command. There is no daemon and no
lock: every invocation is a process of its own that opens vaults, works in
memory, writes a file or replaces itself with another program, and ends.
What is shared between invocations is the vault files, the key cache of the
operating system, git's metadata, and the environment a schain shell hands to
its children.

This directory holds the specifications of its parts, the TLC configurations
that check them on small instances and the proofs that hold for all of them.

    tlc -workers 2 -config VaultStoreRaces.cfg MCVaultStore.tla
    tlapm VaultStoreProofs.tla

## The system

| part | code | state it keeps | operations |
| --- | --- | --- | --- |
| vault file | `vault.go` | the file; in memory: secrets, history, key, salt, revision, stamp of the file as opened | open with a passphrase or a cached key, check, save (temporary file, fsync, rename), rekey, close |
| commands on one vault | `main.go`, `history.go` | the opened vault | `set`, `unset`, `passwd`, `history revert/on/off/purge` |
| history and expand list | `vault.go`, `expand.go` | past states per key, newest first; `SCHAIN_HISTORY`; `SCHAIN_EXPAND` | record, put, drop, setExpand, trim, purge |
| OS key cache | `cache*.go` | per vault path: salt, key, expiry | store, load, forget, the kernel's timeout and rollback, the macOS sleeper |
| batches | `chain.go` | the vaults still shut, what was typed, what was done, skipped, failed | cached pass, source pass, prompts, typed passes, tally |
| passphrase sources | `askpass.go` | none | run the helper, read the file, or prompt |
| chain | `chain.go` | the opened vaults, root-most first; the passphrases known so far | load, try known passphrases, prompt, wipe, merge |
| resolution | `chain.go`, `worktree.go` | none (reads directories and git metadata) | walk up, walk down, borrow from the main checkout, warn, report |
| sessions | `main.go`, `subshell.go` | `SCHAIN_ACTIVE`, `SCHAIN_KEYS`, the variables in the environment | enter, reload, exec, the wrapper's reload after `set` |
| references in values | `expand.go` | none | scan, vet, substitute, list |
| the rest | `term*.go`, `cache_security.go`, `install.sh`, `Makefile` | terminal modes | line input, quoting, packaging |

How they meet. A command finds its vault by *resolution*, opens it with the
*key cache* or a *passphrase source*, changes *history and expand list* in
memory and saves the *vault file*; `passwd` and `forget` take entries out of
the cache and `remember` puts them in. `remember --all` runs the open-and-store
of many vaults as a *batch* on several goroutines, with a callback per vault.
A *session* resolves, loads a *chain*, substitutes the *references* in its
values and hands the merge to a shell, and `reload` does it again from inside.

What is hard, and what makes each part correct:

- *vault file*: processes interleave between open, check and rename, are
  refused, fail, are killed, lose power, and are run again. No edit that was
  reported saved may vanish except where the code says so; nothing that was
  refused may appear; no file may be torn or sealed with a key that does not
  belong to its salt; a refusal must have a cause and re-running must help.
- *history*: long mixes of commands and settings. What is kept must be the
  real recent past of the key, purge must forget, a revert must be kept like
  any change, the expand list must follow the keys.
- *batches*: goroutines finish in any order, any vault may fail in its own
  way. Questions and result must not depend on the order; the batch must end.
- *key cache*: expiry, sleepers, rollbacks and updates of one entry by
  several processes, system call by system call; a key must never be used
  after its time nor once it was withdrawn, nor vanish before.
- *chain*: the list of known passphrases is rearranged while it is walked;
  nobody is asked twice, and on every way out every buffer is overwritten.
- *resolution*: git metadata that was copied, moved, pruned, repaired or
  nested; which vaults count, in which order, and what is said about them.
- *sessions*: shells in shells, reloads elsewhere and later, keys of an
  earlier environment to take out, the user's own to leave in.

## Modules

| module | what it is |
| --- | --- |
| `VaultStore` | concurrent commands on one vault file, faults, the cached key |
| `VaultHistory` | what each command does to keys, history and expand list |
| `EachVaultPromise` | abstract: which questions a batch asks, what it reports |
| `EachVault` | the batch as it runs: passes, goroutines, semaphore, tally |
| `KeyPromise` | abstract: when a remembered key may be handed out |
| `KeyringLinux` | the cache in the Linux kernel keyring, system call by system call |
| `KeychainDarwin` | the cache in the macOS keychain, with the sleepers |
| `UnlockPromise` | abstract: which questions opening a chain asks, what is open after |
| `Unlock` | `loadChain` and `unlockKnown`: buffers and the list of known passphrases |
| `Resolve` | which vaults a directory has, over a changing tree of checkouts |
| `Session` | shells and commands with a chain in their environment; uses `Resolve` |
| `ExpandScan` | the `${...}` references in a value and their three users |
| `*Proofs` | theorems about `VaultStore`, `VaultHistory` (and `ExpandScan`), `EachVault`, `KeyringLinux`, `KeychainDarwin`, `Unlock`, `Resolve`, `Session` |
| `MC*` | the modules with the sets and symmetries TLC runs them on |

The modules cut the system where the code does. `VaultStore` names edits by
the attempt that made them and says nothing of keys; `VaultHistory` runs one
command at a time over keys and values; because a save replaces the whole file
or nothing, and a refused command starts over from the file, the two compose:
each attempt of `VaultStore` whose edit lands is one saved command of
`VaultHistory`, applied to the vault it opened. `KeyringLinux` and
`KeychainDarwin` say when a cached key is there; that it fits the salt of the
file is `VaultStore`'s business. `EachVault` and `Unlock` take the vaults'
passphrases and cached keys as given. `Session` instantiates `Resolve` over
its own disk. The three abstract specifications know nothing of how their part
is built; `BatchKeepsPromise`, `KeyringKeepsPromise`, `KeychainKeepsPromise` and
`ChainKeepsPromise` in the detailed modules state the refinements.

Operators marked `(defect)` are plausible bugs of the code; no specification
uses them. Substituting one for the operator it follows makes a stated property
fail (`PROJECT.json` pairs them), so each property depends on what the code
does. Definitions named `ghost` in a declaration record what happened for the
properties; no guard reads them.

### VaultStore

`file` is what is at the path, `survivors` the set of files a power loss could
leave there, `cached` the cache entry of the vault. Per process: `pc` (where in
its command), `op` and `force` (the command, `SCHAIN_FORCE`), `stamp` and `mem`
(the fields of `vault`), `durable` (its temporary file is synced), `outcome`.
The rest are ghosts: what landed, what was denied, which losses the code admits.

| action | code |
| --- | --- |
| `Start`, `StartFails` | `findVault`, `mustFindVault` |
| `Create` | the creating branch of `cmdSet`, `newPassphrase`, `newVault` |
| `Unlock`, `UnlockFails` | `unlock`, `tryCache`, `readVaultFile`, `openVault`, `openVaultKey`, `decrypt` |
| `Edit`, `NothingToDo` | the changes of `set`, `unset`, `history ...`; `cmdPasswd` with `rekey` and `forgetCache`; the early return of `historyRevert` |
| `Check`, `Refuse` | `checkUnchanged` |
| `WriteTemp`, `Sync`, `Rename` | the rest of `save` |
| `Store`, `Forget` | `rememberOne`, `cmdForget` |
| `Abort` | any error or kill before the rename |
| `Remove`, `PowerLoss`, `JournalCommit` | outside the program |

A file's `writer` stands for its nonce: two files are equal byte for byte only
when one save wrote them, which is how `sha256` is used. A power loss after the
rename and before the journal commit can leave an older file, since the
directory is not synced; this is excused in `NoLostUpdate`, not hidden.

- `NoLostUpdate`: a landed edit is in the file unless it was forced out,
  dropped in the window between another's check and rename (the code's own
  comment), removed, or rolled back by a power loss.
- `FailedNotWritten`: the edit of a refused or failed attempt is in no file.
- `Openable`: no file is torn (`Intact`), and the body's key belongs to the
  header's salt.
- `RefusalIsReal`: who was refused was overtaken.
- `RevAdvances`: a save nothing raced carries the next revision, and none
  when it falls back to the format without history.
- `Converges`: users who re-run what was refused or failed all succeed.

### VaultHistory

`file` and `mem` are a vault on disk and in the running command: `secrets`,
`setting` (`SCHAIN_HISTORY`: absent, a count, or garbage), `marks`
(`SCHAIN_EXPAND`), `history`. `Record`, `Put`, `Drop`, `SetExpand`, `Keep`,
`Switched`, `Purged` are the methods; `SetArg`, `UnsetArg`, `SetSetting`,
`UnsetSetting`, `UnsetMarks`, `Revert`, `Switch`, `PurgeAll`, `PurgeArg` handle
one argument of a command, `Save` and `Fail` end it. Ghosts follow what each
key's history owes (`owed`), every state it had since its last purge (`past`)
and what the last revert replaced (`undone`).

- `HistoryFaithful`: the kept list begins with the states the key really was
  in, newest first, as many as the settings in force since promise.
- `PurgeForgets`: nothing kept is older than the last purge of its key.
- `RevertIsKept`: with history on, what a saved revert replaced is the next
  state to revert to.
- `CapHolds`: the lists obey the setting after each change of their key and
  after `history on N`.
- `WellFormed`: types; no key has an empty list (`historyShow` indexes it, and
  an emptied vault can go back to the old format); what is expanded exists.

Setting `SCHAIN_HISTORY` directly does not trim, so the cap is an action
property and not an invariant of all lists.

### EachVault and EachVaultPromise

Vaults are numbered in path order. `vault`, `source` and `fails` fix what the
run meets: which passphrase opens each vault (or a cached key, or nothing: a
damaged file), what a configured source answers for each, whose callback
fails. `phase` is the pass, `left` the vaults still shut, `work` where each
goroutine is, `typed` what was typed for each vault asked about, and `done`,
`skipped`, `err` the fields of `vaultRun` (`done` as a set instead of a count,
`err` as the vault whose failure it is). `Take`, `Open`, `Use` are a goroutine
of `forEach`; `AfterCached`, `AfterSource`, `AfterTyped` the tallies of `pass`
with what `eachVault` does next; `AskAnswer`, `PromptDies` the prompt.

`EachVaultPromise` has neither workers nor passes: a question is about the
first vault nothing known opens, and the report is a formula over the vaults
and the answers. `BatchKeepsPromise` states that `EachVault` implements it,
with the report appearing when `phase` becomes `over`.

- `NewestSuffices`: the claim by which a pass tries one passphrase only.
- `OnePromptPerPassphrase`: a second question about the same passphrase comes
  only after a wrong answer to the first.
- `Accounted`: every vault is done, skipped or, in a run an error stopped,
  left out. `HandedOnce` (proved): the callback gets no vault twice.
- `Ends`: the batch comes to its end.

The model shows one thing worth knowing: a vault whose own question was
answered wrongly is given up for good, even when a passphrase typed later for
another vault would open it (`Opened` of `EachVaultPromise` says so).

### KeyringLinux, KeychainDarwin and KeyPromise

`KeyPromise` is the cache as its users see it: an *offer* (what one `remember`
stored) may be fetched while it is there, is used only while its time is ahead,
and once withdrawn never comes back, because no offer is made twice.

`KeyringLinux` has the kernel's `keys` (payload, timeout, permissions, revoked)
and the `link` from the vault's description to one of them, as
`cache_linux.go` uses them.

| action | code |
| --- | --- |
| `Remember`, `Add` / `AddFails` | `rememberOne`, `payloadWithExpiry`, `add_key` in `cacheStore` |
| `SetPerm`, `SetTimeout` / `SetTimeoutFails` | the two `keyctl` calls after it |
| `Revoke`, `Unlink` | the rollback `cacheStore` defers |
| `Open`, `Read` / `ReadFails`, `Check` | `cacheLoad`, `parseCachePayload` and `tryCache` |
| `Forget`, `ForgetSearch`, `ForgetUnlink` | `cacheForget`, for `forget`, `passwd` and `tryCache` |
| `Tick`, `Kill` | the clock, a kill at any step |

Every call can fail for a reason outside the model (`Fault`). What the kernel
does to an earlier timeout when a key is updated is left open, since the code
sets it anew in either case.

`KeychainDarwin` has the `items` of the vault's service by account and the
`sleepers`; one use of the `security` tool is one step (`Store`, `Schedule`,
`Open`, `Check`, `Drop`, `Wake`), and `Logout` kills the sleepers. A read or a
delete names the service only and takes any one item of it. A call can fail here
too, a sleeper's included.

- `NeverLate`: no command opens a vault with a key past its time.
- `WithdrawnIsGone`, `ForgottenIsGone`: a command begun after a forget (on
  Linux also: after a failed and rolled back remember) does not get a key from
  before it.
- `UsableEverywhere` (Linux): a finished remember's key is open to every
  session while it is linked.
- `KeptUntilForgotten`: what a remember without a duration stored stays. On
  macOS the code does not have it, see Findings.
- `SleeperDeletes` (macOS): a started sleeper deletes in the end.
- `KeyringKeepsPromise`, `KeychainKeepsPromise`: both implement `KeyPromise`.

With two values of `$USER`, macOS does not have `ForgottenIsGone` (see
Divergences), so its run has one account.

### Unlock and UnlockPromise

One command opens the vaults `1 .. N`, nearest first. `typed` are the buffers
typed into, `known` their numbers in the order `unlockKnown` tries them, `wiped`
those overwritten. `Cached`, `Source`, `Try`, `Prompt`, `PromptDies` are the
branches of `unlockKnown` in the loop of `loadChain`; `Opened` puts the vault on
the chain and stops at `SCHAIN_ROOT`; `Fail` and `Done` are the cleanup
on error and the deferred wipe. `ToFront` is the `copy` that rearranges the list in place.

`UnlockPromise` has no list: an answer given once opens every vault it fits, a
question is about the first vault that nothing known opens, and the chain at
the end is determined by the vaults. `OnePrompt`, `NothingLeft` (buffers
overwritten; nothing open after a failure) and `ChainKeepsPromise` are checked.

### Resolve

The state is the tree: `vaults`, what `git` is in each directory, git's `admin`
entries (`.git/worktrees/*`) and `SCHAIN_NO_WORKTREE`. An entry is a file of one
checkout and stays that checkout's; what changes is the directory it names back,
`Free` when it is not there. When a checkout is moved away or removed with what
is around it, its entries go too (`Without`). People and git change it (`AddWorktree`, `Clone`,
`Submodule`, `Copy`, `Move`, `Repair`, `Prune`, `RemoveWorktree`, `PutVault`,
`RemoveVault`); schain only reads it, so its functions are operators:
`MainOf` (`findWorktree`), `Resolved` (`resolveVaults`), `VaultDir`
(`vaultDirs`), `Unreachable` (`warnUnreachable`), `Reported` (`cmdWorktree`
with `walkVaults`), and each property quantifies over the directory the command
is run in.

- `NearestFirst`: every vault stands for a directory at or above the current
  one, another for each, in their order. `Apart` excepts a worktree around its
  own main checkout.
- `OnlyRegistered`: what is borrowed is so by a registration that names a
  directory above, whatever was copied or moved.
- `SamePrecedence`: a worktree changes which vaults there are, not which of two
  wins; `Unshadowed` excepts a vault the worktree has another in place of, which
  can come back further up.
- `NothingMissed`: what its counterpart composes with is found, replaced or
  warned about, where the counterpart does not borrow itself.
- `ReportTrue`: while borrowing is switched on, the report and the borrowing agree
  where no checkout is nested in the worktree, nor in the main checkout where the
  worktree has a directory too. `ReportIsUsed` is the same whatever
  `SCHAIN_NO_WORKTREE` says. `cmdWorktree` does not read it (`NearestLevel` has no
  switch, `WtLevel` has), so the code does not have that: see Divergences.

The premises are the code's, not the model's: each names a state that can be
reached and in which the code does otherwise (see Divergences).

### Session

`frames` are the programs of one terminal, each with its directory, variables,
`SCHAIN_ACTIVE` and `SCHAIN_KEYS`; `file` and `rooted` what the vaults say.
`Merged` is `merge` with `expandValue`, `Environ` is `secretEnviron`, `Cut` the
stop at `SCHAIN_ROOT`, `Reloaded` is `activeChain` with `loadChain`. `Enter`,
`Exec`, `Reload`, `ReloadFails`, `ReloadNested` and `Exit` are the commands;
`SetHere` is a `set` from inside, after which the wrapper reloads (`due`); `Cd`,
`Export`, `Edit`, `EditRoot` and `RemoveVault` are what users do. A shell of an
older schain, without `SCHAIN_KEYS`, is an initial state. Ghosts keep the user's
own variables apart (`own`, `touched`, `lost`), what the vaults said (`want`) and
the chain and places at the entry (`first`, `place`).

- `EnvIsTheMerge`: a variable the user left alone is what the nearest vault
  said at the load, or no vault's at all.
- `OwnKept`: a variable of the user's is missing only where a vault's took its
  place.
- `ChainKept`: no vault joins the chain of a running shell.

### ExpandScan

A value is a sequence of symbols, a name of the closed set being one, and so is
the text a name stands for. The module is a set of functions and has no steps:
`Scan` is `scanRefs`, `Expand` is `expandValue`, `Accepts` is `checkExpand`,
`Listed` is `expandRefs`; its variables are one value and the texts, which the
properties are about. `MCExpandScan` types values symbol by symbol for TLC.

`ExpandsAsWritten` compares `Expand`, which scans and copies left to right, with
a recursive definition of what a value means: what is before the first
reference, what that stands for, and what the rest means. `CallersAgree` says
that a value that was vetted comes out changed and without a reference
(`AcceptedIsResolved`), and that the listing names exactly the references
written in the value (`ListedIsExpanded`). Vetting sees the value and not the
texts, so the first of these asks texts to be `Plain`, with no `$` and no `{` in
front: with another text a reference can come about that nobody wrote (see
Divergences).


## Runs

| cfg | bounds | shows |
| --- | --- | --- |
| `VaultStoreRaces` | 3 processes, 2 runs each (the second after a refusal, or first), all commands, forced or not, 1 fault | `NoLostUpdate`, `Openable`, `RefusalIsReal`, `FailedNotWritten`, `RevAdvances` |
| `VaultStoreConverges` | 3 processes, `set`, 4 runs, 1 fault, fair | `Converges` |
| `VaultHistoryKeys` | 2 keys, 1 value, default 3, counts 0, 1, 3, 2 arguments | `WellFormed`, `HistoryFaithful`, `PurgeForgets`, `RevertIsKept`, `CapHolds`; no deadlock |
| `EachVaultBatch` | 3 vaults, 2 cores, 2 passphrases, typed and source, fair | `NewestSuffices`, `Accounted`, `OnePromptPerPassphrase`, `BatchKeepsPromise`, `Ends` |
| `KeyringLinuxRaces` | 2 processes, 2 runs each, no duration or 2, time to 2, 1 failing call or kill | `NeverLate`, `WithdrawnIsGone`, `UsableEverywhere`, `KeptUntilForgotten`, `KeyringKeepsPromise` |
| `KeychainDarwinRaces` | 2 processes, 2 runs each, 1 account, no duration or 1, time to 2, 1 failure or kill, fair | `NeverLate`, `ForgottenIsGone`, `KeychainKeepsPromise`, `SleeperDeletes` |
| `KeychainDarwinKept` | 1 process, 2 remembers, no fault | violates `KeptUntilForgotten` |
| `UnlockChain` | 4 vaults, 3 passphrases, any cached, damaged, rooted | `OnePrompt`, `NothingLeft`, `ChainKeepsPromise` |
| `ResolveTrees` | 6 directories, 1 checkout at first, 2 entries, all events | type, `NearestFirst`, `NothingMissed`, `OnlyRegistered`, `SamePrecedence`, `ReportTrue` |
| `SessionShells` | a checkout and a worktree, 3 names, 3 frames, 3 loads, 1 change | type, `EnvIsTheMerge`, `OwnKept`, `ChainKept` |
| `SessionBorrowed` | the same, 2 loads, one marked value | violates `DirFollowsVault` |
| `ExpandScanValues` | all values of up to 8 symbols out of 5; `HOME` unset, a letter, `}` or `${` | `ExpandsAsWritten`, `CallersAgree` |

Why these are enough.

- *VaultStore*: two processes make every lost-update race; the third adds a
  save inside another's window and a create beside a remove. Two runs show an
  edit of a refused run leaking into the next. One fault reaches each step of
  the save and each outcome of a power loss. For `Converges`, of four runs two
  can be refused because the two others landed, and one lost to the fault.
- *VaultHistory*: with two keys an operation on one can disturb the other; one
  value and absence make every change; 0, 1 and 3 are off, the smallest cut
  and the default, so lists are cut, left, and filled again.
- *EachVault*: a vault that waits for the semaphore, two that share a
  passphrase with one between them, and a pass in which one opens, one stays
  shut and one is damaged.
- *caches*: two processes put any step of one command between two of another;
  with two runs each, a forget ends before an open begins, and a remember
  follows a remember. A deadline of 2 passes between reading an entry and using
  it, and before and after the kernel acts on it. One fault fails each call,
  or the rollback after a kill of the other.
- *Unlock*: with four vaults and three passphrases the list has three entries
  when the last is moved to the front, and one vault may be out of reach, root
  or damaged.
- *Resolve*: the checkout has a directory in it, which can be a submodule, a
  clone or another worktree, and so has the place of the worktree; two entries
  let one be reused while a stale `.git` file still names it. This tree is too
  small for the states `Apart` and `Unshadowed` except to make a difference; the
  proof needed both, and the traces are under Divergences.
- *Session*: entering, a reload and an exec in any order over one edit or
  export, in the checkout and in the worktree, `SCHAIN_ROOT` and `HOME` among
  what may change, starting from a login shell or from a shell of an older
  schain.
- *ExpandScan* (`Length`, `Typed`): the longest reference has four symbols, so
  that eight hold two in a row, one inside another, and what is left at either
  end; `${` as the text of `HOME` is half a reference.

Where a theorem covers the property the bound is only TLC's: `MaxRuns`,
`MaxFaults`, `MaxTime`, `MaxChanges` and the like are guards of the models, and
the proofs do not use them.

Deadlock is checked in `VaultHistoryKeys`, where some command can always be
given. The other systems stop by design or at a bound: processes out of runs,
a batch that is over, a tree with nothing left to do, a value that was expanded.
Symmetry (over processes, keys, passphrases, git's entries) is used in runs
without liveness only.

Fairness. `VaultStore!Fairness` has a started command run on (nothing in schain
waits for another process) and its user re-run it, which the refusal message
asks for. `EachVault!FairSpec` has runnable goroutines run, as Go's scheduler
does, and the user answer a prompt or end it. `KeychainDarwin!FairSpec` has time
pass, commands run on, and a sleeper whose time has come wake. Faults, kills,
logouts and what users begin are never fair.

## Proofs

The theorems hold for every value of the constants, from the named assumptions
of the modules only (model values differ from each other and from data, bounds
are naturals). Each module has its inductive invariants as conjunctions of named
parts, a lemma per action, and short temporal proofs at the end.

`VaultStoreProofs`. `Intact` needs `Whole` (who is about to rename has synced).
`Openable` needs `KeysMatch` (files, survivors and every vault in memory agree).
`FailedNotWritten` needs `Ended` (a verdict belongs to a run that is over, and
no run has both) and `OnlyLanded` (files hold landed edits only; a process adds
at most its own): the edit of a running attempt may be in memory, and only
`Ended` tells that it is not denied yet. `NoLostUpdate` needs `Tracked` (memory
holds every edit of the file it was opened from, which is still there or the
process was overtaken), `WindowCovers` (from check to rename the file holds
nothing the process would drop except what landed since) and `Marked` (its own
edit is in memory). `RefusalIsReal` follows from `Tracked`. `RevAdvances` needs
`RevKept` (memory has the revision of the file opened) and `WindowStill` (while
nothing lands after the check, that file is the present one or was removed).

`VaultHistoryProofs`, second part. `Sound` says of a vault and its ghosts that
marks are live, lists nonempty, owed states are a prefix of the kept ones and
kept ones come from the past; `IInv` holds it of the file and of the vault in memory,
since `Save` copies one onto the other and `Fail` back. Lemmas about `Take`,
`Push` and prefixes carry `HistoryFaithful` through the cuts. `CapHolds` rests
on `Replaces`: an argument of a command replaces and records one key's state,
or none. `RevertIsKept` rests on `Revertible`: what a revert replaced stays the
newest kept state until a command of another kind.

`EachVaultProofs`. `Tried` (nothing typed opens a vault still shut, but for the
passphrase this pass is trying) gives `NewestSuffices`; `Ordered` (questions
were about vaults before those still shut) with `Tried` gives
`OnePromptPerPassphrase`; `Calls`, `Books` and `Control` tie the goroutines to
what is written down and give `HandedOnce` and `Accounted`. `Refines` adds
`Found` (a goroutine past opening its vault is where that leads to) and, for
each phase, that the books hold what `EachVaultPromise` computes; a pass's tally
then is a question, a report or a stutter of the abstract run. `Min` is proved
to be a least element from the well-foundedness of the naturals.

`KeyringLinuxProofs`. A lemma splits every step into those that put a payload in
one key (`AddsAt`) and those that leave payloads where they are and revive
nothing (`Steady`). `LateInv` (`AllDue`: every payload, in a key or in a reader's
hand, carries the deadline its remember named) gives
`NeverLate`; `FreshInv` (a payload is in one key, the one its remember works on,
and no two remembers have the same) with `CleanInv` (a rollback counted as done
did revoke) and `GoneInv` gives `WithdrawnIsGone`; `WideInv` gives
`UsableEverywhere`, `KeepInv` gives `KeptUntilForgotten`. The refinement maps the
reachable keys' payloads to offers.

`KeychainDarwinProofs` follows the same lines with items for keys; `GoneInv`
assumes one account, which is what `ForgottenIsGone` needs.

`UnlockProofs`. `Inv`: `known` lists exactly the buffers typed so far, each
once, however the walk rearranges it, and those the walk has passed do not fit
the vault. `Ref` adds that each vault opened fits what is known, which gives the
refinement.

`ResolveProofs`. The inductive invariant `Shape` is small: git's files keep
their kinds, an entry names a directory or none. What schain computes from them
is the work, and that is proved of every tree of that shape, so of every state.
`MinIsLeast` and `AscendingLists` give the order of a set of levels;
`MovedElements`, `MovedBack` and `MovedOrder` say that standing for a directory
in another checkout can be undone and keeps the order of paths; `PickIs`,
`ResolvedIs` and `ResolvedSet` say what a level adds. `NearestFirst` needs that
no vault is first met at one level and then borrowed at a higher one
(`OwnThenBorrowed`, where `Apart` comes in), so that it stands for the level that
adds it (`StandsFor`). `NothingMissed` follows each vault of the counterpart to
the level that borrows or replaces it (`BorrowedFrom`), or above the main
checkout, where the warning looks. `SamePrecedence` says at which level an
unshadowed vault is found (`FoundThere`) and that these levels are in the order
of the main checkout (`NearerThere`). `ReportTrue` compares what is walked down
with what is borrowed on the way up, while borrowing is switched on and where a
worktree with no other checkout in it is one worktree throughout (`WholeIs`,
`BorrowsIs`).

`SessionProofs`. `Good` holds of every frame of the stack: what its inventory
lists was a vault's, and a variable of the user's is missing or foreign only
where a vault's came in its way. `Stack` says the login shell at the bottom has
no chain, so a reload never takes the last frame away. `SInv` adds the files
(`Disk`) and, for every frame, `Loaded`: what its vaults said is what is in its
variables, its chain is an end of the one it was entered with, and the vaults of
that one stood for ever nearer directories (`Placed`). `Placed` of a new chain is
`DepthsFall` of `ResolveProofs`, taken over by `INSTANCE`; that a reload, which
reads the chain back reversed and may be cut, still has it is `ReloadedPlaced`.
With it the last vault of a chain to define a key, the one `merge` lets win, is
the one of the nearest directory (`NearestDefines`, `MergedIs`). The worktrees of
`Session` are given and stay, with no main checkout inside
(`WorktreesAssumption`: `git worktree add` wants an empty directory); how they
come to be otherwise is `Resolve`'s matter.

The first part of `VaultHistoryProofs` is about `ExpandScan`, for values of any
length and any texts (`ValuesAndTexts`), so for those `VaultHistory` calls
`Expandable`. There is no behaviour to be invariant: what is proved is
what recursive functions compute. The library's induction theorems take a
predicate as a parameter; here induction is over a set of positions instead,
from its least element (`Downwards`, `Upwards`, from the well-foundedness of
the naturals), which also gives that the recursive functions exist
(`ScanDefined`, `MeaningDefined`, `ExpandDefined`). `ScanIs` is what the rest
uses of the scan: its references are a chain, each the first that begins after
the one before ends, and none begins after the last. `MeaningAt` takes the
meaning apart along that chain; `WrittenUpTo`, upwards over it, says that what
is written so far followed by what the rest means is what the value means, and
`FailsWhole` that both fail on the same references. For `AcceptedIsResolved`,
`NothingTogether` shows that no reference begins in what is before one, its
text or on their seams, and `CleanBefore` goes down the chain with it. For
`ListedIsExpanded`, a written name that is not inside another reference is found
at the first reference that does not end before it (`InOrder`, `FirstEnding`,
`WrittenListed`), and what is scanned is written outside all others
(`ListedWritten`).

Model-checked only: `Converges`, `Ends`, `SleeperDeletes`, which are liveness
under fairness, out of the prover's reach. Every other property of a passing run
is a theorem.

## Findings

Two runs show the code doing other than it says.

- `KeychainDarwinKept` violates `KeptUntilForgotten`. Nothing cancels the
  sleeper of an earlier `remember 30m`, and it deletes by service name
  (`cache_darwin.go:58`), so it also deletes what a later `remember` without a
  duration stored, against "no passphrase until forget" (`main.go:555`).
- `SessionBorrowed` violates `DirFollowsVault`, which is about vaults that were
  borrowed when the shell was entered. On reload the chain comes from
  `SCHAIN_ACTIVE` but the directories of borrowed vaults from the present one
  (`chain.go:155`): enter in a worktree, `cd` out of it, reload, and
  `${SCHAIN_DIR}` is the main checkout's directory, against "the directory in
  this checkout that borrowed it" (`README.md:146`).

## Divergences

Further disagreements between code and documentation that the models show. Each
is a property in the section "What the code does not have" of its module, or a
property of a run without its premise; adding it to a cfg makes TLC print the
trace.

- `VaultStore!RememberedUntilForgotten`. `cmdPasswd` drops the cached key
  before it saves (`main.go:486`); when the save is refused or fails, the key is
  gone though it still opens the vault. "After `remember`, every schain command
  on that vault runs without prompting" (`README.md:260`).
- `VaultHistory!RevertIsKept` without `Keep(file) > 0`. With history off and
  values still kept, `historyRevert` puts one back through `record`, which
  returns early (`vault.go:394`), so what it replaces is kept nowhere. "The
  revert can itself be reverted" (`history.go:171`).
- `VaultHistory!UndoRestoresMark`. A revert to a point where the key was absent
  takes it out of the expand list (`vault.go:429`); the undo announced at
  `history.go:191` brings back the value without the mark.
- `KeyringLinux!TimeoutMatches`. The payload (`cache_linux.go:75`) and the
  timeout (`cache_linux.go:97`) are set by two calls: two overlapping remembers
  can leave the payload of one with the timeout of the other. "On Linux the
  kernel enforces the timeout" (`README.md:273`). `NeverLate` holds all the same,
  because the payload has its own deadline.
- `KeyringLinux!KeptUntilForgotten`, which is about a remember nobody overlaps,
  does not hold when an `open` overlaps it: `tryCache` deletes whatever entry
  there is (`cache.go:82`) after it found the one it had read too old, so the
  entry of a remember in between is lost.
- `KeychainDarwin!ForgottenIsGone` with two accounts. Items are stored under
  `$USER` (`cache_darwin.go:39`) and deleted by service only, one per call
  (`cache_darwin.go:78`): remembered under two values of `$USER`, a vault keeps
  one item after a `forget` that reported success.
- `Resolve!SubmodulesNeverBorrow`. `resolveVaults` does not stop at a submodule
  on its way to the linked worktree (`chain.go:99`), so a submodule's directory
  in a worktree stands for a vault of the main checkout. "Submodules never
  borrow." (`README.md:241`).
- `Resolve!ReportIsUsed`, which is `ReportTrue` whether or not borrowing is
  switched on. `cmdWorktree` finds the worktree with `findWorktreeFrom`
  (`worktree.go:120`), which does not read `SCHAIN_NO_WORKTREE`: with the variable
  set and a vault in the main checkout, a worktree's report lists it as "from the
  main checkout" (`worktree.go:167`) and no command borrows it (`chain.go:98`),
  against "reports which vaults this worktree uses" (`worktree.go:110`) and "turns
  the whole thing off" (`README.md:241`).
- `Resolve!ReportTrue` without its premises `Whole` and `WholeThere`. `cmdWorktree` skips nested checkouts
  on its walk down (`chain.go:213`), the way up does not: a vault borrowed inside
  one is missing from the report.
- `Resolve!NothingMissed` without its premise. `warnUnreachable` walks above the
  main checkout without borrowing (`chain.go:179`); where the main checkout is
  inside another worktree, what it borrows there is not warned about, against
  `chain.go:170`.
- `Resolve!NearestFirst` without `Apart`. A registered worktree can end up around
  its main checkout: it stays behind when the checkout is removed, is moved, the
  checkout is cloned again inside it, and `git worktree repair` (whose entry was
  reused meanwhile) makes it valid. A vault of the main checkout that was met on
  the way up as its own is then also borrowed for the worktree's root, which
  overwrites the directory it stands for (`chain.go:129`) and not its place.
- `Resolve!SamePrecedence` without `Unshadowed`. With a checkout at the top, a
  worktree in `x/w` and vaults at the top, in `x` and in `x/w/x`, the directory
  `x/w/x` has its own vault, the top's, borrowed for `x/w`, and then `x`'s, met
  on the way up: the vault that `x/w/x` has one of its own in place of is back,
  behind the one it overrides in the main checkout.
- `Session!ChainComesBack`. `cmdReload` writes back only the vaults it got to
  before `SCHAIN_ROOT` (`main.go:764`, `chain.go:317`): set `SCHAIN_ROOT`,
  reload, unset it, and the vaults above do not come back until the shell is
  left. `main.go:751` says reload picks up "changes made since".
- `Session!HomeIsYours`. `expandOne` takes `HOME` from the environment it runs
  in (`expand.go:55`), inside a schain shell the vaults': a second load expands
  `${HOME}` to a vault's `HOME`. "Your home directory" (`README.md:141`).
- `Session!ChainReadable` with a directory in `Colons`. `SCHAIN_ACTIVE` joins
  paths with `:` and `activeChain` splits them again (`chain.go:654`) without
  quoting, so a shell entered below a directory with a colon in its name cannot
  be reloaded.

- `ExpandScan!AcceptedIsResolved` without `Plain`. `checkExpand` vets the value
  alone: `$${HOME}` is accepted, and with a `HOME` of `{x}` a child gets `${x}`,
  the "${...} left sitting in a child's environment" (`expand.go:126`) that
  vetting is meant to prevent. No such `HOME` is likely; the theorem needs the
  premise.

## Not modelled

Cryptography (a key opens what it sealed), JSON (a map round-trips; strings
that are not UTF-8 do not, and are not represented), time stamps and authors of
revisions, listings and messages, size limits other than as failures, file
modes, temporary files a kill leaves behind, the text of the generated rc files
and prompts, which shell is started, looking a command up in `PATH`, terminal
modes and line input, the installer. They are formatting, I/O or a library's;
where their failure matters it is a failing step of a model. The quoting of a
`security` command is a conversion that can refuse, which is one of
`KeychainDarwin`'s failures.

Of git and the file system: symbolic links, bare repositories, moving a main
checkout. Of the environment: `SCHAIN_*`
markers written by hand, and setting `SCHAIN_EXPAND` by hand, which can name
absent keys and of which the code does not claim otherwise. A reboot, which
empties the kernel's keyring, only ends what `Forget` ends.

## Plan

What is left to do, in order of use:

1. One model of `remember` and `passwd` together with the cache's system calls,
   composing `VaultStore` and `KeyringLinux`; each has the other's part as one
   step now.
2. Larger trees for `Resolve` (a worktree of a clone inside a worktree), which
   take TLC out of the time a run should need.

Modules to be proved about use recursive functions or folds, never `RECURSIVE`.
