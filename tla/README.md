# Vault Spend: TLA+ models, model checking and proofs

Vault Spend is a desktop budgeting application: a Rust core (`src/core`, SQLite or SQLCipher),
a Tauri shell (`src/src-tauri`) that owns the open profile, and a React page (`src/src`).  This
directory models the parts of it whose correctness depends on order: what happens on disk when
a profile is encrypted, re-keyed or decrypted and the process dies in the middle, what
happens in memory when a lock, a command and a network answer meet, what a folder of
backups is worth when writing, trimming and copying them is interrupted, what a long history of
ledger commands leaves of balances and pairs, and what a phone keeps of profiles it may read.

* [Running it](#running-it)
* [Inventory of the system](#inventory-of-the-system)
* [Protection: files and kills](#protection-files-and-kills)
* [The open session: threads, locks and clients](#the-open-session-threads-locks-and-clients)
* [Backups: naming, retention and second copies](#backups-naming-retention-and-second-copies)
* [The ledger: balances, pairs and statements](#the-ledger-balances-pairs-and-statements)
* [The phone: saved copies and who may read](#the-phone-saved-copies-and-who-may-read)
* [What the runs found](#what-the-runs-found)
* [What is proved](#what-is-proved)
* [What is not modelled](#what-is-not-modelled)
* [Plan](#plan)

## Running it

    tlc -workers 2 -config MCProtection_kills.cfg MCProtection.tla   # one run
    tlapm ProtectionLifecycle_proofs.tla                             # the proofs
    tlapm ProtectionWork_proofs.tla
    tlapm Backups_proofs.tla
    tlapm Session_proofs.tla
    tlapm Ledger_proofs.tla
    tlapm LedgerBalances_proofs.tla
    tlapm LedgerHistory_proofs.tla
    tlapm Phone_proofs.tla

`PROJECT.json` lists every run with its module, its configuration and what it is expected to do,
the map from each definition to the lines it stands for, the hazards, the mutants and the
theorems.  A *mutant* is an operator written next to the definition it replaces, changed the way
a plausible bug would change it; the property it is listed with is violated when it takes the
definition's place.

## Inventory of the system

| Part | State | Operations | What is hard | What makes it correct |
|---|---|---|---|---|
| Profile protection (`protection_transition.rs`, `protection_lifecycle.rs`, `protection_commands.rs`, `protection_leftovers.rs`) | database files, key files, `backups/`, `backups/protected/`, staging folder, `profiles.json`, `config.json`, three journals | enable, change password, recover by code, remove; recovery of each at launch and before each new change; deleting leftovers | a kill between any two file operations; every I/O error; journals resolved at a much later launch | the registry always names a database that opens; no work is lost; no half-done change stays; backups stay readable |
| Session runtime (`runtime.rs`, `startup.rs`, `command_thread.rs`, `config.rs`) | the slot (nothing, locked, open) behind a mutex, session revision, notice; path and generation beside it | select, unlock, switch, create, add, relocate, restore, convert, change password, selector | the path, the generation and the slot change one after the other with no common lock | they agree again when the command ends, whatever ran between |
| Automatic locking (`auto_lock.rs`) | armed timer (profile, generation), lock requests | arm, disarm, timer, window or session event, manual lock | a request waits for the mutex while a command replaces the session | a request locks its own session or nothing; an open protected profile is always armed; the final backup has its key |
| Live price refresh (`commands/investments.rs`) | session stamp held across the network wait | refresh | the session changes while the network answers | prices reach only the database they were asked for |
| Phone API (`mobile_api.rs`) | session stamp of a request, projection, first frame | snapshot | queue wait, network wait, time limit | a phone receives only the open profile it asked for |
| Backups (`backups.rs`) | timestamped copies and their key files, a second copy folder | create, due check, prune, mirror, restore | kills between key and database; clock changes; a full folder | listed backups are complete; restoring is reversible |
| Credential attempts (`protection_session.rs`) | failures, cooldown, in-flight reservation, setup token | check, begin and finish setup | concurrent checks, panics | one check at a time, cooldown honoured, tokens used once |
| Registry (`profiles.rs`, `config.rs`) | `profiles.json`, `config.json` | add, rename, delete, repoint, commit of each change | two files that disagree after a kill | the registry decides |
| Ledger (`core/src/store/transactions.rs`, `transfers.rs`, `transaction_account_move.rs`, `sign_flip.rs`) | rows with revisions, transfer links, rejected and dismissed pairs, applied payments | create, edit, delete, restore, link, suggest, apply, move, flip, delete an account | long sequences of legal calls; a review that goes stale | a row is in one transfer; both sides of a payment leave and come back together; a move does what its review showed |
| Balances (`accounts.rs`, `checkpoints.rs`, `historical_move.rs`, `maintenance.rs`) | opening balances, checkpoints, the versions that record what each counted | type a balance, roll forward, correct by a move or a flip | several saved balances of one day; balances built on balances | a saved balance is what its record says; a roll-forward changes no balance; a typed balance is the one shown |
| Imports (`importer.rs`, `import_resolution.rs`, `store/imports.rs`) | batches, review tokens | preview, resolve, commit, undo | the same file twice, a session change in between | no row twice, undo removes what was imported |
| Statements (`commands/statements.rs`, `statement_review.rs`, `store/reconcile.rs`) | review session, ticks, finished reconciliations | tick, finish by hand, review, finish a statement | edits during a review; investment and balance statements in any order | a row is settled once; ending balances add up; a statement settles what its review showed |
| Phone pairing and server (`mobile_devices.rs`, `mobile_api.rs`, `mobile_server.rs`) | open pairings, devices, grants, names and numbers | invite, redeem, approve, complete, revoke, delete a profile | lost answers; a profile id that comes back | nothing may read a deleted profile; a name stands for one profile; a code registers one device |
| Phone application (`mobileRepository.ts`, `mobileConnection.ts`, `mobileSession.ts`, `MobileOfflineApp.tsx`) | saved copies, removal fence, cookie, whether access is remembered | refresh, pair, remove, forget | two tabs; every await | a removed copy does not come back; a copy is replaced only by a newer one |
| Desktop page (`src/src/App.tsx`, `financialReads.ts`, ...) | read generations | read, invalidate | late answers | no figure of another profile or of an older state |
| Updater (`updater/*`, `core/src/update_manifest.rs`) | staged download | check, download, apply | interrupted downloads | only a verified package is applied |
| Reports, budgets, rules, insights, schema, comparisons, device settings | tables | SQL and arithmetic | little ordering | arithmetic |

How they meet: a command of the page runs alone on the command worker (`command_thread.rs`).  It
locks the runtime mutex for as long as it reads or replaces the session; the automatic-lock
timer, the window-event thread and asynchronous commands take the same mutex between two of its
steps.  A protection change is one such command: it writes files under the guard, commits by
replacing `profiles.json`, drops the guard, and then makes the new database the open one.
Backups are taken by commands and by the final step of a lock.  The phone server hands its
projections to the command worker.

## Protection: files and kills

`ProfileFiles` holds the disk of one profile and the process state.  `EnableProtection`,
`RotateKey` and `RemoveProtection` are the three changes with their recoveries, one action per
file operation.  `ProtectionLifecycle` composes them with launches, kills, opening, closing, locks that waited for a
change, edits, backups, leftovers and deletion of the profile, and states the properties.
`ProtectionInvariants` and, built on it, `ProtectionWork` are the inductive invariants,
`ProtectionLifecycle_proofs` and `ProtectionWork_proofs` the proofs and `MCProtection` the instance
TLC checks.

**State.**  A database file is what it opens with: a data key (DEK), plaintext, torn (half
written) or absent.  A key file is the DEK it wraps.  `saved[p]` counts the edits the database at
`p` holds and `latest` those the user was told are saved.  `prot[b]` and `staged[b]` are a backup's
database and its key file; `ej`, `rj` and `mj` are the three journals with exactly the fields the
code writes.  `pc`, `cont` and `job` are the process: what it executes, where recovery returns to
and the locals of the running change; a kill resets them and leaves the rest.

**Actions.**  Each program counter is the point before one file operation of the code; `*Fails`
actions are its error branches, `*Killed*` a kill in the middle of an export.  `cont` tells the
four callers of a recovery apart: the launch chain (an error stops it on the error page, pc
`"blocked"`), the start of the next change (an error ends it), the unwinding of a failed change
(errors ignored), and the completion after the hot swap (errors logged).  `DeletesOpenFiles` is
the platform: Windows refuses to delete a database that is open, macOS does not, and the code
contains error paths that only one of them takes.

Commands and changes run one at a time on the worker; a lock thread does not.  A change holds the
session mutex until it has committed, so a lock that waited for it runs between the commit and the
activation of the new database, or while the change cleans up after that (`WaitingLock` at the
program counters of `LockMeanwhile`).  In the first case its last backup is of the old database
under the old key, and lands in the folder the rotation has just re-protected.  The journal does
not know of it and goes without it.  `RotationCoversBackups` therefore speaks of the backups listed
at the commit: all are in the journal, and all of these are under the new key when it goes.  The
one left over stops the next change of the password, which is what `own_backup_blocks_change`
prints.  An unprotected profile is never armed for locking, so enabling has no such lock.

| Run | Question |
|---|---|
| `protection_kills` | With kills anywhere and every error up to the commit: does the registry's database always open, is the last edit in it, is the session on it, is nothing half done left once the journals are resolved, does every backup keep a readable copy, does a deleted profile keep its file, and does a change of the password commit with every listed backup in its journal and end with each of them under the new key? |
| `protection_faults` | With every error of the code, after the commit too, where open files can be deleted: does the registered database open outside the assumption the theorem makes, and does a launch resolve every journal unless it is killed again or stopped by an error? |
| `own_backup_blocks_change`, `deleted_profile_loses_file` | Statements of the documentation and comments that the code does not keep; see below. |

**Bounds.**  Three keys, two backups, three names per family and one edit (`protection_kills`):
three keys allow enable, change, remove and enable again, the shortest history in which keys of
different periods meet; two backups let a kill separate one that is done from one that is not; a
third name is needed when two leftovers occupy the lower ones; one edit tells a stale database
from the current one.  The number of kills and launches is not bounded.  `protection_faults`
uses two keys and one backup with every kind of error.  Keys and backups are
interchangeable and `protection_kills` uses that symmetry; `protection_faults`, which checks a
liveness property, does not.

**Fairness.**  Weak fairness of `Work`, the steps the running process takes by itself: a thread
that is not killed executes its next file operation.  Nothing is assumed of the user, of errors
or of kills.

**Simplifications.**  A kill inside an atomic replacement is a kill before or after it
(`fsutil.rs` renames a complete file).  Deletions the code marks as best effort are assumed to
succeed except where the fault kind `"move"` or an open file says otherwise.  Backups are converted in any order (the
code goes newest first).  Whether a daily backup is due is a free choice.  A backup appears
complete: its own steps are in `Backups`.  A registry without an entry stands for the default entry the code
synthesises.  A damaged journal or registry is not modelled.  The mirrored copies in a second
folder do not take part in a change.  Creating a profile already protected is an initial state.
Edits are those of the worker's commands.  The live-price refresh (`commands/investments.rs`) and
the reminder thread (`background.rs`) also write to the open database, outside the worker, and can
do so between the commit of a change and its activation: such a price or reminder mark lands in
the database that is retired.  `NoLostWork` and `NoSessionLeftBehind` leave them out; the
price is fetched and the reminder shown again.  The refresh against a replaced session is in
`SessionClients`.

## The open session: threads, locks and clients

`SessionState` holds what the threads share, `SessionCommands` the commands of the worker,
`AutoLock` the timer and the three lock threads, `SessionClients` the price refresh and the phone,
and `SessionRuntime` composes them and states the properties; `MCSession` is the instance and
`Session_proofs` the proofs.

**State.**  `slot`, `revision`, `notice` and the mutex `holder` are `AppRuntime`; `generation` and
`dbPath` are the atomics and the path of `AppPaths`; `timer` is the armed timer; `file`, `dek` and
`created` are as much of the disk as tells one database from another.

**Actions.**  A command is the sequence of its steps that other threads can see (`Activate`,
`ChangeProgram`, `RelocateProgram`, ...), in the order of the code; `CommandStep` executes the
first.  A step that takes the mutex waits for it; an error branch drops the rest.  A lock request
reads path, generation and profile, waits for the mutex, looks again, and then retires the
session.  The refresh and the phone request keep the stamp they were given and compare it.

| Run | Question |
|---|---|
| `session_lock` | Between any two steps of any command and any lock: does a lock end only the session it was meant for, is an open protected profile always armed (or its lock under way), do slot, path and registry agree when the command ends, does a notice wait only for its profile, is every encrypted backup beside the key that opens it, does every command end, and does a lock asked for the open session end it? |
| `session_clients` | With errors of the registry, of opening and of backups: do prices reach only the database they were asked for, and is a phone sent only the database that is open when the frame leaves, of the profile it asked for while every entry of the list names a database of its own? |
| `lock_undone`, `removal_takes_default_entry` | Statements of the documentation and the tests that the code does not keep; see below. |

**Bounds.**  Two profiles (one of them the default an unknown path is taken for), two databases
each, no new command from generation 2 and no selector change from revision 3: enough for a lock
request that outlives two replacements.  `removal_takes_default_entry` has three of each: the
relocation and the removal both write a new database.  The proviso of `PhoneGetsOpenProfile` is
about such histories, which the two databases of `session_clients` do not allow; it also holds
with three databases and three generations when only the phone and the worker's own lock run
(15 million states, too many to keep as a run).  The initial state ranges over every set of protected
profiles and over a profile that is not yet registered.  The runs stop at these bounds, so
deadlock is not checked in them; `CommandsReturn` is the property that would notice a real one.
Only one event thread delivers window and system events, so one thread stands for both; the timer
thread and the worker's own lock command are the other two.  The two clients change nothing the
other reads, so `session_clients` does not follow histories in which both are in flight
(`OneClient`).

**Fairness.**  The worker and each lock thread keep running when they can; a thread that waits
for the mutex gets it when it stays free.  The timer may fire late or never, the user may do
nothing, the network may stay silent.

**Simplifications.**  Deadlines, warnings and recorded activity are left out: an armed timer may
fire at any time.  Commands that are refused before they change anything are absent.  The page
offers the profile selector only when nothing is open.  Creating the first profile of an empty
registry is not modelled.  Recovering a profile by its code looks like unlocking it and then
changing the password.  Broadcasts, the tray and the status texts are left out.  The check of
an expected session revision that page requests carry (`request_session.rs`) is not modelled.

## Backups: naming, retention and second copies

`Backups` is `backups.rs` with the commands of `commands/files.rs` that use it; `MCBackups` is the
instance and `Backups_proofs` the proofs.

**State.**  `dbs[folder][name]` is what the database of a backup holds and `keys[folder]` the names
whose key file exists, for the profile's own folder and the second one.  A name is a reading of the
clock and a suffix.  `live` is what the open database holds, `job` the locals of the command that
runs.  A command holds the session from beginning to end, so there is one job; a kill may come
between any two of its file operations and forgets it.

**Actions.**  `BackUpNow`, `BackUpIfDue` and `Restore` begin with a staged copy under the first
free name; a restore has extracted the chosen backup before that.  Then the key file and the
database are renamed into place (`PublishKey`, `PublishDb`), the files beyond the newest `Keep`
are listed and deleted, key first, each deletion best effort (`ListExcess`, `PruneKey`, `PruneDb`),
and the same steps run in the second folder when there is one (`CopyAgain`, `CopyStage`, ...).
`*Fails` are the error branches: a failure in the second folder never fails the backup.
`SetCopyDir` copies the newest listed backup before it remembers the folder.
`OtherProfileCopies` is another profile that uses the same second folder, and `ClockMoves` the
local time, which may go back.

| Run | Question |
|---|---|
| `backups` | With kills and errors at every step: are the newest backups all restorable, does a file that is not never suppress the daily backup, is no backup replaced, is what is reported as made and as copied there, does a restore give what was chosen and leave what it replaced in a backup? |

**Bounds.**  Two kept backups stand for fifteen: the interesting cases are below, at and above the
limit, and four names exist.  Two readings of the clock give "earlier", "same" and "later"; two
names per reading make a taken name and a suffix happen; two contents tell a restored database
from the one it replaced.  They are interchangeable and the run uses that symmetry.  Two names per
reading also means that the suffixes `_10` and `_2`, which sort the other way round as text, never
meet.  When the names of a reading are used up the model's commands wait, which the code's do not:
the clock must move first, so deadlock is not checked.

**Fairness.**  None: every property here is a safety property.

**The clock.**  Retention goes by name, which is local time.  With a full folder and a clock that
went back, a backup is the oldest from the start and is deleted by its own retention, after which
the command reports it as made; if the database then cannot be deleted although its key file was,
`mirror_backup` copies it without a key and reports success.  A restore in that state replaces
data that no backup holds, where `backups.rs:521-522` and Help (`src/src/HelpView.tsx:1564-1565`) call
restoring reversible.  `ReportedIsListed`, `CopiedIsThere` and `RestoreReversible` therefore carry
exactly that exception, "unless `Keep` later names are there", and hold everywhere else.

**Also seen while modelling.**  A kill between the two renames of a second copy leaves a key file
that makes choosing the folder again fail under that name, until a newer backup exists
(`name_is_taken`).  Profiles that share a second folder trim each other's copies.

**Simplifications.**  The extraction and verification of a staged copy is one step that succeeds or
fails.  The end of a restore (key file, `config.json`, opening) is one step that succeeds or leaves
the old database; the session side of it, with the lock threads, is `RelocateProgram` and its
neighbours in `SessionCommands`.  The other profile's backup is taken at once.  Safety copies made before an
update, exported packages, debris of the staging folder and the health check of the second folder
are left out.

## The ledger: balances, pairs and statements

`LedgerState` is the tables of one open profile, with the triggers that stamp a row's revision;
`Checkpoints` (typed balances, roll-forward, versions), `LedgerRows` (single rows, flips),
`Transfers` (links, suggestions, applied payments, deleting an account), `AccountMoves` (plan,
review and commit of a move) and `Reconciling` (ticks, manual and statement reconciliation) are the
commands, each one extending the one before; `Ledger` composes them, `MCLedger` is the instance.
The proofs are `Ledger_proofs` (pairs, settled rows, sides of a payment), `LedgerBalances_proofs`
(sums, and what saved balances record) and `LedgerHistory_proofs` (statements, roll-forward, typed
balances and moves).

**State.**  `rows` are the transactions by id, `None` once really deleted; `resets` the saved
balances and `versions` what each of them recorded of what it counted and of the version it was
built on; `links`, `rejected`, `dismissed` and `payments` are the pairs; `recons` the finished
reconciliations; `review` and `statement` the two things a person may have under review while the
rest changes.  `BalanceAsOf` is `account_balance_as_of`.

**Actions.**  A command holds the state's lock from beginning to end and is one action, guards and
refusals included.  The two reviews are two actions with anything in between: `ReviewMove` keeps
what it showed as a token and `CommitMove` computes it again; `ReviewStatement` keeps a signature
of the account and `FinishStatement` compares it.  `AccountMoves` is the planner of
`historical_move.rs`: which saved balances a move touches, whether their record can be believed,
and the corrections, which follow the chain of balances built on one another (recursive functions
over the checkpoint ids, as the code's loop in creation order).

| Run | Question |
|---|---|
| `ledger` | After any edits, flips, typed balances, roll-forwards and moves, is a saved balance what its record says, is a typed balance the one shown, does a roll-forward change none, does a move leave the balance its review showed, today and on every day of the destination?  Are pairs never half there, and do the sides of a payment leave and come back together?  Is a row settled once, do ending balances add up, does a statement settle only what its review showed? |
| `payment_applied_twice` | A statement the code does not keep; see [What the runs found](#what-the-runs-found). |

**Bounds.**  A history is about one group of commands (`Scopes`): balances and moves, pairs and
account deletions, reconciliations, or everything together, with at most `MaxWork` commands of 2, 4,
4 and 2; a roll-forward and the next day are not counted.  Three days (two of them one month, so
the roll-forward happens twice), three rows, of which one to three are there at the start, one
amount each way, one balance to type, two accounts at a time of three kinds.  Two moves and a
roll-forward in between is what it takes to correct a balance that was built on a corrected one;
four pair commands apply, link, unlink and delete, or, from the one-row table, apply a payment,
apply another to the row it made, and delete; four reconciliation commands are two statements with
an edit between.  The bounds end the histories, so deadlock is not checked.  No fairness: the ledger
never does anything by itself.

**Assumptions of the instance.**  What TLC evaluates and the proofs use.  `LedgerAssumption`: amounts
are nonzero integers, bounds are naturals, and `None` is none of the values it stands beside.
`TablesAssumption`: a starting table has finitely many accounts, at most `MaxRows` rows, of days
the model knows, and at most one balance typed for an account (`UNIQUE(account_id, period)` of
`balance_resets`); statements end on integer days.

**Ending balances.**  `EndingBalancesAddUp` speaks of any two finished records of an account: the later
ending balance is the earlier start and everything settled from there on, each row once.  Two
conditions are the code's: the records were finished in date order (the start of a statement is
found by date, so one finished late is not behind those after it), and each was finished while the
rows settled before it still amounted to what they did then.  The second is the history field
`asSettled` of a record: what investment statements settled is read from the rows as they are
(`change_settled_since`), and a person may edit a settled row.

**Simplifications.**  A loan's principal parts, splits, tags, refunds, categories and investment
holdings are left out (that an investment statement checked share counts is one Boolean); a
description is "entry" or "payment", which is as much as the duplicate key tells apart here.  The
read-back of a committed move and the answer to its retried operation id are left out, and so is
the end of a review by time.  New rows are dated today or on day 0.  Imports are the initial rows.

**Seen while modelling**, and outside what the properties promise: (a) a date edited across a
saved balance counts twice or not at all (`accounts.rs:117-121` says so) and can later make a move
of that row refused as damage; (b) a flip corrects saved balances by the dates of the rows alone,
so also for rows a balance never counted (`sign_flip.rs:106-109`); (c) a flip also changes a
balance that a person confirmed during a move; (d) deleting an account fails while one of its rows
is linked; (e) undoing a payment fails after its record is gone when its row is linked or has
itself been applied, and leaves the row as an ordinary one; (f) a move whose answer was lost and is
retried after midnight is refused as a different operation; (g) a pair a person unlinked is linked
again by the application when both signs are flipped, since rejections name a direction; (h) the
application links pairs by a rule that is not the one suggestions are ranked by; (i) of a row that
one payment made and another was made from, only the later payment's row is deleted along with it
(`transactions.rs:748-770`), although the comment at 694-701 says the other side always is: the
page does not list generated rows, so a person does not build such a chain, and `TwinsFollow`
speaks of the payments outside one (`OnlyPayment`).

## The phone: saved copies and who may read

`PhoneState` is what the desktop and the phone's browser keep, `DeviceGrants` the desktop's
commands on pairings, devices and grants, `SavedCopies` the transactions on the browser's storage,
`PhoneTabs` the tabs; `Phone` composes them, `MCPhone` is the instance.  `CopyRegister` is the
abstract specification; `Phone_proofs` proves that it is implemented, and what is granted and named.

**State.**  `devices`, `names` and `pairs` are the registry and the open pairings of
`mobile_devices.rs`; `copies`, `fence`, `active` and `remembered` are the IndexedDB of the phone,
shared by its tabs, and `cookie` the one cookie; `refresh[t]` and `user[t]` are what a tab is doing,
with the values it read before an await and uses after it.  `listed` is the profile list,
`backup` its copy `profiles.json.bak`, `onDisk` whether `profiles.json` exists (without it the list
is one Default profile).  An internal id can come back: `born` counts the profiles that have had it,
`bearer` says which of them has it, or had it last, and `lost` remembers those that an earlier list
took off.

**Actions.**  Between two awaits is one action.  A refresh asks for the status, chooses, prepares,
asks for the snapshot, receives, reads the saved copy, encrypts, saves with compare-and-swap and
shows; a pairing redeems, polls and remembers; removal of one copy and of all access move the fence.
On the desktop: begin, decide, cancel, revoke, remove a grant, delete and create a profile (the
internal id comes back), any other write of the list (`RewriteList`), a year without use, the reset
of all trust, and both remedies for a damaged list: starting a new one (`ResetRegistry`, which drops
devices, names and pairings with it) and putting the earlier one back (`RestoreList`, which leaves
them).  `GiveUp` and `EndUser` are every refusal, lost
request or answer and time limit, at any step; the desktop acts on requests whose answer is lost.
The desktop's restart is `CancelPairings` with `GiveUp`.

| Run | Question |
|---|---|
| `phone` | Does the phone implement `CopyRegister`: does nothing begun before a removal bring a copy or access back, is a copy only replaced by a newer one of its identity?  Is the copy shown first a saved one?  May nobody read a deleted profile, or the next one with its id?  Does a name stand for one profile, and a number mean one snapshot and a code one device? |

**Refinement.**  `CopyRegister` has the copies, whether access is remembered, and the attempts no
removal has ended.  The mapping takes copies and `remembered` as they are, and as attempts every
refresh and pairing whose fence is the current one (`Live`); the desktop, the cookie, numbers and
tokens are internal.  `SavedCopiesKept` is the abstract specification as a property of `Phone`.

**Bounds.**  Three groups of histories: two tabs against each other with no desktop command, two
with two commands, one with four; one profile and two grants of it (so its name and epoch change),
two pairings, two snapshots of a grant, one removal.  Two tabs are what a stale compare-and-swap
takes.  The tabs are interchangeable and the run uses that symmetry.  `TwoAtATime` keeps the
histories with desktop commands to two things under way (in one tab when there are four commands)
and to one snapshot of a grant, and only those with four commands start with, or make, an earlier
list (a profile granted after the copy was made, that copy put back and a new profile with the id
takes four).  Deadlock is not checked: the bounds end the histories.

**An earlier list.**  `restore_registry_backup` puts `profiles.json.bak` back and touches neither
grants, names nor pairings.  A profile made and granted after that copy leaves the list while its
readers and its name stay; a later profile with the same id (the same name and second, or the
Default profile) gets both, and copies of the two are saved under one name.  The properties say so:
`NoReadersOfDeleted` allows readers of an unlisted profile only when an earlier list took it off
(`lost`), and `OneProfilePerName` does not count a profile that was lost.  No doc or comment speaks of
grants after this remedy, so there is no finding; the comment on `reset_grants`, the other remedy's
step, names exactly this danger.

**Simplifications.**  Encryption and validation of a snapshot are left out.  The damage of the list
is part of its remedy, and that no profile may be open then is left out (it only allows more).
`start_with_new_data_file` and `locate_data_file` point an entry, and so its name, at another
database: a "profile" here is an entry of the list, and what it shows after such a command is
whatever database its person chose.  The registry's size
limit and the rate limits are failures that `GiveUp` covers.  The installation identity is part of
the reset.  The reads that `StatusArrives` combines are of one storage without an await that
another tab could use differently.  With this desktop the "approve the new epoch" branch is
unreachable, because name and epoch are drawn together; it is in the model and leads to no save.

**Seen while modelling.**  After forgetting, the late logout revokes whichever device the cookie
names by then; a delayed status or snapshot answer sets the cookie back to its own token after a
new pairing; a lost answer to the completion leaves a device that nobody holds and that counts
towards the limit of 32 until it lapses; after a failed "forget all" the page shows nothing saved
until it is reloaded, although the copies are kept.

## What the runs found

Each is a run that expects a violation; TLC prints the history.

1. **`own_backup_blocks_change`** (`protection_lifecycle.rs:203`).  A change of the password opens
   every listed backup with the present key and fails on the first it cannot open.  Enabling,
   removing and enabling again leaves such a backup.  So does a kill of an enable between the
   conversion of a backup and the next journal write (`protection_transition.rs:145`): recovery
   deletes only journalled pairs.  And so does a lock that waited for the change before: it takes
   its last backup of the old database between the commit and the activation
   (`protection_commands.rs:275-278`, `auto_lock.rs:349-392`).  That is the shortest history, the
   one TLC prints.  Help promises that the profile's own backups are re-protected.
2. **`deleted_profile_loses_file`** (`protection_lifecycle.rs:257`).  When the last steps of a
   committed change failed and the profile is then removed from the list, the next launch takes
   the change for uncommitted and deletes its target, by then the only database.  `profiles.rs`
   says the file of a removed profile is left untouched.
3. **`removal_takes_default_entry`** (`protection_commands.rs:338`).  A change of protection looks
   its profile up by the live path, and a path no entry names counts as the Default profile's.
   `relocate_data_file` leaves such a path behind when `profiles.json` cannot be written; removing
   protection then rewrites the Default profile's entry with the open profile's plaintext copy, and
   the Default profile's own database is no longer listed.  Turning protection on compares the id
   with the one the page asked for; removal does not.
4. **`lock_undone`** (`protection_commands.rs:275`).  A lock that waits for the mutex during a
   change of the password takes effect when the guard is dropped, and the activation that follows
   opens the profile again.
5. **`payment_applied_twice`** (`transactions.rs:951`).  Applying a payment writes the row of the
   debt account and then the record as two statements; a second press fails on the record and
   leaves the row, which counts.  A kill between the two leaves the same.

Also seen, without a run of its own: `relocate_data_file` (`commands/files.rs:59`) returns on a
registry error between the new generation and the re-arming of the timer, so the profile stays
open without automatic locking (`session_lock` has no such error); `restore_backup`
(`commands/files.rs:356`) has the same shape and leaves the restored database open under the old
path.  A change of the password whose new database could not be opened also leaves the session on
a path no entry names.  An error of `config.json` after the commit of an enable is reported as a
failed change, and the session keeps writing to the old database (`protection_transition.rs:179`);
`protection_lifecycle.rs:347` explains why removal must not do that.  `protection_kills` leaves
that error out, so its `NoSessionLeftBehind` says nothing of it.

## What is proved

Each theorem holds for every value of the constants that satisfies the named assumption of its
module (`ConstantsAssumption`, `BackupsAssumption`, `LedgerAssumption` and so on: bounds are
numbers, special values differ; every run evaluates them) and the hypotheses in its statement.  A
hypothesis on `Faults` says which I/O errors can happen; the runs' values satisfy it unless said
otherwise.  One pattern recurs: the property is not inductive, so an invariant adds what each
program counter knows; TLC checked every conjunct of every invariant on small instances before it
was proved; one lemma per conjunct or per action shows that a step keeps it.
Every invariant and every action property of a passing run has a theorem, some of them under the
hypotheses of the table; what is left to TLC is liveness.

| Property | Theorem | Hypothesis |
|---|---|---|
| `RegisteredFileOpens` | `RegisteredDatabaseOpens` | `~DeletesOpenFiles` |
| `NoLostWork` | `WorkNeverLost` | the same, `SwapsAfterCommit` |
| `NoSessionLeftBehind` | `SessionFollowsRegistry` | the same two |
| `DeletedProfileKeepsFile` | `RemovedProfileKeepsFile` | `~DeletesOpenFiles`, `EarlyFaultsOnly` |
| `NoBackupLost` | `BackupsNeverLost` | the same |
| `OnlyLiveDatabaseEncrypted` | `NoStrayCopies` | the same |
| `RotationCoversBackups` (action) | `PasswordChangeCoversBackups` | the same |
| `TypeOK` of the sessions | `SessionTypesCorrect` | |
| `NoticeOfOpenProfile` | `NoticeReachesItsProfile` | |
| `RefreshWritesItsOrigin` | `PricesReachTheirOrigin` | |
| `PhoneGetsOpenProfile` (action) | `PhoneSentItsProfile` | |
| `BackupKeyMatches` | `FinalBackupOpens` | `RegistryAndBackupsWork` |
| `PathsAgree` | `PathsFollowTheSession` | `ChangesComplete` |
| `AutoLockArmed` | `OpenProfileWillLock` | the same |
| `LocksOnlyItsSession` (action) | `LocksWhatItAskedFor` | the same |
| `KeptOpen` | `NewestBackupsListed` | |
| `SkippedWhenCovered` | `SkippedBackupsCovered` | |
| `NothingReplaced` (action) | `BackupsNeverReplaced` | |
| `ReportedIsListed` | `ReportedBackupListed` | |
| `CopiedIsThere` | `ReportedCopyThere` | |
| `RestoreReversible` (action) | `RestoreCanBeUndone` | |
| `PairsIntact` | `PairsStayIntact` | |
| `SettledOnce` | `RowsSettledOnce` | |
| `SettlesWhatItShowed` (action) | `StatementSettlesShown` | |
| `TwinsFollow` (action) | `SidesLeaveTogether` | |
| `SavedBalancesHold` | `SavedBalancesAlwaysHold` | |
| `EndingBalancesAddUp` | `StatementsAddUp` | |
| `RolloverKeepsBalances` (action) | `RolloverKeeps` | |
| `TypedBalanceShown` (action) | `TypedBalanceIsShown` | |
| `MoveShowsItsResult` (action) | `MoveShows` | |
| `HistoryFollowsMove` (action) | `HistoryFollows` | |
| `SavedCopiesKept` (refinement) | `PhoneKeepsCopies` | |
| `ActiveIsSaved` | `ShownCopyIsSaved` | |
| `NoReadersOfDeleted` | `DeletedHaveNoReaders` | |
| `OneDevicePerCode` | `CodeMakesOneDevice` | |
| `OneProfilePerName` | `NameStandsForOne` | |
| `OneSnapshotPerNumber` | `NumberGivenOnce` | |

### Protection

`~DeletesOpenFiles` is a platform that refuses to delete an open database.  Where it does not, an
open that fails after a commit leaves a session on a file that the next change's recovery deletes,
and `IInv` (not `RegisteredFileOpens`) fails; TLC checks that case in `protection_faults`.

*The argument.*  `RegisteredFileOpens` is not inductive: a commit makes the target the registered
database, so the invariant must say that at that point the target is complete, and recovery deletes
files, so it must say what a journal may name.  `IInv` adds, one named conjunct each: what is known
of the source of a running change (`SourceLive`), the locals each program counter relies on
(`LocalsSet`), that a running change has its journal (`JournalWritten`), that its target is not
registered before the commit and complete when it is exported (`TargetPrepared`), that only a
protected profile is re-keyed (`RotatesProtected`), that the file a journal makes recovery delete
is never the registered one (`JournalsSafe`), and that an open session's file is not deleted under
it (`SessionFileExists`).  `RegisteredDatabaseOpens` allows every I/O error.

`ProtectionWork_proofs` adds three layers, each inductive given those before it.

1. `WorkInv`: the session is on the registered database except between a commit and the swap, and
   the registered database, and its export before the commit, hold every edit.  `SwapsAfterCommit`
   excludes the errors between those two points (`config.json`, the journal, the opening of the new
   database): after one, the session may go on with the old database, and what it writes there the
   registered one never sees.
2. `JournalsInv`: what a journal on disk means.  An unfinished one belongs to the running change or
   to a rotation whose commit failed; a committed one is on its way to being finished
   (`CommittedResolving`, `LaunchInOrder`); a removed profile rests and no journal has its file as
   target (`RemovedProfileRests`); between a commit and the swap the session's old database still
   opens, so that the backup of a waiting lock is one that can be read (`OldSessionReads`); every encrypted or half-written database is the live one or one
   that a journal deletes (`Accounted`).  The hard case is the rotation that waits: other changes
   run while its journal lies there, so its target must keep its name taken (`WaitingTargetKept`).
3. `CopiesInv`: where each backup is.  Staged files belong to the rotation on disk (`StagedOwned`);
   before a commit every backup has its copy under the new key (`PlainConverted`, `ListedStaged`);
   while a committed rotation moves its pairs, each half is staged or in place and under the live
   key (`MovingPair`); otherwise a backup is readable in `protected/` or in plaintext, and in
   `protected/` whenever the plaintext may be deleted (`BackupsKept`).  `PasswordChangeCoversBackups`
   follows from `ListedStaged` at the commit, with the lemma that no other step makes the entry name
   a rotation's target (a waiting target keeps its name taken), and from `MovingPair` at the end.

`EarlyFaultsOnly`: errors before a commit and of the commit itself, as in `protection_kills`.  After
an error between the commit and the end of a change, its journal waits while other changes run, and
the statements of layers 2 and 3 fail: `deleted_profile_loses_file` is one such history.

### The session

The lock threads are those of the code: the timer's, the one that delivers window and system
events, and the worker's own; the theorems are about these three, in any order, not about any
number of threads.

Four invariants over the same state, because the properties have different hypotheses.

* `IInv` (clients).  The revision grows with every new content of the slot (`SwapRevises`), and
  nothing else touches the slot (`CommandFrame`, `LockFrame`), so a client whose revision is still
  current holds what is open now (`RefreshStamped`, `PhoneStamped`).
* `MutexInv`.  A command is a sequence of steps, so an invariant about "the step it is at" needs to
  know which sequences there are: `Program` says that what is left of a command is in the order of
  one of the programs (`Order`), ends with its last step and is at a step of that command; `Ordered`
  and lemmas on tails of sequences keep it.  On that stand who holds the mutex (`Holding`), that
  what a command replaces has an older generation than the one it drew (`Dated`), that nobody locks
  the new database before its command is through (`InPlace`), and where the notice belongs
  (`Noticed`).
* `KeysInv` and `TimerInv`.  Both need that the slot's database is the live path except between two
  named steps (`PathFollows`).  `KeysFollow` says that the path a waiting lock has read, whose key
  file it will put beside its backup, has the open database's key as long as its generation is the
  current one; between the new path and the new database it need not, but then no final backup is
  due, because the daily one was taken before the path changed (`Settled`).  `Registered` says when
  the registry names the live path, `RequestsMatch` that a request of the present generation is of
  the open profile, and `Armed` that outside a change an open protected profile has its timer armed
  or a lock of it under way.
* `PathProfile`: the open database is the open profile's through every error; with `IInv` it gives
  `PhoneGetsOpenProfile`.

`RegistryAndBackupsWork` excludes errors of `profiles.json` and of taking a backup;
`ChangesComplete` errors of `profiles.json` and of opening the new database.  Both are needed: a
relocation or restore that fails at the registry returns before the timer is armed, and each leaves
a path no entry names (see [What the runs found](#what-the-runs-found)).

### Backups

*The argument.*  `KeptOpen` is broken by a database that appears before its key and by a key that
goes from a backup that is not surplus.  `HalfPublished` says that between the two renames the key
is there and the database is not.  `VictimsOld` says that what is still to be deleted has `Keep`
newer backups; it survives the loop because the oldest is deleted first, and a deleted database
that has `Keep` newer ones cannot be among the `Keep` newest of another (`PruningKeepsOld`, a lemma
on cardinalities of finite sets).  `OwnBackups` gives the contents.  When the daily backup is
skipped, the newest database in the folder is young enough (`NewestExists`, by well-founded
induction on inclusion of finite sets) and, being the newest, has its key.

What a command reports (`ReportInv`, over that invariant): from its publication on, a backup is
listed with the content it was made of, or `Keep` later names are there (`LocalMade`), also while
the command works in the second folder; a second copy of an encrypted backup brings its key along
(`CopyKeyed`), so what is published there opens (`CopyMade`); and the safety backup of a restore
holds what the restore replaces (`SavesTheLive`), since nothing writes in between.  Pruning may
delete the command's own backup, but only when it is `Outdated`, which is the exception the
properties name.

### The ledger

*Pairs.*  A link joins two accounts when it is made, and only a move can put its rows into
one: a move leaves linked rows alone because its blockers are empty, which the commit knows from
the token (`ReviewClear`: what is under review had none, and the commit finds the same token).
Undoing a payment deletes its row, which another payment must not need: `OneOrigin`, a generated
row belongs to one payment, because it is a new row of the table each time.  The rest of `IInv` is
typing (`TableOK`, `PairsTyped`, `StatementRead`).  `UpdateRowsFacts`, `InsertRowFacts` and lemmas
on sequences built by appending say what the table is after a command; one lemma per command.

*Settled rows.*  Two facts that point at each other: a settled row is listed by the record it names,
and that record is of its account (`ListedByRecord`); what a record lists are rows it settled, or
ids whose row is gone (`RecordsListSettled`).  With them a row is listed once (`OneRecordPerRow`).
A command that settles nothing keeps all three if it neither changes a mark nor moves a settled row
(`QuietKeeps`): a move is refused for those, and ids are never used again.  Deleting an account
takes its records and its rows together.

*What a statement settles.*  Every row of the account's signature that a statement may settle was
shown by the review, with the signed values (`ShownSigned`); nothing but a new review or the finish
changes what is under review (`ReviewChanges`).  The finish goes on only if the signature, computed
again, is equal, so a row it ticks is one the review showed, as it was; a row that is ticked
without being matched cannot be, because the statement unticks every unsettled row first.

*Sides of a payment.*  Rows that are there before and after a command stay deleted or not
(`LiveKept`), for every command but deleting and restoring.  Those two take a row and its
`Partner`; for a payment that shares no row with another, either both of its sides are among them
or neither (`BothSides`), and `PairsIntact` on both sides of the step says that both rows are there.

*Sums.*  Balances are sums over sets of rows, and a sum is a fold of the library: a `CHOOSE` of a
recursive function, in an order nobody knows.  The induction that takes an operator is out of the provers'
reach, so each fact about all finite sets is proved on a smallest counterexample instead
(`SmallestSubset`, from the well-foundedness of inclusion): that the recursive function exists and
is unique (`FoldedExists`, `FoldedSame`), that any element may be taken out first (`SumTakeOut`),
that a sum splits over disjoint sets (`SumOfUnion`).  `SumUnfolds` is its equation.  The recursive functions of the planner (`Deltas`, `Corrected`, the flip's
corrections) get their equations the same way (`CarriedExists`, `MarksExist`).  Everything below
uses only those facts.

*Saved balances.*  `SavedBalancesHold` is not inductive: it says that a record agrees with its
balance, and a correction writes a new record from old ones.  `Books` is: a version is of a saved
balance of its account, and built on an earlier version of an earlier one (`Chained`); a balance is
what its newest version says (`Current`); an automatic version that is still trusted adds up
(`Balanced`), and what it was built on is still as it was then (`Followed`); nothing is saved for a
day that is not over (`Placed`).  Rows do not occur in it: a version carries what it counted, so an
edit or a deletion cannot break it, and what remains is every command that writes a balance.  They
are of three kinds, with one lemma each: one that appends (`BooksExtended`: roll-forward, typed and
confirmed balances), one that rewrites figures and distrusts what was built on them
(`BooksDistrusted`: a typed balance over an old one, flips), and the corrections of a move, where
the new record counts what the old one counted less what left, or plus what arrived, and the new
figure is the old one plus the change carried along the chain (`RecountedFacts`; a descendant is
corrected when its parent is, so `Followed` holds again).  `Grounds` is what the numbers rest on:
finitely many accounts, a table within its bound, a review that was given the balances it needs.

*Roll-forward and typed balances.*  A balance is read from the saved one that ranks highest among
those in force at a day, so each proof first says which one that is after the step.  The
roll-forward saves one balance per account, the one shown for the day before, and the rows after it
are counted as before (`RolledBalances`).  A typed balance must outrank every other of its day:
`Periods` says that an account has one saved balance per period, that the numbers in the periods
were given before, so a new one is fresh, and that one typed for a day is through the day before
and counts from its day, or from when a balance it came after does (`DaysGrounded`).

*Moves.*  A move changes the account and revision of the rows it takes along and nothing else
(`MovedRows`), so an interval loses or gains exactly their total (`MovedInterval`).  The token
compared at the commit makes the plan that was shown the plan that is carried out (`CommitFacts`).
What a corrected balance gains is what the chain before it gained and what its own interval did,
and these intervals are disjoint and together reach its day (`ArrivalReachesAll`), so the figure
for a day changes by exactly the moved rows up to it: that is `HistoryFollowsMove`, and for today,
with the confirmed balances, `MoveShowsItsResult`.  A balance without a chain below it counts from
the first day, so no row may be older (`DaysAre`, through every command that dates a row).

*Ending balances.*  In date order the record a statement starts from is the one with the highest
number (`OrderIsNumber`).  Its start is that record's ending balance and what investment statements
settled since, which the rows still amount to (`asSettled`), and a row is in one record
(`SettledInv`), so adding its own rows closes the chain (`FinishedAddUp`).

TLC checked `Books`, `Periods` and `DaysAre` as invariants of larger instances (13.9 and 22.7 million
states) before they were proved.

### The phone

*Copies.*  A save must be a step of a live attempt over an older copy.  The compare-and-swap
checks the guard and the revision of what was read; that this is enough needs: the guard is the
fence the refresh began under (`GuardKept`), so a save implies no removal since; access was
remembered then and only a removal ends it (`RememberedSince`); and what was read is older than
what arrived, and its revision names it alone (`ReadBefore`, with `RevisionsUsed`: revisions are
never used twice), so the copy in place is the one compared with.  `Steps` takes each action to a
step of the register or a stutter.

*Grants and names.*  A device carries the number of the pairing that made it, and completing takes
that pairing away (`CodesOnce`), so a code whose answer was lost makes no second one.  Deleting a
profile takes its grants, its name and the pairings approved for it in one step, and an earlier list
that takes a profile off makes it a lost one, so whatever has a name or a reader is listed or lost
(`GrantsInv`).  A name drawn anew is beyond every name in use, on the desktop, in a copy or in a
refresh under way (`NamesUsed`), and no two profiles have one name (`NamesDiffer`).  All that carries
a name a profile has now came from that profile, or from a lost one (`NamesTheirBearer`: the bearer
of an id changes only when the id is free, and a name that is still there then was a lost profile's,
or when an earlier list replaces it, which makes it lost); so all that carries a name and is not
lost agrees (`OriginsAgree`).  The counter of a profile is ahead of every snapshot under its present
name (`NumbersBehind`), so a number is given once.

### Model-checked only

* Liveness (`CommandsReturn`, `LockRequestsEndSession`, `LaunchResolvesJournals`): the prover
  handles neither fairness through ENABLED nor the progress arguments behind it.
* The properties under errors that the hypotheses above exclude, where they hold
  (`protection_faults`, `session_clients`).

## What is not modelled

The inventory's parts without a module are listed, with the reason, in `PROJECT.json`.  In short:
cryptography is a black box (a key file opens exactly one data key); reports, budgets, rules,
forecasts and comparisons are SQL and arithmetic over decimals; schema migrations run once in a
transaction; parsers of import files and statements are data; TLS, discovery, the tray, window
state and rendering are I/O.  Imports with their categories and rules, credential attempts, the
page's reads and the updater have an order worth modelling and no module yet (see the plan).

## Plan

Done, in this order: (1) protection, (2) the session with its lock threads and clients, (3) backups,
(4) the ledger with balances, moves and reconciliation, (5) the phone.

Next, most valuable first:

1. **Imports** (`Imports`): preview, review token, resolve, commit, undo, against changes of the
   session in between: no row twice, an undo removes what its batch added and nothing else.  It
   extends `Ledger`, whose initial rows it explains.
2. **Credential attempts** (`CredentialAttempts`): cooldown, the in-flight reservation, one-use
   setup tokens, panics of a check.  Provable as it is.
3. **Statement sessions** against locks and switches of the profile.
4. **Page reads** (`FinancialReads`): read generations against invalidations and late answers.
5. **Updater staging**: a package is applied only after its own verification.

Abstract specifications to state for what exists: *a profile holds one readable database with the
last edit* (refined by `ProtectionLifecycle`: kills and journals are stutters), *the session is a
register of profile, database and lock* (refined by `SessionRuntime`), *a set of snapshots with the
newest kept* (refined by `Backups`), *a set of movements, each counted once in a balance* (refined
by `Ledger`).

Proofs: `RegisteredFileOpens` without `~DeletesOpenFiles`, which needs an invariant that lets a
session be on a deleted file; that `ProtectionLifecycle` implements the readable database above,
whose step simulation `WorkInv` and `IInv` contain.

The runs are kept to a dozen, one per question; the small modules above share an instance that
composes them where they share state.
