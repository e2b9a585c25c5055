# FileRouter: a TLA+ verification project

FileRouter moves files between sites without a database.  A host watches *base
folders*; a file that appears there is taken in, compressed, encrypted, hashed,
and published in `exchange_out` as a payload, an optional detached signature and
a metadata file.  An external transport carries these three to the other site's
`exchange_in`, where the inbound half checks them and restores the file in a
base folder.  Everything the program remembers is on disk, in a *runtime
directory*, and every guarantee rests on the order in which files are created,
moved and removed there.

This project models that order.  Paths are relative to the repository; "the code"
is `src/filerouter`.

## 1. The system

### Components, their state and their operations

| Component | State | Operations | What makes it correct |
|---|---|---|---|
| Locks, `adapters/file_lock_manager.py` | `runtime/locks/<key>.lock`, a JSON file with the owner and its heartbeat | `acquire`, `release`, `heartbeat` | one live owner per key; a dead owner's key is freed |
| Outbound pipeline, `core/outbound.py` | `processing/<id>/`, `exchange_out`, `archive/` | `process` | no file is lost, published twice or half published |
| Duplicate index, `core/dedup.py` | `dedup/<hash>__<alias>__<dir>` | `claim`, `exists` | one content of one place is routed once |
| Quarantine, `core/state_machine.py` | `error/<id>/` | `capture` | what fails is kept, with a report |
| Audit trail, `core/audit.py` | `audit/<id>.audit.json`, one event per line | `append`, `read`, `has_event`, `has_terminal_success` | an event recorded has happened; others decide and delete on its word |
| Inbound pipeline, `core/inbound.py` | `exchange_in`, `processing/<id>/`, base folders | `process`, readiness | only verified files are delivered, each once; incomplete pairs wait |
| File store, `adapters/local_file_store.py` | none of its own | `atomic_move`, `atomic_write_bytes`, `append_line`, `is_stable` | a move is all or nothing |
| Reconciler, `core/reconciliation.py` | none of its own | `run`: locks, then `processing/`, then `temp/` | what a crash left is kept and resolved, never lost |
| Scan loop, `core/orchestrator.py` | the files of the current pass, a stop flag | `scan_once`, `run_forever`, `request_stop` | everything eligible is picked up; one failure does not stop the rest |
| Service, `service/` | the process | `run`, `stop`, the signal handler, `SvcStop` | reconciles before it routes; stops when asked |
| Configuration and doctor, `config/`, `cli/doctor.py`, `core/layout.py` | the YAML file; the directories it names | `load_config`, `Doctor.run`, `RuntimeLayout.ensure` | a configuration found in order starts |
| Retention, `core/retention.py` | none of its own | `run` | deletes nothing that is still needed |
| Rules, paths, names | none (pure) | `is_eligible`, `encryption_for`, `compresses`, `identify_base_folder`, `relative_path`, `business_target`, naming | the right rule applies; a path survives the journey |
| Metadata, hashing, compression, crypto, logs, metrics, health, other commands | none that the pipelines decide on | | |

### How they interact

`Service.run` calls `Reconciler.run` once and then `Orchestrator.run_forever`.
Each pass lists the base folders, hands every source to `OutboundProcessor.process`
(on a thread pool when there are several workers), waits for the pool, then does
the same for `exchange_in`.  A pipeline calls the lock manager, the store, the
duplicate index, the audit trail and, when a step raises, the quarantine.
Components share no memory: they meet in the runtime directory, and so do two
services, or a service and `filerouter reconcile`, started over the same
directory.  Sites meet in the exchange directories, which an external transport connects.

### What is hard about it

* **Interleaving**: threads of one pool, several processes over one directory
  (`core/orchestrator.py:6` promises "threads, processes, or multiple hosts").
* **Non-atomic steps**: a lock file is created and then written; a publication is
  three files and an audit line; a delivery is a move and an audit line; a
  directory is listed and then removed; a move across volumes is a copy and an unlink.
* **Crashes** between any two of these steps, and restarts that must find what was
  left, from the disk alone.
* **Partial failure**: any step may raise, the quarantine's own steps included.
* **Time**: locks expire, also those of owners that are merely slow.
* **Power loss**: what nobody synced is gone, or there in part.
* **Accounts**: the service, the doctor and other commands may run under different ones, and
  each makes what directories are missing.

`PROJECT.json` lists the hazards line by line, with the property that watches each.

## 2. The modules

| Module | Models | Extends / uses |
|---|---|---|
| `Lease` | what an advisory lock amounts to: a lease that can be revoked behind its holder's back | |
| `FileLock` | `FileLockManager`, one key, system call by system call, and the reconciler's `_reclaim_locks` | INSTANCE `Lease` |
| `MCFileLock` | workers for TLC | `FileLock` |
| `FileLockProofs` | theorems about `FileLock` | `FileLock` |
| `Custody` | what the outbound half promises to the applications and to the receiver: a file is announced as a whole, once, and kept until that is recorded | |
| `Outbound` | `OutboundProcessor`, `DedupIndex`, `Quarantine`, the audit trail, `Reconciler`, the scan loop, and the crash and restart of services, over one runtime directory | the lock as a `Lease` per source; INSTANCE `Custody` |
| `MCOutbound` | services, workers, sources for TLC | `Outbound` |
| `OutboundProofs` | theorems about `Outbound` | `Outbound` |
| `Reception` | what the inbound half promises to the senders and to the base folders: a payload is taken in, delivered as it was sent, recorded, and otherwise set aside | |
| `Inbound` | `InboundReadiness`, `InboundProcessor`, its three quarantines, the scan of `exchange_in`, the reconciler and the restart of one service | the lock as the set of ids that have a lock file; INSTANCE `Reception` |
| `MCInbound` | worker and pairs for TLC | `Inbound` |
| `InboundProofs` | theorems about `Inbound` | `Inbound` |
| `Relocation` | what the pipelines expect of `atomic_move`: it moves the file, or fails and leaves it | |
| `FileStore` | `atomic_move` and `atomic_write_bytes`, system call by system call, on volumes that lose what is not synced | INSTANCE `Relocation` |
| `MCFileStore`, `FileStoreProofs` | an instance for TLC; theorems | `FileStore` |
| `Audit` | the trail of one id as the file it is: `append` as read, write and sync, torn lines, and the reconciler that reads it | |
| `MCAudit`, `AuditProofs` | an instance for TLC; theorems | `Audit` |
| `ServiceLoop` | the life of a service process: start, reconciliation, passes with their pool, stop requests, Ctrl+C, crash, restart | |
| `MCServiceLoop`, `ServiceLoopProofs` | instances for TLC; theorems | `ServiceLoop` |
| `Routing` | pure operators: base folders, relative paths, rules, the listings of the scan and of `preview`, the duplicate key | |
| `Exchange` | sites that route to each other: both halves, a pipeline being one step, over the transport | `Routing` |
| `MCExchange`, `ExchangeProofs` | two sites for TLC; theorems about `Routing` and `Exchange` | `Exchange` |
| `Doctor` | the doctor and its repairs, the loader, `RuntimeLayout.ensure`, and the start of the service or of a command, by accounts with different rights | |
| `MCDoctor`, `DoctorProofs` | an instance for TLC; theorems | `Doctor` |

The modules fit together by what they take for granted.  `Outbound` uses the lock as the
`Lease` that `FileLock` implements, and moves as the `Relocation` that `FileStore`
implements.  `Exchange` takes a pipeline as one step, which loses nothing and delivers once,
as `Custody` and `Reception` say and `Outbound` and `Inbound` implement; `ServiceLoop` takes
it as an item that ends or raises.

The operators and actions whose comment begins with *slip* are not part of a
specification.  Each is a plausible mistake in the code next to it; `PROJECT.json`
names, for each property, the slip that breaks it.

### How FileLock corresponds to the code

`file` is the content of `locks/<key>.lock`: absent, empty (between `os.open` and
`os.write` in `_create_exclusive`), or written, with its owner and the age of its
heartbeat.  A worker goes from `Acquire` through `Open` (`O_CREAT | O_EXCL`), `Write`
and the section to `Release`; if the file is there it goes through `Probe` (read and
judge), `Unlink` and `Reopen`.  `release` and `heartbeat` look at nothing before they
unlink or write, and the actions do not either.  `ReapCheck` and `ReapRemove` are the
reconciler's pass over `locks/`.  `Tick` lets every heartbeat age; `Abandon` is the
death of an owner.  `Lease` says the same with one variable, the holder: what a client
sees, and what `Outbound` uses (`holder`, `Take`, `Leave`, `ReclaimDead`, `RevokeLive`).

### How Outbound corresponds to the code

| State | On disk or in the process |
|---|---|
| `business` | the base folders: the content at each source path |
| `dirs`, `files`, `item` | `processing/<id>/`, what is in it, and which source it came from |
| `out`, `archive`, `error` | `exchange_out`, `archive/`, `error/<id>/` |
| `audit`, `marker`, `holder` | `audit/`, `dedup/`, `locks/` |
| `pc`, `src`, `tid` | a pool thread: where it is in `process`, its source, its id |
| `svc`, `batch`, `todo`, `cur`, `snap` | a process: its phase, the sources of its pass, and the directories its reconciler has listed |

`Take` to `Leave` follow `process` call by call: one action for each step that leaves a
trace another party can see.  `Fault` is any of them raising; `Capture`, `RecordError`
and `GiveUp` are `_quarantine`, which may fail in turn, with a `TransientError`
(`GiveUp`) or otherwise (`Raise`).  `JudgePublished` to `Purge` are `_resolve_one`,
split where another process can get in between: the list of the directory is taken
first (`snap`), the directory removed last.  `Scan`, `Take`, `EndPass` and `Fail` are
`scan_once` and `run_forever`, `Boot`, `Reconciled` and `Crash` the process.

`Custody` sees of this the base folders (`offered`), the files that ids stand for (`taken`),
those in `processing/` (`held`), the successes in the audit trail (`recorded`), the archive,
the quarantine (`aside`), and of `exchange_out` only what a receiver, which waits for the
metadata, can tell: nothing, a whole publication, or (never) a part of one (`seen`).
`MoveIn` is its `TakeOver`, `PublishMeta` its `Announce`, `RecordPublished` and
`RecordArchived` its `Record`, `Finalize` its `Part`, `Capture` and `RecoverCapture` its
`SetAside`, and `Purge` nothing, a `Part` or a `SetAside`; every other step is a stutter.

### How Inbound corresponds to the code

| State | On disk or in the process |
|---|---|
| `transit` | parts the transport has still to write (external) |
| `exch`, `old` | `exchange_in`: each part absent, growing, cut short, garbled, altered or whole; payloads past the grace period |
| `work`, `derived` | `processing/<id>/`: the parts moved there, what was made of the payload |
| `error`, `audit`, `locks` | `error/`, `audit/`, `locks/` |
| `pc`, `pair`, `sig` | a pool thread: where it is in `process`, its id, whether it moved a signature in |
| `parsed`, `overtaken` | the `Metadata` object it goes by to the end; (history) whether the file came again before it was moved |
| `svc`, `batch`, `todo` | the process, as in Outbound |

`NotReady`, `Incomplete` and `Complete` are the three answers of
`InboundReadiness.state`.  `is_stable` compares two looks at a file a moment apart: a
writer that pauses passes, so `Complete` may find a growing file stable.  `Load` reads
the metadata before the lock is taken, and what it parsed (`parsed`) is what the worker goes
by, whatever file `MoveIn` moves and `VerifyMeta` verifies later; `Lock`, `Check`, `MoveIn` (payload, metadata,
signature, one after the other), `Verify`, `VerifyMeta`, `Derive`, `Deliver`, `Record`
and `Leave` are `_pipeline`.  A file that is moved while the transport writes it goes
on growing where it is (`Close` has a case for `processing/`).  `ToQuarantine` releases
the lock first, as the `with` block does, and the quarantine then runs without it.

`Reception` sees of this where a payload is (`waiting` in `exchange_in`, `held` in
`processing/`, `aside` in quarantine), whether what is held is as it was sent and, where
signatures are required, signed (`fit`, which is about the files), the deliveries and those on record (`times`,
`recorded`), and how many steps have failed (`lapses`).  The payload's `Arrive` and `MoveIn`
are its `Come` and `TakeIn`; the other parts of a pair, and a file that is still written
after it was moved, are its `Gather`; `Deliver`, `Record` and `Drop` have its names; `Capture`,
`Refuse` and, of what is not finished, `Resolve` are its `SetAside`, or nothing if no payload
is left; `Resolve` of a success is its `Clear`; `Fault`, `Raise` and `Crash` are its `Lapse`.
Readiness, the lock, the checks, decoding and the scan are stutters.

### How FileStore corresponds to the code

`dir` and `data` are the directories and blocks as processes see them, `kept` and `disk` what
a power loss leaves.  A call goes from `Replace` (`os.replace`), if the volumes differ,
through `Open` and `Copy` (`shutil.copyfile` block by block), `Sync` (`_fsync_file`),
`Rename`, `SyncDir` (`_fsync_dir`, which passes over every error) and `Unlink`; `OpenTemp`
begins `atomic_write_bytes`, which shares the steps up to `Rename`.  `Fail` is any of them
raising, with the handler of lines 87-93, or the end of the process.  A volume commits its
directories as a journal does (`Commit`); blocks reach the disk in any order.

### How Audit corresponds to the code

`file` is `audit/<id>.audit.json` as the sequence of what each write has left: a line, a line
without its newline, or the start of one.  `Read` is `append` up to the write, with the number
it settles; `Write`, `WriteShort` and `Sync` are `append_line`, which syncs the file and not its
directory (`named`, `Commit`): `LoseTrail` is a power loss that takes a trail whose entry is not on
disk, `PowerLoss` one that takes or cuts its end.  `Readable` is whether `read` raises not; a line
that tells a path (`split`) is broken by `splitlines` if the path of the item holds one of its
separators that is none of JSON's (`splits`).  `Record` and `ReadRaises` are a pipeline; `NothingLeft`, `Finalize`, `Preserve`,
`RecordCapture` and `CaptureRaises` the reconciler with which a process starts.

### How ServiceLoop corresponds to the code

`phase` is where the main thread is, from `load_config` to the sleep between two passes;
`queue`, `listed`, `running` and `raised` are the call of `pool.map` in `_map`, `stop` is
`Orchestrator._stop`.  `RequestStop` is `Service.stop`, called by the signal handler of
`service/linux.py` or by `SvcStop`; `Terminate` a SIGTERM before the handler is there;
`Interrupt` Ctrl+C in `filerouter run`.

### How Routing and Exchange correspond to the code

`Owner` is `identify_base_folder`, `RelativeFile` and `RelativeDir` are `_relative_file` and
`relative_path`, `Target` is `business_target`, `Match` is `_match` for the kinds of pattern
the documentation uses, `MarkerKey` the name that `DedupIndex._marker` makes.  In `Exchange`,
`disk`, `markers`, `aside`, `outbox`, `inbox` and `delivered` are the base folders, `dedup/`,
what waits for an operator, `exchange_out`, `exchange_in` and the deliveries in the audit
trail of each site.  `Publish`, `PublishFails` and `Skip` are the ends of `OutboundProcessor.process`: the failure
may come before the marker is claimed, after that, or when the pair is out.  `Deliver`,
`DeliverLapses` (between the delivery and its record), `Refuse` and `Drop` are those of the
inbound one; `Carry` is the transport.  `Skipping` are the sites whose `outbound_policy` is
`skip`, the only ones that have markers.

### How Doctor corresponds to the code

A configuration is the set of what is wrong with it (`config`), `kind` and `writers` are the
directories it names.  `OfFile` to `OfCrypto` group the defects by where they are found.  `Diagnose`, `Decline`, `Apply`, `ApplyRaises` and `Conclude` are
`Doctor.run`; the operators from `Structure` to `Crypto` are the checks of `ALL_CHECKS`.
`Launch` is `load_config` as the service and the commands call it, `Ensure` and `EnsureRaises` are `RuntimeLayout.ensure`, `Wire` is the
rest of `build_context`, `Reconcile` the first thing a service then does.

## 3. The runs

| Run | Instance | Question |
|---|---|---|
| `lock` | 2 workers, one beating; TTL 1; 2 deaths | Does the lock keep what it can keep, implement `Lease`, and heal? |
| `lock_violation` | 2 workers, no heartbeat, TTL 9, no death | Does it exclude live workers, as its port says? No. |
| `outbound` | 1 service, 2 threads, 2 sources of one content in one directory, one compressed, encrypted and signed, dedup and archiving; 2 files, 2 failing steps, 1 crash, 5 ids; fair | No loss, an implementation of `Custody`, and progress |
| `outbound_shared` | 2 services with a thread each, 2 contents; 1 failing step, 1 lock taken from a live owner | No second publication and a truthful audit trail, though a runtime is shared? |
| `inbound` | 1 thread, 1 pair signed, encrypted and compressed, signatures required; sent twice, 1 failing step, 1 crash; fair | No loss, only genuine deliveries, duplicates known, quarantine for a cause, an implementation of `Reception`, and does nothing stay in `exchange_in` for ever? |
| `loopback_loss` | the pair is one the host has published itself; 1 crash | Is it safe then? It is lost. |
| `store` | 1 source, a call that copies it, one that renames it and one that writes; 2 blocks, 2 versions, 1 power loss | Is no file lost or seen in part, and is a move atomic? |
| `audit` | 2 processes, 3 appends of pipelines, 1 write cut short, 1 crash or power loss; fair | What does a torn line cost, and when does a service start? |
| `loop` | any host, 2 workers, 2 files and 2 payloads, one of each raises; 2 requests, 1 crash; fair | Is a stop heard, is nothing cut short, is every item reached? |
| `stop_lost` | 1 file, 1 request; fair | Is every stop heard? Not one during the reconciliation. |
| `exchange` | 2 sites of any roles, nested base folders and exclusions on one, 2 contents, duplicates skipped by one; 2 writes, 1 second copy, 1 failure, 7 ids; fair | Are trees mirrored, does a duplicate stand for a file that is not lost, does what is received stay, does the exchange come to rest? |
| `doctor` | 2 accounts, one privileged, 6 directories, 6 configurations; 1 run of the doctor, 2 starts, 1 path in the way or closed | What is an exit code of 0 worth? |

### The properties

*FileLock.* `ExclusiveUntilEvicted`: two workers are inside only if a staleness verdict
has taken the file of a live one.  `CascadeNeedsVerdict`: the blind unlink of `release`
and the blind write of `heartbeat` do no harm before such a verdict has.  `NoLeakedLock`:
a file without a live owner is the work of a death or of a failed write.
`ImplementsLease`: refinement.  `AbandonedLockHealed`: a dead owner's file goes.

*Outbound.* `NoLoss`: each file an application wrote is at its source, in `processing/`, in
`error/`, archived or completely published.  `PublishedOnce`: one content of one place
under one id.  `AuditedIsPublished`: the event on whose word the reconciler deletes is true.
`ImplementsCustody`: refinement; among other things it says that metadata in `exchange_out`
announces parts that are there (`CommitMarkerLast`), that the source is given up only after
its publication is on record, and that what a failure takes away is in quarantine.
`PickedUp` and `Settled`: a source is taken in the end, and what a stop left behind is
resolved.

*Inbound.* `NoPayloadLost`, `OneDeliveryPerLapse`,
`QuarantinedForCause`, `PayloadResolved`: see the comments in the module.
`OnlyGenuineDelivered`: what is about to be delivered is the payload that was sent and, where
signatures are required, the metadata moved in beside it is what was signed; the worker goes by
the same metadata unless it came again between its parse and its move.  That exception is the
whole of what `RoutedAsSigned` lacks.  `QuarantinedForCause` is about runs without a failure or a
crash: that a lock left by a crash leads to quarantine is a finding (section 5).
`ImplementsReception`: refinement; beyond the invariants it says what a step may do: nothing on
record is taken in or delivered, nothing else is dropped, nothing is recorded that was not
delivered (`RecordedIsDelivered`), and what leaves without a delivery goes to quarantine.
`OneDeliveryPerLapse` is the exact form of "each once": a delivery precedes its record, and
every repetition costs a failure or a crash between the two.

*FileStore.* `NoLoss`: what the application wrote and did not replace is whole at a path readers
look at, now and after a power loss.  `DestinationWhole`: what has a final name is whole.
`ImplementsRelocation`: refinement.

*Audit.* `NumberedInOrder`: the lines are numbered as they were appended, unless two appends
overlapped.  `TearsCostOneEach`: each write cut short makes at most one acknowledged event
unreadable, those apart that tell a path `splitlines` breaks and those that went with the entry
of the trail.  `Starts`: without such a write and such a path every start gets to its loop.
`NameHarmsNoStart` and `HistoryIsDurable` say it without these exceptions, and do not hold (section 5).

*ServiceLoop.* `OnlyInterruptsCut`: neither a stop nor another item's exception ends a pipeline
half way.  `StopHeard`: a stop that finds an orchestrator ends the process.  `Reached`: an item
is processed unless one that raises is in its way.

*Exchange.* `Mirrored`: what is rebuilt lies as its source lay, and two sources never meet at
one place.  `ClaimIsKept`: whatever a duplicate is skipped for is on its way, rebuilt, or kept
for an operator, by the receiver or by the pipeline that claimed it and failed: it is not lost.
That it was routed is more (`ClaimIsRouted`), and does not hold (section 5).  `ReceivedStays`: where nothing
is routed out, a received file gives way only to another version of it, and none comes back with
a second copy of a pair whose delivery was recorded.  `ComesToRest`: the exchange ends, if one of
the two sites skips duplicates.

*Doctor.* `CleanMeansUsable`: an exit code of 0 is true at the end of the run, repairs and others
at work included.  `StartsIfClean`: the start that follows fails only for what the doctor
does not look at.

Most modules also state, at their end, what documents or comments say and the code does not do.
Three of these statements are refuted by a run; section 5 names the others.

### The bounds, and why they are enough

* *Crashes, failures, deaths.* One crash is enough to cut every step sequence at every
  point, with the reconciler after it; a second failing step is needed where the
  quarantine of the first may fail too (`outbound`).  In `inbound` a crash and a
  failing step together cover a failure whose quarantine is cut off.
* *Sources and contents.* Two of one content meet in the marker.  `outbound_shared` has
  two contents, so that one path is used twice for different files.
* *Ids.* `MaxId` exceeds the number of attempts that the other bounds allow.  Deadlock is
  checked in every run, and `Begin` with no id left would be one.
* *Transmissions.* Two: the first, and one that meets it at every point of its journey, or comes after.
* *One pair in `inbound`.* Pairs share nothing but the threads and the process.  What one
  does to another through the end of the process is what `loop` is about; the safety
  theorems hold for any number.
* *Live locks taken.* `MaxRevoke` is 0 in `outbound`: one service hands each source of a
  pass to one thread and waits for all of them, so nobody contends with a live worker.
  `outbound_shared` and the theorems allow it.
* *Blocks, versions, inodes in `store`.* A copy of two blocks can be cut in its middle; a second
  version is what a rewrite puts in place of the first; an inode is reused when nothing names
  it.  The theorems hold for any number of each but the blocks.
* *Writes cut short in `audit`.* One, which three appends precede, continue and follow, in either
  process; the theorem holds for any number.
* *`loop`.* One item that raises and one that does not, in each half and in any order; the second
  request comes when the first is under way.
* *`exchange`.* Two writes make an overtaking pair, a duplicate or a loop back; the second copy may
  come at any time after the first, and one failure may hit any pipeline of either half.  A write
  costs three ids at most (there, back, and there again), a second copy whose first lapsed one
  more: the seven ids do not end the exchange in place of the markers.
* *`doctor`.* The configurations are one with nothing wrong, one for each way in which the doctor
  and the start agree or differ, and one in which a defect hides another.  One run of the
  doctor is enough: what it says is remembered (`clean`) while others go on.
* *Symmetry* is used in `outbound_shared` and in `store`, which check no liveness.

The deadlock check is off in `store` (a call is made once), `audit` (appends are bounded, and a
service waits for files), `loop` and `stop_lost` (a stopped process has ended) and `doctor`
(starts are bounded).  It is off in `exchange` too (writes are bounded).  In the others it is on: a service
always has a next pass.

### Fairness

`FairSpec` of each module assumes that threads run, that time passes (a heartbeat ages, a
payload gets old, in `Outbound` an abandoned lock expires), that the scan loop goes round,
and that a process that ended is started again: the unit file of
`docs/en/12-deployment.md` says `Restart=on-failure`.  It assumes neither that business
applications write nor that the transport sends: of the transport, only that it does not
write to one file for ever.  In
`Audit` a start runs to its end; in `ServiceLoop` the main thread goes on, a pipeline ends, and a
service that failed is started again unless it was asked to stop or runs in a shell; in
`Exchange` some site goes on scanning, or the transport carrying, while there is work.  `Doctor` and `FileStore` state
no liveness.  Failures and crashes are never fair; each is bounded, so a
liveness property says what happens once they cease.  Two things the models need not
assume: that the reconciler gets to an abandoned lock (`FileLock`: contenders heal it), and that
a lock in the way expires (`Inbound`: the pair is quarantined).

## 4. What is proved

TLAPS checks, for all values of the constants and with no bound on the number of
workers, services, calls, sources, pairs or failures:

| Module | Theorem | Assuming |
|---|---|---|
| `FileLockProofs` | `TypeCorrect`, `Exclusion`, `BlindStepsAreSafeAlone`, `LocksDoNotLeak` | |
| | `Implementation`: FileLock implements Lease | |
| `OutboundProofs` | `TypeCorrect`, `NothingTwice`, `CommitMarker`, `AuditTellsTheTruth` | |
| | `Implementation`: Outbound implements Custody | nothing; with several services on one runtime, or a source named `error.json`, what Custody sets aside may be lost (`Sole`) |
| | `NothingIsLost` | one service on the runtime; no source named `error.json` |
| `InboundProofs` | `TypeCorrect`, `Recorded`, `OneDelivery`, `Genuine`, `OnlyForCause`, `OthersAreKept` | |
| | `Implementation`: Inbound implements Reception | |
| | `NoLoss` | no id is one the host has published under |
| `FileStoreProofs` | `TypeCorrect`, `NothingIsLost`, `NothingPartial` | no two calls have one destination |
| | `Implementation`: FileStore implements Relocation | no two calls have one destination |
| `AuditProofs` | `TypeCorrect`, `Numbered`, `AcknowledgedIsKept` | |
| `ServiceLoopProofs` | `TypeCorrect`, `NothingElseCuts`, `HalvesDoNotOverlap`, `NothingVanishes`, `HeardIsKept` | the items are finitely many |
| `ExchangeProofs` | `RoundTrip` | |
| | `DeliveredIsOwned`, `PreviewAgrees` | base folders are not nested |
| | `TypeCorrect`, `ClaimsAreKept`, `ReceivedIsKept` | |
| | `TreeIsMirrored` | on each host base folders are not nested, aliases are distinct, no file is in place of a folder |
| `DoctorProofs` | `TypeCorrect`, `ZeroMeansUsable`, `CleanStarts` | |

The assumptions are needed: with two services `Outbound!NoLoss` is violated, with an
id of the host's own the run `loopback_loss` is the counterexample, with a shared
destination one call renames the copy that another is writing, and with nested base folders
a file is listed under two owners.  Section 5 says what each means for the program.

*FileLock.* `IInv` says of each point of the protocol what the file may contain: a worker
past its exclusive create, if nobody was evicted, owns the file that is there.  None of the
properties is inductive without it: exclusion rests on who created the file, which only
the program counters tell.  The refinement maps the holder of the lease to the owner of the
file, with `IInv` as the invariant under which each step is one of `Lease` or a stutter.

*Outbound.* `Shape` (types, one id for one worker, fresh ids have left no trace) holds
because ids are given out once.  `Flow` follows an id by where its worker is: nothing is
out before the claim, the payload before the signature, the signature before the metadata.
With `MarkerMine` and `PublisherMarked`, the marker of a content names the only id that has
published it; locks play no part, so the theorem survives every race of `FileLock`.
`NoLoss` needs `KInv`: with one service its reconciler is never beside a pipeline
(`QuietOutside`), so that what it deletes is what it listed (`NothingToLose`).

The refinement of *Custody* needs `RInv`.  `RecordedFirst`: a worker about to give its source
up has the success on record, so that `Finalize` is a `Part`.  `Holding`: with one service a
worker between the move and the end of the publication has its clear file in `processing/`,
so that nothing is announced whose source is gone.  `NothingToLose`, with what it says of a
directory about to be removed: its clear file is captured, or its publication recorded.  That
twins are announced once is `PublisherMarked` again, and that `seen` is never partial is
`CommitMarkerLast`.  The proof has a lemma for each action of `Custody`, one for the steps
that a receiver does not see, and puts them together in `Simulation`.

*Inbound.* `Shape`: a pair is in the hands of one worker, which is not in the pass any more,
and nobody is busy outside a pass.  `Flow` has two parts: what is known of a pair by where
its worker is (from the hash check on the payload is whole, and no step of the transport
changes that), and the ledger of deliveries, `times <= faults + crashes + 1`, with
equality only if the last delivery is recorded or its worker is about to record it.  The
ledger is the strengthening `OneDeliveryPerLapse` needs, since a delivery by itself says
nothing of whether its record will be written.  `Memory`, for `Genuine`, ties what a worker has
parsed to the file in `exchange_in`, and once that is moved to the one in `processing/`, as long as
none has come over it.  `NoLoss` adds that no id has a terminal
success but its own delivery; `OthersAreKept` needs no assumption, and says the same of each
id the host has not published under, whatever becomes of those it has.  `OnlyForCause` is
about runs in which no step has raised by itself and the process has not crashed; it needs
to be known of them who may fail at all: a worker that is about to quarantine has a cause
(`CauseAt`), locks belong to live workers (`LockInUse`), and what the reconciler finds in
`processing/` after metadata has ended the loop is what a delivery left, or has been read
while torn (`LeftBehind`).

*FileStore.* `IInv == Shape /\ Contents /\ NoLoss`.  `Shape` says who may change which
inode: a copy is written by its call alone, is named by that call's temporary path alone, in
memory and on disk, and gets its final name only when it is whole and synced.  `Contents`
says what is in it: a source is whole and on disk; the blocks copied so far are those of the
file the call has open, or of versions written over it meanwhile, which are `waived`; and
until the copy has its final name on disk the source still names what was copied.  `NoLoss`
alone is not inductive, since `Unlink` must know that another path holds the same version
on a volume whose journal is committed.  For the refinement a move that is past `Rename`
is still pending: its file is at both paths, and `Unlink` is the step of `Relocation`.

*Audit.* Three invariants, each with the one before it: `TypeInv` bounds the numbers by the
appends made; `ExactInv` says that a pending append holds the number of the next line
unless another writer overlapped it, which is when `NumberedInOrder` lapses; `KeptInv` says
that the lines whose append has returned are in the synced prefix of the file or went with its
entry, and that there are no more unreadable lines than there were tears, not counting those
that `splitlines` breaks.

*ServiceLoop.* `Pool` says what `pool.map` makes of a list: what waits (`queue`) is a suffix of
what was listed, no item is listed twice, those in a pipeline or raised were listed and are not
waiting, no more than the width of the pool, and all of them belong to the half at work.
Without the suffix an exception could be surfaced for an item that is yet to be begun.
`Control` says that the pool is idle wherever the main thread is not in it, or ending because
of an exception, and that nobody has heard a stop before the orchestrator exists.  Lemmas on suffixes carry `Pool` from
step to step; that the folders hold finitely many items is what `os.walk` ending means.

The refinement of *Reception* needs `RInv`.  `StillThere`: the payload that a pass has listed,
or a worker looks at or refuses, is in `exchange_in`, so that a refusal sets something aside.
`Decoding` and `Remains`: beside a decoded file there is the payload it comes from, unless
that is in quarantine already, so that what `Capture` or `Resolve` reports is a payload that
was held.  That a delivery is of something fit is `Progress`, that a second one has its lapse
is the ledger, and that the reconciler clears only successes, or ids of the host's own, is
`NotOurs`.  There is a lemma for each action of `Reception`, and `Simulation` joins them.

*Routing.* There is nothing to induct on: the lemmas are about prefixes and subsequences.
A walked path has its base folder as a prefix, two prefixes of one path are prefixes of each
other, so without nesting the walked folder is the longest owner; a path split at its base
folder and joined again is the path.

*Exchange.* `Tickets`: an id is given out once, so it is one pair wherever it travels, and a
second copy is a copy of the same file.  `Recorded`: an id in the delivered set of a site was
rebuilt there from its pair, so that `Drop`, which deletes a duplicate on the word of the audit
trail, breaks no claim.  With both, `ClaimIsKept` is inductive: every step takes a pair from one
of its five places to another, `PublishFails` from the base folder straight to the quarantine.  `TreeIsMirrored` follows a pair from the scan: it was owned by
the folder it was listed under, is addressed by that folder's alias, and is rebuilt below the
folder of the same alias on the other site, which the lemmas of `Routing` say is its owner there.
TLC's instance has nested folders on one site; the theorem is about those that are not, of any
number and depth.

*Doctor.* A directory that is there stays one, and rights are only given: no step closes a
directory or takes it away.  So what a diagnosis found in order still is when the run ends
and when the service starts, and a directory a fixer has made in between belongs to the
account that has made it.  `IInv` carries this from the diagnosis, over the fixes one by one,
to the exit and through the steps of a start: the directories already ensured are there when
the reconciler lists them, and if one cannot be made or used below an open `runtime.root`,
another account was there.

*Only model-checked*: the liveness properties (`AbandonedLockHealed`, `PickedUp`, `Settled`,
`PayloadResolved`, `Starts`, `StopHeard`, `Reached`, `ComesToRest`), which are beyond the
prover.  Of `StopHeard` the safety half is `HeardIsKept`.  Every safety property and every
refinement of a passing run is a theorem.

## 5. Where the code departs from what it says

`PROJECT.json`, "findings", quotes the lines.  Three have a run that shows them:

* Two live workers can hold one lock (`lock_violation`).
* On a host that carries its own pairs the reconciler takes the outbound success for the
  inbound one, and deletes the payload (`loopback_loss`).
* A stop that comes before the loop exists is forgotten (`stop_lost`).

Four more are stated by a property that TLC refutes at once when it is put in place of those of
the run named:

* The metadata that decides where a file goes is not the one whose signature is verified, if it
  comes again between its parse and its move (`RoutedAsSigned`, in `inbound`).
* A path with U+0085, U+2028 or U+2029 makes the audit trail of its file unreadable, and with it
  every start of the service fails (`NameHarmsNoStart`, in `audit`, with `MaxTears = 0`).
* A power loss may take an audit trail whose lines were all synced (`HistoryIsDurable`, in `audit`).
* A pipeline that fails after its claim leaves the marker, and the resubmitted file is skipped as
  a duplicate of one that was never routed (`ClaimIsRouted`, in `exchange`; `SkippedWasRouted`, in
  `outbound`).

The others are named by the property that would state what the documentation says, or were
read in the code while it was modelled:

* *Outbound.* A reconciler started beside a running pipeline deletes its file (`NoLoss`,
  with two services).  A failure after the payload is out leaves it there without metadata
  (`NeverHalfPublished`).  The reconciliation runs once at start, not periodically; a failed
  quarantine waits for it (`LeftoversResolved`).
* *Inbound.* Metadata cut inside a character ends the pass, on every pass
  (`ServiceLoop!ErrorsAffectNoOther`).  Metadata or a signature without a payload is never
  looked at.  A delivered pair leaves its directory in `processing/`.  A lock that is held
  leads to quarantine, not to a retry.
* *File store.* The copy of a cross-volume move has one name for every caller; nothing
  purges it; the source is unlinked without the check of size and hash the documentation
  names; the directory is not synced after a move within a volume, nor is `temp/` used.
* *Audit.* A torn line makes every later read of the file raise, so that the service
  does not start (`StartsWhateverHappened`).  Two writers of one id take the same number
  (`ReplayIsHistory`).
* *Routing and exchange.* `**/*.tmp` does not exclude a file at the root of a base folder,
  and nested base folders list a file twice; the backlog counts signatures; `inbound_policy`
  is read by nothing, so that a delivery replaces a diverging file (`DivergentKept`); a host
  with the role `both` routes back what it has just delivered (`DeliveredStays`).
* *Doctor.* It looks for gpg on `PATH` alone, where the service takes the configured one;
  it does not look at the allowed signers, nor at the keys of pgpy; broken YAML or a missing
  alias ends it with a traceback; the start makes none of the checks that the comments
  promise; `preview` creates the directories of the service under the account of the operator
  (`FailureWasAnnounced`).

## 6. What is abstracted, and what is not modelled

*Everywhere.* The pipelines take moves and small writes as atomic, which `FileStore` shows
of the code that makes them, the reservations of its properties apart.  `Capture` is one
step, although it moves one file after the other.  The journal, logs and metrics are left
out.  An `OSError` of `acquire` or of the scan is covered by `Raise` and `Crash`, which end
the pass alike.  The `.hb` file of the heartbeat's atomic write is left out.

*Outbound.* Content, hash and name are one model value.  `exchange_out` only grows:
its consumer is external.  Sources whose names clash with the pipeline's own files in
`processing/` are left out, apart from `error.json` (`Clashing`); base folders are not nested.
A failing audit write is a failing step like others; that a trail may be unreadable or lost is in
`Audit` alone, and a crash is one of the process, which loses no file.

*Inbound.* One process.  Of metadata that parses it matters whether it says what was sent
(`altered`): its id and hashes are those of the pair.  `Reception` is about the files; where one is
delivered to is the matter of `OnlyGenuineDelivered` and `RoutedAsSigned`.  `_verify_clear_hash` (it can fail only if decryption returned
something else, a `Fault`), events nothing reads, and empty directories in `processing/`
are left out.  `_resolve_one` is one step, as nothing runs beside it.  What a base folder
holds after a delivery is in `Exchange`.

*FileStore.* A file has two blocks.  A volume journals its directories in order, and `fsync` of
a file saves its blocks and not its name.  The application syncs what it writes.

*Audit.* A line is written by one `write`, which may be cut short; what it says is the event, its
number, and whether a path in it is broken.  The file system commits the entry of a trail when it
likes, or before a power loss never.  *ServiceLoop* counts items and has no files: what becomes of one is in
the pipelines.

*Routing* knows `fnmatch` only for the kinds of pattern that the documentation uses, and of a
name the folders above it, its extension and its case.  *Exchange* takes a pipeline as one
step that succeeds or fails, and of failures it has those that leave a marker or a delivery
unrecorded behind them: crashes are in `Outbound` and `Inbound`.

*Doctor.* A configuration is the set of the defects it has, out of those that either the
doctor, the loader or the start looks for.  Others beside the doctor make directories; that one
takes a directory or its rights away is left out, as nothing that was diagnosed before says
anything of the time after.

*Not modelled*: retention (nothing in the service calls it), the transfer journal, the
serialization of metadata, hashing and compression, the crypto libraries, health, logs and
metrics, the installation of the Windows service, and the commands that only read
(`history`, `trace`, `list-quarantine`).

## 7. Plan

Done: `FileLock` and `Lease`, `Outbound` and `Custody`, `Inbound` and `Reception`, `FileStore` and
`Relocation`, `Audit`, `ServiceLoop`, `Routing`, `Exchange` and `Doctor`, with their proofs.

Left:

1. More of `Routing`: that the first matching rule is the one that applies, and that the key
   of the duplicate index tells directories apart as far as it does.
2. `Retention`: the markers and records it deletes, against the duplicates they stand for.
3. A second process in `Inbound`, for the files a loser of a lock captures.
