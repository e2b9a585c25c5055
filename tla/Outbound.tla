------------------------------ MODULE Outbound ------------------------------
(***************************************************************************)
(* The outbound half of FileRouter: OutboundProcessor (core/outbound.py)    *)
(* with what it rests on (the source lock, DedupIndex, Quarantine, the      *)
(* audit trail) and what runs it (Orchestrator.scan_once, Reconciler, the   *)
(* start of a Service), over one runtime directory.                         *)
(*                                                                         *)
(* One action is one step of the pipeline that leaves a trace on disk.  A   *)
(* service process may crash between any two of them, and any step of the   *)
(* pipeline may raise.  Several services may share the runtime directory.   *)
(* The lock is the revocable lease that FileLock implements.                *)
(***************************************************************************)
EXTENDS Naturals, FiniteSets

CONSTANTS
  Service,     \* service processes over the same runtime directory
  Worker,      \* threads of their pools
  Home,        \* the service a worker belongs to
  Source,      \* paths under the base folders
  Content,     \* what a business application may write there
  Place,       \* the base folder and relative directory of a path
  None,        \* no content, item, id or worker
  Compressed,  \* sources that match a compression rule
  Encrypted,   \* sources that match an encryption rule
  Signing,     \* does the instance sign what it encrypts?
  Dedup,       \* duplicates.outbound_policy = "skip"
  Archiving,   \* archival.source_policy is not "delete"
  Clashing,    \* sources called error.json, like the report of a quarantine
  MaxId,       \* bound: technical ids
  MaxProduce,  \* bound: files written by business applications
  MaxFault,    \* bound: steps that raise
  MaxCrash,    \* bound: crashes of a service process
  MaxRevoke    \* bound: locks taken from live owners

Id   == 1 .. MaxId
Item == [src : Source, content : Content]
\* The dedup marker is named after the hash, the alias and the directory; the
\* name of the file is not part of it.
Key      == Content \X {Place[s] : s \in Source}
KeyOf(x) == <<x.content, Place[x.src]>>

ASSUME OutboundAssumption ==
  /\ Home \in [Worker -> Service]
  /\ Compressed \subseteq Source /\ Encrypted \subseteq Source /\ Clashing \subseteq Source
  /\ Signing \in BOOLEAN /\ Dedup \in BOOLEAN /\ Archiving \in BOOLEAN
  /\ MaxId \in Nat /\ MaxProduce \in Nat /\ MaxFault \in Nat
  /\ MaxCrash \in Nat /\ MaxRevoke \in Nat
  /\ None \notin Worker \cup Content
  /\ None \notin Id
  /\ None \notin Item
  /\ DOMAIN Place = Source

VARIABLES
  (* the file system *)
  business,  \* base folders: what is at each path
  dirs,      \* directories under processing/
  files,     \* processing/<id>/: which of clear, compressed, payload are there
  item,      \* the source file an id has taken in
  out,       \* exchange_out: what has been published under an id
  archive,   \* ids whose clear file was archived
  error,     \* error/<id>/: the source files quarantined there
  audit,     \* events recorded for an id
  marker,    \* dedup/: the id that claimed each key
  holder,    \* locks/: who holds the lock of a source
  (* the workers *)
  pc, src, tid,
  (* the services *)
  svc, batch, todo, cur, snap,
  (* history and bounds *)
  submitted, \* items business applications have written
  skipped,   \* ids skipped as duplicates
  nextId, faults, crashes, revokes, produced

disk    == <<business, dirs, files, item, out, archive, error, audit, marker>>
workers == <<pc, src, tid>>
service == <<svc, batch, todo, cur, snap>>
bounds  == <<faults, crashes, revokes, produced>>
vars    == <<disk, holder, workers, service, submitted, skipped, nextId, bounds>>

Terminal == {"MOVED_TO_EXCHANGE_OUT", "ARCHIVED"}
Event    == Terminal \cup {"DETECTED", "ERROR"}

\* Where in process() a worker is.  "leave" is the exit of the lock's context.
Try   == {"move", "claim", "compress", "build", "payload", "sig", "meta",
          "record", "finalize", "archived"}
Point == Try \cup {"idle", "begin", "capture", "error", "leave"}
Recovery == {"judge", "capture", "record", "purge"}

TypeOK ==
  /\ business \in [Source -> Content \cup {None}]
  /\ dirs \subseteq Id
  /\ files \in [Id -> SUBSET {"clear", "compressed", "payload"}]
  /\ item \in [Id -> Item \cup {None}]
  /\ out \in [Id -> SUBSET {"payload", "sig", "meta"}]
  /\ archive \subseteq Id
  /\ error \in [Id -> SUBSET Item]
  /\ audit \in [Id -> SUBSET Event]
  /\ marker \in [Key -> Id \cup {None}]
  /\ holder \in [Source -> Worker \cup {None}]
  /\ pc \in [Worker -> Point]
  /\ src \in [Worker -> Source \cup {None}]
  /\ tid \in [Worker -> Id \cup {None}]
  /\ svc \in [Service -> Recovery \cup {"down", "scan", "dispatch", "failing"}]
  /\ batch \in [Service -> SUBSET Source]
  /\ todo \in [Service -> SUBSET Id]
  /\ cur \in [Service -> Id \cup {None}]
  /\ snap \in [Service -> SUBSET {"clear", "compressed", "payload"}]
  /\ submitted \subseteq Item
  /\ skipped \subseteq Id
  /\ nextId \in 1 .. MaxId + 1
  /\ faults \in 0 .. MaxFault
  /\ crashes \in 0 .. MaxCrash
  /\ revokes \in 0 .. MaxRevoke
  /\ produced \in 0 .. MaxProduce

Init ==
  /\ business = [s \in Source |-> None]
  /\ dirs = {}
  /\ files = [i \in Id |-> {}]
  /\ item = [i \in Id |-> None]
  /\ out = [i \in Id |-> {}]
  /\ archive = {}
  /\ error = [i \in Id |-> {}]
  /\ audit = [i \in Id |-> {}]
  /\ marker = [k \in Key |-> None]
  /\ holder = [s \in Source |-> None]
  /\ pc = [w \in Worker |-> "idle"]
  /\ src = [w \in Worker |-> None]
  /\ tid = [w \in Worker |-> None]
  /\ svc = [v \in Service |-> "down"]
  /\ batch = [v \in Service |-> {}]
  /\ todo = [v \in Service |-> {}]
  /\ cur = [v \in Service |-> None]
  /\ snap = [v \in Service |-> {}]
  /\ submitted = {}
  /\ skipped = {}
  /\ nextId = 1
  /\ faults = 0 /\ crashes = 0 /\ revokes = 0 /\ produced = 0

----------------------------------------------------------------------------
(* Small steps *)

Goto(w, l) == pc' = [pc EXCEPT ![w] = l]

Add(f, i, x)    == [f EXCEPT ![i] = f[i] \cup x]
Remove(f, i, x) == [f EXCEPT ![i] = f[i] \ x]

Signed(s) == s \in Encrypted /\ Signing
\* What exchange_out must hold for the receiver to take the file.
Parts(s)  == {"payload", "meta"} \cup (IF Signed(s) THEN {"sig"} ELSE {})
Complete(i) == item[i] # None /\ Parts(item[i].src) \subseteq out[i]

\* _cleanup: rmdir removes processing/<id> only if nothing is left in it.
Cleanup(i, left) == dirs' = IF left = {} THEN dirs \ {i} ELSE dirs

Quiet(v) == \A w \in Worker : Home[w] = v => pc[w] = "idle"

----------------------------------------------------------------------------
(* Business applications *)

Produce(s, c) ==
  /\ business[s] = None
  /\ produced < MaxProduce
  /\ business' = [business EXCEPT ![s] = c]
  /\ submitted' = submitted \cup {[src |-> s, content |-> c]}
  /\ produced' = produced + 1
  /\ UNCHANGED <<dirs, files, item, out, archive, error, audit, marker, holder,
                 workers, service, skipped, nextId, faults, crashes, revokes>>

----------------------------------------------------------------------------
(* The lock of a source: a revocable lease *)

Alive(w, s) == pc[w] # "idle" /\ src[w] = s

\* The lock of a worker that is gone expires, and a contender or the reconciler
\* removes it.
ReclaimDead(s) ==
  /\ holder[s] # None
  /\ ~Alive(holder[s], s)
  /\ holder' = [holder EXCEPT ![s] = None]
  /\ UNCHANGED <<disk, workers, service, submitted, skipped, nextId, bounds>>

\* The lock of a live worker is judged stale (FileLock shows how).
RevokeLive(s) ==
  /\ holder[s] # None
  /\ Alive(holder[s], s)
  /\ revokes < MaxRevoke
  /\ revokes' = revokes + 1
  /\ holder' = [holder EXCEPT ![s] = None]
  /\ UNCHANGED <<disk, workers, service, submitted, skipped, nextId, faults,
                 crashes, produced>>

----------------------------------------------------------------------------
(* OutboundProcessor.process *)

\* What every step of a pipeline leaves alone.
aside == <<holder, src, tid, service, submitted, nextId, bounds>>

\* A thread of the pool takes a source from the pass, and its lock.  A LockError
\* is an outcome like another: the source stays for the next pass.
Take(w, s) ==
  LET v == Home[w] IN
  /\ pc[w] = "idle"
  /\ svc[v] \in {"dispatch", "failing"}
  /\ s \in batch[v]
  /\ batch' = Remove(batch, v, {s})
  /\ IF holder[s] = None
     THEN /\ holder' = [holder EXCEPT ![s] = w]
          /\ src' = [src EXCEPT ![w] = s]
          /\ Goto(w, "begin")
     ELSE UNCHANGED <<holder, src, pc>>
  /\ UNCHANGED <<disk, tid, svc, todo, cur, snap, submitted, skipped, nextId, bounds>>

\* A new id, its directory, the classification and the first audit event.
Begin(w) ==
  /\ pc[w] = "begin"
  /\ nextId <= MaxId
  /\ nextId' = nextId + 1
  /\ tid' = [tid EXCEPT ![w] = nextId]
  /\ dirs' = dirs \cup {nextId}
  /\ audit' = Add(audit, nextId, {"DETECTED"})
  /\ Goto(w, "move")
  /\ UNCHANGED <<business, files, item, out, archive, error, marker, holder, src,
                 service, submitted, skipped, bounds>>

\* _move_source_in; atomic_move makes the directory again if it is gone.
MoveIn(w) ==
  LET i == tid[w]  s == src[w] IN
  /\ pc[w] = "move"
  /\ business[s] # None
  /\ business' = [business EXCEPT ![s] = None]
  /\ item' = [item EXCEPT ![i] = [src |-> s, content |-> business[s]]]
  /\ files' = Add(files, i, {"clear"})
  /\ dirs' = dirs \cup {i}
  /\ Goto(w, "claim")
  /\ UNCHANGED <<out, archive, error, audit, marker, skipped, aside>>

\* The files of its own directory that a step reads.
Needs(w) ==
  CASE pc[w] \in {"claim", "compress"} -> {"clear"}
    [] pc[w] = "build"   -> {"clear"} \cup (IF src[w] \in Compressed THEN {"compressed"}
                                            ELSE {})
    [] pc[w] = "payload" -> {"payload"}
    [] pc[w] = "finalize" /\ Archiving -> {"clear"}
    [] OTHER -> {}

Ready(w, l) == pc[w] = l /\ Needs(w) \subseteq files[tid[w]]

AfterClaim(s) == IF s \in Compressed THEN "compress" ELSE "build"

\* Slip: a marker counts only once its id has published something.
ClaimUnlessRouted(w) ==
  LET i == tid[w]  k == KeyOf(item[tid[w]]) IN
  /\ Ready(w, "claim")
  /\ IF Dedup /\ marker[k] # None /\ out[marker[k]] # {}
     THEN /\ skipped' = skipped \cup {i}
          /\ Goto(w, "leave")
          /\ UNCHANGED marker
     ELSE /\ marker' = IF Dedup THEN [marker EXCEPT ![k] = i] ELSE marker
          /\ Goto(w, AfterClaim(src[w]))
          /\ UNCHANGED skipped
  /\ UNCHANGED <<business, dirs, files, item, out, archive, error, audit, aside>>

\* _is_duplicate: the first id to create the marker goes on; a later one returns
\* from the pipeline and leaves its clear file where it is.
Claim(w) ==
  LET i == tid[w]  k == KeyOf(item[tid[w]]) IN
  /\ Ready(w, "claim")
  /\ IF Dedup /\ marker[k] # None
     THEN /\ skipped' = skipped \cup {i}
          /\ Goto(w, "leave")
          /\ UNCHANGED marker
     ELSE /\ marker' = IF Dedup THEN [marker EXCEPT ![k] = i] ELSE marker
          /\ Goto(w, AfterClaim(src[w]))
          /\ UNCHANGED skipped
  /\ UNCHANGED <<business, dirs, files, item, out, archive, error, audit, aside>>

\* _maybe_compress
Compress(w) ==
  /\ Ready(w, "compress")
  /\ files' = Add(files, tid[w], {"compressed"})
  /\ Goto(w, "build")
  /\ UNCHANGED <<business, dirs, item, out, archive, error, audit, marker, skipped, aside>>

\* _maybe_encrypt, or the copy that stands for it, then hash, name and metadata.
Build(w) ==
  /\ Ready(w, "build")
  /\ files' = Add(files, tid[w], {"payload"})
  /\ Goto(w, "payload")
  /\ UNCHANGED <<business, dirs, item, out, archive, error, audit, marker, skipped, aside>>

----------------------------------------------------------------------------
(* _publish: payload, signature, metadata, audit *)

\* Slip: the signature is left for later.
PublishPayloadUnsigned(w) ==
  /\ Ready(w, "payload")
  /\ files' = Remove(files, tid[w], {"payload"})
  /\ out' = Add(out, tid[w], {"payload"})
  /\ Goto(w, "meta")
  /\ UNCHANGED <<business, dirs, item, archive, error, audit, marker, skipped, aside>>

\* Slip: the audit event is written as soon as the payload is there.
PublishPayloadAudited(w) ==
  /\ Ready(w, "payload")
  /\ files' = Remove(files, tid[w], {"payload"})
  /\ out' = Add(out, tid[w], {"payload"})
  /\ audit' = Add(audit, tid[w], {"MOVED_TO_EXCHANGE_OUT"})
  /\ Goto(w, IF Signed(src[w]) THEN "sig" ELSE "meta")
  /\ UNCHANGED <<business, dirs, item, archive, error, marker, skipped, aside>>

PublishPayload(w) ==
  /\ Ready(w, "payload")
  /\ files' = Remove(files, tid[w], {"payload"})
  /\ out' = Add(out, tid[w], {"payload"})
  /\ Goto(w, IF Signed(src[w]) THEN "sig" ELSE "meta")
  /\ UNCHANGED <<business, dirs, item, archive, error, audit, marker, skipped, aside>>

PublishSig(w) ==
  /\ pc[w] = "sig"
  /\ out' = Add(out, tid[w], {"sig"})
  /\ Goto(w, "meta")
  /\ UNCHANGED <<business, dirs, files, item, archive, error, audit, marker, skipped, aside>>

PublishMeta(w) ==
  /\ pc[w] = "meta"
  /\ out' = Add(out, tid[w], {"meta"})
  /\ Goto(w, "record")
  /\ UNCHANGED <<business, dirs, files, item, archive, error, audit, marker, skipped, aside>>

RecordPublished(w) ==
  /\ pc[w] = "record"
  /\ audit' = Add(audit, tid[w], {"MOVED_TO_EXCHANGE_OUT"})
  /\ Goto(w, "finalize")
  /\ UNCHANGED <<business, dirs, files, item, out, archive, error, marker, skipped, aside>>

\* _finalize_source: to the archive, or deleted.
Finalize(w) ==
  LET i == tid[w] IN
  /\ Ready(w, "finalize")
  /\ files' = Remove(files, i, {"clear"})
  /\ IF Archiving
     THEN archive' = archive \cup {i} /\ Goto(w, "archived") /\ UNCHANGED dirs
     ELSE Cleanup(i, files'[i]) /\ Goto(w, "leave") /\ UNCHANGED archive
  /\ UNCHANGED <<business, item, out, error, audit, marker, skipped, aside>>

RecordArchived(w) ==
  /\ pc[w] = "archived"
  /\ audit' = Add(audit, tid[w], {"ARCHIVED"})
  /\ Cleanup(tid[w], files[tid[w]])
  /\ Goto(w, "leave")
  /\ UNCHANGED <<business, files, item, out, archive, error, marker, skipped, aside>>

----------------------------------------------------------------------------
(* Failure: _quarantine *)

\* A step raises because somebody else took its input away.
InputGone(w) ==
  /\ pc[w] \in Try
  /\ \/ pc[w] = "move" /\ business[src[w]] = None
     \/ ~(Needs(w) \subseteq files[tid[w]])
  /\ Goto(w, "capture")
  /\ UNCHANGED <<disk, skipped, aside>>

\* A step raises for any other reason (disk full, permission, crypto).
Fault(w) ==
  /\ pc[w] \in Try
  /\ faults < MaxFault
  /\ faults' = faults + 1
  /\ Goto(w, "capture")
  /\ UNCHANGED <<disk, holder, src, tid, service, submitted, skipped, nextId,
                 crashes, revokes, produced>>

\* Slip: artifacts are captured without looking whether they exist.
CapturedBlindly(i, s) ==
  {item[i]} \cup
  (IF business[s] # None /\ s \notin Clashing
   THEN {[src |-> s, content |-> business[s]]} ELSE {})

\* What capture() keeps of clear and payload, and of the file at the source path
\* if there is one: error.json is then written over a file of that name.
Captured(i, s) ==
  (IF "clear" \in files[i] THEN {item[i]} ELSE {}) \cup
  (IF business[s] # None /\ s \notin Clashing
   THEN {[src |-> s, content |-> business[s]]} ELSE {})

Capture(w) ==
  LET i == tid[w]  s == src[w] IN
  /\ pc[w] = "capture"
  /\ error' = Add(error, i, Captured(i, s))
  /\ files' = Remove(files, i, {"clear", "payload"})
  /\ business' = [business EXCEPT ![s] = None]
  /\ Goto(w, "error")
  /\ UNCHANGED <<dirs, item, out, archive, audit, marker, skipped, aside>>

RecordError(w) ==
  /\ pc[w] = "error"
  /\ audit' = Add(audit, tid[w], {"ERROR"})
  /\ Cleanup(tid[w], files[tid[w]])
  /\ Goto(w, "leave")
  /\ UNCHANGED <<business, files, item, out, archive, error, marker, skipped, aside>>

\* A move of capture() raises a TransientError, for process() an outcome like a
\* LockError: what is in processing/ stays there, and nothing records it.
GiveUp(w) ==
  /\ pc[w] = "capture"
  /\ faults < MaxFault
  /\ faults' = faults + 1
  /\ Goto(w, "leave")
  /\ UNCHANGED <<disk, holder, src, tid, service, submitted, skipped, nextId,
                 crashes, revokes, produced>>

\* makedirs before the try, or anything else in _quarantine, raises: the exception
\* leaves process() and ends the scan loop of the service.
Raise(w) ==
  /\ pc[w] \in {"begin", "capture", "error"}
  /\ faults < MaxFault
  /\ faults' = faults + 1
  /\ Goto(w, "leave")
  /\ svc' = [svc EXCEPT ![Home[w]] = "failing"]
  /\ UNCHANGED <<disk, holder, src, tid, batch, todo, cur, snap, submitted, skipped,
                 nextId, crashes, revokes, produced>>

\* The lock's context ends: its file is unlinked, whoever it belongs to by now.
Leave(w) ==
  /\ pc[w] = "leave"
  /\ holder' = [holder EXCEPT ![src[w]] = None]
  /\ src' = [src EXCEPT ![w] = None]
  /\ tid' = [tid EXCEPT ![w] = None]
  /\ Goto(w, "idle")
  /\ UNCHANGED <<disk, service, submitted, skipped, nextId, bounds>>

Step(w) ==
  \/ Begin(w) \/ MoveIn(w) \/ Claim(w) \/ Compress(w) \/ Build(w)
  \/ PublishPayload(w) \/ PublishSig(w) \/ PublishMeta(w) \/ RecordPublished(w)
  \/ Finalize(w) \/ RecordArchived(w)
  \/ InputGone(w) \/ Capture(w) \/ RecordError(w) \/ Leave(w)

----------------------------------------------------------------------------
(* Service.run: Reconciler.run, then Orchestrator.run_forever *)

idling == <<holder, workers, submitted, skipped, nextId, bounds>>

\* Slip: the service starts without looking at processing/.
BootBlindly(v) ==
  /\ svc[v] = "down"
  /\ svc' = [svc EXCEPT ![v] = "judge"]
  /\ todo' = [todo EXCEPT ![v] = {}]
  /\ UNCHANGED <<disk, batch, cur, snap, idling>>

\* _resolve_processing lists processing/ once, then works down the list.
Boot(v) ==
  /\ svc[v] = "down"
  /\ svc' = [svc EXCEPT ![v] = "judge"]
  /\ todo' = [todo EXCEPT ![v] = dirs]
  /\ UNCHANGED <<disk, batch, cur, snap, idling>>

Next1(v, i) == /\ svc[v] = "judge"
               /\ i \in todo[v]
               /\ \A j \in todo[v] : i <= j

\* _resolve_one: published before the crash, so the leftovers go.
JudgePublished(v, i) ==
  /\ Next1(v, i)
  /\ audit[i] \cap Terminal # {}
  /\ cur' = [cur EXCEPT ![v] = i]
  /\ svc' = [svc EXCEPT ![v] = "purge"]
  /\ UNCHANGED <<disk, batch, todo, snap, idling>>

\* Progress unknown: list what is there, to preserve it.
JudgeInterrupted(v, i) ==
  /\ Next1(v, i)
  /\ audit[i] \cap Terminal = {}
  /\ i \in dirs
  /\ cur' = [cur EXCEPT ![v] = i]
  /\ snap' = [snap EXCEPT ![v] = files[i]]
  /\ svc' = [svc EXCEPT ![v] = "capture"]
  /\ UNCHANGED <<disk, batch, todo, idling>>

\* The directory is gone: iterdir raises, and the service does not start.
JudgeVanished(v, i) ==
  /\ Next1(v, i)
  /\ audit[i] \cap Terminal = {}
  /\ i \notin dirs
  /\ svc' = [svc EXCEPT ![v] = "down"]
  /\ todo' = [todo EXCEPT ![v] = {}]
  /\ UNCHANGED <<disk, batch, cur, snap, idling>>

\* Slip: the files are left to the removal of the directory.
RecoverReportOnly(v) ==
  /\ svc[v] = "capture"
  /\ snap' = [snap EXCEPT ![v] = {}]
  /\ svc' = [svc EXCEPT ![v] = "record"]
  /\ UNCHANGED <<disk, batch, todo, cur, idling>>

RecoverCapture(v) ==
  LET i == cur[v] IN
  /\ svc[v] = "capture"
  /\ error' = IF "clear" \in snap[v] \cap files[i] THEN Add(error, i, {item[i]}) ELSE error
  /\ files' = Remove(files, i, snap[v])
  /\ snap' = [snap EXCEPT ![v] = {}]
  /\ svc' = [svc EXCEPT ![v] = "record"]
  /\ UNCHANGED <<business, dirs, item, out, archive, audit, marker, batch, todo, cur, idling>>

RecoverRecord(v) ==
  /\ svc[v] = "record"
  /\ audit' = Add(audit, cur[v], {"ERROR"})
  /\ svc' = [svc EXCEPT ![v] = "purge"]
  /\ UNCHANGED <<business, dirs, files, item, out, archive, error, marker, batch, todo,
                 cur, snap, idling>>

\* _safe_rmtree: whatever the directory holds by now.
Purge(v) ==
  LET i == cur[v] IN
  /\ svc[v] = "purge"
  /\ files' = [files EXCEPT ![i] = {}]
  /\ dirs' = dirs \ {i}
  /\ todo' = Remove(todo, v, {i})
  /\ cur' = [cur EXCEPT ![v] = None]
  /\ svc' = [svc EXCEPT ![v] = "judge"]
  /\ UNCHANGED <<business, item, out, archive, error, audit, marker, batch, snap, idling>>

Reconciled(v) ==
  /\ svc[v] = "judge"
  /\ todo[v] = {}
  /\ svc' = [svc EXCEPT ![v] = "scan"]
  /\ UNCHANGED <<disk, batch, todo, cur, snap, idling>>

\* collect_outbound: the sources there are now.
Scan(v) ==
  /\ svc[v] = "scan"
  /\ batch' = [batch EXCEPT ![v] = {s \in Source : business[s] # None}]
  /\ svc' = [svc EXCEPT ![v] = "dispatch"]
  /\ UNCHANGED <<disk, todo, cur, snap, idling>>

\* Slip: the pass is over only when the base folders are empty.
EndPassDrained(v) ==
  /\ svc[v] = "dispatch"
  /\ batch[v] = {}
  /\ Quiet(v)
  /\ \A s \in Source : business[s] = None
  /\ svc' = [svc EXCEPT ![v] = "scan"]
  /\ UNCHANGED <<disk, batch, todo, cur, snap, idling>>

\* The pool has worked off the pass.
EndPass(v) ==
  /\ svc[v] = "dispatch"
  /\ batch[v] = {}
  /\ Quiet(v)
  /\ svc' = [svc EXCEPT ![v] = "scan"]
  /\ UNCHANGED <<disk, batch, todo, cur, snap, idling>>

\* An exception ends the loop, once the pool has finished what it had begun.
Fail(v) ==
  /\ svc[v] = "failing"
  /\ Quiet(v)
  /\ svc' = [svc EXCEPT ![v] = "down"]
  /\ batch' = [batch EXCEPT ![v] = {}]
  /\ UNCHANGED <<disk, todo, cur, snap, idling>>

\* The process dies, with its threads; the locks they held stay.
Crash(v) ==
  /\ svc[v] # "down"
  /\ crashes < MaxCrash
  /\ crashes' = crashes + 1
  /\ pc' = [w \in Worker |-> IF Home[w] = v THEN "idle" ELSE pc[w]]
  /\ src' = [w \in Worker |-> IF Home[w] = v THEN None ELSE src[w]]
  /\ tid' = [w \in Worker |-> IF Home[w] = v THEN None ELSE tid[w]]
  /\ svc' = [svc EXCEPT ![v] = "down"]
  /\ batch' = [batch EXCEPT ![v] = {}]
  /\ todo' = [todo EXCEPT ![v] = {}]
  /\ cur' = [cur EXCEPT ![v] = None]
  /\ snap' = [snap EXCEPT ![v] = {}]
  /\ UNCHANGED <<disk, holder, submitted, skipped, nextId, faults, revokes, produced>>

Reconcile(v) ==
  \/ \E i \in Id : JudgePublished(v, i) \/ JudgeInterrupted(v, i) \/ JudgeVanished(v, i)
  \/ RecoverCapture(v) \/ RecoverRecord(v) \/ Purge(v) \/ Reconciled(v)

Run(v) == Boot(v) \/ Reconcile(v) \/ Scan(v) \/ EndPass(v) \/ Fail(v)

Next ==
  \/ \E s \in Source : \/ \E c \in Content : Produce(s, c)
                       \/ ReclaimDead(s)
                       \/ RevokeLive(s)
  \/ \E w \in Worker : \/ \E s \in Source : Take(w, s)
                       \/ Step(w)
                       \/ Fault(w)
                       \/ GiveUp(w)
                       \/ Raise(w)
  \/ \E v \in Service : Run(v) \/ Crash(v)

Spec == Init /\ [][Next]_vars

\* Threads run, the loop goes round, a dead worker's lock expires, and systemd
\* starts the service again (Restart=on-failure).  Nothing obliges a business
\* application to write, a step to fail or a process to crash.
Fairness ==
  /\ \A w \in Worker : WF_vars(Step(w)) /\ WF_vars(\E s \in Source : Take(w, s))
  /\ \A s \in Source : WF_vars(ReclaimDead(s))
  /\ \A v \in Service : WF_vars(Run(v))

FairSpec == Spec /\ Fairness

----------------------------------------------------------------------------
(* Properties *)

\* Where the bytes of a source file can be found.
Kept(x) ==
  \/ business[x.src] = x.content
  \/ \E i \in Id : \/ x \in error[i]
                   \/ item[i] = x /\ ("clear" \in files[i] \/ i \in archive \/ Complete(i))

\* outbound.py, "the source is never lost"; reconciliation.py, "resolves them
\* WITHOUT losing data": whatever steps fail and wherever a process crashes,
\* every file an application wrote is still in its folder, in processing/, in
\* quarantine, in the archive or completely published.
NoLoss == \A x \in submitted : Kept(x)

\* Dedup: one content in one place is published under at most one id, even when
\* locks fail, several services share the runtime, or a process crashes.
PublishedOnce ==
  Dedup => \A i, j \in Id : i # j /\ out[i] # {} /\ out[j] # {}
                             => KeyOf(item[i]) # KeyOf(item[j])

\* _publish: the metadata is the commit marker, so what it announces is there.
CommitMarkerLast == \A i \in Id : "meta" \in out[i] => Complete(i)

\* What the audit calls a success is one, so that the reconciler, which deletes
\* on its word, deletes only what has been published in full.
AuditedIsPublished == \A i \in Id : audit[i] \cap Terminal # {} => Complete(i)

\* The abstract half: what the receiver finds under an id, once there is metadata.
Alone == \A u, v \in Service : u = v
Seen(i) == IF "meta" \in out[i] THEN IF Complete(i) THEN "whole" ELSE "partial"
                                ELSE "nothing"
Abstract == INSTANCE Custody
            WITH Sole     <- Alone /\ Clashing = {},
                 offered  <- business,
                 taken    <- item,
                 held     <- {i \in Id : "clear" \in files[i]},
                 seen     <- [i \in Id |-> Seen(i)],
                 recorded <- {i \in Id : audit[i] \cap Terminal # {}},
                 archived <- archive,
                 aside    <- error

\* A publication of three files is one to the receiver, and of one file of one
\* place; until it is out and recorded the file is in processing/, and what fails is
\* set aside, whatever fails and wherever the process crashes (outbound.py:66-127,
\* 264-290, 320-350).  Services that share the runtime may lose files.
ImplementsCustody == Abstract!Spec

\* Every file that reaches a base folder leaves it, whatever crashes.
PickedUp == \A s \in Source : business[s] # None ~> business[s] = None

\* What a service leaves in processing/ when it stops is resolved by its next
\* start, though it may crash again.
Settled == \A v \in Service, i \in Id :
  svc[v] = "down" /\ "clear" \in files[i] ~> "clear" \notin files[i]

\* docs/en/03-state-management.md 6, "run once at boot then periodically": what is
\* left in processing/ is resolved without waiting for a restart.
LeftoversResolved == \A i \in Id : "clear" \in files[i] ~> "clear" \notin files[i]

\* docs/en/02-flows.md 3, "never half-published": what ended in quarantine has
\* left nothing in exchange_out that the receiver could not take.
NeverHalfPublished ==
  \A i \in Id : "ERROR" \in audit[i] => out[i] = {} \/ Complete(i)

\* _is_duplicate, "True if this content was already routed": what is skipped has
\* been published by the id that claimed the marker, or is about to be.
SkippedWasRouted ==
  \A i \in skipped : LET j == marker[KeyOf(item[i])] IN
                     Complete(j) \/ \E w \in Worker : tid[w] = j

=============================================================================
