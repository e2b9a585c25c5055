------------------------------ MODULE FileLock ------------------------------
(***************************************************************************)
(* FileLockManager (adapters/file_lock_manager.py), one key, at the         *)
(* granularity of its system calls, together with the two parties that      *)
(* remove a lock they do not own: a contender that finds the lock stale,    *)
(* and Reconciler._reclaim_locks.                                           *)
(*                                                                         *)
(* The lock is a file.  O_CREAT|O_EXCL creates it empty; the JSON payload   *)
(* is written by a second call.  A contender that finds the file there      *)
(* reads it, and takes it for stale when it is gone, when it does not       *)
(* parse (an empty file does not), or when its heartbeat is older than the  *)
(* TTL; it then unlinks whatever file is at the path.  Time is counted in   *)
(* ticks; ages saturate just past the TTL.                                  *)
(***************************************************************************)
EXTENDS Naturals, FiniteSets

CONSTANTS
  Worker,        \* threads and processes that contend for the key
  None,          \* no worker, no verdict, no file
  Beating,       \* workers that call heartbeat() while they hold the lock:
                 \* the pipelines never do, only the tests of the lock do
  TTL,           \* lock_ttl, in ticks
  MaxAbandoned   \* bound: how many workers die or fail while they have a file

\* Why a lock file was judged stale.
Misjudged == {"torn",       \* read between the creation and the write
              "vanished",   \* released between the failed create and the read
              "overrun"}    \* a live owner, silent for longer than the TTL
Cause     == Misjudged \cup {"abandoned"}

VARIABLES
  file,      \* the lock file, or None
  pc,        \* where each worker is in acquire()
  beat,      \* age of heartbeat_at in the payload a worker is about to write
  verdict,   \* why a worker that is about to unlink judged the lock stale
  reaper,    \* the same for the reconciler; None when it is not reclaiming
  evicted,   \* history: how a live owner first lost its lock file, or None
  abandoned  \* history: how often a worker died or failed over its file

vars == <<file, pc, beat, verdict, reaper, evicted, abandoned>>

Age  == 0 .. TTL + 1
\* by: who created the file.  beat: age of the heartbeat_at it holds, which a
\* contender reads.  mtime: age of its last write, which the reconciler reads.
File == [by : Worker, written : BOOLEAN, beat : Age, mtime : Age]

ASSUME LockAssumption == /\ None \notin Worker
                         /\ None \notin Cause \cup {"release", "heartbeat"}
                         /\ None \notin File
                         /\ Beating \subseteq Worker
                         /\ TTL \in Nat
                         /\ MaxAbandoned \in Nat

TypeOK ==
  /\ file \in File \cup {None}
  /\ pc \in [Worker -> {"idle", "open", "write", "probe", "unlink", "reopen", "held"}]
  /\ beat \in [Worker -> Age]
  /\ verdict \in [Worker -> Cause \cup {None}]
  /\ \A w \in Worker : pc[w] = "unlink" <=> verdict[w] # None
  /\ reaper \in Cause \cup {None}
  /\ evicted \in Cause \cup {"release", "heartbeat", None}
  /\ abandoned \in 0 .. MaxAbandoned

\* Workers for which O_EXCL succeeded and that have not released since.
Owners    == {w \in Worker : pc[w] \in {"write", "held"}}
\* Workers inside `with locks.acquire(key)`.
InSection == {w \in Worker : pc[w] = "held"}

Init ==
  /\ file = None
  /\ pc = [w \in Worker |-> "idle"]
  /\ beat = [w \in Worker |-> 0]
  /\ verdict = [w \in Worker |-> None]
  /\ reaper = None
  /\ evicted = None
  /\ abandoned = 0

Goto(w, l) == pc' = [pc EXCEPT ![w] = l]

\* Somebody other than its live owner takes the file at the path away.
Evict(byWhom, how) ==
  evicted' = IF evicted = None /\ file # None /\ file.by \in Owners \ {byWhom}
             THEN how ELSE evicted

----------------------------------------------------------------------------
(* acquire() *)

\* The payload, with its heartbeat_at, is built before the file is created.
Acquire(w) ==
  /\ pc[w] = "idle"
  /\ Goto(w, "open")
  /\ UNCHANGED <<file, beat, verdict, reaper, evicted, abandoned>>

Created(w) == [by |-> w, written |-> FALSE, beat |-> beat[w], mtime |-> 0]

\* Slip: created without O_EXCL.
OpenShared(w) ==
  /\ pc[w] = "open"
  /\ file' = Created(w)
  /\ Goto(w, "write")
  /\ UNCHANGED <<beat, verdict, reaper, evicted, abandoned>>

\* First os.open: it creates the empty file, or fails because one is there.
Open(w) ==
  /\ pc[w] = "open"
  /\ IF file = None
     THEN file' = Created(w) /\ Goto(w, "write")
     ELSE Goto(w, "probe") /\ UNCHANGED file
  /\ UNCHANGED <<beat, verdict, reaper, evicted, abandoned>>

\* os.write goes to the descriptor: it reaches the file at the path only if
\* that is still the one this worker created.
Write(w) ==
  /\ pc[w] = "write"
  /\ file' = IF file # None /\ file.by = w
             THEN [file EXCEPT !.written = TRUE, !.mtime = 0] ELSE file
  /\ beat' = [beat EXCEPT ![w] = 0]
  /\ Goto(w, "held")
  /\ UNCHANGED <<verdict, reaper, evicted, abandoned>>

\* Slip: only an old heartbeat is stale, so an empty file never is.
StaleByHeartbeat == file # None /\ file.written /\ file.beat > TTL

\* _is_stale of the source.
Stale == file = None \/ ~file.written \/ file.beat > TTL

Why == CASE file = None           -> "vanished"
         [] file.by \notin Owners -> "abandoned"
         [] ~file.written         -> "torn"
         [] OTHER                 -> "overrun"

\* Slip: the LockError passes through a finally that releases.
ProbeReleases(w) ==
  /\ pc[w] = "probe"
  /\ IF Stale
     THEN /\ verdict' = [verdict EXCEPT ![w] = Why]
          /\ Goto(w, "unlink")
          /\ UNCHANGED <<file, beat, evicted>>
     ELSE /\ Evict(w, "release")
          /\ file' = None
          /\ beat' = [beat EXCEPT ![w] = 0]
          /\ Goto(w, "idle")
          /\ UNCHANGED verdict
  /\ UNCHANGED <<reaper, abandoned>>

\* The probe decides between an unlink and a LockError.
Probe(w) ==
  /\ pc[w] = "probe"
  /\ IF Stale
     THEN /\ verdict' = [verdict EXCEPT ![w] = Why]
          /\ Goto(w, "unlink")
          /\ UNCHANGED beat
     ELSE /\ beat' = [beat EXCEPT ![w] = 0]
          /\ Goto(w, "idle")
          /\ UNCHANGED verdict
  /\ UNCHANGED <<file, reaper, evicted, abandoned>>

\* The unlink takes whatever file is at the path by now.
Unlink(w) ==
  /\ pc[w] = "unlink"
  /\ Evict(w, verdict[w])
  /\ file' = None
  /\ verdict' = [verdict EXCEPT ![w] = None]
  /\ Goto(w, "reopen")
  /\ UNCHANGED <<beat, reaper, abandoned>>

\* Slip: where the second create fails as well, the file is unlinked again,
\* without another look at it.
ReopenUnlinks(w) ==
  /\ pc[w] = "reopen"
  /\ IF file = None
     THEN file' = Created(w) /\ Goto(w, "write")
     ELSE Goto(w, "unlink") /\ UNCHANGED file
  /\ UNCHANGED <<beat, verdict, reaper, evicted, abandoned>>

\* Second os.open: a second FileExistsError is a LockError.
Reopen(w) ==
  /\ pc[w] = "reopen"
  /\ IF file = None
     THEN file' = Created(w) /\ Goto(w, "write") /\ UNCHANGED beat
     ELSE beat' = [beat EXCEPT ![w] = 0] /\ Goto(w, "idle") /\ UNCHANGED file
  /\ UNCHANGED <<verdict, reaper, evicted, abandoned>>

----------------------------------------------------------------------------
(* The handle *)

\* Slip: the file stays.
ReleaseKeepsFile(w) ==
  /\ pc[w] = "held"
  /\ Goto(w, "idle")
  /\ UNCHANGED <<file, beat, verdict, reaper, evicted, abandoned>>

\* release() unlinks the path without looking whose lock is there.
Release(w) ==
  /\ pc[w] = "held"
  /\ Evict(w, "release")
  /\ file' = None
  /\ Goto(w, "idle")
  /\ UNCHANGED <<beat, verdict, reaper, abandoned>>

\* heartbeat() replaces whatever is at the path by a fresh file of its own.
Heartbeat(w) ==
  /\ w \in Beating
  /\ pc[w] = "held"
  /\ Evict(w, "heartbeat")
  /\ file' = [by |-> w, written |-> TRUE, beat |-> 0, mtime |-> 0]
  /\ UNCHANGED <<pc, beat, verdict, reaper, abandoned>>

----------------------------------------------------------------------------
(* Failures, and the reconciler *)

\* A worker dies (any point), or its os.write fails and acquire() raises: the
\* file it created stays.
Abandon(w) ==
  /\ pc[w] # "idle"
  /\ abandoned < MaxAbandoned
  /\ abandoned' = abandoned + 1
  /\ beat' = [beat EXCEPT ![w] = 0]
  /\ verdict' = [verdict EXCEPT ![w] = None]
  /\ Goto(w, "idle")
  /\ UNCHANGED <<file, reaper, evicted>>

\* _reclaim_locks: the age is that of the mtime, compared with >=.
ReapCheck ==
  /\ reaper = None
  /\ file # None
  /\ file.mtime >= TTL
  /\ reaper' = Why
  /\ UNCHANGED <<file, pc, beat, verdict, evicted, abandoned>>

ReapRemove ==
  /\ reaper # None
  /\ Evict(None, reaper)
  /\ file' = None
  /\ reaper' = None
  /\ UNCHANGED <<pc, beat, verdict, abandoned>>

\* time.time() - heartbeat_at, and time.time() - mtime.
Older(n) == IF n > TTL THEN n ELSE n + 1

Tick ==
  /\ file' = IF file = None THEN None
             ELSE [file EXCEPT !.beat = Older(file.beat), !.mtime = Older(file.mtime)]
  /\ beat' = [w \in Worker |-> IF pc[w] \in {"idle", "held"} THEN beat[w]
                               ELSE Older(beat[w])]
  /\ UNCHANGED <<pc, verdict, reaper, evicted, abandoned>>

Attempt(w) == Open(w) \/ Write(w) \/ Probe(w) \/ Unlink(w) \/ Reopen(w)

Next ==
  \/ \E w \in Worker : \/ Acquire(w)
                       \/ Attempt(w)
                       \/ Release(w)
                       \/ Heartbeat(w)
                       \/ Abandon(w)
  \/ ReapCheck
  \/ ReapRemove
  \/ Tick

Spec == Init /\ [][Next]_vars

\* The scan loop tries every source again on each pass, code inside acquire()
\* runs to its end, and time passes.  A pipeline need not end, the reconciler
\* need not run, and nobody has to die.
Fairness == /\ WF_vars(Tick)
            /\ \A w \in Worker : WF_vars(Acquire(w)) /\ WF_vars(Attempt(w))

FairSpec == Spec /\ Fairness

----------------------------------------------------------------------------
(* Properties *)

\* As long as no live owner has lost its file, at most one worker is past its
\* exclusive create: whatever breaks the lock goes through an eviction.
ExclusiveUntilEvicted == evicted = None => Cardinality(Owners) <= 1

\* The first live owner to lose its file loses it to a staleness verdict: a
\* release or a heartbeat, though blind, does harm only in the aftermath of one.
CascadeNeedsVerdict == evicted \in Cause \cup {None}

\* A lock file whose creator does not own it any more was left by a crash or a
\* failed write: release() never leaves a key locked, whatever happened before.
NoLeakedLock == file # None /\ file.by \notin Owners => abandoned > 0

\* A key that a dead worker left locked is not locked for ever.
AbandonedLockHealed ==
  (file # None /\ file.by \notin Owners) ~> (file = None \/ file.by \in Owners)

\* ports/lock_manager.py: acquire "raises LockError if held by another live
\* worker".  Two workers are never inside the critical section together.
LockErrorIfHeldByLiveWorker == Cardinality(InSection) <= 1

\* The lock implements a revocable lease: its holder is the live owner of the
\* file at the path, every other owner is a zombie.
Claim   == IF file # None /\ file.by \in Owners THEN file.by ELSE None
Zombies == Owners \ {Claim}

L == INSTANCE Lease WITH holder <- Claim, zombies <- Zombies

ImplementsLease == L!Spec

=============================================================================
