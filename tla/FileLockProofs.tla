--------------------------- MODULE FileLockProofs ---------------------------
(***************************************************************************)
(* Proofs about FileLock, for any workers, any TTL and any number of        *)
(* abandoned locks.  The invariant says where a worker stands with the file *)
(* it created: until the first eviction, every owner's file is the one at   *)
(* the path.                                                                *)
(***************************************************************************)
EXTENDS FileLock, FiniteSetTheorems, TLAPS

\* What is assumed of the constants is used throughout.
USE LockAssumption DEF LockAssumption

\* A worker about to unlink has a reason, so its unlink is accounted for.
HasReason == \A w \in Worker : pc[w] = "unlink" => verdict[w] \in Cause

\* Nobody has been evicted: whoever created the lock finds its own file there.
ClaimStands == evicted = None =>
                 \A w \in Owners : file # None /\ file.by = w

IInv == TypeOK /\ HasReason /\ ClaimStands /\ CascadeNeedsVerdict /\ NoLeakedLock

----------------------------------------------------------------------------

LEMMA InitIInv == Init => IInv
  BY DEF Init, IInv, TypeOK, HasReason, ClaimStands, CascadeNeedsVerdict,
     NoLeakedLock, Owners, Age, Cause

LEMMA FileFields ==
  ASSUME TypeOK, file # None
  PROVE  /\ file \in File
         /\ file.by \in Worker
  BY DEF TypeOK, File

LEMMA CreatedIsFile ==
  ASSUME TypeOK, NEW w \in Worker
  PROVE  /\ Created(w) \in File
         /\ Created(w) # None
         /\ Created(w).by = w
  <1>1. /\ 0 \in Age
        /\ beat[w] \in Age
    BY DEF TypeOK, Age
  <1>2. Created(w) \in File
    BY <1>1 DEF Created, File
  <1> QED
    BY <1>2 DEF Created

LEMMA OlderAge ==
  ASSUME NEW n \in Age
  PROVE  Older(n) \in Age
  BY DEF Age, Older

\* Neither the write of the payload nor the passing of time changes whose file
\* is at the path.
LEMMA WriteKeepsFile ==
  ASSUME TypeOK, NEW w \in Worker, Write(w)
  PROVE  /\ file = None => file' = None
         /\ file # None => file' \in File /\ file' # None /\ file'.by = file.by
  <1>1. 0 \in Age
    BY DEF Age
  <1>2. file # None => file' \in File /\ file'.by = file.by
    BY <1>1, FileFields DEF Write, File
  <1> QED
    BY <1>2 DEF Write

LEMMA TickKeepsFile ==
  ASSUME TypeOK, Tick
  PROVE  /\ file = None => file' = None
         /\ file # None => file' \in File /\ file' # None /\ file'.by = file.by
  <1>1. file # None => file' \in File /\ file'.by = file.by
    BY OlderAge, FileFields DEF Tick, File
  <1> QED
    BY <1>1 DEF Tick

\* What a step does to the state, action by action.
LEMMA AcquireStep ==
  ASSUME IInv, NEW w \in Worker, Acquire(w)
  PROVE  IInv'
  BY DEF IInv, TypeOK, HasReason, ClaimStands, CascadeNeedsVerdict,
     NoLeakedLock, Owners, Acquire, Goto

LEMMA OpenStep ==
  ASSUME IInv, NEW w \in Worker, Open(w)
  PROVE  IInv'
  <1>1. TypeOK'
    BY CreatedIsFile DEF IInv, TypeOK, Open, Goto
  <1>2. CASE file = None
    <2>1. /\ file' = Created(w)
          /\ Owners' = Owners \cup {w}
      BY <1>2 DEF Open, Goto, Owners, IInv, TypeOK
    <2>2. /\ file' # None
          /\ file'.by = w
      BY <2>1, CreatedIsFile DEF IInv
    <2>3. evicted = None => Owners = {}
      BY <1>2 DEF IInv, ClaimStands
    <2> QED
      BY <1>1, <2>1, <2>2, <2>3 DEF IInv, HasReason, ClaimStands, CascadeNeedsVerdict,
         NoLeakedLock, Open, Goto, TypeOK
  <1>3. CASE file # None
    BY <1>1, <1>3 DEF IInv, TypeOK, HasReason, ClaimStands, CascadeNeedsVerdict,
       NoLeakedLock, Owners, Open, Goto
  <1> QED
    BY <1>2, <1>3

LEMMA ReopenStep ==
  ASSUME IInv, NEW w \in Worker, Reopen(w)
  PROVE  IInv'
  BY CreatedIsFile DEF IInv, TypeOK, HasReason, ClaimStands,
     CascadeNeedsVerdict, NoLeakedLock, Owners, Reopen, Goto, Age

LEMMA WriteStep ==
  ASSUME IInv, NEW w \in Worker, Write(w)
  PROVE  IInv'
  <1>1. 0 \in Age
    BY DEF Age
  <1> QED
    BY <1>1, WriteKeepsFile DEF IInv, TypeOK, HasReason, ClaimStands, CascadeNeedsVerdict,
       NoLeakedLock, Owners, Write, Goto

LEMMA ProbeStep ==
  ASSUME IInv, NEW w \in Worker, Probe(w)
  PROVE  IInv'
  <1>1. Why \in Cause
    BY DEF Why, Cause, Misjudged
  <1> QED
    BY <1>1 DEF IInv, TypeOK, HasReason, ClaimStands,
       CascadeNeedsVerdict, NoLeakedLock, Owners, Probe, Goto, Age

LEMMA UnlinkStep ==
  ASSUME IInv, NEW w \in Worker, Unlink(w)
  PROVE  IInv'
  BY DEF IInv, TypeOK, HasReason, ClaimStands, CascadeNeedsVerdict,
     NoLeakedLock, Owners, Unlink, Evict, Goto

LEMMA ReleaseStep ==
  ASSUME IInv, NEW w \in Worker, Release(w)
  PROVE  IInv'
  BY DEF IInv, TypeOK, HasReason, ClaimStands, CascadeNeedsVerdict,
     NoLeakedLock, Owners, Release, Evict, Goto

LEMMA HeartbeatStep ==
  ASSUME IInv, NEW w \in Worker, Heartbeat(w)
  PROVE  IInv'
  <1>1. file' \in File /\ file'.by = w
    BY DEF Heartbeat, File, Age
  <1>2. file' # None
    BY <1>1
  <1> QED
    BY <1>1, <1>2 DEF IInv, TypeOK, HasReason, ClaimStands, CascadeNeedsVerdict,
       NoLeakedLock, Owners, Heartbeat, Evict

LEMMA AbandonStep ==
  ASSUME IInv, NEW w \in Worker, Abandon(w)
  PROVE  IInv'
  BY DEF IInv, TypeOK, HasReason, ClaimStands, CascadeNeedsVerdict,
     NoLeakedLock, Owners, Abandon, Goto, Age

LEMMA ReaperStep ==
  ASSUME IInv, ReapCheck \/ ReapRemove
  PROVE  IInv'
  <1>1. Why \in Cause
    BY DEF Why, Cause, Misjudged
  <1> QED
    BY <1>1 DEF IInv, TypeOK, HasReason, ClaimStands, CascadeNeedsVerdict,
       NoLeakedLock, Owners, ReapCheck, ReapRemove, Evict

LEMMA TickStep ==
  ASSUME IInv, Tick
  PROVE  IInv'
  <1>1. beat' \in [Worker -> Age]
    BY OlderAge DEF IInv, TypeOK, Tick
  <1> QED
    BY <1>1, TickKeepsFile DEF IInv, TypeOK, HasReason, ClaimStands, CascadeNeedsVerdict,
       NoLeakedLock, Owners, Tick

LEMMA NextIInv ==
  ASSUME IInv, [Next]_vars
  PROVE  IInv'
  <1>1. CASE UNCHANGED vars
    BY <1>1 DEF vars, IInv, TypeOK, HasReason, ClaimStands, CascadeNeedsVerdict,
       NoLeakedLock, Owners
  <1>2. ASSUME NEW w \in Worker,
               Acquire(w) \/ Attempt(w) \/ Release(w) \/ Heartbeat(w) \/ Abandon(w)
        PROVE  IInv'
    BY <1>2, AcquireStep, OpenStep, WriteStep, ProbeStep, UnlinkStep, ReopenStep,
       ReleaseStep, HeartbeatStep, AbandonStep DEF Attempt
  <1> QED
    BY <1>1, <1>2, ReaperStep, TickStep DEF Next

LEMMA Invariance == Spec => []IInv
  BY InitIInv, NextIInv, PTL DEF Spec

----------------------------------------------------------------------------
(* Safety *)

\* Types, for every TTL and every number of workers.
THEOREM TypeCorrect == Spec => []TypeOK
  BY Invariance, PTL DEF IInv

LEMMA ClaimStandsExcludes == IInv => ExclusiveUntilEvicted
  <1> SUFFICES ASSUME IInv, evicted = None
               PROVE  Cardinality(Owners) <= 1
    BY DEF ExclusiveUntilEvicted
  <1>1. Owners \subseteq {file.by}
    BY DEF IInv, ClaimStands
  <1>2. IsFiniteSet({file.by}) /\ Cardinality({file.by}) = 1
    BY FS_Singleton
  <1> QED
    BY <1>1, <1>2, FS_Subset, FS_CardinalityType

\* Mutual exclusion, among any number of workers, up to the first time a live
\* owner loses its lock file.
THEOREM Exclusion == Spec => []ExclusiveUntilEvicted
  BY Invariance, ClaimStandsExcludes, PTL

\* The blind unlink of release() and the blind replace of heartbeat() are never
\* what first breaks the lock.
THEOREM BlindStepsAreSafeAlone == Spec => []CascadeNeedsVerdict
  BY Invariance, PTL DEF IInv

\* Only a crash or a failed write leaves a key locked with nobody inside.
THEOREM LocksDoNotLeak == Spec => []NoLeakedLock
  BY Invariance, PTL DEF IInv

----------------------------------------------------------------------------
(* Refinement *)

LEMMA InitLease == Init => L!Init
  BY DEF Init, L!Init, Claim, Zombies, Owners

\* A step that changes neither the owners nor who created the file at the path
\* is invisible to the lease.
LEMMA Stutter ==
  ASSUME Owners' = Owners, (file = None) <=> (file' = None),
         file # None => file'.by = file.by
  PROVE  UNCHANGED L!vars
  BY DEF L!vars, Claim, Zombies

\* A step that creates the file where there is none acquires the lease.
LEMMA CreateAcquires ==
  ASSUME TypeOK, NEW w \in Worker, file = None, file' = Created(w), w \notin Owners,
         Owners' = Owners \cup {w}
  PROVE  L!Acquire(w)
  <1>1. /\ Claim = None
        /\ Claim' = w
    BY CreatedIsFile DEF Claim
  <1>2. /\ Zombies = Owners
        /\ Zombies' = Owners
    <2>1. None \notin Owners
      BY DEF Owners
    <2> QED
      BY <1>1, <2>1 DEF Zombies
  <1> QED
    BY <1>1, <1>2 DEF L!Acquire

\* A step that takes the file away and leaves the owners as they are revokes
\* the lease of its live owner, if it has one.
LEMMA RemoveRevokes ==
  ASSUME TypeOK, file' = None, Owners' = Owners
  PROVE  L!Revoke \/ UNCHANGED L!vars
  <1>1. CASE file # None /\ file.by \in Owners
    <2>1. Claim = file.by /\ Claim' = None
      BY <1>1 DEF Claim
    <2>2. file.by # None
      BY <1>1, FileFields
    <2> QED
      BY <1>1, <2>1, <2>2 DEF L!Revoke, Zombies, Owners
  <1>2. CASE ~(file # None /\ file.by \in Owners)
    BY <1>2 DEF L!vars, Claim, Zombies
  <1> QED
    BY <1>1, <1>2

LEMMA ReleaseImplements ==
  ASSUME TypeOK, NEW w \in Worker, Release(w)
  PROVE  L!Leave(w) \/ L!ZombieLeaves(w)
  <1>1. /\ w \in Owners
        /\ Owners' = Owners \ {w}
        /\ Claim' = None
        /\ Zombies' = Owners \ {w}
    BY DEF TypeOK, Release, Goto, Owners, Claim, Zombies
  <1>2. CASE Claim = w
    BY <1>1, <1>2 DEF L!Leave, Zombies
  <1>3. CASE Claim # w
    BY <1>1, <1>3 DEF L!ZombieLeaves, L!Displaced, Zombies, Claim
  <1> QED
    BY <1>2, <1>3

LEMMA HeartbeatImplements ==
  ASSUME TypeOK, NEW w \in Worker, Heartbeat(w)
  PROVE  L!ZombieReasserts(w) \/ UNCHANGED L!vars
  <1>1. /\ w \in Owners
        /\ Owners' = Owners
        /\ file' \in File
        /\ file'.by = w
    BY DEF Heartbeat, Owners, File, Age
  <1>2. /\ Claim' = w
        /\ Zombies' = Owners \ {w}
    BY <1>1 DEF Claim, Zombies
  <1>3. CASE Claim = w
    BY <1>2, <1>3 DEF L!vars, Zombies
  <1>4. CASE Claim # w
    <2>1. w \in Zombies
      BY <1>1, <1>4 DEF Zombies
    <2>2. Claim # None => Claim \in Owners
      BY DEF Claim
    <2>3. None \notin Owners
      BY DEF Owners
    <2>4. Owners \ {w} = (Zombies \ {w}) \cup ({Claim} \ {None, w})
      BY <2>2, <2>3, <1>4 DEF Zombies
    <2> QED
      BY <1>2, <2>1, <2>4 DEF L!ZombieReasserts, L!Displaced
  <1> QED
    BY <1>3, <1>4

LEMMA AbandonImplements ==
  ASSUME TypeOK, NEW w \in Worker, Abandon(w)
  PROVE  L!Leave(w) \/ L!ZombieDies(w) \/ UNCHANGED L!vars
  <1>1. /\ Owners' = Owners \ {w}
        /\ file' = file
    BY DEF TypeOK, Abandon, Goto, Owners
  <1>2. CASE w \notin Owners
    BY <1>1, <1>2 DEF L!vars, Claim, Zombies
  <1>3. CASE w \in Owners /\ Claim = w
    <2>1. Claim' = None
      BY <1>1, <1>3 DEF Claim
    <2>2. None \notin Owners
      BY DEF Owners
    <2>3. Zombies' = Zombies
      BY <1>1, <1>3, <2>1, <2>2 DEF Zombies
    <2> QED
      BY <1>3, <2>1, <2>3 DEF L!Leave
  <1>4. CASE w \in Owners /\ Claim # w
    BY <1>1, <1>4 DEF L!ZombieDies, Claim, Zombies
  <1> QED
    BY <1>2, <1>3, <1>4

LEMMA AttemptImplements ==
  ASSUME TypeOK, NEW w \in Worker, Acquire(w) \/ Attempt(w)
  PROVE  L!Next \/ UNCHANGED L!vars
  <1>1. CASE Acquire(w) \/ Probe(w)
    <2>1. Owners' = Owners /\ file' = file
      BY <1>1 DEF TypeOK, Acquire, Probe, Goto, Owners
    <2> QED
      BY <2>1, Stutter
  <1>2. CASE Write(w)
    <2>1. Owners' = Owners
      BY <1>2 DEF TypeOK, Write, Goto, Owners
    <2> QED
      BY <1>2, <2>1, WriteKeepsFile, Stutter
  <1>3. CASE Unlink(w)
    <2>1. Owners' = Owners /\ file' = None
      BY <1>3 DEF TypeOK, Unlink, Goto, Owners
    <2> QED
      BY <2>1, RemoveRevokes DEF L!Next
  <1>4. CASE Open(w) \/ Reopen(w)
    <2>1. CASE file = None
      <3>1. /\ file' = Created(w)
            /\ w \notin Owners
            /\ Owners' = Owners \cup {w}
        BY <1>4, <2>1 DEF TypeOK, Open, Reopen, Goto, Owners
      <3> QED
        BY <2>1, <3>1, CreateAcquires DEF L!Next
    <2>2. CASE file # None
      <3>1. Owners' = Owners /\ file' = file
        BY <1>4, <2>2 DEF TypeOK, Open, Reopen, Goto, Owners
      <3> QED
        BY <3>1, Stutter
    <2> QED
      BY <2>1, <2>2
  <1> QED
    BY <1>1, <1>2, <1>3, <1>4 DEF Attempt

LEMMA NextLease ==
  ASSUME TypeOK, [Next]_vars
  PROVE  [L!Next]_L!vars
  <1>1. CASE UNCHANGED vars
    BY <1>1 DEF vars, L!vars, Claim, Zombies, Owners
  <1>2. ASSUME NEW w \in Worker, Acquire(w) \/ Attempt(w)
        PROVE  [L!Next]_L!vars
    BY <1>2, AttemptImplements
  <1>3. ASSUME NEW w \in Worker, Release(w) \/ Heartbeat(w) \/ Abandon(w)
        PROVE  [L!Next]_L!vars
    BY <1>3, ReleaseImplements, HeartbeatImplements, AbandonImplements DEF L!Next
  <1>4. CASE ReapCheck
    BY <1>4, Stutter DEF ReapCheck, Owners
  <1>5. CASE ReapRemove
    <2>1. Owners' = Owners /\ file' = None
      BY <1>5 DEF ReapRemove, Owners
    <2> QED
      BY <2>1, RemoveRevokes DEF L!Next
  <1>6. CASE Tick
    <2>1. Owners' = Owners
      BY <1>6 DEF Tick, Owners
    <2> QED
      BY <1>6, <2>1, TickKeepsFile, Stutter
  <1> QED
    BY <1>1, <1>2, <1>3, <1>4, <1>5, <1>6 DEF Next

\* The lock file implements the revocable lease, whatever the timing: this is
\* all a user of the lock may rely on.
THEOREM Implementation == Spec => ImplementsLease
  BY InitLease, NextLease, TypeCorrect, PTL DEF Spec, L!Spec, ImplementsLease

=============================================================================
