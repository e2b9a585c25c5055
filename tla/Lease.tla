------------------------------- MODULE Lease -------------------------------
(***************************************************************************)
(* What an advisory lock of FileRouter amounts to for one key: a lease      *)
(* that can be revoked behind its holder's back.  At any time at most one   *)
(* worker holds the claim.  A worker whose claim was revoked is not told:   *)
(* it goes on working as a zombie until it leaves, and when it leaves, or   *)
(* refreshes its heartbeat, it disturbs whoever holds the claim by then.    *)
(*                                                                         *)
(* FileLock implements this specification; Outbound coordinates its         *)
(* workers through it.                                                      *)
(***************************************************************************)
CONSTANTS Worker,  \* the threads and processes that take the lock
          None     \* no worker

VARIABLES holder,  \* the worker whose claim stands, or None
          zombies  \* workers that still act as holders, their claim revoked

vars == <<holder, zombies>>

TypeOK == /\ holder \in Worker \cup {None}
          /\ zombies \subseteq Worker \ {holder}

Init == holder = None /\ zombies = {}

\* The set that `holder` adds to the zombies when it loses its claim.
Displaced(w) == {holder} \ {None, w}

Acquire(w) == /\ holder = None
              /\ w \notin zombies
              /\ holder' = w
              /\ UNCHANGED zombies

\* The holder releases, or dies.
Leave(w) == /\ holder = w
            /\ holder' = None
            /\ UNCHANGED zombies

\* Somebody judges the claim stale and removes it.
Revoke == /\ holder # None
          /\ zombies' = zombies \cup {holder}
          /\ holder' = None

\* A zombie dies: the claim that stands is not disturbed.
ZombieDies(w) == /\ w \in zombies
                 /\ zombies' = zombies \ {w}
                 /\ UNCHANGED holder

\* A zombie releases: its release takes the standing claim away.
ZombieLeaves(w) == /\ w \in zombies
                   /\ zombies' = (zombies \ {w}) \cup Displaced(w)
                   /\ holder' = None

\* A zombie refreshes its heartbeat: the claim is its own again.
ZombieReasserts(w) == /\ w \in zombies
                      /\ zombies' = (zombies \ {w}) \cup Displaced(w)
                      /\ holder' = w

Next == \/ Revoke
        \/ \E w \in Worker : \/ Acquire(w)
                             \/ Leave(w)
                             \/ ZombieDies(w)
                             \/ ZombieLeaves(w)
                             \/ ZombieReasserts(w)

Spec == Init /\ [][Next]_vars

=============================================================================
