----------------------------- MODULE Reception -----------------------------
(***************************************************************************)
(* What the inbound half promises to the senders of pairs and to those who  *)
(* work in the base folders (core/inbound.py, docs/en/02-flows.md, section  *)
(* 4): a payload that has come is taken in unless it was delivered before,  *)
(* delivered only as it was sent, and then recorded; a copy is dropped only *)
(* on the word of that record, and nothing else is given up but to          *)
(* quarantine.  There are neither parts that arrive one by one, nor         *)
(* workers, locks or crashes here: Inbound, which has them, implements this.*)
(***************************************************************************)
EXTENDS Naturals

CONSTANTS Pair,  \* technical ids
          Own    \* ids this host has published itself: their files are not safe

VARIABLES waiting,   \* pairs whose payload is in exchange_in
          held,      \* pairs whose payload is in processing/
          fit,       \* those of them that are as they were sent, and signed if they must be
          times,     \* how often each was delivered
          recorded,  \* pairs with a delivery in the audit trail
          aside,     \* pairs whose payload is in quarantine
          lapses     \* steps that failed, and crashes

vars == <<waiting, held, fit, times, recorded, aside, lapses>>

Init ==
  /\ waiting = {} /\ held = {} /\ fit = {} /\ recorded = {} /\ aside = {}
  /\ times = [p \in Pair |-> 0]
  /\ lapses = 0

\* A first copy, or another one.
Come(p) ==
  /\ waiting' = waiting \cup {p}
  /\ UNCHANGED <<held, fit, times, recorded, aside, lapses>>

\* What is delivered already is not taken in again.
TakeIn(p) ==
  /\ p \in waiting \ recorded
  /\ waiting' = waiting \ {p}
  /\ held' = held \cup {p}
  /\ fit' \in {fit \cup {p}, fit \ {p}}
  /\ UNCHANGED <<times, recorded, aside, lapses>>

\* The other parts follow, or the transport goes on writing.
Gather(p) ==
  /\ p \in held
  /\ fit' \in {fit \cup {p}, fit \ {p}}
  /\ UNCHANGED <<waiting, held, times, recorded, aside, lapses>>

\* A delivery that is not the first takes a lapse: the one before went unrecorded.
Deliver(p) ==
  /\ p \in (held \cap fit) \ recorded
  /\ times[p] <= lapses
  /\ times' = [times EXCEPT ![p] = times[p] + 1]
  /\ held' \in {held, held \ {p}}
  /\ fit' = fit \cap held'
  /\ UNCHANGED <<waiting, recorded, aside, lapses>>

Record(p) ==
  /\ times[p] > 0
  /\ recorded' = recorded \cup {p}
  /\ UNCHANGED <<waiting, held, fit, times, aside, lapses>>

\* A duplicate goes on the word of the record.
Drop(p) ==
  /\ p \in waiting \cap recorded
  /\ waiting' = waiting \ {p}
  /\ UNCHANGED <<held, fit, times, recorded, aside, lapses>>

\* Quarantine, of what waits or of what was taken in.
SetAside(p) ==
  /\ p \in waiting \cup held
  /\ aside' = aside \cup {p}
  /\ waiting' \in {waiting, waiting \ {p}}
  /\ held' \in {held, held \ {p}}
  /\ fit' = fit \cap held'
  /\ UNCHANGED <<times, recorded, lapses>>

\* What a delivery has left goes.
Clear(p) ==
  /\ p \in held \cap (recorded \cup Own)
  /\ held' = held \ {p}
  /\ fit' = fit \ {p}
  /\ UNCHANGED <<waiting, times, recorded, aside, lapses>>

Lapse ==
  /\ lapses' = lapses + 1
  /\ UNCHANGED <<waiting, held, fit, times, recorded, aside>>

Next ==
  \/ \E p \in Pair : \/ Come(p) \/ TakeIn(p) \/ Gather(p) \/ Deliver(p) \/ Record(p)
                     \/ Drop(p) \/ SetAside(p) \/ Clear(p)
  \/ Lapse

Spec == Init /\ [][Next]_vars

=============================================================================
