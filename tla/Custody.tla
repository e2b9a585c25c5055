------------------------------ MODULE Custody ------------------------------
(***************************************************************************)
(* What the outbound half promises to the applications that leave files in *)
(* the base folders, and to the receiver that watches exchange_out         *)
(* (core/outbound.py, docs/en/02-flows.md, section 3).                     *)
(*                                                                         *)
(* A file that is taken over stays in custody until it has been announced, *)
(* as a whole and once, and that has been recorded; or it is set aside in  *)
(* quarantine.  There are neither workers, locks, steps of a publication   *)
(* nor crashes here: Outbound, which has them, implements this.            *)
(***************************************************************************)
CONSTANTS Source,   \* paths under the base folders
          Content,  \* what may be there
          Place,    \* the base folder and directory of a path
          Id,       \* technical ids
          None,     \* no content, no file
          Dedup,    \* is one content of one place announced once?
          Sole      \* is nothing lost?  Not if two services share the runtime

VARIABLES offered,   \* the content at each path
          taken,     \* the file each id stands for
          held,      \* ids whose file is in processing/
          seen,      \* what a receiver finds under each id
          recorded,  \* ids with a success in the audit trail
          archived,  \* ids whose file is in the archive
          aside      \* the files quarantined under each id

vars == <<offered, taken, held, seen, recorded, archived, aside>>

Item == [src : Source, content : Content]
Twins(x, y) == x.content = y.content /\ Place[x.src] = Place[y.src]

Init ==
  /\ offered = [s \in Source |-> None]
  /\ taken = [i \in Id |-> None]
  /\ seen = [i \in Id |-> "nothing"]
  /\ held = {} /\ recorded = {} /\ archived = {}
  /\ aside = [i \in Id |-> {}]

Offer(s, c) ==
  /\ offered[s] = None
  /\ offered' = [offered EXCEPT ![s] = c]
  /\ UNCHANGED <<taken, held, seen, recorded, archived, aside>>

\* A new id stands for the file from now on; whoever writes at its path writes
\* another file.
TakeOver(s, i) ==
  /\ offered[s] # None /\ taken[i] = None
  /\ taken' = [taken EXCEPT ![i] = [src |-> s, content |-> offered[s]]]
  /\ held' = held \cup {i}
  /\ offered' = [offered EXCEPT ![s] = None]
  /\ UNCHANGED <<seen, recorded, archived, aside>>

\* The receiver finds everything at once, and of twins only one.
Announce(i) ==
  /\ taken[i] # None /\ seen[i] = "nothing"
  /\ Sole => i \in held
  /\ Dedup => \A j \in Id : seen[j] # "nothing" => ~Twins(taken[i], taken[j])
  /\ seen' = [seen EXCEPT ![i] = "whole"]
  /\ UNCHANGED <<offered, taken, held, recorded, archived, aside>>

Record(i) ==
  /\ seen[i] = "whole"
  /\ recorded' = recorded \cup {i}
  /\ UNCHANGED <<offered, taken, held, seen, archived, aside>>

\* Only now may the file go, to the archive or for good.
Part(i) ==
  /\ i \in held \cap recorded
  /\ held' = held \ {i}
  /\ archived' \in {archived, archived \cup {i}}
  /\ UNCHANGED <<offered, taken, seen, recorded, aside>>

\* Quarantine: the file of an id, and what has come to a path meanwhile.
SetAside(i, paths) ==
  /\ held' = held \ {i}
  /\ offered' = [s \in Source |-> IF s \in paths THEN None ELSE offered[s]]
  /\ LET found == {taken[j] : j \in held \cap {i}} \cup
                  {[src |-> s, content |-> offered[s]] :
                      s \in {p \in paths : offered[p] # None}}
     IN  \E safe \in SUBSET found : /\ Sole => safe = found
                                    /\ aside' = [aside EXCEPT ![i] = @ \cup safe]
  /\ UNCHANGED <<taken, seen, recorded, archived>>

Next ==
  \/ \E s \in Source : \/ \E c \in Content : Offer(s, c)
                       \/ \E i \in Id : TakeOver(s, i)
  \/ \E i \in Id : \/ Announce(i) \/ Record(i) \/ Part(i)
                   \/ \E paths \in SUBSET Source : SetAside(i, paths)

Spec == Init /\ [][Next]_vars

=============================================================================
