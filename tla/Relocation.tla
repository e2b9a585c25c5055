----------------------------- MODULE Relocation -----------------------------
(***************************************************************************)
(* What the pipelines expect of FileStore.atomic_move                       *)
(* (ports/file_store.py:37-43): a call takes the file away from its source  *)
(* and succeeds, in one step, or fails and takes nothing.  Of several calls *)
(* for one file one succeeds, unless a power loss undoes its success on the *)
(* side of the source.                                                      *)
(*                                                                         *)
(* Outbound and Inbound move files in this way; FileStore implements it.    *)
(***************************************************************************)
CONSTANTS Source,  \* paths files are moved from
          Call,    \* calls of atomic_move
          From     \* the source of each call

VARIABLES present,  \* the sources that hold a file
          outcome   \* of each call: "pending", "moved" or "failed"

vars == <<present, outcome>>

Init == present = {} /\ outcome = [c \in Call |-> "pending"]

Put(s) == /\ present' = present \cup {s}
          /\ UNCHANGED outcome

Move(c) == /\ outcome[c] = "pending"
           /\ From[c] \in present
           /\ present' = present \ {From[c]}
           /\ outcome' = [outcome EXCEPT ![c] = "moved"]

Fail(c) == /\ outcome[c] = "pending"
           /\ outcome' = [outcome EXCEPT ![c] = "failed"]
           /\ UNCHANGED present

\* Power comes back: sources that were moved may hold their file again, and
\* no call that was under way survives.
Restart == /\ \E S \in SUBSET {From[c] : c \in {k \in Call : outcome[k] = "moved"}} :
                present' = present \cup S
           /\ \E P \in SUBSET {c \in Call : outcome[c] = "pending"} :
                outcome' = [c \in Call |-> IF c \in P THEN "failed" ELSE outcome[c]]

Next == \/ \E s \in Source : Put(s)
        \/ \E c \in Call : Move(c) \/ Fail(c)
        \/ Restart

Spec == Init /\ [][Next]_vars

=============================================================================
