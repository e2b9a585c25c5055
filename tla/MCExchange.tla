----------------------------- MODULE MCExchange -----------------------------
EXTENDS Exchange, TLC

CONSTANTS a, b      \* sites
CONSTANTS c1, c2    \* contents

Names == {"here", "there", "SAP", "PAY", "d", "D", "d_e", "e", "f", "g"}
FoldNames == [n \in Names |-> IF n = "D" THEN "d" ELSE n]
ExtOfNames == [n \in Names |-> IF n = "g" THEN "tmp" ELSE "none"]
PieceNames == [n \in Names |-> IF n = "d_e" THEN <<"d", "e">> ELSE <<n>>]

(* Site b does not know the alias PAY.                                     *)
BasesOf == (a :> << [alias |-> "SAP", path |-> <<"here">>],
                    [alias |-> "PAY", path |-> <<"here", "d">>] >>)
        @@ (b :> << [alias |-> "SAP", path |-> <<"there">>] >>)

(* Site a leaves out the scratch files of every directory below the root,  *)
(* site b has no rules.                                                    *)
RulesOf == (a :> [inclusion |-> << [kind |-> "everything"] >>,
                  exclusion |-> << [kind |-> "deep", ext |-> "tmp"] >>])
        @@ (b :> [inclusion |-> <<>>, exclusion |-> <<>>])

(* What b writes to its root comes back to it, its scratch file stays at   *)
(* a, and what a writes to its inner folder is refused by b.               *)
PlacesOf == (a :> {<<"here", "d", "f">>}) @@ (b :> {<<"there", "f">>, <<"there", "e", "g">>})

PeerOf == (a :> b) @@ (b :> a)
=============================================================================
