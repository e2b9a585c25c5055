---------------------------- MODULE MCFileStore ----------------------------
(* Instances of FileStore for TLC. *)
EXTENDS FileStore, TLC

CONSTANTS s1, d1, d2, d3, c1, c2, c3, i1, i2, i3, v1, v2

\* One source on the volume "near": a call that copies it to the volume
\* "far", one that renames it, and one that writes a file (store.cfg).
RivalSources == {s1}
RivalDests   == {d1, d2, d3}
RivalVolumes == [p \in {s1} \cup RivalDests |-> IF p \in {s1, d2} THEN "near" ELSE "far"]
RivalFrom    == [c \in {c1, c2, c3} |-> IF c = c3 THEN None ELSE s1]
RivalTo      == [c \in {c1, c2, c3} |-> CASE c = c1 -> d1 [] c = c2 -> d2 [] c = c3 -> d3]

Interchangeable == Permutations({i1, i2, i3}) \cup Permutations({v1, v2})

=============================================================================
