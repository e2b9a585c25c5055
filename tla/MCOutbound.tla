----------------------------- MODULE MCOutbound -----------------------------
(* Instances of Outbound for TLC. *)
EXTENDS Outbound, TLC

CONSTANTS v1, v2, w1, w2, s1, s2, c1, c2, d1

\* One service, one worker; one service with a pool of two threads; two services
\* with one thread each.
HomeAlone == w1 :> v1
HomeOne   == w1 :> v1 @@ w2 :> v1
HomeEach  == w1 :> v1 @@ w2 :> v2

\* Two files of one directory, so that the same content in both is a duplicate.
PlaceSame == s1 :> d1 @@ s2 :> d1

\* The contents are alike, and so are two services with one thread each.
SwapServices == v1 :> v2 @@ v2 :> v1 @@ w1 :> w2 @@ w2 :> w1
Symmetric == Permutations({c1, c2}) \cup {SwapServices @@ p : p \in Permutations({c1, c2})}

=============================================================================
