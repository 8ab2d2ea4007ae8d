------------------------------ MODULE MCBlocking ------------------------------
(* Instances of Blocking for TLC. *)
EXTENDS Blocking, TLC

CONSTANTS c1, c2, g1, r1, r2

OneReader  == r1 :> c1
TwoReaders == r1 :> c1 @@ r2 :> c2
GroupOf2   == r1 :> g1 @@ r2 :> g1
===============================================================================
