------------------------------- MODULE MCCursor -------------------------------
(* Instances of Cursor and Queries for TLC. *)
EXTENDS Queries, TLC

CONSTANTS c1, c2, g1, t1, t2, t3

OneEach   == t1 :> c1 @@ t2 :> c2
OneAlone  == t1 :> c1
TwoOnOne  == t1 :> c1 @@ t2 :> c1
GroupOf2  == t1 :> g1 @@ t2 :> g1
GroupOf3  == t1 :> g1 @@ t2 :> g1 @@ t3 :> g1
Mixed     == t1 :> c1 @@ t2 :> g1
===============================================================================
