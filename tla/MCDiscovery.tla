---------------------------- MODULE MCDiscovery ----------------------------
(* Instances of Discovery for TLC.                                          *)
EXTENDS Discovery, TLC

CONSTANTS here, elsewhere, i1, i2, i3, i4

FourIds == {i1, i2, i3, i4}
Symmetry == Permutations(FourIds)
TwoMarks == {here, elsewhere}

List(name) == [list |-> name, mark |-> here, after |-> Absent, before |-> Absent]

Within(lower, upper) ==
    [list |-> "events", mark |-> here, after |-> lower, before |-> upper]

(* Every list, adjacent windows of the events, and both scopes in turn. *)
ReaderPlans ==
    { <<List("events")>>, <<List("mine")>>,
      <<Within(Absent, 1), Within(0, Absent)>>,
      <<List("upcoming"), List("past")>>, <<List("past"), List("upcoming")>> }

ASSUME PlansAreDisjoint == DisjointPlans
=============================================================================
