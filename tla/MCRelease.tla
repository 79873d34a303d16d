----------------------------- MODULE MCRelease ------------------------------
(* Instances of the release, for TLC.                                      *)
EXTENDS ReleaseProperties, TLC

OneScript  == <<"deploy">>
TwoScripts == <<"helpers", "deploy">>

\* Nothing to change, everything automatic, and something left to review.
NothingToChange == [outcome |-> "READY_TO_APPLY", safe |-> 0, pending |-> 0]
AllAutomatic    == [outcome |-> "READY_TO_APPLY", safe |-> 2, pending |-> 0]
LeftToReview    == [outcome |-> "NEEDS_REVIEW", safe |-> 1, pending |-> 1]
MCPlans   == {AllAutomatic, LeftToReview}
EmptyToo  == {NothingToChange}

\* A candidate of another revision that a request may name.
NoStranger  == {}
OneStranger == {[revision |-> "ELSEWHERE", script |-> "deploy"]}

\* Whether a request may name the plan of another migration.
NoPlan    == {}
EmptyPlan == {NothingToChange}

Symmetry == Permutations(Clients) \cup Permutations(Contents)
=============================================================================
