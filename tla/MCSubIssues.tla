----------------------------- MODULE MCSubIssues ------------------------------
(* The sub-issues of a small plan. *)
EXTENDS SubIssues

\* Two versions of a plan; the second has an item on another branch.
MCOutline == <<<<0, 1>>, <<0, 1, 0>>>>
=============================================================================
