---------------------------- MODULE MCWorkspaces ----------------------------
(* Instances of Workspaces. *)
EXTENDS Workspaces, TLC

CONSTANTS c1, c2, o1, m1, n1, w1, w2, t1, t2

Traffic == {{"create", "invite", "signup", "remove"},
            {"create", "role"},
            {"remove", "role"},
            {"request"}}

(* Two people join the one workspace there is. *)
Joins == {{"create", "invite", "signup"}}

Symmetry == Permutations(Calls) \cup Permutations(Wids)
=============================================================================
