------------------------------ MODULE Absence ------------------------------
(***************************************************************************)
(* None: a key that is not in a dictionary, a cell that is no amount.      *)
(***************************************************************************)
CONSTANT Absent

Given(v) == v # Absent
=============================================================================
