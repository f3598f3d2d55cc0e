----------------------------- MODULE MCBilling ------------------------------
(* Instances of Billing. *)
EXTENDS Billing

CONSTANTS s1, s2

Traffic == {{"checkout", "change", "fail", "cancel"},
            {"checkout", "renew", "fail", "cancel"},
            {"checkout", "change", "renew"},
            {"checkout", "twice", "cancel"},
            {"checkout", "change", "cancel", "unordered"}}
=============================================================================
