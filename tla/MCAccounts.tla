----------------------------- MODULE MCAccounts -----------------------------
(* Instances of Accounts. *)
EXTENDS Accounts, TLC

CONSTANTS c1, c2, u1, k1, k2, k3, a1, p1

OnePrefix == [h \in Hashes |-> h]
Traffic == {{"signup", "generate", "revoke", "key"},
            {"signup", "revoke", "poll", "delete"},
            {"signup", "token", "free", "midnight"},
            {"signup", "generate", "revoke", "tier"},
            {"signup", "token", "tier"}}
Rotation == {{"signup", "generate", "revoke", "key"}}
FreeTier == {{"free", "midnight"}}
TwoTiers == {"starter", "team"}
OneAndTwo == [starter |-> 1, team |-> 2]
TwoCalls == {c1, c2}
Symmetry == Permutations(Calls) \cup Permutations(Hashes)
=============================================================================
