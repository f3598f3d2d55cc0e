--------------------------- MODULE CaseLifecycle ---------------------------
(***************************************************************************)
(* What the review queue promises of its cases (cases/model.py,            *)
(* cases/store.py), whatever requests and reviewers do: a case is opened   *)
(* once and its finding never changes; decisions are only added, each to a *)
(* case that exists; a case is closed only with a decision behind it and   *)
(* never opened again.  ReviewQueue implements this specification.         *)
(***************************************************************************)
VARIABLES finding,    \* case -> the finding it was opened for
          decided,    \* decision -> the case it is about
          closed      \* the cases that are resolved
vars == <<finding, decided, closed>>

(* f grows by one entry and keeps all the others *)
GrowsByOne(f, g) ==
    /\ \E x \in DOMAIN g \ DOMAIN f : DOMAIN g = DOMAIN f \cup {x}
    /\ \A x \in DOMAIN f : g[x] = f[x]

Init == DOMAIN finding = {} /\ DOMAIN decided = {} /\ closed = {}

Open ==
    /\ GrowsByOne(finding, finding')
    /\ UNCHANGED <<decided, closed>>

Decide ==
    /\ GrowsByOne(decided, decided')
    /\ \A d \in DOMAIN decided' \ DOMAIN decided : decided'[d] \in DOMAIN finding
    /\ UNCHANGED <<finding, closed>>

Close ==
    /\ \E d \in DOMAIN decided : closed' = closed \cup {decided[d]}
    /\ UNCHANGED <<finding, decided>>

Next == Open \/ Decide \/ Close

Spec == Init /\ [][Next]_vars
=============================================================================
