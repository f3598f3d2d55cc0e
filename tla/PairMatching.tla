---------------------------- MODULE PairMatching ----------------------------
(***************************************************************************)
(* How the verdict on a pair of documents moves when one of the two is     *)
(* edited: a field relabelled, retyped, or gone from the extraction.  The  *)
(* state is the pair; the verdict is Classify and Action of Relations.     *)
(* (The state has names of its own, so that proofs about it can stand      *)
(* beside those about RegistryHistory, which rest on the same lemmas.)     *)
(***************************************************************************)
EXTENDS Relations

CONSTANTS Originals,     \* the documents the pair starts from
          Values,        \* field -> the values an edit may give it
          MaxEdits       \* bound on the edits

ASSUME EditAssumption ==
    /\ MaxEdits \in Nat
    /\ DOMAIN Values \subseteq Fields
    /\ \A d \in Originals : IsDocument(d)

VARIABLES left, right, edits
pair == <<left, right, edits>>

PairInit == left \in Originals /\ right = left /\ edits = 0

(* The second document says something else, or nothing, about one field. *)
Edit(field, value) ==
    /\ edits < MaxEdits
    /\ right[field] # value
    /\ right' = [right EXCEPT ![field] = value]
    /\ edits' = edits + 1
    /\ UNCHANGED left

PairNext == \E field \in DOMAIN Values : \E value \in Values[field] : Edit(field, value)

PairSpec == PairInit /\ [][PairNext]_pair

-----------------------------------------------------------------------------
Severity == [ALLOW |-> 0, REVIEW |-> 1, ESCALATE |-> 2, BLOCK |-> 3]

(* BLOCK is earned by agreement on everything that identifies an           *)
(* obligation, and by the absence of any contradiction about it            *)
(* (dedup_policy.py "never auto-BLOCK without provable identity",          *)
(* classify.py branch 0).                                                  *)
BlockIsProvable ==
    Action(left, right) = "BLOCK" =>
        /\ \A f \in {"num", "vendor", "currency"} : Agree(left[f], right[f])
        /\ AmountsEqual(left.amount, right.amount)
        /\ ~Differ(left.recipient, right.recipient)
        /\ ~AmountsDiffer(left.sub, right.sub)
        /\ ~AmountsDiffer(left.tax, right.tax)
        /\ ~({left.instrument, right.instrument} \subseteq ObligatingTypes
               /\ left.instrument # right.instrument)

(* The verdict on a pair does not depend on which document is listed first, *)
(* although pairs are ordered by ids that say nothing about the documents   *)
(* (candidates.py generate_candidate_pairs).                                *)
VerdictIgnoresOrder == Classify(left, right) = Classify(right, left)

(* The keys that narrow the comparison lose no pair on which the classifier *)
(* would have had anything to say to a person (candidates.py).              *)
CandidatesLoseNothing ==
    (/\ left.doc_type = right.doc_type
     /\ Classify(left, right) # "LOW_CONFIDENCE"
     /\ Action(left, right) \in NeedsCase) => Candidates(left, right)

(* canonicalize.py "Relabelling must never weaken a verdict": giving the    *)
(* document the name of a kind that restates obligations leaves the action  *)
(* at least as severe.                                                      *)
RelabellingNeverWeakens ==
    [][left'.instrument = left.instrument /\ right'.instrument # right.instrument
          /\ right'.instrument \in RestatingTypes
        => Severity[Action(left', right')] >= Severity[Action(left, right)]]_pair

=============================================================================
