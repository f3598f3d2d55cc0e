----------------------------- MODULE Relations -----------------------------
(***************************************************************************)
(* The duplicate engine for one pair of documents: the facts gathered from *)
(* the canonical fields (evidence.py), the typed relationship they add up  *)
(* to (classify.py) and the action the default policy takes on it          *)
(* (dedup_policy.py).  The signal weights only feed a score that is        *)
(* displayed, never a decision, and are left out.                          *)
(***************************************************************************)
EXTENDS Documents

CONSTANT RoundsDown    \* see AmountsEqual

RestatingTypes == {"STATEMENT"}
ObligatingTypes == {"INVOICE", "DEBIT MEMO", "DEBIT NOTE", "CREDIT NOTE",
                    "CREDIT MEMO", "PURCHASE ORDER"}

(* an absent kind is not one of the kinds *)
ASSUME KindsArePresent == \A kind \in ObligatingTypes : Present(kind)

(* Faulty variants, for the runs: the kinds looked at on one side only ... *)
InstrumentsConflictOneSided(a, b) ==
    /\ Present(a) /\ Present(b) /\ a # b
    /\ {a, b} \cap RestatingTypes = {}
    /\ a \in ObligatingTypes

(* ... and any two different labels taken for different instruments *)
InstrumentsConflictAlways(a, b) == Present(a) /\ Present(b) /\ a # b

InstrumentsConflict(a, b) ==
    /\ Present(a) /\ Present(b) /\ a # b
    /\ {a, b} \cap RestatingTypes = {}
    /\ {a, b} \subseteq ObligatingTypes

Agree(a, b) == Present(a) /\ Present(b) /\ a = b
Differ(a, b) == Present(a) /\ Present(b) /\ a # b

(* Amounts match up to a difference of 0.01.  For two amounts exactly a cent *)
(* apart the binary floating point of the code decides: 0.02 - 0.01 passes,  *)
(* 1.21 - 1.20 does not.  RoundsDown holds the amounts to which a cent can   *)
(* be added without being seen.                                              *)
AmountsEqual(a, b) ==
    /\ Present(a) /\ Present(b)
    /\ \/ a = b
       \/ a = b + 1 /\ b \in RoundsDown
       \/ b = a + 1 /\ a \in RoundsDown

AmountsDiffer(a, b) == Present(a) /\ Present(b) /\ ~AmountsEqual(a, b)

Facts(a, b) ==
    LET amount == AmountsEqual(a.amount, b.amount) IN
    [invnum      |-> Agree(a.num, b.num),
     invnums     |-> Differ(a.num, b.num),
     vendor      |-> Agree(a.vendor, b.vendor),
     amount      |-> amount,
     amounts     |-> Present(a.amount) /\ Present(b.amount),
     currency    |-> Agree(a.currency, b.currency),
     po          |-> Agree(a.po, b.po),
     recipients  |-> Differ(a.recipient, b.recipient),
     instruments |-> InstrumentsConflict(a.instrument, b.instrument),
     composition |-> amount /\ \/ AmountsDiffer(a.sub, b.sub)
                               \/ AmountsDiffer(a.tax, b.tax),
     months      |-> /\ Present(a.date) /\ Present(b.date)
                     /\ Month(a.date) # Month(b.date),
     surface     |-> a.surface = b.surface]

Provable(f) == f.invnum /\ f.vendor /\ f.amount /\ f.currency

(* The branches of classify_relationship, in the order the code tries them. *)

(* faulty variant: the composition of the total is not looked at *)
CollisionIgnoringTotals(f) == f.invnum /\ f.vendor /\ (f.recipients \/ f.instruments)

Collision(f) == f.invnum /\ f.vendor
                /\ (f.recipients \/ f.composition \/ f.instruments)
Corrected(f) == f.invnum /\ f.vendor /\ ~f.amount /\ f.amounts
VendorVariant(f) == f.invnum /\ f.amount /\ f.currency /\ ~f.vendor
Recurring(f) == f.vendor /\ f.amount /\ f.currency /\ f.months /\ ~f.invnum
SplitSuspect(f) == f.po /\ f.vendor /\ f.invnums /\ (f.amount \/ f.amounts)

ClassifyFacts(f) ==
    IF Collision(f) THEN "IDENTITY_COLLISION"
    ELSE IF Provable(f) /\ f.surface THEN "EXACT_DUPLICATE"
    ELSE IF Provable(f) THEN "NORMALIZED_DUPLICATE"
    ELSE IF Corrected(f) THEN "CORRECTED_INVOICE"
    ELSE IF VendorVariant(f) THEN "VENDOR_VARIANT_DUPLICATE"
    ELSE IF Recurring(f) THEN "RECURRING_INVOICE"
    ELSE IF SplitSuspect(f) THEN "SPLIT_INVOICE_SUSPECT"
    ELSE "LOW_CONFIDENCE"

Classify(a, b) == ClassifyFacts(Facts(a, b))

-----------------------------------------------------------------------------
DefaultPolicy(type) ==
    IF type \in {"EXACT_DUPLICATE", "NORMALIZED_DUPLICATE"} THEN "BLOCK"
    ELSE IF type = "RECURRING_INVOICE" THEN "ALLOW"
    ELSE IF type = "SPLIT_INVOICE_SUSPECT" THEN "ESCALATE"
    ELSE "REVIEW"

(* never block without provable identity: such a BLOCK becomes a REVIEW *)
DecideAction(type, provable) ==
    IF DefaultPolicy(type) = "BLOCK" /\ ~provable THEN "REVIEW" ELSE DefaultPolicy(type)

Action(a, b) == DecideAction(Classify(a, b), Provable(Facts(a, b)))

(* Which actions put a document in front of a person: cases/service.py *)
NeedsCase == {"REVIEW", "ESCALATE", "BLOCK"}

(* Candidate generation: the same kind of document, one key in common. *)
Candidates(a, b) ==
    /\ a.doc_type = b.doc_type
    /\ IdentityKeys(a) \cap IdentityKeys(b) # {}
=============================================================================
