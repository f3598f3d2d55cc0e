---------------------------- MODULE Consistency ----------------------------
(***************************************************************************)
(* The consistency engine (registry/consistency.py): what is wrong with    *)
(* one recorded document, given everything the provider knows.  A finding  *)
(* names its kind, the assertions it rests on, and for a duplicate the     *)
(* action the duplicate engine suggests.                                   *)
(***************************************************************************)
EXTENDS Registry

CONSTANT MinBaseline    \* _MIN_BASELINE_N = 3

ASSUME BaselineAssumption == MinBaseline \in Nat \ {0}

Finding(kind, evidence, action) ==
    [kind |-> kind, evidence |-> evidence, action |-> action]

OrZero(v) == IF Present(v) THEN v ELSE 0

(* faulty variant: the document itself counts towards its baseline *)
EstablishedCountingSelf(observed, count) ==
    Cardinality(observed) = 1 /\ count + 1 >= MinBaseline

(* One value, seen often enough, is a baseline; anything else is not. *)
Established(observed, count) == Cardinality(observed) = 1 /\ count >= MinBaseline

FirstFew(S) == Oldest(S, EvidenceLimit)

-----------------------------------------------------------------------------
CheckDuplicates(p, n) ==
    LET query == Rehydrate(Asserted(p, n))
        prior(m) == Rehydrate(Asserted(p, m))
    IN  {Finding("DUPLICATE", {m}, Action(prior(m), query)) :
            m \in {c \in CandidatesFor(p, query, n) :
                      Action(prior(c), query) # "ALLOW"}}

(* discount_canon and shipping_canon are read but no canonicalisation sets  *)
(* them, so they always count as zero.                                      *)
CheckInternal(p, n) ==
    LET d == Asserted(p, n)
    IN  IF /\ d.verdict # "CONFIRM"
           /\ Present(d.sub) /\ Present(d.amount)
           /\ AmountsDiffer(d.sub + OrZero(d.tax), d.amount)
        THEN {Finding("INTERNAL_INCONSISTENCY", {n}, None)}
        ELSE {}

(* faulty variant: whatever answers to the number is taken for the order *)
OrdersCitedOfAnyType(p, po) == ByReference(p, "purchase_order", po)

OrdersCited(p, po) ==
    {m \in ByReference(p, "purchase_order", po) :
        Asserted(p, m).doc_type = "purchase_order"}

DisagreesWithOrder(d, order) ==
    \/ Differ(d.vendor, order.vendor)
    \/ Differ(d.currency, order.currency)
    \/ AmountsDiffer(d.amount, order.amount) /\ d.amount > order.amount

CheckPO(p, n) ==
    LET d == Asserted(p, n)
        orders == OrdersCited(p, d.po)
    IN  IF ~Present(d.po) \/ d.doc_type # "invoice" THEN {}
        ELSE IF orders = {} THEN {Finding("PO_NOT_FOUND", {n}, None)}
        ELSE {Finding("PO_MISMATCH", {m}, None) :
                 m \in {o \in orders : DisagreesWithOrder(d, Asserted(p, o))}}

History(p, n) == VendorHistory(p, Asserted(p, n).vendor) \ {n}

CheckTaxId(p, n) ==
    LET d == Asserted(p, n)
        seen == {m \in History(p, n) : Present(Asserted(p, m).tax_id)}
        distinct == {Asserted(p, m).tax_id : m \in seen}
    IN  IF ~Present(d.vendor) \/ seen = {} THEN {}
        ELSE IF ~Present(d.tax_id)
        THEN {Finding("MISSING_TAX_ID", FirstFew(seen), None)}
        ELSE IF Established(distinct, Cardinality(seen)) /\ d.tax_id \notin distinct
        THEN {Finding("TAX_ID_CHANGED", FirstFew(seen), None)}
        ELSE {}

HasRate(d) == Present(d.sub) /\ Present(d.tax) /\ d.sub > 0
(* the tax rate, rounded to a basis point *)
Rate(d) == (20000 * d.tax + d.sub) \div (2 * d.sub)

CheckTaxRate(p, n) ==
    LET d == Asserted(p, n)
        history == History(p, n)
        rated == {m \in history : HasRate(Asserted(p, m))}
    IN  IF /\ Present(d.vendor) /\ HasRate(d)
           /\ Cardinality(rated) >= MinBaseline
           /\ \A l, m \in rated : Rate(Asserted(p, l)) = Rate(Asserted(p, m))
           /\ \A m \in rated : Rate(d) # Rate(Asserted(p, m))
        THEN {Finding("TAX_RATE_DEVIATION", FirstFew(history), None)}
        ELSE {}

Signature(num) == num[1]

CheckNumberFormat(p, n) ==
    LET d == Asserted(p, n)
        history == {m \in History(p, n) : Asserted(p, m).doc_type = "invoice"}
        signed == {m \in history : Present(Asserted(p, m).num)}
        shapes == {Signature(Asserted(p, m).num) : m \in signed}
    IN  IF /\ Present(d.vendor) /\ Present(d.num) /\ d.doc_type = "invoice"
           /\ Established(shapes, Cardinality(signed))
           /\ Signature(d.num) \notin shapes
        THEN {Finding("NUMBER_FORMAT_DEVIATION", FirstFew(history), None)}
        ELSE {}

CheckPayments(p, n) ==
    LET d == Asserted(p, n)
        payments == {m \in ByReference(p, "payment", d.num) :
                        Asserted(p, m).doc_type = "payment"}
    IN  IF Present(d.num) /\ d.doc_type = "invoice" /\ payments # {}
        THEN {Finding("PAYMENT_CONFLICT", payments, None)}
        ELSE {}

Evaluate(p, n, includeDuplicates) ==
    CheckInternal(p, n)
        \cup (IF includeDuplicates THEN CheckDuplicates(p, n) ELSE {})
        \cup CheckPO(p, n) \cup CheckTaxId(p, n) \cup CheckTaxRate(p, n)
        \cup CheckNumberFormat(p, n) \cup CheckPayments(p, n)

-----------------------------------------------------------------------------
(* Which findings Process puts in the queue. *)
Informational == {"PO_NOT_FOUND"}

FiledByProcess(f) ==
    /\ f.kind \notin Informational
    /\ f.kind = "DUPLICATE" => f.action \in NeedsCase
=============================================================================
