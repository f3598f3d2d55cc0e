---------------------------- MODULE RulesEngine ----------------------------
(***************************************************************************)
(* The rules engine (analysis/rules_engine.py) and the rules of the        *)
(* invoice profiles.  A view gives every field a value or None, and every  *)
(* table column the sequence of its cells or None; amounts and dates are   *)
(* integers.  Amounts are whole units, so that the tolerances of a cent,   *)
(* and the rounding of floats around them, decide nothing.                 *)
(***************************************************************************)
EXTENDS Absence, Integers, Sequences, FiniteSets, FiniteSetsExt

CONSTANT WellFormed   \* the values that match the format a rule names

Primitives == {"exists", "match", "compare", "compute", "contains", "custom"}

(* left and right are field names, literal a constant that stands on the   *)
(* right when there is no such field; inputs are fields or columns.        *)
Rule(id, type, requires, left, op, right, literal, inputs) ==
    [id |-> id, type |-> type, requires |-> requires, left |-> left, op |-> op,
     right |-> right, literal |-> literal, inputs |-> inputs]

Exists(id, field) == Rule(id, "exists", {}, field, "", "", Absent, {})
Formatted(id, field) == Rule(id, "match", {field}, field, "", "", Absent, {})
Compare(id, left, op, right) ==
    Rule(id, "compare", {left, right}, left, op, right, Absent, {})
CompareTo(id, left, op, literal) ==
    Rule(id, "compare", {left}, left, op, "", literal, {})
SumEquals(id, inputs, total) ==
    Rule(id, "compute", inputs \cup {total}, "", "", total, Absent, inputs)

FieldOf(view, ref) == IF ref \in DOMAIN view.fields THEN view.fields[ref] ELSE Absent
ColumnOf(view, ref) == IF ref \in DOMAIN view.columns THEN view.columns[ref] ELSE Absent

Found(view, ref) == Given(FieldOf(view, ref)) \/ Given(ColumnOf(view, ref))

RightOperand(view, rule) ==
    IF Given(rule.literal) THEN rule.literal ELSE FieldOf(view, rule.right)

Compares(l, op, r) ==
    \/ op = "==" /\ l = r
    \/ op = ">"  /\ l > r
    \/ op = ">=" /\ l >= r
    \/ op = "<=" /\ l <= r

(* cells that are not numbers are left out of a sum *)
ColumnSum(cells) ==
    MapThenSumSet(LAMBDA i : cells[i], {i \in DOMAIN cells : Given(cells[i])})

Amounts(view, rule) ==
    MapThenSumSet(LAMBDA ref : IF Given(FieldOf(view, ref)) THEN FieldOf(view, ref)
                               ELSE ColumnSum(ColumnOf(view, ref)),
                  rule.inputs)

Holds(view, rule) ==
    \/ rule.type = "exists" /\ Given(FieldOf(view, rule.left))
    \/ rule.type = "match" /\ FieldOf(view, rule.left) \in WellFormed
    \/ /\ rule.type = "compare"
       /\ Given(FieldOf(view, rule.left)) /\ Given(RightOperand(view, rule))
       /\ Compares(FieldOf(view, rule.left), rule.op, RightOperand(view, rule))
    \/ /\ rule.type = "compute"
       /\ \A ref \in rule.inputs : Found(view, ref)
       /\ Given(FieldOf(view, rule.right))
       /\ Amounts(view, rule) = FieldOf(view, rule.right)

(* A missing input means unevaluable, not wrong. *)
Status(view, rule) ==
    IF \E ref \in rule.requires : ~Found(view, ref) THEN "SKIPPED"
    ELSE IF rule.type \in Primitives /\ Holds(view, rule) THEN "PASS"
    ELSE "FAIL"

(* a report gives every rule, by its id, a status *)
Evaluate(view, rules) ==
    [id \in {rule.id : rule \in rules} |->
        Status(view, CHOOSE rule \in rules : rule.id = id)]

WithStatus(report, status) == {id \in DOMAIN report : report[id] = status}

-----------------------------------------------------------------------------
TotalsBalance == SumEquals("totals_balance", {"subtotal", "tax"}, "total")
ItemsAddUp ==
    SumEquals("line_items_sum_to_subtotal", {"line_items.amount"}, "subtotal")

InvoiceRules ==
    {Exists("invoice_number_required", "invoice_number"),
     Exists("vendor_required", "vendor"),
     Exists("total_required", "total"),
     Formatted("currency_valid", "currency"),
     TotalsBalance, ItemsAddUp,
     CompareTo("total_positive", "total", ">", 0),
     Compare("due_after_invoice", "due_date", ">=", "invoice_date")}

InvoiceWithinOrder ==
    {Compare("invoice_within_po", "a.total", "<=", "b.total"),
     Compare("currency_matches", "a.currency", "==", "b.currency")}
=============================================================================
