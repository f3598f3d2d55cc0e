------------------------------ MODULE Resolver ------------------------------
(***************************************************************************)
(* The resolution of a document into a view (profiles/resolver.py): fields *)
(* by label, refusing to choose between competing values, then the total   *)
(* verified by the money tree, or by the role verifier where the tree      *)
(* recovers nothing.  Labels stand for the alias families of               *)
(* profiles/invoice.py, one for every place in a field's alias order that  *)
(* the shipped profile distinguishes.                                      *)
(***************************************************************************)
EXTENDS MoneyTree, RoleVerifier

FieldSpec(type, weight, aliases, heading) ==
    [type |-> type, weight |-> weight, aliases |-> aliases, heading |-> heading]

(* weights in hundredths *)
Schema ==
    [invoice_number |-> FieldSpec("string", 40, <<"invoice_number", "ref">>, FALSE),
     vendor         |-> FieldSpec("string", 25, <<"vendor">>, TRUE),
     invoice_date   |-> FieldSpec("date", 15, <<"invoice_date", "date">>, FALSE),
     due_date       |-> FieldSpec("date", 5, <<"due_date", "payment_due", "due">>, FALSE),
     po_number      |-> FieldSpec("string", 30, <<"po_number">>, FALSE),
     subtotal       |-> FieldSpec("money", 10, <<"subtotal">>, FALSE),
     tax            |-> FieldSpec("money", 5, <<"tax">>, FALSE),
     total          |-> FieldSpec("money", 10, <<"total", "total_due", "amount_due">>, FALSE)]

SuspicionThreshold == 80

(* A value as it stands on the page: "$10.00" and "10.00" are two values.  *)
Raw(line) == [value |-> line.value, type |-> line.type, marked |-> line.marked]
TypeOk(raw, declared) == declared = "string" \/ raw.type = declared

ValuesUnder(lines, label) ==
    {Raw(ValueLine(lines, i)) : i \in {j \in Labelled(lines) : label \in lines[j].keys}}

(* the first alias that matches anything, with every value under it *)
FromKeyValues(lines, aliases) ==
    LET matching == {a \in DOMAIN aliases : ValuesUnder(lines, aliases[a]) # {}}
    IN  IF matching = {} THEN {} ELSE ValuesUnder(lines, aliases[Min(matching)])

(* the prominent line: the first that is neither labelled nor a figure *)
FromHeading(lines) ==
    LET prominent == {i \in DOMAIN lines :
                          lines[i].keys = {} /\ lines[i].type = "text" /\ lines[i].shape = "label"}
    IN  IF prominent = {} THEN {} ELSE {Raw(lines[Min(prominent)])}

(* A strategy whose values are of the wrong type has not resolved.         *)
ValuesOf(lines, field) ==
    LET spec == Schema[field]
        labelled == {raw \in FromKeyValues(lines, spec.aliases) : TypeOk(raw, spec.type)}
    IN  IF labelled # {} \/ ~spec.heading THEN labelled ELSE FromHeading(lines)

Fields == DOMAIN Schema
Competing(lines) == {f \in Fields : Cardinality(ValuesOf(lines, f)) > 1}

ResolvedFields(lines) ==
    [f \in {g \in Fields : Cardinality(ValuesOf(lines, g)) = 1} |->
        (CHOOSE raw \in ValuesOf(lines, f) : TRUE).value]

Suspicion(lines) ==
    Min({100, MapThenSumSet(LAMBDA f : Schema[f].weight, Competing(lines))})

PartitionStatus(lines) ==
    IF Competing(lines) = {} THEN "SINGLE_DOCUMENT"
    ELSE IF Suspicion(lines) >= SuspicionThreshold THEN "MULTI_DOCUMENT_DETECTED"
    ELSE "AMBIGUOUS"

-----------------------------------------------------------------------------
(* The amounts of the first table of line items: the others are not read.  *)
FirstTable(lines) ==
    LET rows == {i \in DOMAIN lines : IsPriced(lines[i])}
        first == {i \in rows : \A j \in Min(rows) .. i : j \in rows}
    IN  [i \in 1 .. Cardinality(first) |->
            LET row == lines[Min(rows) + i - 1]
            IN  IF row.type = "money" THEN row.value ELSE Absent]

(* The tree decides; the role verifier where the tree recovers nothing and *)
(* it concludes something itself.                                          *)
Verification(lines, claimed) ==
    LET nodes == ParseMoneyNodes(lines)
        tree == VerifyTotalTree(nodes, claimed)
        legacy == VerifyTotal(lines, FirstTable(lines), claimed)
    IN  IF TreeVerdict(nodes) = "UNVERIFIABLE" /\ legacy.verdict # "UNVERIFIABLE"
        THEN legacy ELSE tree

WithTotal(stated, total) ==
    [f \in DOMAIN stated \cup {"total"} |-> IF f = "total" THEN total ELSE stated[f]]

ResolveDocumentView(lines) ==
    LET stated == ResolvedFields(lines)
        claimed == IF "total" \in DOMAIN stated THEN stated["total"] ELSE Absent
        check == Verification(lines, claimed)
        filled == claimed = Absent /\ check.identified # Absent
        table == FirstTable(lines)
        items == IF Len(check.items) > Len(table) THEN check.items ELSE table
    IN  [fields  |-> IF filled THEN WithTotal(stated, check.identified) ELSE stated,
         columns |-> [c \in IF items = <<>> THEN {} ELSE {"line_items.amount"} |-> items],
         total_derived |-> filled /\ check.derived,
         verdict |-> check.verdict,
         identified |-> check.identified,
         competing |-> Competing(lines),
         status  |-> PartitionStatus(lines)]
=============================================================================
