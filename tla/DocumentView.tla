---------------------------- MODULE DocumentView ----------------------------
(***************************************************************************)
(* A submitted document on its way to a validated view: its lines are      *)
(* read, block by block, then resolved (profiles/resolver.py) and validated*)
(* against the rules of its profile, the verifier taking precedence over a *)
(* rule that only assumes how the total is made up                         *)
(* (api/routes/reconcile.py, _process_view).                               *)
(***************************************************************************)
EXTENDS Resolver, RulesEngine

CONSTANTS Blocks,      \* runs of lines a document is put together from
          MaxBlocks    \* bound: the most blocks of a document

(* A run of lines: its figures are amounts.                                *)
IsRun(block) ==
    /\ block \in Seq({block[i] : i \in DOMAIN block})
    /\ \A i \in DOMAIN block : block[i].type = "money" => block[i].value \in Int

ASSUME BlockAssumption ==
    /\ \A block \in Blocks : IsRun(block)
    /\ MaxBlocks \in Nat /\ Absent \notin Int

VARIABLES lines,       \* the document, a sequence of lines
          blocks,      \* how many blocks it has
          stage,       \* "reading", "resolved" or "validated"
          view,        \* the resolved view
          report       \* the rules' results

viewVars == <<lines, blocks, stage, view, report>>

NoView == [fields |-> <<>>, columns |-> <<>>, total_derived |-> FALSE,
           verdict |-> "NONE", identified |-> Absent, competing |-> {},
           status |-> "SINGLE_DOCUMENT"]

ViewInit ==
    /\ lines = <<>> /\ blocks = 0 /\ stage = "reading"
    /\ view = NoView /\ report = <<>>

ReadBlock ==
    /\ stage = "reading" /\ blocks < MaxBlocks
    /\ \E block \in Blocks : lines' = lines \o block
    /\ blocks' = blocks + 1
    /\ UNCHANGED <<stage, view, report>>

(* A document without a line is refused before it gets here.               *)
Resolve ==
    /\ stage = "reading" /\ lines # <<>>
    /\ view' = ResolveDocumentView(lines)
    /\ stage' = "resolved"
    /\ UNCHANGED <<lines, blocks, report>>

VerifierSupersedes == {"totals_balance"}

(* faulty variant: any verdict of the verifier outranks the rule *)
ApplyVerifierPrecedenceAlways(results, verdict) ==
    [id \in DOMAIN results |->
        IF /\ verdict \in {"CONFIRM", "CONFLICT"} /\ id \in VerifierSupersedes
           /\ results[id] = "FAIL"
        THEN "SUPERSEDED" ELSE results[id]]

ApplyVerifierPrecedence(results, verdict) ==
    [id \in DOMAIN results |->
        IF /\ verdict = "CONFIRM" /\ id \in VerifierSupersedes
           /\ results[id] = "FAIL"
        THEN "SUPERSEDED" ELSE results[id]]

Validate ==
    /\ stage = "resolved"
    /\ report' = ApplyVerifierPrecedence(Evaluate(view, InvoiceRules), view.verdict)
    /\ stage' = "validated"
    /\ UNCHANGED <<lines, blocks, view>>

ViewNext == ReadBlock \/ Resolve \/ Validate

ViewSpec == ViewInit /\ [][ViewNext]_viewVars
-----------------------------------------------------------------------------
(* Type invariant: a view gives known fields a value and knows its verdict. *)
ViewTypeOK ==
    /\ blocks \in 0 .. MaxBlocks /\ stage \in {"reading", "resolved", "validated"}
    /\ DOMAIN view.fields \subseteq Fields /\ view.competing \subseteq Fields
    /\ view.verdict \in {"NONE", "CONFIRM", "CONFLICT", "FILL", "INCONSISTENT", "UNVERIFIABLE"}
    /\ view.status \in {"SINGLE_DOCUMENT", "MULTI_DOCUMENT_DETECTED", "AMBIGUOUS"}
    /\ DOMAIN report = IF stage = "validated" THEN {rule.id : rule \in InvoiceRules} ELSE {}
    /\ \A id \in DOMAIN report : report[id] \in {"PASS", "FAIL", "SKIPPED", "SUPERSEDED"}

(* A figure's role is decided by what stands between it and the figure     *)
(* before: no text further up, and no later text, reaches it.              *)
(* (money_tree.py parse_money_nodes, the pending label and the hint)       *)
RolesAreLocal ==
    \A k \in DOMAIN lines :
        IsMoney(lines[k]) =>
            ParseMoneyNodes(lines) = ParseMoneyNodes(SubSeq(lines, 1, k))
                                         \o ParseMoneyNodes(SubSeq(lines, k + 1, Len(lines)))

(* Reference: a plain invoice gives every figure in one line with its      *)
(* label, the rows first, then every summary figure at most once.          *)
SummaryWords == {"subtotal", "tax", "discount", "shipping", "total"}
Rows == {i \in DOMAIN lines : IsPriced(lines[i])}
SummaryLines(word) == {i \in DOMAIN lines \ Rows : lines[i].words = {word}}
Amount(word) == MapThenSumSet(LAMBDA i : lines[i].value, SummaryLines(word))
Deduction == IF Amount("discount") < 0 THEN -Amount("discount") ELSE Amount("discount")
Net == Amount("subtotal") - Deduction + Amount("shipping")

IsPlainInvoice(marked) ==
    /\ \A i \in DOMAIN lines :
           IF lines[i].type = "money"
           THEN /\ lines[i].marked = marked
                /\ \/ i \in Rows
                   \/ lines[i].shape = "label" /\ \E w \in SummaryWords : lines[i].words = {w}
           ELSE lines[i].shape = "label" /\ lines[i].words = {}
    /\ \A w \in SummaryWords : Cardinality(SummaryLines(w)) <= 1
    /\ \A w \in SummaryWords : \A r \in Rows, i \in SummaryLines(w) : r < i
    /\ SummaryLines("subtotal") # {} /\ SummaryLines("total") # {}
    /\ \A i \in SummaryLines("shipping") : lines[i].value >= 0

Balances == Amount("total") \in {Net, Net + Amount("tax")}
RowsAddUp ==
    Rows = {} \/ MapThenSumSet(LAMBDA i : lines[i].value, Rows) = Amount("subtotal")

(* Every row is a charge, and no figure is registered under a label that   *)
(* its text does not show.                                                 *)
MoneyLabels == {"subtotal", "tax", "total", "total_due", "amount_due"}
IsClearlyLabelled ==
    \A i \in DOMAIN lines :
        IF i \in Rows THEN lines[i].value > 0 /\ lines[i].keys \cap MoneyLabels = {}
        ELSE lines[i].keys \cap MoneyLabels \subseteq lines[i].words

(* A plain invoice whose figures add up is confirmed, and no rule about    *)
(* them is held against it: a discount, shipping or tax included in the    *)
(* prices is no error.  (A credit among the rows is: what the tree adds up *)
(* and publishes leaves it out.)                                           *)
(* (money_tree.py validate_money_tree, reconcile.py _apply_verifier_precedence) *)
HonestInvoicesAreConfirmed ==
    stage = "validated" /\ IsPlainInvoice(TRUE) /\ IsClearlyLabelled
        /\ Balances /\ RowsAddUp =>
        /\ view.verdict = "CONFIRM"
        /\ WithStatus(report, "FAIL")
               \cap {"totals_balance", "line_items_sum_to_subtotal", "total_required"} = {}

(* A plain invoice whose stated total is not made up of its parts is       *)
(* contradicted, and the rule that noticed is not overruled: a total above *)
(* its parts is over-billing.                                              *)
(* (money_tree.py verify_total_tree, the over-billing of inv90812)         *)
WrongTotalsAreContradicted ==
    stage = "validated" /\ IsPlainInvoice(TRUE) /\ ~Balances =>
        view.verdict = "CONFLICT" /\ WithStatus(report, "SUPERSEDED") = {}

(* Whatever the document looks like, the rule totals_balance is overruled  *)
(* only where the document shows what the rule leaves out (a deduction,    *)
(* shipping, a taxable subtotal, a tax included in the total), or where    *)
(* the tree has read no subtotal, or another subtotal or tax than the rule. *)
(* (reconcile.py _apply_verifier_precedence, the reason it gives)          *)
SupersededIsExplained ==
    WithStatus(report, "SUPERSEDED") # {} =>
        LET nodes == ParseMoneyNodes(lines) IN
        \/ \E role \in {"discount", "shipping", "taxable_subtotal"} : Stated(nodes, role)
        \/ view.fields["total"] = view.fields["subtotal"]
        \/ ~Stated(nodes, "subtotal")
        \/ \E role \in {"subtotal", "tax"} : ByRole(nodes, role) # view.fields[role]

(* Documented, and not so: no field with competing values is in the view.  *)
(* (resolver.py, "anchor fields with competing values are left UNRESOLVED") *)
CompetingValuesStayUnresolved == DOMAIN view.fields \cap view.competing = {}

(* Documented, and not so: a total no line states is marked as computed.   *)
(* (resolver.py, "mark HOW it was derived so a computed total is never     *)
(* shown as if the document stated it")                                    *)
ComputedTotalIsMarked ==
    "total" \in DOMAIN view.fields =>
        \/ view.total_derived
        \/ \E i \in DOMAIN lines : lines[i].type = "money" /\ lines[i].value = view.fields["total"]

(* Documented, and not so: a total that the role verifier confirms is not  *)
(* reported as contradicted by the document's arithmetic.                  *)
(* (resolver.py, "wiring the tree in can never regress a file the old path *)
(* could verify")                                                          *)
TreeNeverRegresses ==
    stage # "reading" =>
        LET stated == ResolvedFields(lines) IN
        "total" \in DOMAIN stated =>
            (VerifyTotal(lines, FirstTable(lines), stated["total"]).verdict = "CONFIRM"
                => view.verdict # "CONFLICT")
=============================================================================
