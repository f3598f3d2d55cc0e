--------------------------- MODULE Reconciliation ---------------------------
(***************************************************************************)
(* Reconciliation of an invoice with its purchase order and the approval   *)
(* recommended on it (relationship_engine/structural.py, reconcile.py,     *)
(* verdict.py and approval.py, with the profile profiles/invoice_po.py).   *)
(*                                                                         *)
(* A view has the fields of Weights and the total, and line items          *)
(* [item, quantity, price], item being the description the lines are       *)
(* aligned by.  Every field may be Absent.                                 *)
(***************************************************************************)
EXTENDS RulesEngine

CONSTANTS Submissions,  \* the pairs <<invoice, order>> of views
          Contexts,     \* what else a caller knows when it asks
          NumberIn      \* the first number in a text, Absent if it has none

VARIABLES invoice, order,
          context,      \* what the caller told recommend
          pending,      \* candidate pairs of lines the alignment has not looked at
          matched,      \* the pairs it has matched
          phase,        \* "aligning", "judged" or "done"
          verdict,      \* the status of every dimension
          recommendation

vars == <<invoice, order, context, pending, matched, phase, verdict, recommendation>>

Statuses == {"PASS", "FAIL", "NOT_CHECKED"}
Dimensions == {"identity", "financial", "structural", "business", "compliance"}

-----------------------------------------------------------------------------
(* Line alignment.  A pair is <<line of the invoice, line of the order>>;  *)
(* only lines that share their description are ever compared.              *)
Shared(a, b, p) == Given(a[p[1]].item) /\ a[p[1]].item = b[p[2]].item

Score(a, b, p) ==
    IF /\ Given(a[p[1]].price) /\ Given(b[p[2]].price)
       /\ a[p[1]].price # b[p[2]].price
    THEN 75 ELSE 100

(* faulty variant: the price has to agree too *)
CandidatesByPrice(a, b) ==
    {p \in (DOMAIN a) \X (DOMAIN b) : Shared(a, b, p) /\ Score(a, b, p) = 100}

Candidates(a, b) == {p \in (DOMAIN a) \X (DOMAIN b) : Shared(a, b, p)}

(* The description establishes a match, the price only ranks it.           *)
Before(a, b, p, q) ==
    \/ Score(a, b, p) > Score(a, b, q)
    \/ /\ Score(a, b, p) = Score(a, b, q)
       /\ p[1] < q[1] \/ (p[1] = q[1] /\ p[2] < q[2])

(* faulty variant: only the line of the invoice is marked as used *)
FreeLeft(p, pairs) == \A q \in pairs : p[1] # q[1]

Free(p, pairs) == \A q \in pairs : p[1] # q[1] /\ p[2] # q[2]

Unmatched(lines, used) == (DOMAIN lines) \ used
Left(pairs) == {p[1] : p \in pairs}
Right(pairs) == {p[2] : p \in pairs}

Of(lines, S, item) == {i \in S : lines[i].item = item}
Lopsided(S, T) ==
    1 \in {Cardinality(S), Cardinality(T)} /\ Cardinality(S) + Cardinality(T) > 2

(* Leftover lines that share their description with a matched line are a   *)
(* split or a merge, and so are several against one where none matched.    *)
(* Leftovers on both sides of a matched line group the invoice's only.     *)
Anchored(a, pairs, item) == \E p \in pairs : a[p[1]].item = item

Loose(a, b, pairs, item) ==
    /\ ~Anchored(a, pairs, item)
    /\ Lopsided(Of(a, Unmatched(a, Left(pairs)), item), Of(b, Unmatched(b, Right(pairs)), item))

SplitLeft(a, b, pairs) ==
    {i \in Unmatched(a, Left(pairs)) :
        /\ Given(a[i].item)
        /\ Anchored(a, pairs, a[i].item) \/ Loose(a, b, pairs, a[i].item)}

SplitRight(a, b, pairs) ==
    {j \in Unmatched(b, Right(pairs)) :
        /\ Given(b[j].item)
        /\ \/ /\ Anchored(a, pairs, b[j].item)
              /\ Of(a, Unmatched(a, Left(pairs)), b[j].item) = {}
           \/ Loose(a, b, pairs, b[j].item)}

StillUnmatched(a, b, pairs) ==
    <<Unmatched(a, Left(pairs)) \ SplitLeft(a, b, pairs),
      Unmatched(b, Right(pairs)) \ SplitRight(a, b, pairs)>>

-----------------------------------------------------------------------------
(* The dimensions of the verdict.                                          *)
Weights == [po_number |-> 60, vendor |-> 30, currency |-> 10]
Keystone == "po_number"

(* Two texts that hold numbers agree if their first numbers do.            *)
Agrees(u, v) ==
    IF Given(NumberIn[u]) /\ Given(NumberIn[v]) THEN NumberIn[u] = NumberIn[v] ELSE u = v

Weight(f, S) == IF f \in S THEN Weights[f] ELSE 0
WeightOf(S) == Weight("po_number", S) + Weight("vendor", S) + Weight("currency", S)

IdentityStatus(a, b) ==
    LET shared == {f \in DOMAIN Weights : Given(a.fields[f]) /\ Given(b.fields[f])}
        agreeing == {f \in shared : Agrees(a.fields[f], b.fields[f])}
    IN  IF \/ Keystone \in agreeing
           \/ shared # {} /\ 100 * WeightOf(agreeing) >= 70 * WeightOf(shared)
        THEN "PASS" ELSE "FAIL"

Combined(a, b) ==
    [fields |-> [ref \in {"a.total", "b.total", "a.currency", "b.currency"} |->
                    CASE ref = "a.total" -> a.fields.total
                      [] ref = "b.total" -> b.fields.total
                      [] ref = "a.currency" -> a.fields.currency
                      [] ref = "b.currency" -> b.fields.currency],
     columns |-> <<>>]

(* rules that were skipped do not count against the dimension *)
FinancialStatus(a, b) ==
    IF WithStatus(Evaluate(Combined(a, b), InvoiceWithinOrder), "FAIL") # {} THEN "FAIL"
    ELSE "PASS"

NoLines(a, b) == DOMAIN a.lines = {} /\ DOMAIN b.lines = {}

StructuralStatus(a, b, pairs) ==
    IF NoLines(a, b) THEN "NOT_CHECKED"
    ELSE IF StillUnmatched(a.lines, b.lines, pairs) = <<{}, {}>> THEN "PASS" ELSE "FAIL"

(* faulty variant: less than ordered is taken for a partial delivery *)
QuantitiesDifferUpwards(a, b, p) ==
    /\ Given(a.lines[p[1]].quantity) /\ Given(b.lines[p[2]].quantity)
    /\ a.lines[p[1]].quantity > b.lines[p[2]].quantity

QuantitiesDiffer(a, b, p) ==
    /\ Given(a.lines[p[1]].quantity) /\ Given(b.lines[p[2]].quantity)
    /\ a.lines[p[1]].quantity # b.lines[p[2]].quantity

BusinessStatus(a, b, pairs) ==
    IF NoLines(a, b) THEN "NOT_CHECKED"
    ELSE IF \/ \E p \in pairs : QuantitiesDiffer(a, b, p)
            \/ StillUnmatched(a.lines, b.lines, pairs) # <<{}, {}>>
    THEN "FAIL" ELSE "PASS"

Unchecked ==
    [identity |-> "NOT_CHECKED", financial |-> "NOT_CHECKED", structural |-> "NOT_CHECKED",
     business |-> "NOT_CHECKED", compliance |-> "NOT_CHECKED"]

(* Compliance needs a company's policies, which nobody gives.              *)
ReconcileDocuments(a, b, pairs) ==
    [identity   |-> IdentityStatus(a, b),
     financial  |-> FinancialStatus(a, b),
     structural |-> StructuralStatus(a, b, pairs),
     business   |-> BusinessStatus(a, b, pairs),
     compliance |-> "NOT_CHECKED"]

Overall(v) ==
    IF \E d \in Dimensions : v[d] = "FAIL" THEN "EXCEPTION"
    ELSE IF \E d \in Dimensions : v[d] = "NOT_CHECKED" THEN "INCOMPLETE"
    ELSE "RECONCILED"

-----------------------------------------------------------------------------
(* The approval recommended.  A context gives the resolver's partition     *)
(* status (or Absent) and the fields with competing values, whether a      *)
(* duplicate was detected, and the risk signals that were assessed.        *)
Signals == {"new_vendor", "already_paid", "expired_po", "unexpected_tax", "future_invoice_date"}

Blocking(v, ctx) ==
    \/ v.identity = "FAIL"
    \/ v.financial = "FAIL"
    \/ ctx.partition \notin {Absent, "SINGLE_DOCUMENT"}
    \/ ctx.competing # {}
    \/ ctx.duplicate

Weakest(statuses) ==
    IF "FAIL" \in statuses THEN "FAIL"
    ELSE IF "NOT_CHECKED" \in statuses THEN "NOT_CHECKED" ELSE "PASS"

(* faulty variant: a signal nobody assessed is no risk *)
RiskGateOpen(ctx) ==
    IF \E s \in DOMAIN ctx.signals : ctx.signals[s] THEN "FAIL" ELSE "PASS"

RiskGate(ctx) ==
    IF \E s \in Signals \cap DOMAIN ctx.signals : ctx.signals[s] THEN "FAIL"
    ELSE IF Signals \ DOMAIN ctx.signals # {} THEN "NOT_CHECKED" ELSE "PASS"

RequiredGates(v, ctx) ==
    {v.identity, Weakest({v.financial, v.structural}), v.business, RiskGate(ctx)}

(* faulty variant: passing gates override what blocks *)
RecommendOverriding(v, ctx) ==
    IF RequiredGates(v, ctx) = {"PASS"} THEN "RECOMMEND_APPROVE"
    ELSE IF Blocking(v, ctx) THEN "NEVER_APPROVE"
    ELSE "MANUAL_REVIEW"

Recommend(v, ctx) ==
    IF Blocking(v, ctx) THEN "NEVER_APPROVE"
    ELSE IF RequiredGates(v, ctx) = {"PASS"} THEN "RECOMMEND_APPROVE"
    ELSE "MANUAL_REVIEW"

-----------------------------------------------------------------------------
None == "none yet"

Init ==
    /\ \E s \in Submissions : invoice = s[1] /\ order = s[2]
    /\ context = None
    /\ pending = Candidates(invoice.lines, order.lines)
    /\ matched = {} /\ phase = "aligning"
    /\ verdict = Unchecked /\ recommendation = None

(* The best pair left is taken if both lines are free: greedy, one to one. *)
AlignNext ==
    /\ phase = "aligning"
    /\ \E best \in pending :
           /\ \A p \in pending \ {best} : Before(invoice.lines, order.lines, best, p)
           /\ pending' = pending \ {best}
           /\ matched' = IF Free(best, matched) THEN matched \cup {best} ELSE matched
    /\ UNCHANGED <<invoice, order, context, phase, verdict, recommendation>>

Reconcile ==
    /\ phase = "aligning" /\ pending = {}
    /\ verdict' = ReconcileDocuments(invoice, order, matched)
    /\ phase' = "judged"
    /\ UNCHANGED <<invoice, order, context, pending, matched, recommendation>>

RecommendApproval ==
    /\ phase = "judged"
    /\ context' \in Contexts
    /\ recommendation' = Recommend(verdict, context')
    /\ phase' = "done"
    /\ UNCHANGED <<invoice, order, pending, matched, verdict>>

Finished == phase = "done" /\ UNCHANGED vars

Next == AlignNext \/ Reconcile \/ RecommendApproval \/ Finished

Spec == Init /\ [][Next]_vars

-----------------------------------------------------------------------------
(* Type invariant: what is matched are lines that share a description.     *)
TypeOK ==
    /\ pending \cup matched \subseteq (DOMAIN invoice.lines) \X (DOMAIN order.lines)
    /\ \A p \in matched : Shared(invoice.lines, order.lines, p)
    /\ phase \in {"aligning", "judged", "done"}
    /\ verdict \in [identity : Statuses, financial : Statuses, structural : Statuses,
                    business : Statuses, compliance : Statuses]
    /\ recommendation \in {None, "NEVER_APPROVE", "MANUAL_REVIEW", "RECOMMEND_APPROVE"}

(* No line is matched twice, on either side, at any moment of the loop.    *)
(* (structural.py align_lines, used_a and used_b)                          *)
OneToOne ==
    \A p, q \in matched : (p[1] = q[1] \/ p[2] = q[2]) => p = q

Items(lines) == {lines[i].item : i \in DOMAIN lines} \ {Absent}

(* When the loop is over, a line is unmatched exactly if the other side    *)
(* has no line of that description, however prices, quantities and order   *)
(* differ: a difference in price is reported as one, not as a missing line *)
(* and an unexpected one.                                                  *)
(* (structural.py align_lines and _detect_split_merge)                     *)
UnmatchedMeansAbsent ==
    phase # "aligning" =>
        StillUnmatched(invoice.lines, order.lines, matched) =
            <<{i \in DOMAIN invoice.lines : invoice.lines[i].item \notin Items(order.lines)},
              {j \in DOMAIN order.lines : order.lines[j].item \notin Items(invoice.lines)}>>

Alone(lines, i) == \A k \in (DOMAIN lines) \ {i} : lines[k].item # lines[i].item

(* Where an item stands once on each document, no difference of quantities *)
(* gets past the business dimension.                                       *)
(* (reconcile.py _structural_and_business)                                 *)
BusinessSeesQuantities ==
    phase # "aligning" /\ verdict.business = "PASS" =>
        \A p \in Candidates(invoice.lines, order.lines) :
            LET billed == invoice.lines[p[1]].quantity
                ordered == order.lines[p[2]].quantity
            IN  Alone(invoice.lines, p[1]) /\ Alone(order.lines, p[2])
                    /\ Given(billed) /\ Given(ordered) => billed = ordered

(* Approval is recommended only where the two documents share an identity  *)
(* that agrees, hold the same items and at least one, where nothing came    *)
(* against them upstream and every risk was assessed and found absent; and  *)
(* never where two stated totals say that more is billed than was ordered.  *)
(* That the totals are stated is not among it (ApprovalRestsOnTotals).      *)
(* (approval.py recommend, its blocking conditions and its required gates) *)
ApprovalIsEarned ==
    recommendation = "RECOMMEND_APPROVE" =>
        /\ \E f \in DOMAIN Weights :
               /\ Given(invoice.fields[f]) /\ Given(order.fields[f])
               /\ Agrees(invoice.fields[f], order.fields[f])
        /\ Given(invoice.fields.total) /\ Given(order.fields.total) =>
               invoice.fields.total <= order.fields.total
        /\ Items(invoice.lines) # {}
        /\ Items(invoice.lines) = Items(order.lines)
        /\ context.partition \in {Absent, "SINGLE_DOCUMENT"}
        /\ context.competing = {} /\ ~context.duplicate
        /\ \A s \in Signals : s \in DOMAIN context.signals /\ ~context.signals[s]
        /\ Overall(verdict) # "EXCEPTION"

(* Documented, and not so: approval is evidence that the total is within    *)
(* the order.  With a total missing on either side the rule is skipped, the *)
(* financial dimension passes, and approval is recommended all the same.    *)
(* (approval.py:16, "APPROVE requires POSITIVE evidence that it is safe",   *)
(* and verdict.py:21, "NOT_CHECKED - never silently PASS")                  *)
ApprovalRestsOnTotals ==
    recommendation = "RECOMMEND_APPROVE" =>
        Given(invoice.fields.total) /\ Given(order.fields.total)

Rank == [NEVER_APPROVE |-> 0, MANUAL_REVIEW |-> 1, RECOMMEND_APPROVE |-> 2]

(* the contexts with all the trouble of this one, and no more risks assessed *)
Worse(ctx) ==
    {c \in Contexts :
        /\ ctx.partition \notin {Absent, "SINGLE_DOCUMENT"} => c.partition = ctx.partition
        /\ ctx.competing \subseteq c.competing
        /\ ctx.duplicate => c.duplicate
        /\ \A s \in DOMAIN c.signals : s \in DOMAIN ctx.signals /\ (ctx.signals[s] => c.signals[s])}

(* More trouble known, or fewer risks assessed, never improves what is     *)
(* recommended.                                                            *)
(* (approval.py recommend, "no confidence overrides them")                 *)
TroubleNeverHelps ==
    phase = "done" =>
        \A c \in Worse(context) : Rank[Recommend(verdict, c)] <= Rank[recommendation]

(* Documented, and not so: a reference links two documents only if it is   *)
(* the very same.                                                          *)
(* (reconcile.py _edge_identity, "whose EXACT match is sufficient")        *)
KeystoneIsExact ==
    /\ phase # "aligning" /\ verdict.identity = "PASS"
    /\ Given(invoice.fields[Keystone]) /\ Given(order.fields[Keystone])
    /\ ~Given(invoice.fields.vendor) /\ ~Given(invoice.fields.currency)
    => invoice.fields[Keystone] = order.fields[Keystone]

QuantityOf(lines, item) ==
    MapThenSumSet(LAMBDA i : lines[i].quantity, {i \in DOMAIN lines : lines[i].item = item})

(* Documented, and not so: lines that are not one to one never pass while  *)
(* their quantities do not add up.                                         *)
(* (structural.py, "reported as unmatched ... rather than fabricating a    *)
(* match")                                                                 *)
SplitsAreReported ==
    phase # "aligning" /\ verdict.structural = "PASS" /\ verdict.business = "PASS" =>
        \A item \in Items(invoice.lines) :
            QuantityOf(invoice.lines, item) = QuantityOf(order.lines, item)

(* Documented, and not so: the same rows in another order reconcile.       *)
(* (structural.py, "reordered rows align correctly")                       *)
ReorderedRowsAlign ==
    phase # "aligning" /\ Len(invoice.lines) = 2
        /\ order.lines = <<invoice.lines[2], invoice.lines[1]>> =>
            verdict.business = "PASS"
=============================================================================
