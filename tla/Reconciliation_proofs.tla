------------------------ MODULE Reconciliation_proofs ------------------------
(***************************************************************************)
(* The alignment of lines and what rests on it, for documents of any       *)
(* length: the greedy loop keeps a one-to-one matching in which every      *)
(* candidate it has looked at is blocked by a pair it took, and what the   *)
(* verdict says of the lines follows from that.                            *)
(*                                                                         *)
(* And the view of a single document, for documents of any lines: what the *)
(* reader holds after every line, what the money tree makes of it, and     *)
(* what the rules then say.                                                *)
(***************************************************************************)
EXTENDS Reconciliation, DocumentView, FiniteSetTheorems, SequenceTheorems, TLAPS

Pairs == Candidates(invoice.lines, order.lines)

(* Every candidate that is no longer pending has a line in the matching.   *)
Maximal == \A p \in Pairs : p \in pending \/ ~Free(p, matched)

Derived ==
    /\ phase # "aligning" =>
           pending = {} /\ verdict = ReconcileDocuments(invoice, order, matched)
    /\ recommendation = IF phase = "done" THEN Recommend(verdict, context) ELSE None

IInv ==
    /\ pending \subseteq Pairs /\ matched \subseteq Pairs
    /\ OneToOne /\ Maximal
    /\ TypeOK /\ Derived

-----------------------------------------------------------------------------
(* A verdict has a status in each dimension.                               *)
LEMMA VerdictType ==
    ASSUME NEW a, NEW b, NEW pairs
    PROVE  ReconcileDocuments(a, b, pairs) \in
               [identity : Statuses, financial : Statuses, structural : Statuses,
                business : Statuses, compliance : Statuses]
<1>1. IdentityStatus(a, b) \in Statuses
  BY DEF IdentityStatus, Statuses
<1>2. FinancialStatus(a, b) \in Statuses
  BY DEF FinancialStatus, Statuses
<1>3. StructuralStatus(a, b, pairs) \in Statuses
  BY DEF StructuralStatus, Statuses
<1>4. BusinessStatus(a, b, pairs) \in Statuses
  BY DEF BusinessStatus, Statuses
<1>5. "NOT_CHECKED" \in Statuses
  BY DEF Statuses
<1> QED BY <1>1, <1>2, <1>3, <1>4, <1>5 DEF ReconcileDocuments

(* A recommendation is one of three.                                       *)
LEMMA RecommendType ==
    ASSUME NEW v, NEW ctx
    PROVE  Recommend(v, ctx) \in {"NEVER_APPROVE", "MANUAL_REVIEW", "RECOMMEND_APPROVE"}
BY DEF Recommend

(* A step of the greedy loop keeps the matching and its maximality.        *)
LEMMA GreedyStep ==
    ASSUME IInv, NEW best \in pending,
           pending' = pending \ {best},
           matched' = IF Free(best, matched) THEN matched \cup {best} ELSE matched,
           UNCHANGED <<invoice, order>>
    PROVE  /\ pending' \subseteq Pairs' /\ matched' \subseteq Pairs'
           /\ OneToOne' /\ Maximal'
<1>1. Pairs' = Pairs
  BY DEF Pairs, Candidates, Shared
<1>2. pending' \subseteq Pairs' /\ matched' \subseteq Pairs'
  BY <1>1 DEF IInv
<1>3. OneToOne'
  <2>1. CASE Free(best, matched)
    BY <2>1 DEF IInv, OneToOne, Free
  <2>2. CASE ~Free(best, matched)
    BY <2>2 DEF IInv, OneToOne
  <2> QED BY <2>1, <2>2
<1>4. Maximal'
  <2> SUFFICES ASSUME NEW p \in Pairs, p \notin pending'
               PROVE  ~Free(p, matched')
    BY <1>1 DEF Maximal
  <2>1. CASE p = best /\ Free(best, matched)
    BY <2>1 DEF Free
  <2>2. CASE p = best /\ ~Free(best, matched)
    BY <2>2
  <2>3. CASE p # best
    <3>1. ~Free(p, matched)
      BY <2>3 DEF IInv, Maximal
    <3> QED BY <3>1 DEF Free
  <2> QED BY <2>1, <2>2, <2>3
<1> QED BY <1>2, <1>3, <1>4

(* The invariant holds before anything is matched.                         *)
LEMMA InitIInv == Init => IInv
<1> SUFFICES ASSUME Init PROVE IInv
  OBVIOUS
<1>1. pending = Pairs /\ matched = {}
  BY DEF Init, Pairs
<1>2. OneToOne /\ Maximal
  BY <1>1 DEF OneToOne, Maximal
<1>3. TypeOK
  <2>1. pending \subseteq (DOMAIN invoice.lines) \X (DOMAIN order.lines)
    BY <1>1 DEF Pairs, Candidates
  <2>2. verdict \in [identity : Statuses, financial : Statuses, structural : Statuses,
                     business : Statuses, compliance : Statuses]
    BY DEF Init, Unchecked, Statuses
  <2> QED BY <1>1, <2>1, <2>2 DEF Init, TypeOK
<1>4. Derived
  BY DEF Init, Derived, None
<1> QED BY <1>1, <1>2, <1>3, <1>4 DEF IInv

(* Looking at a candidate keeps the matching one-to-one and maximal so     *)
(* far, and answering derives verdict and recommendation from it.          *)
LEMMA NextIInv == IInv /\ [Next]_vars => IInv'
<1> SUFFICES ASSUME IInv, [Next]_vars PROVE IInv'
  OBVIOUS
<1>1. ASSUME AlignNext PROVE IInv'
  <2> PICK best \in pending :
        /\ pending' = pending \ {best}
        /\ matched' = IF Free(best, matched) THEN matched \cup {best} ELSE matched
    BY <1>1 DEF AlignNext
  <2>1. UNCHANGED <<invoice, order, context, phase, verdict, recommendation>> /\ phase = "aligning"
    BY <1>1 DEF AlignNext
  <2>2. /\ pending' \subseteq Pairs' /\ matched' \subseteq Pairs'
        /\ OneToOne' /\ Maximal'
    BY <2>1, GreedyStep
  <2>3. pending' \cup matched' \subseteq (DOMAIN invoice'.lines) \X (DOMAIN order'.lines)
    BY <2>2 DEF Pairs, Candidates
  <2>4. \A p \in matched' : Shared(invoice'.lines, order'.lines, p)
    BY <2>2 DEF Pairs, Candidates
  <2>5. TypeOK'
    BY <2>1, <2>3, <2>4 DEF IInv, TypeOK
  <2>6. Derived'
    BY <2>1 DEF IInv, Derived
  <2> QED BY <2>2, <2>5, <2>6 DEF IInv
<1>2. ASSUME Reconcile PROVE IInv'
  <2>1. /\ UNCHANGED <<invoice, order, pending, matched, recommendation>>
        /\ pending = {} /\ phase = "aligning" /\ phase' = "judged"
        /\ verdict' = ReconcileDocuments(invoice', order', matched')
    BY <1>2 DEF Reconcile
  <2>2. verdict' \in [identity : Statuses, financial : Statuses, structural : Statuses,
                      business : Statuses, compliance : Statuses]
    BY <2>1, VerdictType
  <2>3. TypeOK'
    BY <2>1, <2>2 DEF IInv, TypeOK, Shared
  <2>4. Derived'
    BY <2>1 DEF IInv, Derived
  <2>5. /\ pending' \subseteq Pairs' /\ matched' \subseteq Pairs'
        /\ OneToOne' /\ Maximal'
    BY <2>1 DEF IInv, OneToOne, Maximal, Pairs, Candidates, Shared, Free
  <2> QED BY <2>3, <2>4, <2>5 DEF IInv
<1>3. ASSUME RecommendApproval PROVE IInv'
  <2>1. /\ UNCHANGED <<invoice, order, pending, matched, verdict>>
        /\ phase = "judged" /\ phase' = "done"
        /\ recommendation' = Recommend(verdict', context')
    BY <1>3 DEF RecommendApproval
  <2>2. TypeOK'
    BY <2>1, RecommendType DEF IInv, TypeOK, Shared
  <2>3. Derived'
    BY <2>1 DEF IInv, Derived
  <2>4. /\ pending' \subseteq Pairs' /\ matched' \subseteq Pairs'
        /\ OneToOne' /\ Maximal'
    BY <2>1 DEF IInv, OneToOne, Maximal, Pairs, Candidates, Shared, Free
  <2> QED BY <2>2, <2>3, <2>4 DEF IInv
<1>4. ASSUME UNCHANGED vars PROVE IInv'
  <2>1. TypeOK' /\ Derived'
    BY <1>4 DEF vars, IInv, TypeOK, Derived, Shared
  <2>2. /\ pending' \subseteq Pairs' /\ matched' \subseteq Pairs'
        /\ OneToOne' /\ Maximal'
    BY <1>4 DEF vars, IInv, OneToOne, Maximal, Pairs, Candidates, Shared, Free
  <2> QED BY <2>1, <2>2 DEF IInv
<1> QED BY <1>1, <1>2, <1>3, <1>4 DEF Next, Finished

(* The inductive invariant holds in every state.                           *)
LEMMA Invariant == Spec => []IInv
BY InitIInv, NextIInv, PTL DEF Spec

-----------------------------------------------------------------------------
(* Whatever the documents, what is matched are lines that share their      *)
(* description, and every status is one of the three.                      *)
THEOREM TypeCorrect == Spec => []TypeOK
<1>1. IInv => TypeOK
  BY DEF IInv
<1> QED BY <1>1, Invariant, PTL

(* Whatever the documents, no line is matched twice at any moment of the   *)
(* greedy loop.                                                            *)
THEOREM MatchingIsOneToOne == Spec => []OneToOne
<1>1. IInv => OneToOne
  BY DEF IInv
<1> QED BY <1>1, Invariant, PTL

(* When the loop is over, every pair of lines that share a description has *)
(* a line in a matched pair of that same description.                      *)
LEMMA LoopOver ==
    ASSUME IInv, phase # "aligning",
           NEW i \in DOMAIN invoice.lines, NEW j \in DOMAIN order.lines,
           Given(invoice.lines[i].item), invoice.lines[i].item = order.lines[j].item
    PROVE  \E q \in matched :
               /\ q[1] = i \/ q[2] = j
               /\ q[1] \in DOMAIN invoice.lines /\ q[2] \in DOMAIN order.lines
               /\ invoice.lines[q[1]].item = order.lines[j].item
               /\ order.lines[q[2]].item = invoice.lines[i].item
<1>1. <<i, j>> \in Pairs /\ pending = {}
  BY DEF Pairs, Candidates, Shared, IInv, Derived
<1>2. ~Free(<<i, j>>, matched)
  BY <1>1 DEF IInv, Maximal
<1>3. PICK q \in matched : i = q[1] \/ j = q[2]
  BY <1>2 DEF Free
<1>4. q \in Pairs
  BY DEF IInv
<1>5. /\ q[1] \in DOMAIN invoice.lines /\ q[2] \in DOMAIN order.lines
      /\ invoice.lines[q[1]].item = order.lines[q[2]].item
  BY <1>4 DEF Pairs, Candidates, Shared
<1> QED BY <1>3, <1>5

(* Leftovers on one side only are not lopsided.                            *)
LEMMA NotLopsided ==
    ASSUME NEW S, NEW T, S = {} \/ T = {}
    PROVE  ~Lopsided(S, T)
<1>1. Cardinality({}) = 0
  BY FS_EmptySet
<1> QED BY <1>1 DEF Lopsided

(* The lines left unmatched are those whose item the other document lacks. *)
LEMMA UnmatchedLines ==
    ASSUME IInv, phase # "aligning"
    PROVE  StillUnmatched(invoice.lines, order.lines, matched) =
             <<{i \in DOMAIN invoice.lines : invoice.lines[i].item \notin Items(order.lines)},
               {j \in DOMAIN order.lines : order.lines[j].item \notin Items(invoice.lines)}>>
<1> DEFINE a == invoice.lines
           b == order.lines
           ua == Unmatched(a, Left(matched))
           ub == Unmatched(b, Right(matched))
<1>1. \A q \in matched : /\ q[1] \in DOMAIN a /\ q[2] \in DOMAIN b
                         /\ Given(a[q[1]].item) /\ a[q[1]].item = b[q[2]].item
  BY DEF IInv, Pairs, Candidates, Shared
<1>2. ASSUME NEW i \in ua, NEW j \in ub, Given(a[i].item), a[i].item = b[j].item
      PROVE  FALSE
  <2>1. i \in DOMAIN a /\ j \in DOMAIN b
    BY DEF Unmatched
  <2>2. PICK q \in matched : q[1] = i \/ q[2] = j
    BY <1>2, <2>1, LoopOver
  <2> QED BY <2>2 DEF Unmatched, Left, Right
<1>3. \A i \in ua : i \in SplitLeft(a, b, matched) <=> a[i].item \in Items(b)
  <2> SUFFICES ASSUME NEW i \in ua
               PROVE  i \in SplitLeft(a, b, matched) <=> a[i].item \in Items(b)
    OBVIOUS
  <2>1. ASSUME i \in SplitLeft(a, b, matched) PROVE a[i].item \in Items(b)
    <3>1. Given(a[i].item)
      BY <2>1 DEF SplitLeft
    <3>2. CASE Anchored(a, matched, a[i].item)
      BY <1>1, <3>1, <3>2 DEF Anchored, Items, Given
    <3>3. CASE Loose(a, b, matched, a[i].item)
      <4>1. Of(b, ub, a[i].item) # {}
        BY <3>3, NotLopsided DEF Loose
      <4> QED BY <3>1, <4>1 DEF Of, Unmatched, Items, Given
    <3> QED BY <2>1, <3>2, <3>3 DEF SplitLeft
  <2>2. ASSUME a[i].item \in Items(b) PROVE i \in SplitLeft(a, b, matched)
    <3>1. PICK j \in DOMAIN b : a[i].item = b[j].item
      BY <2>2 DEF Items
    <3>2. Given(a[i].item) /\ i \in DOMAIN a
      BY <2>2 DEF Items, Given, Unmatched
    <3>3. PICK q \in matched : a[q[1]].item = b[j].item
      BY <3>1, <3>2, LoopOver
    <3> QED BY <3>1, <3>2, <3>3 DEF SplitLeft, Anchored
  <2> QED BY <2>1, <2>2
<1>4. \A j \in ub : j \in SplitRight(a, b, matched) <=> b[j].item \in Items(a)
  <2> SUFFICES ASSUME NEW j \in ub
               PROVE  j \in SplitRight(a, b, matched) <=> b[j].item \in Items(a)
    OBVIOUS
  <2>1. ASSUME j \in SplitRight(a, b, matched) PROVE b[j].item \in Items(a)
    <3>1. Given(b[j].item)
      BY <2>1 DEF SplitRight
    <3>2. CASE Anchored(a, matched, b[j].item)
      BY <1>1, <3>1, <3>2 DEF Anchored, Items, Given
    <3>3. CASE Loose(a, b, matched, b[j].item)
      <4>1. Of(a, ua, b[j].item) # {}
        BY <3>3, NotLopsided DEF Loose
      <4> QED BY <3>1, <4>1 DEF Of, Unmatched, Items, Given
    <3> QED BY <2>1, <3>2, <3>3 DEF SplitRight
  <2>2. ASSUME b[j].item \in Items(a) PROVE j \in SplitRight(a, b, matched)
    <3>1. PICK i \in DOMAIN a : a[i].item = b[j].item
      BY <2>2 DEF Items
    <3>2. Given(b[j].item) /\ j \in DOMAIN b
      BY <2>2 DEF Items, Given, Unmatched
    <3>3. PICK q \in matched : a[q[1]].item = b[j].item
      BY <3>1, <3>2, LoopOver
    <3>4. Of(a, ua, b[j].item) = {}
      BY <1>2, <3>2 DEF Of
    <3> QED BY <3>2, <3>3, <3>4 DEF SplitRight, Anchored
  <2> QED BY <2>1, <2>2
<1>5. \A i \in DOMAIN a : i \notin ua => a[i].item \in Items(b)
  <2> SUFFICES ASSUME NEW i \in DOMAIN a, i \notin ua PROVE a[i].item \in Items(b)
    OBVIOUS
  <2>1. PICK q \in matched : q[1] = i
    BY DEF Unmatched, Left
  <2> QED BY <1>1, <2>1 DEF Items, Given
<1>6. \A j \in DOMAIN b : j \notin ub => b[j].item \in Items(a)
  <2> SUFFICES ASSUME NEW j \in DOMAIN b, j \notin ub PROVE b[j].item \in Items(a)
    OBVIOUS
  <2>1. PICK q \in matched : q[2] = j
    BY DEF Unmatched, Right
  <2> QED BY <1>1, <2>1 DEF Items, Given
<1>7. ua \subseteq DOMAIN a /\ ub \subseteq DOMAIN b
  BY DEF Unmatched
<1>8. ua \ SplitLeft(a, b, matched) = {i \in DOMAIN a : a[i].item \notin Items(b)}
  BY <1>3, <1>5, <1>7
<1>9. ub \ SplitRight(a, b, matched) = {j \in DOMAIN b : b[j].item \notin Items(a)}
  BY <1>4, <1>6, <1>7
<1> QED BY <1>8, <1>9 DEF StillUnmatched

(* Whatever the documents, a line is unmatched exactly if the other one    *)
(* has no line of its description.                                         *)
THEOREM UnmatchedIsAbsent == Spec => []UnmatchedMeansAbsent
<1>1. IInv => UnmatchedMeansAbsent
  BY UnmatchedLines DEF UnmatchedMeansAbsent
<1> QED BY <1>1, Invariant, PTL

(* Whatever the documents, the business dimension never passes an item     *)
(* that stands once on each of them in two different quantities.           *)
THEOREM QuantitiesAreCompared == Spec => []BusinessSeesQuantities
<1>1. ASSUME IInv, phase # "aligning", verdict.business = "PASS", NEW p \in Pairs,
             Alone(invoice.lines, p[1]), Alone(order.lines, p[2]),
             Given(invoice.lines[p[1]].quantity), Given(order.lines[p[2]].quantity)
      PROVE  invoice.lines[p[1]].quantity = order.lines[p[2]].quantity
  <2>1. /\ p[1] \in DOMAIN invoice.lines /\ p[2] \in DOMAIN order.lines
        /\ Given(invoice.lines[p[1]].item) /\ invoice.lines[p[1]].item = order.lines[p[2]].item
    BY DEF Pairs, Candidates, Shared
  <2>2. PICK q \in matched :
            /\ q[1] \in DOMAIN invoice.lines /\ q[2] \in DOMAIN order.lines
            /\ invoice.lines[q[1]].item = order.lines[p[2]].item
            /\ order.lines[q[2]].item = invoice.lines[p[1]].item
    BY <1>1, <2>1, LoopOver
  <2>3. q[1] = p[1] /\ q[2] = p[2]
    BY <1>1, <2>1, <2>2 DEF Alone
  <2>4. BusinessStatus(invoice, order, matched) = "PASS"
    BY <1>1 DEF IInv, Derived, ReconcileDocuments
  <2>5. ~QuantitiesDiffer(invoice, order, q)
    BY <2>4 DEF BusinessStatus
  <2> QED BY <1>1, <2>3, <2>5 DEF QuantitiesDiffer
<1>2. IInv => BusinessSeesQuantities
  BY <1>1 DEF BusinessSeesQuantities, Pairs
<1> QED BY <1>2, Invariant, PTL

-----------------------------------------------------------------------------
(* An identity that holds rests on a field the documents agree on.         *)
LEMMA IdentityRests ==
    ASSUME NEW a, NEW b, IdentityStatus(a, b) = "PASS"
    PROVE  \E f \in DOMAIN Weights : /\ Given(a.fields[f]) /\ Given(b.fields[f])
                                     /\ Agrees(a.fields[f], b.fields[f])
<1> DEFINE shared == {f \in DOMAIN Weights : Given(a.fields[f]) /\ Given(b.fields[f])}
           agreeing == {f \in shared : Agrees(a.fields[f], b.fields[f])}
<1>1. \/ Keystone \in agreeing
      \/ shared # {} /\ 100 * WeightOf(agreeing) >= 70 * WeightOf(shared)
  BY DEF IdentityStatus
<1>2. agreeing # {}
  <2> SUFFICES ASSUME agreeing = {} PROVE FALSE
    OBVIOUS
  <2> HIDE DEF agreeing
  <2>1. shared # {} /\ 100 * WeightOf(agreeing) >= 70 * WeightOf(shared)
    BY <1>1
  <2>2. WeightOf(agreeing) = 0
    BY DEF WeightOf, Weight
  <2>3. DOMAIN Weights = {"po_number", "vendor", "currency"}
    BY DEF Weights
  <2>4. shared \subseteq {"po_number", "vendor", "currency"}
    BY <2>3
  <2> HIDE DEF shared
  <2>5. Weights["po_number"] = 60 /\ Weights["vendor"] = 30 /\ Weights["currency"] = 10
    BY DEF Weights
  <2>6. WeightOf(shared) >= 10 /\ WeightOf(shared) \in Int
    <3>1. /\ Weight("po_number", shared) \in {0, 60} /\ Weight("vendor", shared) \in {0, 30}
          /\ Weight("currency", shared) \in {0, 10}
      BY <2>5 DEF Weight
    <3>2. PICK f \in shared : f \in {"po_number", "vendor", "currency"}
      BY <2>1, <2>4
    <3>3. Weight(f, shared) \in {10, 30, 60}
      BY <2>5, <3>2 DEF Weight
    <3> QED BY <3>1, <3>2, <3>3 DEF WeightOf
  <2> QED BY <2>1, <2>2, <2>6
<1> QED BY <1>2

(* Totals that are both given were compared.                               *)
LEMMA TotalsCompared ==
    ASSUME NEW a, NEW b, FinancialStatus(a, b) # "FAIL",
           Given(a.fields.total), Given(b.fields.total)
    PROVE  a.fields.total <= b.fields.total
<1> DEFINE combined == Combined(a, b)
           within == Compare("invoice_within_po", "a.total", "<=", "b.total")
           chosen == CHOOSE rule \in InvoiceWithinOrder : rule.id = "invoice_within_po"
<1>1. /\ FieldOf(combined, "a.total") = a.fields.total
      /\ FieldOf(combined, "b.total") = b.fields.total
  BY DEF Combined, FieldOf
<1>2. within \in InvoiceWithinOrder /\ within.id = "invoice_within_po"
  BY DEF InvoiceWithinOrder, Compare, Rule
<1>3. chosen = within
  BY <1>2 DEF InvoiceWithinOrder, Compare, Rule
<1>4. /\ within.requires = {"a.total", "b.total"} /\ within.type = "compare"
      /\ within.left = "a.total" /\ within.op = "<=" /\ within.right = "b.total"
      /\ within.literal = Absent
  BY DEF Compare, Rule
<1>5. "invoice_within_po" \in {rule.id : rule \in InvoiceWithinOrder}
  BY <1>2
<1>6. Evaluate(combined, InvoiceWithinOrder)["invoice_within_po"] = Status(combined, within)
  BY <1>3, <1>5 DEF Evaluate
<1>7. Status(combined, within) # "FAIL"
  <2>1. WithStatus(Evaluate(combined, InvoiceWithinOrder), "FAIL") = {}
    BY DEF FinancialStatus
  <2> QED BY <1>5, <1>6, <2>1 DEF WithStatus, Evaluate
<1> HIDE DEF combined, within
<1>8. \A ref \in within.requires : Found(combined, ref)
  BY <1>1, <1>4 DEF Found
<1>9. Holds(combined, within)
  BY <1>7, <1>8 DEF Status
<1>10. Compares(FieldOf(combined, "a.total"), "<=", FieldOf(combined, "b.total"))
  BY <1>4, <1>9 DEF Holds, RightOperand, Given
<1> QED BY <1>1, <1>10 DEF Compares

(* Documents that align without a leftover hold the same items.            *)
LEMMA SameItems ==
    ASSUME IInv, phase # "aligning", verdict.structural = "PASS"
    PROVE  Items(invoice.lines) = Items(order.lines) /\ Items(invoice.lines) # {}
<1>1. StructuralStatus(invoice, order, matched) = "PASS"
  BY DEF IInv, Derived, ReconcileDocuments
<1>2. ~NoLines(invoice, order) /\ StillUnmatched(invoice.lines, order.lines, matched) = <<{}, {}>>
  BY <1>1 DEF StructuralStatus
<1>3. /\ \A i \in DOMAIN invoice.lines : invoice.lines[i].item \in Items(order.lines)
      /\ \A j \in DOMAIN order.lines : order.lines[j].item \in Items(invoice.lines)
  BY <1>2, UnmatchedLines
<1>4. Items(invoice.lines) = Items(order.lines)
  BY <1>3 DEF Items
<1>5. (\E i \in DOMAIN invoice.lines : TRUE) \/ (\E j \in DOMAIN order.lines : TRUE)
  BY <1>2 DEF NoLines
<1>6. Items(invoice.lines) # {}
  BY <1>3, <1>4, <1>5
<1> QED BY <1>4, <1>6

(* Whatever the documents and the context, approval is recommended only on *)
(* a shared identity, the same items and every risk assessed, and never    *)
(* against two totals that are both stated.                                *)
THEOREM ApprovalNeedsEvidence == Spec => []ApprovalIsEarned
<1>1. ASSUME IInv, recommendation = "RECOMMEND_APPROVE"
      PROVE  /\ phase = "done"
             /\ ~Blocking(verdict, context)
             /\ RequiredGates(verdict, context) = {"PASS"}
  <2>1. phase = "done" /\ Recommend(verdict, context) = "RECOMMEND_APPROVE"
    BY <1>1 DEF IInv, Derived, None
  <2> QED BY <2>1 DEF Recommend
<1>2. ASSUME IInv, recommendation = "RECOMMEND_APPROVE" PROVE ApprovalIsEarned
  <2>1. /\ verdict.identity = "PASS" /\ verdict.business = "PASS"
        /\ Weakest({verdict.financial, verdict.structural}) = "PASS"
        /\ RiskGate(context) = "PASS"
    BY <1>1, <1>2 DEF RequiredGates
  <2>2. verdict \in [identity : Statuses, financial : Statuses, structural : Statuses,
                     business : Statuses, compliance : Statuses]
    BY <1>2 DEF IInv, TypeOK
  <2>3. verdict.financial = "PASS" /\ verdict.structural = "PASS"
    BY <2>1, <2>2 DEF Weakest, Statuses
  <2>4. verdict = ReconcileDocuments(invoice, order, matched) /\ phase # "aligning"
    BY <1>1, <1>2 DEF IInv, Derived
  <2>5. \E f \in DOMAIN Weights :
            /\ Given(invoice.fields[f]) /\ Given(order.fields[f])
            /\ Agrees(invoice.fields[f], order.fields[f])
    BY <2>1, <2>4, IdentityRests DEF ReconcileDocuments
  <2>6. Given(invoice.fields.total) /\ Given(order.fields.total) =>
            invoice.fields.total <= order.fields.total
    BY <2>3, <2>4, TotalsCompared DEF ReconcileDocuments
  <2>7. Items(invoice.lines) = Items(order.lines) /\ Items(invoice.lines) # {}
    BY <1>2, <2>3, <2>4, SameItems
  <2>8. /\ context.partition \in {Absent, "SINGLE_DOCUMENT"}
        /\ context.competing = {} /\ ~context.duplicate
    BY <1>1, <1>2 DEF Blocking
  <2>9. \A s \in Signals : s \in DOMAIN context.signals /\ ~context.signals[s]
    BY <2>1 DEF RiskGate
  <2>10. Overall(verdict) # "EXCEPTION"
    <3>1. verdict.compliance = "NOT_CHECKED"
      BY <2>4 DEF ReconcileDocuments
    <3>2. \A d \in Dimensions : verdict[d] # "FAIL"
      BY <2>1, <2>3, <3>1 DEF Dimensions
    <3> QED BY <3>2 DEF Overall
  <2> QED BY <2>5, <2>6, <2>7, <2>8, <2>9, <2>10 DEF ApprovalIsEarned
<1>3. IInv => ApprovalIsEarned
  BY <1>2 DEF ApprovalIsEarned
<1> QED BY <1>3, Invariant, PTL

(* Whatever the documents and the contexts, more trouble known or fewer    *)
(* risks assessed never improves what is recommended.                      *)
THEOREM RecommendationIsMonotone == Spec => []TroubleNeverHelps
<1>1. ASSUME NEW v, NEW ctx, NEW c \in Worse(ctx)
      PROVE  Rank[Recommend(v, c)] <= Rank[Recommend(v, ctx)]
  <2>1. /\ ctx.partition \notin {Absent, "SINGLE_DOCUMENT"} => c.partition = ctx.partition
        /\ ctx.competing \subseteq c.competing
        /\ ctx.duplicate => c.duplicate
        /\ \A s \in DOMAIN c.signals :
               s \in DOMAIN ctx.signals /\ (ctx.signals[s] => c.signals[s])
    BY DEF Worse
  <2>2. Blocking(v, ctx) => Blocking(v, c)
    BY <2>1 DEF Blocking
  <2>3. RiskGate(c) = "PASS" => RiskGate(ctx) = "PASS"
    <3> SUFFICES ASSUME RiskGate(c) = "PASS" PROVE RiskGate(ctx) = "PASS"
      OBVIOUS
    <3>1. \A s \in Signals : s \in DOMAIN c.signals /\ ~c.signals[s]
      BY DEF RiskGate
    <3>2. \A s \in Signals : s \in DOMAIN ctx.signals /\ ~ctx.signals[s]
      BY <2>1, <3>1
    <3> QED BY <3>2 DEF RiskGate
  <2>4. RequiredGates(v, c) = {"PASS"} => RequiredGates(v, ctx) = {"PASS"}
    BY <2>3 DEF RequiredGates
  <2>5. Rank["NEVER_APPROVE"] = 0 /\ Rank["MANUAL_REVIEW"] = 1 /\ Rank["RECOMMEND_APPROVE"] = 2
    BY DEF Rank
  <2> QED BY <2>2, <2>4, <2>5 DEF Recommend
<1>2. IInv => TroubleNeverHelps
  BY <1>1 DEF IInv, Derived, TroubleNeverHelps
<1> QED BY <1>2, Invariant, PTL

-----------------------------------------------------------------------------
(* Induction, in a form without operator parameters *)

(* A nonempty set of naturals has a least element. *)
LEMMA LeastNatural ==
  ASSUME NEW T \in SUBSET Nat, T # {}
  PROVE  \E m \in T : \A k \in T : m <= k
<1> DEFINE Below(n) == 0 .. n - 1
           Segments == {Below(n) : n \in T}
<1>1. Segments \subseteq FiniteSubsetsOf(Nat)
  <2> SUFFICES ASSUME NEW n \in T PROVE Below(n) \in FiniteSubsetsOf(Nat)
    OBVIOUS
  <2>1. IsFiniteSet(Below(n))
    BY FS_Interval
  <2> QED BY <2>1 DEF FiniteSubsetsOf
<1>2. PICK s \in Segments : \A r \in Segments : <<r, s>> \notin StrictSubsetOrdering(Nat)
  <2>1. Segments # {}
    OBVIOUS
  <2> HIDE DEF Segments
  <2> QED BY <1>1, <2>1, FS_StrictSubsetOrderingWellFounded, WFMin
<1>3. PICK m \in T : s = Below(m)
  OBVIOUS
<1>4. ASSUME NEW k \in T, k < m PROVE FALSE
  <2>1. Below(k) \subseteq Below(m) /\ Below(k) # Below(m)
    <3>1. k \in Below(m) /\ k \notin Below(k)
      BY <1>4
    <3> QED BY <1>4, <3>1
  <2>2. Below(k) \in SUBSET Nat /\ Below(m) \in SUBSET Nat
    OBVIOUS
  <2>3. <<Below(k), Below(m)>> \notin StrictSubsetOrdering(Nat)
    BY <1>2, <1>3
  <2> HIDE DEF Below
  <2> QED BY <2>1, <2>2, <2>3 DEF StrictSubsetOrdering
<1> QED BY <1>4

(* Induction over an initial segment of the naturals. *)
LEMMA UpTo ==
  ASSUME NEW N \in Nat, NEW Good, 0 \in Good,
         \A n \in 0 .. N - 1 : n \in Good => n + 1 \in Good
  PROVE  0 .. N \subseteq Good
<1> DEFINE Bad == (0 .. N) \ Good
<1> SUFFICES ASSUME Bad # {} PROVE FALSE
  OBVIOUS
<1>1. PICK m \in Bad : \A k \in Bad : m <= k
  <2>1. Bad \in SUBSET Nat
    OBVIOUS
  <2> HIDE DEF Bad
  <2> QED BY <2>1, LeastNatural
<1>2. m # 0 /\ m - 1 \in 0 .. N - 1 /\ m - 1 \notin Bad /\ m \in 0 .. N
  BY <1>1
<1>3. m - 1 \in Good
  BY <1>2
<1>4. (m - 1) + 1 = m
  BY <1>2
<1> QED BY <1>1, <1>2, <1>3, <1>4

-----------------------------------------------------------------------------
(* Sums over finite sets *)

First(s) == CHOOSE x \in s : TRUE

Solves(sum, D, h) ==
  sum = [s \in D |-> IF s = {} THEN 0 ELSE h[First(s)] + sum[s \ {First(s)}]]

SumOver(h, S) == (CHOOSE sum : Solves(sum, SUBSET S, h))[S]

(* The recursion of a sum over a finite set has a solution. *)
LEMMA SumHasSolution ==
  ASSUME NEW S, IsFiniteSet(S), NEW h
  PROVE  \E sum : Solves(sum, SUBSET S, h)
<1> DEFINE Small(n) == {s \in SUBSET S : Cardinality(s) <= n}
           Good == {n \in 0 .. Cardinality(S) : \E sum : Solves(sum, Small(n), h)}
<1>1. \A s \in SUBSET S : IsFiniteSet(s) /\ Cardinality(s) \in Nat
  BY FS_Subset, FS_CardinalityType
<1>2. ASSUME NEW s \in SUBSET S, s # {}
      PROVE  /\ First(s) \in s
             /\ s \ {First(s)} \in SUBSET S
             /\ Cardinality(s \ {First(s)}) = Cardinality(s) - 1
             /\ Cardinality(s) >= 1
  <2>1. First(s) \in s
    BY <1>2 DEF First
  <2>2. Cardinality(s) # 0
    BY <1>1, <1>2, FS_EmptySet
  <2> QED BY <1>1, <2>1, <2>2, FS_RemoveElement
<1>3. 0 \in Good
  <2>1. Solves([s \in Small(0) |-> 0], Small(0), h)
    <3>1. \A s \in Small(0) : s = {}
      BY <1>1, FS_EmptySet
    <3> QED BY <3>1 DEF Solves
  <2>2. 0 \in 0 .. Cardinality(S)
    BY <1>1
  <2> QED BY <2>1, <2>2
<1>4. ASSUME NEW n \in 0 .. Cardinality(S) - 1, n \in Good PROVE n + 1 \in Good
  <2>1. PICK sum : Solves(sum, Small(n), h)
    BY <1>4
  <2> DEFINE More == [s \in Small(n + 1) |-> IF s = {} THEN 0 ELSE h[First(s)] + sum[s \ {First(s)}]]
  <2>2. Solves(More, Small(n + 1), h)
    <3>1. ASSUME NEW s \in Small(n + 1), s # {}
          PROVE  More[s \ {First(s)}] = sum[s \ {First(s)}]
      <4> DEFINE r == s \ {First(s)}
      <4>1. r \in Small(n) /\ r \in Small(n + 1)
        BY <1>1, <1>2, <3>1
      <4>2. sum[r] = IF r = {} THEN 0 ELSE h[First(r)] + sum[r \ {First(r)}]
        BY <2>1, <4>1 DEF Solves
      <4>3. More[r] = IF r = {} THEN 0 ELSE h[First(r)] + sum[r \ {First(r)}]
        BY <4>1
      <4> QED BY <4>2, <4>3
    <3>2. \A s \in Small(n + 1) :
            More[s] = IF s = {} THEN 0 ELSE h[First(s)] + More[s \ {First(s)}]
      BY <3>1
    <3> QED BY <3>2 DEF Solves
  <2>3. \E g : Solves(g, Small(n + 1), h)
    <3> HIDE DEF More, Small
    <3> QED BY <2>2
  <2>4. n + 1 \in 0 .. Cardinality(S)
    BY <1>1
  <2> HIDE DEF More, Small
  <2> QED BY <2>3, <2>4
<1>5. Cardinality(S) \in Good
  <2> HIDE DEF Good
  <2>1. Cardinality(S) \in Nat
    BY <1>1
  <2>2. 0 .. Cardinality(S) \subseteq Good
    BY <1>3, <1>4, <2>1, UpTo
  <2> QED BY <2>1, <2>2
<1>6. Small(Cardinality(S)) = SUBSET S
  BY FS_Subset
<1> QED BY <1>5, <1>6

(* Of a set of subsets of a finite set one has no other below it. *)
LEMMA SmallestSubset ==
  ASSUME NEW S, IsFiniteSet(S), NEW B \in SUBSET (SUBSET S), B # {}
  PROVE  \E s \in B : \A r \in SUBSET S : r \subseteq s /\ r # s => r \notin B
<1>1. PICK s \in B : \A r \in B : <<r, s>> \notin StrictSubsetOrdering(S)
  BY FS_FiniteSubsetsOfFinite, FS_StrictSubsetOrderingWellFounded, WFMin
<1> QED BY <1>1 DEF StrictSubsetOrdering

(* Whichever recursion a sum is, of values that agree, it is the same. *)
LEMMA SumIsUnique ==
  ASSUME NEW S, IsFiniteSet(S), NEW h, NEW k, \A i \in S : h[i] = k[i],
         NEW f, Solves(f, SUBSET S, h), NEW g, Solves(g, SUBSET S, k)
  PROVE  f[S] = g[S]
<1> DEFINE Bad == {s \in SUBSET S : f[s] # g[s]}
<1> SUFFICES ASSUME Bad # {} PROVE FALSE
  OBVIOUS
<1>1. PICK s \in Bad : \A r \in SUBSET S : r \subseteq s /\ r # s => r \notin Bad
  <2>1. Bad \in SUBSET (SUBSET S)
    OBVIOUS
  <2> HIDE DEF Bad
  <2> QED BY <2>1, SmallestSubset
<1>2. s # {}
  BY DEF Solves
<1>3. First(s) \in s
  BY <1>2 DEF First
<1>4. f[s \ {First(s)}] = g[s \ {First(s)}] /\ h[First(s)] = k[First(s)]
  BY <1>1, <1>3
<1>5. /\ f[s] = h[First(s)] + f[s \ {First(s)}]
      /\ g[s] = k[First(s)] + g[s \ {First(s)}]
  BY <1>2 DEF Solves
<1> QED BY <1>4, <1>5

(* A sum over a finite set exists as a function on its subsets.            *)
LEMMA SumIsSolved ==
  ASSUME NEW S, IsFiniteSet(S), NEW h
  PROVE  \E sum : Solves(sum, SUBSET S, h) /\ SumOver(h, S) = sum[S]
<1> DEFINE sum == CHOOSE sum : Solves(sum, SUBSET S, h)
<1>1. Solves(sum, SUBSET S, h)
  BY SumHasSolution
<1>2. SumOver(h, S) = sum[S]
  BY DEF SumOver
<1> HIDE DEF sum
<1> QED BY <1>1, <1>2

(* The order in which values are taken does not matter. *)
TakesAny(f, S, h) ==
    \A s \in SUBSET S : f[s] \in Int /\ \A u \in s : f[s] = h[u] + f[s \ {u}]

(* Such a function may take any element first.                             *)
LEMMA AnyFirst ==
  ASSUME NEW S, IsFiniteSet(S), NEW h, \A i \in S : h[i] \in Int,
         NEW f, Solves(f, SUBSET S, h)
  PROVE  TakesAny(f, S, h)
<1> DEFINE Fine(s) == f[s] \in Int /\ \A u \in s : f[s] = h[u] + f[s \ {u}]
           Bad == {s \in SUBSET S : ~Fine(s)}
<1> SUFFICES ASSUME Bad # {} PROVE FALSE
  BY DEF TakesAny
<1>1. PICK s \in Bad : \A r \in SUBSET S : r \subseteq s /\ r # s => r \notin Bad
  <2>1. Bad \in SUBSET (SUBSET S)
    OBVIOUS
  <2> HIDE DEF Bad
  <2> QED BY <2>1, SmallestSubset
<1>2. f[{}] = 0
  BY DEF Solves
<1>3. s # {}
  <2>1. Fine({})
    BY <1>2
  <2> HIDE DEF Fine
  <2> QED BY <2>1
<1> DEFINE w == First(s)
<1>4. w \in s
  BY <1>3 DEF First
<1>5. f[s] = h[w] + f[s \ {w}]
  BY <1>3 DEF Solves
<1> HIDE DEF w
<1>6. \A u \in s : Fine(s \ {u})
  <2> TAKE u \in s
  <2>1. s \ {u} \in SUBSET S /\ s \ {u} \subseteq s /\ s \ {u} # s
    OBVIOUS
  <2> HIDE DEF Fine
  <2> QED BY <1>1, <2>1
<1>7. f[s] \in Int
  BY <1>4, <1>5, <1>6
<1>8. ASSUME NEW u \in s, u # w PROVE f[s] = h[u] + f[s \ {u}]
  <2> DEFINE rest == (s \ {u}) \ {w}
  <2>1. rest = (s \ {w}) \ {u} /\ w \in s \ {u} /\ u \in s \ {w}
    BY <1>4, <1>8
  <2>2. f[s \ {u}] = h[w] + f[rest] /\ f[s \ {w}] = h[u] + f[rest]
    BY <1>4, <1>6, <2>1
  <2>3. f[s \ {u}] \in Int /\ f[s \ {w}] \in Int /\ h[w] \in Int /\ h[u] \in Int
    BY <1>4, <1>6
  <2>4. f[rest] \in Int
    <3>1. rest \in SUBSET S /\ rest \subseteq s /\ rest # s
      BY <1>8
    <3>2. Fine(rest)
      <4> HIDE DEF Fine, rest
      <4> QED BY <1>1, <3>1
    <3> QED BY <3>2
  <2> HIDE DEF rest
  <2> QED BY <1>5, <2>2, <2>3, <2>4
<1>9. Fine(s)
  BY <1>5, <1>7, <1>8
<1> QED BY <1>9

(* The sum of nothing is zero.                                             *)
LEMMA SumOfNone == \A h : SumOver(h, {}) = 0
<1> TAKE h
<1>1. IsFiniteSet({})
  BY FS_EmptySet
<1>2. PICK sum : Solves(sum, SUBSET {}, h) /\ SumOver(h, {}) = sum[{}]
  BY <1>1, SumIsSolved
<1> QED BY <1>2 DEF Solves

(* A sum of integers is an integer.                                        *)
LEMMA SumType ==
  ASSUME NEW S, IsFiniteSet(S), NEW h, \A i \in S : h[i] \in Int
  PROVE  SumOver(h, S) \in Int
<1>1. PICK sum : Solves(sum, SUBSET S, h) /\ SumOver(h, S) = sum[S]
  BY SumIsSolved
<1>2. TakesAny(sum, S, h)
  BY <1>1, AnyFirst
<1> QED BY <1>1, <1>2 DEF TakesAny

(* One value more adds itself. *)
LEMMA SumOfMore ==
  ASSUME NEW S, IsFiniteSet(S), NEW x, x \notin S, NEW h, \A i \in S \cup {x} : h[i] \in Int
  PROVE  SumOver(h, S \cup {x}) = SumOver(h, S) + h[x]
<1> DEFINE T == S \cup {x}
<1>1. IsFiniteSet(T)
  BY FS_AddElement
<1>2. PICK f : Solves(f, SUBSET T, h) /\ SumOver(h, T) = f[T]
  BY <1>1, SumIsSolved
<1>3. PICK g : Solves(g, SUBSET S, h) /\ SumOver(h, S) = g[S]
  BY SumIsSolved
<1>4. T \ {x} = S /\ x \in T /\ S \in SUBSET T
  OBVIOUS
<1>5. f[T] = h[x] + f[S] /\ f[S] \in Int
  <2> HIDE DEF T
  <2>1. TakesAny(f, T, h)
    <3>1. \A i \in T : h[i] \in Int
      BY DEF T
    <3> QED BY <1>1, <1>2, <3>1, AnyFirst
  <2> QED BY <1>4, <2>1 DEF TakesAny
<1>6. f[S] = g[S]
  <2> DEFINE k == [s \in SUBSET S |-> f[s]]
  <2>1. Solves(k, SUBSET S, h)
    <3>1. ASSUME NEW s \in SUBSET S
          PROVE  k[s] = IF s = {} THEN 0 ELSE h[First(s)] + k[s \ {First(s)}]
      <4>1. s \in SUBSET T /\ k[s] = f[s] /\ k[s \ {First(s)}] = f[s \ {First(s)}]
        OBVIOUS
      <4>2. f[s] = IF s = {} THEN 0 ELSE h[First(s)] + f[s \ {First(s)}]
        BY <1>2, <4>1 DEF Solves
      <4> HIDE DEF k
      <4> QED BY <4>1, <4>2
    <3>2. k = [s \in SUBSET S |-> k[s]]
      OBVIOUS
    <3> HIDE DEF k
    <3> QED BY <3>1, <3>2 DEF Solves
  <2>2. k[S] = f[S]
    OBVIOUS
  <2> HIDE DEF k
  <2>3. k[S] = g[S]
    BY <1>3, <2>1, SumIsUnique
  <2> QED BY <2>2, <2>3
<1>7. h[x] \in Int
  OBVIOUS
<1> QED BY <1>2, <1>3, <1>5, <1>6, <1>7

(* Equal terms have equal sums.                                            *)
LEMMA SumsAgree ==
  ASSUME NEW S, IsFiniteSet(S), NEW h, NEW k, \A i \in S : h[i] = k[i]
  PROVE  SumOver(h, S) = SumOver(k, S)
<1>1. PICK f : Solves(f, SUBSET S, h) /\ SumOver(h, S) = f[S]
  BY SumIsSolved
<1>2. PICK g : Solves(g, SUBSET S, k) /\ SumOver(k, S) = g[S]
  BY SumIsSolved
<1> QED BY <1>1, <1>2, SumIsUnique

-----------------------------------------------------------------------------
(* The reader *)

IsReader(r) == r = [nodes |-> r.nodes, pending |-> r.pending, hint |-> r.hint]

ReadsUpTo(f, text, N) ==
    f = [n \in 0 .. N |-> IF n = 0 THEN Blank ELSE Read(f[n - 1], text[n])]

(* The readings of a text are what their definition says. *)
LEMMA ReadingsExist ==
  ASSUME NEW text, Len(text) \in Nat
  PROVE  ReadsUpTo(Readings(text), text, Len(text))
<1> DEFINE Good == {N \in 0 .. Len(text) : \E f : ReadsUpTo(f, text, N)}
<1>1. 0 \in Good
  <2> DEFINE g == [n \in 0 .. 0 |-> Blank]
  <2>1. g = [n \in 0 .. 0 |-> IF n = 0 THEN Blank ELSE Read(g[n - 1], text[n])]
    OBVIOUS
  <2>2. ReadsUpTo(g, text, 0)
    BY <2>1 DEF ReadsUpTo
  <2> QED BY <2>2
<1>2. ASSUME NEW N \in 0 .. Len(text) - 1, N \in Good PROVE N + 1 \in Good
  <2>1. PICK f : ReadsUpTo(f, text, N)
    BY <1>2
  <2>2. \A n \in 0 .. N : f[n] = IF n = 0 THEN Blank ELSE Read(f[n - 1], text[n])
    BY <2>1 DEF ReadsUpTo
  <2> DEFINE g == [n \in 0 .. N + 1 |-> IF n <= N THEN f[n] ELSE Read(f[N], text[N + 1])]
  <2>3. ASSUME NEW n \in 0 .. N + 1
        PROVE  g[n] = IF n = 0 THEN Blank ELSE Read(g[n - 1], text[n])
    <3>1. CASE n <= N
      <4>1. g[n] = f[n] /\ (n # 0 => g[n - 1] = f[n - 1])
        BY <3>1
      <4> HIDE DEF g
      <4> QED BY <2>2, <3>1, <4>1
    <3>2. CASE n = N + 1
      <4>1. n # 0 /\ n - 1 = N /\ g[n] = Read(f[N], text[n]) /\ g[N] = f[N]
        BY <3>2
      <4> HIDE DEF g
      <4> QED BY <4>1
    <3> QED BY <3>1, <3>2
  <2>4. ReadsUpTo(g, text, N + 1)
    <3>1. g = [n \in 0 .. N + 1 |-> g[n]]
      OBVIOUS
    <3> HIDE DEF g
    <3> QED BY <2>3, <3>1 DEF ReadsUpTo
  <2>5. N + 1 \in 0 .. Len(text)
    OBVIOUS
  <2> HIDE DEF g
  <2> QED BY <2>4, <2>5
<1>3. Len(text) \in Good
  <2> HIDE DEF Good
  <2>1. 0 .. Len(text) \subseteq Good
    BY <1>1, <1>2, UpTo
  <2> QED BY <2>1
<1>4. \E f : ReadsUpTo(f, text, Len(text))
  BY <1>3
<1>5. Readings(text) = CHOOSE f : ReadsUpTo(f, text, Len(text))
  BY DEF Readings, ReadsUpTo
<1> QED BY <1>4, <1>5

(* The reader after n lines is the reader after n - 1 that reads line n.   *)
LEMMA ReadingStep ==
  ASSUME NEW text, Len(text) \in Nat
  PROVE  /\ Readings(text)[0] = Blank
         /\ \A n \in 1 .. Len(text) : Readings(text)[n] = Read(Readings(text)[n - 1], text[n])
<1> DEFINE f == Readings(text)
<1>1. f = [n \in 0 .. Len(text) |-> IF n = 0 THEN Blank ELSE Read(f[n - 1], text[n])]
  BY ReadingsExist DEF ReadsUpTo
<1> HIDE DEF f
<1>2. f[0] = Blank /\ \A n \in 1 .. Len(text) : f[n] = Read(f[n - 1], text[n])
  BY <1>1
<1> QED BY <1>2 DEF f

-----------------------------------------------------------------------------
(* What the reader holds *)

IsLine(line) == line.type = "money" => line.value \in Int

(* nodes whose values are numbers *)
AreNodes(nodes) ==
    /\ nodes \in Seq({nodes[i] : i \in DOMAIN nodes})
    /\ \A i \in DOMAIN nodes : nodes[i].value \in Int

ReaderOK(r) == IsReader(r) /\ AreNodes(r.nodes)

(* A node with a figure added to nodes gives nodes.                        *)
LEMMA AppendNode ==
  ASSUME NEW nodes, AreNodes(nodes), NEW x, x.value \in Int
  PROVE  AreNodes(Append(nodes, x))
<1> DEFINE S == {nodes[i] : i \in DOMAIN nodes} \cup {x}
           more == Append(nodes, x)
<1>1. nodes \in Seq(S) /\ x \in S
  <2>1. nodes \in Seq({nodes[i] : i \in DOMAIN nodes})
    BY DEF AreNodes
  <2> QED BY <2>1, SeqMonotonic
<1>2. \A s \in S : s.value \in Int
  BY DEF AreNodes
<1> HIDE DEF S
<1>3. more \in Seq(S)
  BY <1>1
<1> HIDE DEF more
<1>4. more \in [1 .. Len(more) -> S] /\ DOMAIN more = 1 .. Len(more) /\ Len(more) \in Nat
  BY <1>3, LenProperties
<1>5. more \in Seq({more[i] : i \in DOMAIN more})
  <2>1. \A i \in 1 .. Len(more) : more[i] \in {more[j] : j \in DOMAIN more}
    BY <1>4
  <2> QED BY <1>4, <2>1, SMT
<1> QED BY <1>2, <1>4, <1>5 DEF AreNodes, more

(* Reading a line keeps the reader well formed.                            *)
LEMMA ReadOK ==
  ASSUME NEW r, ReaderOK(r), NEW line, IsLine(line)
  PROVE  ReaderOK(Read(r, line))
<1>1. CASE IsMoney(line)
  <2>1. Read(r, line) = ReadFigure(r, line)
    BY <1>1 DEF Read
  <2>2. NodeOf(r, line).value = line.value /\ line.value \in Int
    BY <1>1 DEF NodeOf, IsMoney, IsLine
  <2>3. AreNodes(Append(r.nodes, NodeOf(r, line)))
    BY <2>2, AppendNode DEF ReaderOK
  <2> QED BY <2>1, <2>3 DEF ReadFigure, ReaderOK, IsReader
<1>2. CASE ~IsMoney(line)
  <2>1. Read(r, line) = ReadText(r, line)
    BY <1>2 DEF Read
  <2>2. DOMAIN r = {"nodes", "pending", "hint"}
    BY DEF ReaderOK, IsReader
  <2>3. IsReader(ReadText(r, line)) /\ ReadText(r, line).nodes = r.nodes
    BY <2>2 DEF ReadText, ReaderOK, IsReader
  <2> QED BY <2>1, <2>3 DEF ReaderOK
<1> QED BY <1>1, <1>2

(* The reader is well formed after any number of lines.                    *)
LEMMA ReadingsOK ==
  ASSUME NEW text, Len(text) \in Nat, \A i \in 1 .. Len(text) : IsLine(text[i])
  PROVE  \A n \in 0 .. Len(text) : ReaderOK(Readings(text)[n])
<1> DEFINE Good == {n \in 0 .. Len(text) : ReaderOK(Readings(text)[n])}
<1>1. 0 \in Good
  <2>1. AreNodes(<<>>)
    BY DEF AreNodes
  <2> QED BY <2>1, ReadingStep DEF ReaderOK, IsReader, Blank
<1>2. ASSUME NEW n \in 0 .. Len(text) - 1, n \in Good PROVE n + 1 \in Good
  <2>1. n + 1 \in 1 .. Len(text) /\ (n + 1) - 1 = n
    OBVIOUS
  <2>2. Readings(text)[n + 1] = Read(Readings(text)[n], text[n + 1])
    BY <2>1, ReadingStep
  <2> QED BY <1>2, <2>1, <2>2, ReadOK
<1>3. 0 .. Len(text) \subseteq Good
  <2> HIDE DEF Good
  <2> QED BY <1>1, <1>2, UpTo
<1> QED BY <1>3

(* What the lines come to are nodes.                                       *)
LEMMA NodesOK ==
  ASSUME NEW text, Len(text) \in Nat, \A i \in 1 .. Len(text) : IsLine(text[i])
  PROVE  AreNodes(ParseMoneyNodes(text))
BY ReadingsOK DEF ParseMoneyNodes, ReaderOK

-----------------------------------------------------------------------------
(* Nodes by their role *)

(* A finite set of positions has a last one. *)
LEMMA LastPosition ==
  ASSUME NEW N \in Nat, NEW S \in SUBSET (1 .. N), S # {}
  PROVE  Max(S) \in S /\ \A i \in S : i <= Max(S)
<1> DEFINE T == {N - i : i \in S}
<1>1. T \in SUBSET Nat /\ T # {}
  <2>1. \A i \in S : N - i \in Nat
    OBVIOUS
  <2> QED BY <2>1
<1>2. PICK m \in T : \A k \in T : m <= k
  <2> HIDE DEF T
  <2> QED BY <1>1, LeastNatural
<1>3. PICK i \in S : m = N - i
  BY <1>2
<1>4. \A j \in S : i >= j
  <2> TAKE j \in S
  <2>1. N - j \in T
    OBVIOUS
  <2>2. N - i <= N - j /\ i \in Int /\ j \in Int
    BY <1>2, <1>3, <2>1
  <2> QED BY <2>2
<1>5. Max(S) \in S /\ \A j \in S : Max(S) >= j
  BY <1>3, <1>4 DEF Max
<1> QED BY <1>5

(* The sum of the nodes of a role is an integer.                           *)
LEMMA ByRoleType ==
  ASSUME NEW nodes, AreNodes(nodes), NEW role
  PROVE  ByRole(nodes, role) \in Int
<1>1. CASE Stated(nodes, role)
  <2>1. DOMAIN nodes = 1 .. Len(nodes) /\ Len(nodes) \in Nat
    BY LenProperties DEF AreNodes
  <2>2. At(nodes, role) \in SUBSET (1 .. Len(nodes)) /\ At(nodes, role) # {}
    BY <1>1, <2>1 DEF At, Stated
  <2>3. Max(At(nodes, role)) \in At(nodes, role)
    BY <2>1, <2>2, LastPosition
  <2> QED BY <1>1, <2>3 DEF ByRole, At, AreNodes
<1>2. CASE ~Stated(nodes, role)
  BY <1>2 DEF ByRole
<1> QED BY <1>1, <1>2

(* The discounted amount is an integer, and the subtotal when nothing is   *)
(* deducted or added.                                                      *)
LEMMA AmountsOfNodes ==
  ASSUME NEW nodes, AreNodes(nodes)
  PROVE  /\ Discounted(nodes) \in Int
         /\ ~Stated(nodes, "discount") /\ ~Stated(nodes, "shipping") =>
                Discounted(nodes) = ByRole(nodes, "subtotal")
<1>1. /\ ByRole(nodes, "subtotal") \in Int /\ ByRole(nodes, "discount") \in Int
      /\ ByRole(nodes, "shipping") \in Int
  BY ByRoleType
<1>2. Magnitude(nodes, "discount") \in Int /\ Magnitude(nodes, "shipping") \in Int
  BY <1>1 DEF Magnitude
<1>3. ~Stated(nodes, "discount") => Magnitude(nodes, "discount") = 0
  BY DEF Magnitude, ByRole
<1>4. ~Stated(nodes, "shipping") => Magnitude(nodes, "shipping") = 0
  BY DEF Magnitude, ByRole
<1> QED BY <1>1, <1>2, <1>3, <1>4 DEF Discounted

-----------------------------------------------------------------------------
(* The tree's verdicts *)

(* Only the roll-up to a stated total is a region of that name. *)
LEMMA RollUp ==
  ASSUME NEW nodes, NEW r \in Regions(nodes), r.region = <<"to_total">>
  PROVE  r \in TotalChain(nodes)
<1>1. r.region[1] = "to_total"
  OBVIOUS
<1>2. \A x \in Sections(nodes) : x.region[1] = "section"
  BY DEF Sections, Check
<1>3. \A x \in GrandSubtotal(nodes) : x.region[1] = "grand_subtotal"
  BY DEF GrandSubtotal
<1>4. \A x \in Taxable(nodes) : x.region[1] = "taxable"
  BY DEF Taxable, Check
<1>5. \A x \in LoneSubtotal(nodes) : x.region[1] = "to_subtotal"
  BY DEF LoneSubtotal, Check
<1> QED BY <1>1, <1>2, <1>3, <1>4, <1>5 DEF Regions

(* The tree recovers nothing only from documents without a subtotal. *)
LEMMA UnverifiableTree ==
  ASSUME NEW nodes, AreNodes(nodes), Absent \notin Int, TreeVerdict(nodes) = "UNVERIFIABLE"
  PROVE  ~Stated(nodes, "subtotal")
<1> SUFFICES ASSUME Stated(nodes, "subtotal") PROVE FALSE
  OBVIOUS
<1>1. DerivedTotal(nodes) = Absent /\ Regions(nodes) = {}
  BY DEF TreeVerdict
<1>2. Discounted(nodes) + ByRole(nodes, "tax") \in Int
  BY AmountsOfNodes, ByRoleType
<1>3. Stated(nodes, "total")
  BY <1>1, <1>2 DEF DerivedTotal
<1>4. TotalChain(nodes) # {}
  BY <1>3 DEF TotalChain, HasBase
<1> QED BY <1>1, <1>4 DEF Regions

(* A tree that confirms, with a subtotal, states its total, and the total  *)
(* is the base or the base with the tax.                                   *)
LEMMA ConfirmedTree ==
  ASSUME NEW nodes, AreNodes(nodes), Absent \notin Int, TreeVerdict(nodes) = "CONFIRM",
         Stated(nodes, "subtotal")
  PROVE  /\ TreeTotal(nodes) = ByRole(nodes, "total")
         /\ ByRole(nodes, "total") \in {Base(nodes), Base(nodes) + ByRole(nodes, "tax")}
<1>1. Stated(nodes, "total")
  <2> SUFFICES ASSUME ~Stated(nodes, "total") PROVE FALSE
    OBVIOUS
  <2>1. Discounted(nodes) + ByRole(nodes, "tax") \in Int
    BY AmountsOfNodes, ByRoleType
  <2>2. DerivedTotal(nodes) # Absent
    BY <2>1 DEF DerivedTotal
  <2>3. PICK r \in Regions(nodes) : r.region = <<"to_total">>
    BY <2>2 DEF TreeVerdict
  <2>4. r \in TotalChain(nodes)
    BY <2>3, RollUp
  <2> QED BY <2>4 DEF TotalChain
<1>2. \A r \in Regions(nodes) : r.ok
  BY <1>1 DEF TreeVerdict, DerivedTotal
<1>3. HasBase(nodes)
  BY DEF HasBase
<1> DEFINE total == ByRole(nodes, "total")
           want == IF total = Base(nodes) THEN Base(nodes) ELSE Base(nodes) + ByRole(nodes, "tax")
<1>4. TotalChain(nodes) = {[region |-> <<"to_total">>, ok |-> total = want]}
  BY <1>1, <1>3 DEF TotalChain, Check
<1>5. total = want
  <2> DEFINE ok == total = want
             r == [region |-> <<"to_total">>, ok |-> ok]
  <2>1. r \in Regions(nodes)
    BY <1>4 DEF Regions
  <2>2. r.ok = ok
    OBVIOUS
  <2>3. r.ok
    BY <1>2, <2>1, Zenon
  <2> QED BY <2>2, <2>3
<1> QED BY <1>1, <1>5 DEF TreeTotal
-----------------------------------------------------------------------------
(* The fields of a view *)

(* The lines documents are made of. *)
AllLines == UNION {{block[i] : i \in DOMAIN block} : block \in Blocks}

(* The lines of the blocks are lines with figures.                         *)
LEMMA LinesAreLines == \A line \in AllLines : IsLine(line)
BY BlockAssumption DEF AllLines, IsRun, IsLine

(* A document of blocks is a sequence of lines.                            *)
LEMMA TextOfLines ==
  ASSUME NEW text \in Seq(AllLines)
  PROVE  /\ Len(text) \in Nat /\ DOMAIN text = 1 .. Len(text)
         /\ \A i \in 1 .. Len(text) : text[i] \in AllLines /\ IsLine(text[i])
<1>1. /\ Len(text) \in Nat /\ DOMAIN text = 1 .. Len(text)
      /\ text \in [1 .. Len(text) -> AllLines]
  BY LenProperties
<1> QED BY <1>1, LinesAreLines

(* A field of money, where it is resolved, is a number. *)
LEMMA MoneyField ==
  ASSUME NEW text \in Seq(AllLines), NEW f \in {"subtotal", "tax", "total"},
         f \in DOMAIN ResolvedFields(text)
  PROVE  ResolvedFields(text)[f] \in Int
<1> DEFINE values == ValuesOf(text, f)
           raw == CHOOSE x \in values : TRUE
<1>1. ResolvedFields(text)[f] = raw.value /\ Cardinality(values) = 1
  BY DEF ResolvedFields
<1>2. raw \in values
  <2> HIDE DEF values
  <2>1. values # {}
    <3>1. Cardinality({}) = 0
      BY FS_EmptySet
    <3>2. Cardinality(values) = 1
      BY <1>1
    <3>3. Cardinality(values) # Cardinality({})
      BY <3>1, <3>2
    <3> QED BY <3>3
  <2> QED BY <2>1
<1>3. Schema[f].type = "money" /\ ~Schema[f].heading
  BY DEF Schema, FieldSpec
<1>4. raw \in FromKeyValues(text, Schema[f].aliases) /\ TypeOk(raw, "money")
  <2> HIDE DEF raw
  <2> QED BY <1>2, <1>3 DEF ValuesOf
<1>5. PICK i \in Labelled(text) : raw = Raw(ValueLine(text, i))
  <2> HIDE DEF raw
  <2> QED BY <1>4 DEF FromKeyValues, ValuesUnder
<1>6. ValueLine(text, i) \in AllLines
  BY TextOfLines DEF ValueLine, NamesNext, Labelled
<1>7. ValueLine(text, i).type = "money" /\ raw.value = ValueLine(text, i).value
  <2> HIDE DEF raw
  <2> QED BY <1>4, <1>5 DEF TypeOk, Raw
<1> QED BY <1>1, <1>6, <1>7, LinesAreLines DEF IsLine

(* The nodes of a document are nodes.                                      *)
LEMMA NodesOfText ==
  ASSUME NEW text \in Seq(AllLines)
  PROVE  AreNodes(ParseMoneyNodes(text))
BY TextOfLines, NodesOK

(* What a confirmed view says of the total, where the tree reads a subtotal *)
(* and knows the two figures by their labels.                               *)
LEMMA ConfirmedView ==
  ASSUME NEW text \in Seq(AllLines),
         NEW resolved, resolved = ResolveDocumentView(text), resolved.verdict = "CONFIRM",
         NEW nodes, nodes = ParseMoneyNodes(text), Stated(nodes, "subtotal")
  PROVE  /\ "total" \in DOMAIN resolved.fields
         /\ resolved.fields["total"] = ByRole(nodes, "total")
         /\ ByRole(nodes, "total") \in {Base(nodes), Base(nodes) + ByRole(nodes, "tax")}
<1> DEFINE stated == ResolvedFields(text)
           claimed == IF "total" \in DOMAIN stated THEN stated["total"] ELSE Absent
           check == Verification(text, claimed)
           filled == claimed = Absent /\ check.identified # Absent
<1>1. AreNodes(nodes) /\ Absent \notin Int
  BY NodesOfText, BlockAssumption
<1>2. /\ resolved.verdict = check.verdict
      /\ resolved.fields = IF filled THEN WithTotal(stated, check.identified) ELSE stated
  BY DEF ResolveDocumentView
<1>3. check = VerifyTotalTree(nodes, claimed)
  BY <1>1, UnverifiableTree DEF Verification
<1>4. TreeVerdict(nodes) \in {"CONFIRM", "DERIVED", "UNVERIFIABLE", "CONFLICT"}
  BY DEF TreeVerdict
<1>5. /\ check.identified = TreeTotal(nodes)
      /\ check.verdict = "CONFIRM" =>
             /\ VerdictMap[TreeVerdict(nodes)] = "CONFIRM"
             /\ claimed = Absent \/ TreeTotal(nodes) = Absent \/ claimed = TreeTotal(nodes)
  <2> HIDE DEF claimed
  <2> QED BY <1>3 DEF VerifyTotalTree
<1>6. TreeVerdict(nodes) = "CONFIRM"
  BY <1>2, <1>4, <1>5 DEF VerdictMap
<1>7. /\ TreeTotal(nodes) = ByRole(nodes, "total")
      /\ ByRole(nodes, "total") \in {Base(nodes), Base(nodes) + ByRole(nodes, "tax")}
  BY <1>1, <1>6, ConfirmedTree
<1>8. ByRole(nodes, "total") \in Int
  BY <1>1, ByRoleType
<1>9. /\ claimed = Absent \/ claimed = ByRole(nodes, "total")
      /\ ByRole(nodes, "total") # Absent
      /\ check.identified = ByRole(nodes, "total")
  BY <1>1, <1>2, <1>5, <1>7, <1>8
<1>10. CASE claimed = Absent
  <2>1. resolved.fields = WithTotal(stated, ByRole(nodes, "total"))
    BY <1>2, <1>9, <1>10
  <2> HIDE DEF stated
  <2> QED BY <1>7, <2>1 DEF WithTotal
<1>11. CASE claimed # Absent
  <2>1. "total" \in DOMAIN stated /\ stated["total"] = ByRole(nodes, "total")
    <3> HIDE DEF stated, check
    <3> QED BY <1>9, <1>11
  <2>2. resolved.fields = stated
    BY <1>2, <1>11
  <2> QED BY <1>7, <2>1, <2>2
<1> QED BY <1>10, <1>11

-----------------------------------------------------------------------------
(* The rule about the total *)

(* A sum over two of a view's fields is what it looks like. *)
LEMMA SumOfTwo ==
  ASSUME NEW v, FieldOf(v, "subtotal") \in Int, FieldOf(v, "tax") \in Int, Absent \notin Int
  PROVE  Amounts(v, TotalsBalance) = FieldOf(v, "subtotal") + FieldOf(v, "tax")
<1> DEFINE S == {"subtotal", "tax"}
           op(ref) == IF Given(FieldOf(v, ref)) THEN FieldOf(v, ref) ELSE ColumnSum(ColumnOf(v, ref))
           pick(s) == CHOOSE x \in s : TRUE
           Folds(f) == f = [s \in SUBSET S |-> IF s = {} THEN 0 ELSE op(pick(s)) + f[s \ {pick(s)}]]
           iter == CHOOSE f : Folds(f)
<1>1. TotalsBalance.inputs = S
  BY DEF TotalsBalance, SumEquals, Rule
<1>2. Amounts(v, TotalsBalance) = iter[S]
  BY <1>1 DEF Amounts, MapThenSumSet, MapThenFoldSet
<1>3. op("subtotal") = FieldOf(v, "subtotal") /\ op("tax") = FieldOf(v, "tax")
  BY DEF Given
<1> HIDE DEF op
<1>4. \E f : Folds(f)
  <2> DEFINE g == [s \in SUBSET S |->
                      (IF "subtotal" \in s THEN op("subtotal") ELSE 0)
                        + (IF "tax" \in s THEN op("tax") ELSE 0)]
  <2>1. ASSUME NEW s \in SUBSET S, s # {}
        PROVE  g[s] = op(pick(s)) + g[s \ {pick(s)}]
    <3>1. pick(s) \in s /\ s \ {pick(s)} \in SUBSET S
      BY <2>1
    <3> HIDE DEF pick
    <3>2. CASE pick(s) = "subtotal"
      BY <1>3, <3>1, <3>2
    <3>3. CASE pick(s) = "tax"
      BY <1>3, <3>1, <3>3
    <3> QED BY <3>1, <3>2, <3>3
  <2>2. g[{}] = 0
    OBVIOUS
  <2>3. Folds(g)
    <3>1. g = [s \in SUBSET S |-> g[s]]
      OBVIOUS
    <3> HIDE DEF g, pick, S
    <3> QED BY <2>1, <2>2, <3>1
  <2> HIDE DEF g, Folds
  <2> QED BY <2>3
<1>5. Folds(iter)
  <2> HIDE DEF Folds
  <2> QED BY <1>4
<1> HIDE DEF iter
<1>6. \A s \in SUBSET S : iter[s] = IF s = {} THEN 0 ELSE op(pick(s)) + iter[s \ {pick(s)}]
  BY <1>5
<1>7. \A x \in S : pick({x}) = x
  OBVIOUS
<1>8. \A x \in S : iter[{x}] = op(x) + iter[{}]
  <2> TAKE x \in S
  <2>1. iter[{x}] = op(pick({x})) + iter[{x} \ {pick({x})}]
    <3> HIDE DEF pick
    <3> QED BY <1>6
  <2>2. {x} \ {x} = {}
    OBVIOUS
  <2> HIDE DEF pick
  <2> QED BY <1>7, <2>1, <2>2
<1>9. iter[{}] = 0
  BY <1>6
<1>10. pick(S) \in S /\ iter[S] = op(pick(S)) + iter[S \ {pick(S)}]
  <2>1. pick(S) \in S
    OBVIOUS
  <2> HIDE DEF pick
  <2> QED BY <1>6, <2>1
<1> HIDE DEF pick
<1>11. CASE pick(S) = "subtotal"
  <2>1. S \ {pick(S)} = {"tax"}
    BY <1>11
  <2>2. iter[S] = op("subtotal") + iter[{"tax"}] /\ iter[{"tax"}] = op("tax") + iter[{}]
    BY <1>8, <1>10, <1>11, <2>1
  <2> QED BY <1>2, <1>3, <1>9, <2>2
<1>12. CASE pick(S) = "tax"
  <2>1. S \ {pick(S)} = {"subtotal"}
    BY <1>12
  <2>2. iter[S] = op("tax") + iter[{"subtotal"}] /\ iter[{"subtotal"}] = op("subtotal") + iter[{}]
    BY <1>8, <1>10, <1>12, <2>1
  <2> QED BY <1>2, <1>3, <1>9, <2>2
<1> QED BY <1>10, <1>11, <1>12

(* A superseded rule: the view's figures are there and do not add up. *)
LEMMA Superseded ==
  ASSUME NEW text \in Seq(AllLines),
         NEW resolved, resolved = ResolveDocumentView(text),
         NEW id, id \in WithStatus(ApplyVerifierPrecedence(Evaluate(resolved, InvoiceRules),
                                                            resolved.verdict), "SUPERSEDED")
  PROVE  /\ resolved.verdict = "CONFIRM"
         /\ {"subtotal", "tax", "total"} \subseteq DOMAIN resolved.fields
         /\ resolved.fields["subtotal"] \in Int /\ resolved.fields["tax"] \in Int
         /\ resolved.fields["subtotal"] + resolved.fields["tax"] # resolved.fields["total"]
<1> DEFINE results == Evaluate(resolved, InvoiceRules)
           applied == ApplyVerifierPrecedence(results, resolved.verdict)
           chosen == CHOOSE rule \in InvoiceRules : rule.id = "totals_balance"
<1>1. /\ id \in DOMAIN results /\ resolved.verdict = "CONFIRM"
      /\ id = "totals_balance" /\ results[id] = "FAIL"
  <2>1. \A x \in DOMAIN results : results[x] # "SUPERSEDED"
    BY DEF Evaluate, Status
  <2>2. id \in DOMAIN results /\ applied[id] = "SUPERSEDED"
    BY DEF WithStatus, ApplyVerifierPrecedence
  <2> HIDE DEF results
  <2> QED BY <2>1, <2>2 DEF ApplyVerifierPrecedence, VerifierSupersedes
<1>2. TotalsBalance \in InvoiceRules /\ TotalsBalance.id = "totals_balance"
  BY DEF InvoiceRules, TotalsBalance, SumEquals, Rule
<1>3. chosen = TotalsBalance
  <2>1. /\ \A i, f : Exists(i, f).id = i /\ Formatted(i, f).id = i
        /\ \A i, f, o, g : Compare(i, f, o, g).id = i /\ CompareTo(i, f, o, g).id = i
        /\ ItemsAddUp.id = "line_items_sum_to_subtotal"
    BY DEF Exists, Formatted, Compare, CompareTo, ItemsAddUp, SumEquals, Rule
  <2>2. \A rule \in InvoiceRules : rule.id = "totals_balance" => rule = TotalsBalance
    BY <2>1 DEF InvoiceRules
  <2> QED BY <1>2, <2>2
<1>4. Status(resolved, TotalsBalance) = "FAIL"
  BY <1>1, <1>3 DEF Evaluate
<1>5. /\ TotalsBalance.type = "compute" /\ TotalsBalance.right = "total"
      /\ TotalsBalance.requires = {"subtotal", "tax", "total"}
      /\ TotalsBalance.inputs = {"subtotal", "tax"}
  BY DEF TotalsBalance, SumEquals, Rule
<1>6. /\ \A ref \in {"subtotal", "tax", "total"} : Found(resolved, ref)
      /\ ~Holds(resolved, TotalsBalance)
  <2> HIDE DEF TotalsBalance
  <2> QED BY <1>4, <1>5 DEF Status, Primitives
<1>7. \A ref \in {"subtotal", "tax", "total"} : ColumnOf(resolved, ref) = Absent
  <2>1. DOMAIN resolved.columns \subseteq {"line_items.amount"}
    BY DEF ResolveDocumentView
  <2> QED BY <2>1 DEF ColumnOf
<1>8. \A ref \in {"subtotal", "tax", "total"} : Given(FieldOf(resolved, ref))
  BY <1>6, <1>7 DEF Found, Given
<1>9. \A ref \in {"subtotal", "tax", "total"} :
          ref \in DOMAIN resolved.fields /\ FieldOf(resolved, ref) = resolved.fields[ref]
  BY <1>8 DEF FieldOf, Given
<1>10. \A ref \in {"subtotal", "tax"} : FieldOf(resolved, ref) \in Int
  <2> DEFINE stated == ResolvedFields(text)
  <2>1. \/ resolved.fields = stated
        \/ \E total : resolved.fields = WithTotal(stated, total)
    BY DEF ResolveDocumentView
  <2>2. \A ref \in {"subtotal", "tax"} : ref \in DOMAIN stated /\ resolved.fields[ref] = stated[ref]
    <3> HIDE DEF stated
    <3> QED BY <1>9, <2>1 DEF WithTotal
  <2> QED BY <1>9, <2>2, MoneyField
<1>11. Amounts(resolved, TotalsBalance) = FieldOf(resolved, "subtotal") + FieldOf(resolved, "tax")
  BY <1>10, SumOfTwo, BlockAssumption
<1>12. Amounts(resolved, TotalsBalance) # FieldOf(resolved, "total")
  BY <1>5, <1>6, <1>8 DEF Holds
<1> QED BY <1>1, <1>9, <1>10, <1>11, <1>12

-----------------------------------------------------------------------------
(* Reading from a figure on *)

(* a reader that has read other nodes before *)
Shift(nodes, r) == [nodes |-> nodes \o r.nodes, pending |-> r.pending, hint |-> r.hint]

(* The two operators under names of their own: the provers rewrite terms of *)
(* the built-in ones before they match a lemma with them.                   *)
Joined(s, t) == s \o t
Grown(s, x) == Append(s, x)

(* When the second of two joined texts grows, so does the joined text.     *)
LEMMA GrownAfter ==
  ASSUME NEW S, NEW s \in Seq(S), NEW t \in Seq(S), NEW x \in S
  PROVE  Grown(Joined(s, t), x) = Joined(s, Grown(t, x))
<1>1. s \o t \in Seq(S) /\ Len(s \o t) = Len(s) + Len(t) /\ Len(s) \in Nat /\ Len(t) \in Nat
  BY ConcatProperties, LenProperties
<1>2. Append(t, x) \in Seq(S) /\ Len(Append(t, x)) = Len(t) + 1
  OBVIOUS
<1>3. /\ Append(s \o t, x) \in Seq(S) /\ s \o Append(t, x) \in Seq(S)
      /\ Len(Append(s \o t, x)) = Len(s \o Append(t, x))
      /\ Len(Append(s \o t, x)) = Len(s) + Len(t) + 1
  BY <1>1, <1>2, ConcatProperties
<1>4. ASSUME NEW i \in 1 .. Len(Append(s \o t, x))
      PROVE  Append(s \o t, x)[i] = (s \o Append(t, x))[i]
  <2>1. (s \o Append(t, x))[i] = IF i <= Len(s) THEN s[i] ELSE Append(t, x)[i - Len(s)]
    BY <1>2, <1>3, ConcatProperties
  <2>2. Append(s \o t, x)[i] = IF i <= Len(s) + Len(t) THEN (s \o t)[i] ELSE x
    BY <1>1, <1>3
  <2>3. i <= Len(s) + Len(t) =>
            (s \o t)[i] = IF i <= Len(s) THEN s[i] ELSE t[i - Len(s)]
    BY <1>1, <1>3, ConcatProperties
  <2>4. i > Len(s) =>
            Append(t, x)[i - Len(s)] = IF i <= Len(s) + Len(t) THEN t[i - Len(s)] ELSE x
    BY <1>1, <1>2, <1>3
  <2> QED BY <1>1, <2>1, <2>2, <2>3, <2>4
<1>5. Append(s \o t, x) = s \o Append(t, x)
  BY <1>3, <1>4, SeqEqual
<1> QED BY <1>5 DEF Grown, Joined

(* A reader whose pending text is replaced keeps its nodes and hint.       *)
LEMMA PendingGrows ==
  ASSUME NEW r, IsReader(r), NEW more
  PROVE  [r EXCEPT !.pending = more] = [nodes |-> r.nodes, pending |-> more, hint |-> r.hint]
BY DEF IsReader

(* What was read before changes nothing of what a line does. *)
LEMMA ShiftedRead ==
  ASSUME NEW nodes, AreNodes(nodes), NEW r, ReaderOK(r), NEW line, IsLine(line)
  PROVE  Read(Shift(nodes, r), line) = Shift(nodes, Read(r, line))
<1>1. /\ Shift(nodes, r).nodes = nodes \o r.nodes
      /\ Shift(nodes, r).pending = r.pending /\ Shift(nodes, r).hint = r.hint
      /\ IsReader(r) /\ IsReader(Shift(nodes, r))
  BY DEF Shift, ReaderOK, IsReader
<1>2. CASE IsMoney(line)
  <2>1. NodeOf(Shift(nodes, r), line) = NodeOf(r, line)
    BY <1>1 DEF NodeOf
  <2> DEFINE x == NodeOf(r, line)
             S == {nodes[i] : i \in DOMAIN nodes} \cup {r.nodes[i] : i \in DOMAIN r.nodes} \cup {x}
  <2>2. nodes \in Seq(S) /\ r.nodes \in Seq(S) /\ x \in S
    BY SeqMonotonic DEF AreNodes, ReaderOK
  <2> HIDE DEF x, S
  <2>3. Append(nodes \o r.nodes, x) = nodes \o Append(r.nodes, x)
    <3>1. Grown(Joined(nodes, r.nodes), x) = Joined(nodes, Grown(r.nodes, x))
      BY <2>2, GrownAfter
    <3> QED BY <3>1 DEF Grown, Joined
  <2>4. ReadFigure(Shift(nodes, r), line) = Shift(nodes, ReadFigure(r, line))
    BY <1>1, <2>1, <2>3 DEF ReadFigure, Shift, x
  <2> QED BY <1>2, <2>4 DEF Read
<1>3. CASE ~IsMoney(line)
  <2>1. DOMAIN r = {"nodes", "pending", "hint"}
    BY <1>1 DEF IsReader
  <2>2. DOMAIN Shift(nodes, r) = {"nodes", "pending", "hint"}
    BY DEF Shift
  <2>3. CASE line.shape = "unit"
    BY <1>3, <2>3 DEF Read, ReadText
  <2>4. CASE line.shape = "columns"
    BY <1>1, <1>3, <2>1, <2>2, <2>4 DEF Read, ReadText, Shift
  <2>5. CASE line.shape = "prose"
    BY <1>1, <1>3, <2>1, <2>2, <2>5 DEF Read, ReadText, Shift
  <2>6. CASE line.shape \notin {"unit", "columns", "prose"}
    <3>1. CASE line.shape = "tail" /\ r.pending # <<>>
      <4> DEFINE grown == [r.pending EXCEPT ![Len(r.pending)].words = @ \cup line.words]
      <4>1. ReadText(r, line) = [r EXCEPT !.pending = grown]
        BY <1>1, <2>1, <2>6, <3>1 DEF ReadText
      <4>2. ReadText(Shift(nodes, r), line) = [Shift(nodes, r) EXCEPT !.pending = grown]
        BY <1>1, <2>2, <2>6, <3>1 DEF ReadText
      <4> HIDE DEF grown
      <4>3. ReadText(r, line) = [nodes |-> r.nodes, pending |-> grown, hint |-> r.hint]
        BY <1>1, <4>1, PendingGrows
      <4>4. ReadText(Shift(nodes, r), line) =
                [nodes |-> nodes \o r.nodes, pending |-> grown, hint |-> r.hint]
        BY <1>1, <4>2, PendingGrows
      <4>5. ReadText(Shift(nodes, r), line) = Shift(nodes, ReadText(r, line))
        BY <4>3, <4>4 DEF Shift
      <4> QED BY <1>3, <4>5 DEF Read
    <3>2. CASE ~(line.shape = "tail" /\ r.pending # <<>>)
      <4> DEFINE grown == Append(r.pending, line)
      <4>1. ReadText(r, line) = [r EXCEPT !.pending = grown]
        BY <2>1, <2>6, <3>2 DEF ReadText
      <4>2. ReadText(Shift(nodes, r), line) = [Shift(nodes, r) EXCEPT !.pending = grown]
        BY <1>1, <2>2, <2>6, <3>2 DEF ReadText
      <4> HIDE DEF grown
      <4>3. ReadText(r, line) = [nodes |-> r.nodes, pending |-> grown, hint |-> r.hint]
        BY <1>1, <4>1, PendingGrows
      <4>4. ReadText(Shift(nodes, r), line) =
                [nodes |-> nodes \o r.nodes, pending |-> grown, hint |-> r.hint]
        BY <1>1, <4>2, PendingGrows
      <4>5. ReadText(Shift(nodes, r), line) = Shift(nodes, ReadText(r, line))
        BY <4>3, <4>4 DEF Shift
      <4> QED BY <1>3, <4>5 DEF Read
    <3> QED BY <3>1, <3>2
  <2> QED BY <2>3, <2>4, <2>5, <2>6
<1> QED BY <1>2, <1>3

(* The beginning of a text is read as on its own. *)
LEMMA PrefixReads ==
  ASSUME NEW S, NEW text \in Seq(S), NEW k \in 0 .. Len(text)
  PROVE  Readings(SubSeq(text, 1, k))[k] = Readings(text)[k]
<1> DEFINE head == SubSeq(text, 1, k)
           Good == {n \in 0 .. k : Readings(head)[n] = Readings(text)[n]}
<1>1. Len(text) \in Nat /\ text \in [1 .. Len(text) -> S] /\ k \in Nat
  BY LenProperties
<1>2. Len(head) = k /\ \A i \in 1 .. k : head[i] = text[i]
  BY <1>1, SubSeqProperties
<1> HIDE DEF head
<1>3. 0 \in Good
  BY <1>1, <1>2, ReadingStep
<1>4. ASSUME NEW n \in 0 .. k - 1, n \in Good PROVE n + 1 \in Good
  <2>1. n + 1 \in 1 .. k /\ n + 1 \in 1 .. Len(text) /\ (n + 1) - 1 = n
    BY <1>1
  <2>2. Readings(head)[n + 1] = Read(Readings(head)[n], head[n + 1])
    BY <1>1, <1>2, <2>1, ReadingStep
  <2>3. Readings(text)[n + 1] = Read(Readings(text)[n], text[n + 1])
    BY <1>1, <2>1, ReadingStep
  <2> QED BY <1>2, <1>4, <2>1, <2>2, <2>3
<1>5. 0 .. k \subseteq Good
  <2> HIDE DEF Good
  <2> QED BY <1>1, <1>3, <1>4, UpTo
<1> QED BY <1>1, <1>5 DEF head

(* After a figure the reader begins anew, behind the nodes it has. *)
LEMMA AfterFigure ==
  ASSUME NEW text \in Seq(AllLines), NEW k \in 1 .. Len(text), IsMoney(text[k])
  PROVE  ParseMoneyNodes(text) = ParseMoneyNodes(SubSeq(text, 1, k))
                                     \o ParseMoneyNodes(SubSeq(text, k + 1, Len(text)))
<1> DEFINE rest == SubSeq(text, k + 1, Len(text))
           before == Readings(text)[k].nodes
           Good == {n \in 0 .. Len(text) - k :
                       Readings(text)[k + n] = Shift(before, Readings(rest)[n])}
<1>1. /\ Len(text) \in Nat /\ k \in Nat
      /\ \A i \in 1 .. Len(text) : text[i] \in AllLines /\ IsLine(text[i])
  BY TextOfLines
<1>2. /\ Len(rest) = Len(text) - k /\ Len(rest) \in Nat
      /\ \A i \in 1 .. Len(rest) : rest[i] = text[k + i]
  <2>1. /\ Len(rest) = IF k + 1 <= Len(text) THEN Len(text) - (k + 1) + 1 ELSE 0
        /\ \A i \in 1 .. Len(text) - (k + 1) + 1 : rest[i] = text[k + 1 + i - 1]
    BY <1>1, SubSeqProperties
  <2> HIDE DEF rest
  <2> QED BY <1>1, <2>1
<1>3. \A i \in 1 .. Len(rest) : IsLine(rest[i])
  <2> TAKE i \in 1 .. Len(rest)
  <2>1. k + i \in 1 .. Len(text) /\ rest[i] = text[k + i]
    BY <1>1, <1>2
  <2> QED BY <1>1, <2>1
<1> HIDE DEF rest
<1>4. \A n \in 0 .. Len(rest) : ReaderOK(Readings(rest)[n])
  BY <1>2, <1>3, ReadingsOK
<1>5. AreNodes(before)
  BY <1>1, ReadingsOK DEF ReaderOK
<1>6. 0 \in Good
  <2>1. Readings(text)[k] = Read(Readings(text)[k - 1], text[k])
    BY <1>1, ReadingStep
  <2>2. Readings(text)[k] = [nodes |-> before, pending |-> <<>>, hint |-> Absent]
    BY <2>1 DEF Read, ReadFigure
  <2>3. before \o <<>> = before
    BY <1>5, ConcatEmptySeq DEF AreNodes
  <2>4. Shift(before, Blank) = [nodes |-> before, pending |-> <<>>, hint |-> Absent]
    <3> HIDE DEF before
    <3> QED BY <2>3 DEF Shift, Blank
  <2>5. Readings(rest)[0] = Blank
    BY <1>2, ReadingStep
  <2> HIDE DEF before
  <2>6. Readings(text)[k + 0] = Shift(before, Readings(rest)[0])
    BY <1>1, <2>2, <2>4, <2>5
  <2> QED BY <1>1, <2>6
<1> HIDE DEF before
<1>7. ASSUME NEW n \in 0 .. (Len(text) - k) - 1, n \in Good PROVE n + 1 \in Good
  <2>1. /\ n + 1 \in 1 .. Len(rest) /\ k + (n + 1) \in 1 .. Len(text)
        /\ (n + 1) - 1 = n /\ (k + (n + 1)) - 1 = k + n /\ n \in 0 .. Len(rest)
    BY <1>1, <1>2
  <2>2. Readings(rest)[n + 1] = Read(Readings(rest)[n], rest[n + 1])
    BY <1>2, <2>1, ReadingStep
  <2>3. Readings(text)[k + (n + 1)] = Read(Readings(text)[k + n], text[k + (n + 1)])
    BY <1>1, <2>1, ReadingStep
  <2>4. rest[n + 1] = text[k + (n + 1)]
    BY <1>2, <2>1
  <2>5. Read(Shift(before, Readings(rest)[n]), rest[n + 1]) =
            Shift(before, Read(Readings(rest)[n], rest[n + 1]))
    BY <1>3, <1>4, <1>5, <2>1, ShiftedRead
  <2>6. Readings(text)[k + n] = Shift(before, Readings(rest)[n])
    BY <1>7
  <2>7. Readings(text)[k + (n + 1)] = Shift(before, Readings(rest)[n + 1])
    BY <2>2, <2>3, <2>4, <2>5, <2>6
  <2> QED BY <1>2, <2>1, <2>7
<1>8. Len(text) - k \in Good
  <2> HIDE DEF Good
  <2>1. 0 .. Len(text) - k \subseteq Good
    BY <1>2, <1>6, <1>7, UpTo
  <2> QED BY <1>2, <2>1
<1>9. Readings(text)[Len(text)] = Shift(before, Readings(rest)[Len(rest)])
  <2>1. k + (Len(text) - k) = Len(text)
    BY <1>1
  <2> QED BY <1>2, <1>8, <2>1
<1>10. ParseMoneyNodes(text) = before \o ParseMoneyNodes(rest)
  BY <1>9 DEF ParseMoneyNodes, Shift
<1>11. ParseMoneyNodes(SubSeq(text, 1, k)) = before
  <2>1. Len(SubSeq(text, 1, k)) = k
    BY <1>1, SubSeqProperties
  <2> QED BY <1>1, <2>1, PrefixReads DEF ParseMoneyNodes, before
<1> QED BY <1>10, <1>11 DEF rest

-----------------------------------------------------------------------------
(* The view is that of the lines, the report that of the view. *)
ViewInv ==
    /\ lines \in Seq(AllLines)
    /\ stage \in {"reading", "resolved", "validated"}
    /\ IF stage = "reading" THEN view = NoView ELSE view = ResolveDocumentView(lines)
    /\ report = IF stage = "validated"
                THEN ApplyVerifierPrecedence(Evaluate(view, InvoiceRules), view.verdict)
                ELSE <<>>

(* View and report are those of the lines in every state.                  *)
LEMMA ViewInvariant == ViewSpec => []ViewInv
<1>1. ViewInit => ViewInv
  BY DEF ViewInit, ViewInv
<1>2. ViewInv /\ [ViewNext]_viewVars => ViewInv'
  <2> SUFFICES ASSUME ViewInv, [ViewNext]_viewVars PROVE ViewInv'
    OBVIOUS
  <2>1. CASE ReadBlock
    <3>1. PICK block \in Blocks : lines' = lines \o block
      BY <2>1 DEF ReadBlock
    <3>2. block \in Seq({block[i] : i \in DOMAIN block})
      BY BlockAssumption DEF IsRun
    <3>3. {block[i] : i \in DOMAIN block} \subseteq AllLines
      BY DEF AllLines
    <3>4. block \in Seq(AllLines)
      BY <3>2, <3>3, SeqMonotonic
    <3>5. lines' \in Seq(AllLines)
      BY <3>1, <3>4, ConcatProperties DEF ViewInv
    <3> QED BY <2>1, <3>5 DEF ReadBlock, ViewInv
  <2>2. CASE Resolve
    BY <2>2 DEF Resolve, ViewInv
  <2>3. CASE Validate
    BY <2>3 DEF Validate, ViewInv
  <2>4. CASE UNCHANGED viewVars
    BY <2>4 DEF viewVars, ViewInv
  <2> QED BY <2>1, <2>2, <2>3, <2>4 DEF ViewNext
<1> QED BY <1>1, <1>2, PTL DEF ViewSpec

(* Whatever lines a document has, the rule about its total is overruled    *)
(* only where the document shows what the rule leaves out, or where the    *)
(* tree has not read the rule's subtotal and tax.                          *)
THEOREM OverrulingIsExplained == ViewSpec => []SupersededIsExplained
<1>1. ViewInv => SupersededIsExplained
  <2> SUFFICES ASSUME ViewInv, WithStatus(report, "SUPERSEDED") # {},
                      NEW nodes, nodes = ParseMoneyNodes(lines),
                      Stated(nodes, "subtotal"),
                      \A role \in {"discount", "shipping", "taxable_subtotal"} : ~Stated(nodes, role),
                      \A role \in {"subtotal", "tax"} : ByRole(nodes, role) = view.fields[role]
               PROVE  view.fields["total"] = view.fields["subtotal"]
    BY DEF SupersededIsExplained
  <2>1. PICK id : id \in WithStatus(report, "SUPERSEDED")
    OBVIOUS
  <2>2. stage = "validated"
    BY <2>1 DEF ViewInv, WithStatus
  <2>3. lines \in Seq(AllLines) /\ view = ResolveDocumentView(lines)
    BY <2>2 DEF ViewInv
  <2>4. /\ view.verdict = "CONFIRM"
        /\ view.fields["subtotal"] \in Int /\ view.fields["tax"] \in Int
        /\ view.fields["subtotal"] + view.fields["tax"] # view.fields["total"]
    BY <2>1, <2>2, <2>3, Superseded DEF ViewInv
  <2>5. /\ view.fields["total"] = ByRole(nodes, "total")
        /\ ByRole(nodes, "total") \in {Base(nodes), Base(nodes) + ByRole(nodes, "tax")}
    BY <2>3, <2>4, ConfirmedView
  <2>6. AreNodes(nodes)
    BY <2>3, NodesOfText
  <2>7. Base(nodes) = ByRole(nodes, "subtotal")
    BY <2>6, AmountsOfNodes DEF Base
  <2> QED BY <2>4, <2>5, <2>7
<1> QED BY <1>1, ViewInvariant, PTL

(* Whatever lines a document has, the figures after a figure are read as   *)
(* if the document began there.                                            *)
THEOREM ReadingIsLocal == ViewSpec => []RolesAreLocal
<1>1. ViewInv => RolesAreLocal
  BY TextOfLines, AfterFigure DEF ViewInv, RolesAreLocal
<1> QED BY <1>1, ViewInvariant, PTL
-----------------------------------------------------------------------------
(* Plain invoices *)

(* a line of a plain invoice with its figures marked *)
PlainLine(line) ==
    IF line.type = "money"
    THEN /\ line.marked
         /\ \/ IsPriced(line)
            \/ line.shape = "label" /\ \E w \in SummaryWords : line.words = {w}
    ELSE line.shape = "label" /\ line.words = {}

(* text without a word about money *)
PlainText(texts) ==
    /\ texts \in Seq({texts[i] : i \in DOMAIN texts})
    /\ \A i \in DOMAIN texts : texts[i].words = {}

(* A line without words about money keeps a text plain.                    *)
LEMMA AppendText ==
  ASSUME NEW text, PlainText(text), NEW line, line.words = {}
  PROVE  PlainText(Append(text, line))
<1> DEFINE S == {text[i] : i \in DOMAIN text} \cup {line}
           more == Append(text, line)
<1>1. text \in Seq(S) /\ line \in S
  <2>1. text \in Seq({text[i] : i \in DOMAIN text})
    BY DEF PlainText
  <2> QED BY <2>1, SeqMonotonic
<1>2. \A s \in S : s.words = {}
  BY DEF PlainText
<1> HIDE DEF S
<1>3. more \in Seq(S)
  BY <1>1
<1> HIDE DEF more
<1>4. more \in [1 .. Len(more) -> S] /\ DOMAIN more = 1 .. Len(more) /\ Len(more) \in Nat
  BY <1>3, LenProperties
<1>5. more \in Seq({more[i] : i \in DOMAIN more})
  <2>1. \A i \in 1 .. Len(more) : more[i] \in {more[j] : j \in DOMAIN more}
    BY <1>4
  <2> QED BY <1>4, <2>1, SMT
<1> QED BY <1>2, <1>4, <1>5 DEF PlainText, more

(* The last line of a plain text has no words about money.                 *)
LEMMA LastOfText ==
  ASSUME NEW text, PlainText(text), text # <<>>
  PROVE  Last(text).words = {}
<1>1. Len(text) \in Nat \ {0} /\ DOMAIN text = 1 .. Len(text)
  BY EmptySeq, LenProperties DEF PlainText
<1> QED BY <1>1 DEF PlainText, Last

(* Each of the summary words, on its own, names its role. *)
LEMMA WordIsRole == \A w \in SummaryWords : Classify({w}) = w
<1>1. ASSUME NEW k \in 1 .. 7 PROVE Classify({Precedence[k]}) = RoleNamed[Precedence[k]]
  <2> DEFINE named == {i \in DOMAIN Precedence : Precedence[i] \in {Precedence[k]}}
  <2>1. named = {k}
    BY DEF Precedence
  <2>2. Min({k}) = k
    BY DEF Min
  <2> QED BY <2>1, <2>2 DEF Classify, Strongest
<1>2. \A w \in SummaryWords :
          \E k \in 1 .. 7 : Precedence[k] = w /\ RoleNamed[Precedence[k]] = w
  <2>1. /\ Precedence[2] = "tax" /\ Precedence[3] = "discount" /\ Precedence[4] = "shipping"
        /\ Precedence[6] = "subtotal" /\ Precedence[7] = "total"
    BY DEF Precedence
  <2>2. /\ RoleNamed["tax"] = "tax" /\ RoleNamed["discount"] = "discount"
        /\ RoleNamed["shipping"] = "shipping" /\ RoleNamed["subtotal"] = "subtotal"
        /\ RoleNamed["total"] = "total"
    BY DEF RoleNamed
  <2>3. {2, 3, 4, 6, 7} \subseteq 1 .. 7
    OBVIOUS
  <2> QED BY <2>1, <2>2, <2>3 DEF SummaryWords
<1> QED BY <1>1, <1>2

(* A figure of a plain invoice is a row, or has the role its word names. *)
LEMMA PlainFigure ==
  ASSUME NEW r, PlainText(r.pending), NEW line, PlainLine(line), line.type = "money"
  PROVE  /\ Read(r, line) = [nodes |-> Append(r.nodes, NodeOf(r, line)),
                             pending |-> <<>>, hint |-> Absent]
         /\ NodeOf(r, line).value = line.value
         /\ IF IsPriced(line) THEN NodeOf(r, line).role = "line"
            ELSE /\ NodeOf(r, line).role \in SummaryWords
                 /\ line.words = {NodeOf(r, line).role}
<1>1. IsMoney(line)
  BY DEF IsMoney, PlainLine
<1>2. line.shape # "columns"
  BY DEF PlainLine, IsPriced
<1>3. Read(r, line) = [nodes |-> Append(r.nodes, NodeOf(r, line)), pending |-> <<>>, hint |-> Absent]
  BY <1>1, <1>2 DEF Read, ReadFigure
<1>4. NodeOf(r, line).value = line.value
  BY DEF NodeOf
<1>5. CASE IsPriced(line)
  <2>1. NodeOf(r, line).role = "line"
    BY <1>5 DEF NodeOf
  <2> QED BY <1>3, <1>4, <1>5, <2>1
<1>6. CASE ~IsPriced(line)
  <2>1. PICK w \in SummaryWords : line.words = {w} /\ line.shape = "label"
    BY <1>6 DEF PlainLine
  <2>2. w # "line"
    BY DEF SummaryWords
  <2>3. Classify({w}) = w
    BY WordIsRole
  <2> DEFINE titled == line.shape = "priced" /\ r.pending # <<>> /\ Last(r.pending).shape = "caps"
             near == IF r.pending = <<>> \/ titled THEN {} ELSE Last(r.pending).words
             own == IF line.shape \in {"blank", "prose"} THEN {} ELSE line.words
  <2>4. near \cup own = {w}
    BY <2>1, LastOfText
  <2>5. Classify(near \cup own) = w
    BY <2>3, <2>4
  <2>6. NodeOf(r, line).role = w
    BY <1>6, <2>2, <2>5 DEF NodeOf
  <2> QED BY <1>3, <1>4, <1>6, <2>1, <2>6
<1> QED BY <1>5, <1>6

(* A plain line without a figure adds no node and leaves the pending text  *)
(* plain.                                                                  *)
LEMMA PlainWords ==
  ASSUME NEW r, ReaderOK(r), PlainText(r.pending), NEW line, PlainLine(line), line.type # "money"
  PROVE  Read(r, line).nodes = r.nodes /\ PlainText(Read(r, line).pending)
<1>1. Read(r, line) = [r EXCEPT !.pending = Append(r.pending, line)]
  BY DEF Read, ReadText, IsMoney, PlainLine, ReaderOK, IsReader
<1>2. DOMAIN r = {"nodes", "pending", "hint"}
  BY DEF ReaderOK, IsReader
<1>3. Read(r, line).nodes = r.nodes /\ Read(r, line).pending = Append(r.pending, line)
  BY <1>1, <1>2
<1>4. line.words = {}
  BY DEF PlainLine
<1> QED BY <1>3, <1>4, AppendText

(* the summary line a node comes from, and the node of a summary line,     *)
(* among the first n lines                                                 *)
Stands(w, n) == {i \in SummaryLines(w) : i <= n}
Accounted(nodes, n) ==
    /\ \A j \in DOMAIN nodes : nodes[j].role \in SummaryWords \cup {"line"}
    /\ \A w \in SummaryWords :
           /\ \A j \in At(nodes, w) : \E i \in Stands(w, n) : nodes[j].value = lines[i].value
           /\ Stands(w, n) # {} => At(nodes, w) # {}

(* The lines of a plain invoice are plain lines.                           *)
LEMMA PlainLines ==
  ASSUME ViewInv, IsPlainInvoice(TRUE)
  PROVE  \A i \in 1 .. Len(lines) : PlainLine(lines[i]) /\ IsLine(lines[i])
<1>1. DOMAIN lines = 1 .. Len(lines)
  BY TextOfLines DEF ViewInv
<1>2. \A i \in DOMAIN lines : PlainLine(lines[i])
  BY DEF IsPlainInvoice, PlainLine, Rows
<1> QED BY <1>1, <1>2, TextOfLines DEF ViewInv

(* After n lines of a plain invoice the nodes of the summary are among     *)
(* those lines.                                                            *)
LEMMA PlainReadings ==
  ASSUME ViewInv, IsPlainInvoice(TRUE)
  PROVE  \A n \in 0 .. Len(lines) :
             /\ PlainText(Readings(lines)[n].pending)
             /\ Accounted(Readings(lines)[n].nodes, n)
<1> DEFINE Reader(n) == Readings(lines)[n]
           Good == {n \in 0 .. Len(lines) :
                       PlainText(Reader(n).pending) /\ Accounted(Reader(n).nodes, n)}
<1>1. Len(lines) \in Nat /\ DOMAIN lines = 1 .. Len(lines)
  BY TextOfLines DEF ViewInv
<1>2. \A n \in 0 .. Len(lines) : ReaderOK(Reader(n))
  BY <1>1, PlainLines, ReadingsOK
<1>3. 0 \in Good
  <2>1. Reader(0) = Blank
    BY <1>1, ReadingStep
  <2>2. PlainText(<<>>)
    BY DEF PlainText
  <2>3. Accounted(<<>>, 0)
    <3>1. \A w \in SummaryWords : Stands(w, 0) = {}
      BY <1>1 DEF Stands, SummaryLines
    <3> QED BY <3>1 DEF Accounted, At
  <2> QED BY <1>1, <2>1, <2>2, <2>3 DEF Blank
<1>4. ASSUME NEW n \in 0 .. Len(lines) - 1, n \in Good PROVE n + 1 \in Good
  <2> DEFINE r == Reader(n)
             line == lines[n + 1]
  <2>1. n + 1 \in 1 .. Len(lines) /\ (n + 1) - 1 = n /\ n \in 0 .. Len(lines)
    BY <1>1
  <2>2. Reader(n + 1) = Read(r, line)
    BY <1>1, <2>1, ReadingStep
  <2>3. PlainLine(line) /\ ReaderOK(r) /\ PlainText(r.pending) /\ Accounted(r.nodes, n)
    BY <1>2, <1>4, <2>1, PlainLines
  <2> HIDE DEF r, line
  <2>4. \A w \in SummaryWords :
            /\ Stands(w, n) \subseteq Stands(w, n + 1)
            /\ \A i \in Stands(w, n + 1) : i \in Stands(w, n) \/ i = n + 1
            /\ n + 1 \in Stands(w, n + 1) <=> ~IsPriced(line) /\ line.words = {w}
    BY <1>1, <2>1 DEF Stands, SummaryLines, Rows, line
  <2>5. CASE line.type # "money"
    <3>1. Reader(n + 1).nodes = r.nodes /\ PlainText(Reader(n + 1).pending)
      BY <2>2, <2>3, <2>5, PlainWords
    <3>2. line.words = {}
      BY <2>3, <2>5 DEF PlainLine
    <3>3. \A w \in SummaryWords : Stands(w, n + 1) = Stands(w, n)
      BY <2>4, <3>2
    <3>4. Accounted(r.nodes, n + 1)
      BY <2>3, <3>3 DEF Accounted
    <3> QED BY <2>1, <3>1, <3>4
  <2>6. CASE line.type = "money"
    <3> DEFINE x == NodeOf(r, line)
               nodes == Append(r.nodes, x)
    <3>1. /\ Reader(n + 1) = [nodes |-> nodes, pending |-> <<>>, hint |-> Absent]
          /\ x.value = line.value
          /\ IF IsPriced(line) THEN x.role = "line"
             ELSE x.role \in SummaryWords /\ line.words = {x.role}
      BY <2>2, <2>3, <2>6, PlainFigure
    <3>2. /\ DOMAIN nodes = DOMAIN r.nodes \cup {Len(r.nodes) + 1}
          /\ \A j \in DOMAIN r.nodes : nodes[j] = r.nodes[j]
          /\ nodes[Len(r.nodes) + 1] = x
      <4>1. r.nodes \in Seq({r.nodes[i] : i \in DOMAIN r.nodes})
        BY <2>3 DEF ReaderOK, AreNodes
      <4>2. Len(r.nodes) \in Nat /\ DOMAIN r.nodes = 1 .. Len(r.nodes)
        BY <4>1, LenProperties
      <4> HIDE DEF x
      <4> QED BY <4>1, <4>2
    <3> HIDE DEF x, nodes
    <3>3. \A j \in DOMAIN nodes : nodes[j].role \in SummaryWords \cup {"line"}
      BY <2>3, <3>1, <3>2 DEF Accounted
    <3>4. ASSUME NEW w \in SummaryWords
          PROVE  /\ \A j \in At(nodes, w) : \E i \in Stands(w, n + 1) : nodes[j].value = lines[i].value
                 /\ Stands(w, n + 1) # {} => At(nodes, w) # {}
      <4>1. "line" \notin SummaryWords
        BY DEF SummaryWords
      <4>2. ASSUME NEW j \in At(nodes, w)
            PROVE  \E i \in Stands(w, n + 1) : nodes[j].value = lines[i].value
        <5>1. CASE j \in DOMAIN r.nodes
          <6>1. j \in At(r.nodes, w)
            BY <3>2, <4>2, <5>1 DEF At
          <6>2. \E i \in Stands(w, n) : r.nodes[j].value = lines[i].value
            BY <2>3, <6>1 DEF Accounted
          <6> QED BY <2>4, <3>2, <5>1, <6>2
        <5>2. CASE j = Len(r.nodes) + 1
          <6>1. x.role = w
            BY <3>2, <5>2 DEF At
          <6>2. n + 1 \in Stands(w, n + 1)
            BY <2>4, <3>1, <4>1, <6>1
          <6> QED BY <3>1, <3>2, <5>2, <6>2 DEF line
        <5> QED BY <3>2, <5>1, <5>2 DEF At
      <4>3. ASSUME Stands(w, n + 1) # {} PROVE At(nodes, w) # {}
        <5>1. CASE Stands(w, n) # {}
          <6>1. PICK j \in At(r.nodes, w) : TRUE
            BY <2>3, <5>1 DEF Accounted
          <6> QED BY <3>2, <6>1 DEF At
        <5>2. CASE Stands(w, n) = {}
          <6>1. ~IsPriced(line) /\ line.words = {w}
            BY <2>4, <4>3, <5>2
          <6>2. x.role = w
            BY <3>1, <6>1
          <6> QED BY <3>2, <6>2 DEF At
        <5> QED BY <5>1, <5>2
      <4> QED BY <4>2, <4>3
    <3>5. Accounted(nodes, n + 1)
      BY <3>3, <3>4 DEF Accounted
    <3>6. PlainText(<<>>)
      BY DEF PlainText
    <3> QED BY <2>1, <3>1, <3>5, <3>6
  <2> QED BY <2>5, <2>6
<1>5. 0 .. Len(lines) \subseteq Good
  <2> HIDE DEF Good
  <2> QED BY <1>1, <1>3, <1>4, UpTo
<1> QED BY <1>5

(* The nodes of a plain invoice are accounted for by its lines.            *)
LEMMA PlainNodes ==
  ASSUME ViewInv, IsPlainInvoice(TRUE)
  PROVE  Accounted(ParseMoneyNodes(lines), Len(lines))
<1>1. Len(lines) \in Nat
  BY TextOfLines DEF ViewInv
<1> QED BY <1>1, PlainReadings DEF ParseMoneyNodes
(* A figure stated at most once, and the amount of a figure not stated. *)
LEMMA AmountStated ==
  ASSUME ViewInv, IsPlainInvoice(TRUE), NEW w \in SummaryWords
  PROVE  \/ SummaryLines(w) = {} /\ Amount(w) = 0
         \/ \E i \in 1 .. Len(lines) :
                SummaryLines(w) = {i} /\ Amount(w) = lines[i].value /\ lines[i].value \in Int
<1> DEFINE S == SummaryLines(w)
           op(i) == lines[i].value
           pick(s) == CHOOSE x \in s : TRUE
           Folds(f) == f = [s \in SUBSET S |-> IF s = {} THEN 0 ELSE op(pick(s)) + f[s \ {pick(s)}]]
           iter == CHOOSE f : Folds(f)
<1>1. Amount(w) = iter[S]
  BY DEF Amount, MapThenSumSet, MapThenFoldSet
<1>2. Len(lines) \in Nat /\ DOMAIN lines = 1 .. Len(lines)
  BY TextOfLines DEF ViewInv
<1>3. S \subseteq 1 .. Len(lines) /\ Cardinality(S) <= 1
  BY <1>2 DEF SummaryLines, IsPlainInvoice
<1>4. \A i \in S : op(i) \in Int
  <2> TAKE i \in S
  <2>1. PlainLine(lines[i]) /\ IsLine(lines[i])
    BY <1>3, PlainLines
  <2>2. lines[i].words = {w}
    BY DEF SummaryLines
  <2>3. lines[i].type = "money"
    BY <2>1, <2>2 DEF PlainLine
  <2> QED BY <2>1, <2>3 DEF IsLine
<1>5. S = {} \/ \E i \in S : S = {i}
  <2> HIDE DEF S
  <2>1. IsFiniteSet(1 .. Len(lines))
    BY <1>2, FS_Interval
  <2>2. IsFiniteSet(S)
    BY <1>3, <2>1, FS_Subset
  <2>3. Cardinality(S) = 0 \/ Cardinality(S) = 1
    BY <1>3, <2>2, FS_CardinalityType
  <2> QED BY <2>2, <2>3, FS_EmptySet, FS_Singleton
<1> HIDE DEF S, op
<1>6. CASE S = {}
  <2>1. Folds([s \in SUBSET S |-> 0])
    BY <1>6
  <2>2. Folds(iter)
    <3> HIDE DEF Folds
    <3> QED BY <2>1
  <2> HIDE DEF iter
  <2>3. iter[S] = 0
    BY <1>6, <2>2
  <2> QED BY <1>1, <1>6, <2>3 DEF S
<1>7. ASSUME NEW i \in S, S = {i} PROVE Amount(w) = lines[i].value
  <2> DEFINE g == [s \in SUBSET S |-> IF i \in s THEN op(i) ELSE 0]
  <2>1. ASSUME NEW s \in SUBSET S
        PROVE  g[s] = IF s = {} THEN 0 ELSE op(pick(s)) + g[s \ {pick(s)}]
    <3>1. CASE s = {}
      BY <3>1
    <3>2. CASE s = {i}
      <4>1. pick(s) = i /\ s \ {i} = {}
        BY <3>2
      <4> HIDE DEF pick
      <4>2. g[s] = op(i) /\ g[{}] = 0
        BY <1>7, <3>2
      <4> HIDE DEF g
      <4>3. g[s \ {pick(s)}] = 0
        BY <4>1, <4>2
      <4>4. op(i) = op(i) + 0
        BY <1>4
      <4> QED BY <3>2, <4>1, <4>2, <4>3, <4>4, Zenon
    <3> QED BY <1>7, <3>1, <3>2
  <2>2. Folds(g)
    <3>1. g = [s \in SUBSET S |-> g[s]]
      OBVIOUS
    <3> HIDE DEF g, pick
    <3> QED BY <2>1, <3>1
  <2> HIDE DEF g
  <2>3. Folds(iter)
    <3> HIDE DEF Folds
    <3> QED BY <2>2
  <2> HIDE DEF iter
  <2>4. pick({i}) = i /\ {i} \ {i} = {}
    OBVIOUS
  <2> HIDE DEF pick
  <2>5. iter[{}] = 0 /\ iter[{i}] = op(pick({i})) + iter[{i} \ {pick({i})}]
    BY <1>7, <2>3
  <2>6. iter[S] = op(i)
    <3>1. iter[{i}] = op(i) + 0
      BY <2>4, <2>5, Zenon
    <3>2. op(i) + 0 = op(i)
      BY <1>4
    <3> QED BY <1>7, <3>1, <3>2, Zenon
  <2> QED BY <1>1, <2>6 DEF op
<1> QED BY <1>3, <1>4, <1>5, <1>6, <1>7 DEF S, op

(* The tree reads from a plain invoice the amounts it states. *)
LEMMA PlainAmounts ==
  ASSUME ViewInv, IsPlainInvoice(TRUE), NEW nodes, nodes = ParseMoneyNodes(lines)
  PROVE  /\ \A w \in SummaryWords : ByRole(nodes, w) = Amount(w) /\ Amount(w) \in Int
         /\ \A w \in SummaryWords : Stated(nodes, w) <=> SummaryLines(w) # {}
         /\ ~Stated(nodes, "taxable_subtotal")
<1>1. Accounted(nodes, Len(lines)) /\ AreNodes(nodes)
  BY PlainNodes, NodesOfText DEF ViewInv
<1>2. Len(lines) \in Nat /\ DOMAIN lines = 1 .. Len(lines)
  BY TextOfLines DEF ViewInv
<1>3. \A w \in SummaryWords : Stands(w, Len(lines)) = SummaryLines(w)
  BY <1>2 DEF Stands, SummaryLines
<1>4. ASSUME NEW w \in SummaryWords PROVE Stated(nodes, w) <=> SummaryLines(w) # {}
  <2>1. Stated(nodes, w) => SummaryLines(w) # {}
    <3> SUFFICES ASSUME At(nodes, w) # {} PROVE SummaryLines(w) # {}
      BY DEF Stated
    <3>1. PICK j \in At(nodes, w) : TRUE
      OBVIOUS
    <3> QED BY <1>1, <1>3, <3>1 DEF Accounted
  <2>2. SummaryLines(w) # {} => Stated(nodes, w)
    BY <1>1, <1>3 DEF Accounted, Stated
  <2> QED BY <2>1, <2>2
<1>5. ASSUME NEW w \in SummaryWords PROVE ByRole(nodes, w) = Amount(w) /\ Amount(w) \in Int
  <2>1. CASE SummaryLines(w) = {}
    <3>1. Amount(w) = 0
      BY <2>1, AmountStated
    <3> QED BY <1>4, <2>1, <3>1 DEF ByRole
  <2>2. CASE SummaryLines(w) # {}
    <3>1. PICK i \in 1 .. Len(lines) :
              SummaryLines(w) = {i} /\ Amount(w) = lines[i].value /\ lines[i].value \in Int
      BY <2>2, AmountStated
    <3>2. Stated(nodes, w)
      BY <1>4, <2>2
    <3>3. Max(At(nodes, w)) \in At(nodes, w)
      <4>1. DOMAIN nodes = 1 .. Len(nodes) /\ Len(nodes) \in Nat
        BY <1>1, LenProperties DEF AreNodes
      <4> QED BY <3>2, <4>1, LastPosition DEF At, Stated
    <3>4. nodes[Max(At(nodes, w))].value = lines[i].value
      BY <1>1, <1>3, <3>1, <3>3 DEF Accounted
    <3> QED BY <3>1, <3>2, <3>4 DEF ByRole
  <2> QED BY <2>1, <2>2
<1>6. ~Stated(nodes, "taxable_subtotal")
  BY <1>1 DEF Stated, At, Accounted, SummaryWords
<1> QED BY <1>4, <1>5, <1>6

(* The roll-up of a plain invoice is of the amounts it states. *)
LEMMA PlainRollUp ==
  ASSUME ViewInv, IsPlainInvoice(TRUE), NEW nodes, nodes = ParseMoneyNodes(lines)
  PROVE  /\ Stated(nodes, "total") /\ Stated(nodes, "subtotal")
         /\ DerivedTotal(nodes) = Absent
         /\ \E ok \in BOOLEAN :
                /\ TotalChain(nodes) = {[region |-> <<"to_total">>, ok |-> ok]}
                /\ ok <=> Balances
<1>1. /\ \A w \in SummaryWords : ByRole(nodes, w) = Amount(w) /\ Amount(w) \in Int
      /\ \A w \in SummaryWords : Stated(nodes, w) <=> SummaryLines(w) # {}
      /\ ~Stated(nodes, "taxable_subtotal")
  BY PlainAmounts
<1>2. {"subtotal", "tax", "discount", "shipping", "total"} = SummaryWords
  BY DEF SummaryWords
<1>3. Stated(nodes, "total") /\ Stated(nodes, "subtotal")
  BY <1>1, <1>2 DEF IsPlainInvoice
<1>4. Amount("shipping") >= 0
  <2>1. CASE SummaryLines("shipping") = {}
    BY <1>2, <2>1, AmountStated
  <2>2. CASE SummaryLines("shipping") # {}
    <3>1. PICK i \in 1 .. Len(lines) :
              SummaryLines("shipping") = {i} /\ Amount("shipping") = lines[i].value
      BY <1>2, <2>2, AmountStated
    <3>2. i \in SummaryLines("shipping")
      BY <3>1
    <3>3. lines[i].value >= 0
      BY <3>2 DEF IsPlainInvoice
    <3> QED BY <3>1, <3>3
  <2> QED BY <2>1, <2>2
<1>5. Base(nodes) = Net
  <2>1. Base(nodes) = Discounted(nodes)
    BY <1>1 DEF Base
  <2>2. Magnitude(nodes, "discount") = Deduction
    BY <1>1, <1>2 DEF Magnitude, Deduction
  <2>3. Magnitude(nodes, "shipping") = Amount("shipping")
    BY <1>1, <1>2, <1>4 DEF Magnitude
  <2> QED BY <1>1, <1>2, <2>1, <2>2, <2>3 DEF Discounted, Net
<1>6. HasBase(nodes) /\ DerivedTotal(nodes) = Absent
  BY <1>3 DEF HasBase, DerivedTotal
<1> DEFINE total == ByRole(nodes, "total")
           want == IF total = Base(nodes) THEN Base(nodes) ELSE Base(nodes) + ByRole(nodes, "tax")
           ok == total = want
<1>7. TotalChain(nodes) = {[region |-> <<"to_total">>, ok |-> ok]}
  BY <1>3, <1>6 DEF TotalChain, Check
<1>8. ok <=> Balances
  BY <1>1, <1>2, <1>5 DEF Balances
<1>9. ok \in BOOLEAN
  OBVIOUS
<1> HIDE DEF ok
<1> QED BY <1>3, <1>6, <1>7, <1>8, <1>9

(* Whatever plain invoice it is, a stated total that its parts do not make *)
(* up is contradicted, and no rule about it is overruled.                  *)
THEOREM WrongTotalsAreSeen == ViewSpec => []WrongTotalsAreContradicted
<1>1. ViewInv => WrongTotalsAreContradicted
  <2> SUFFICES ASSUME ViewInv, stage = "validated", IsPlainInvoice(TRUE), ~Balances,
                      NEW nodes, nodes = ParseMoneyNodes(lines)
               PROVE  view.verdict = "CONFLICT" /\ WithStatus(report, "SUPERSEDED") = {}
    BY DEF WrongTotalsAreContradicted
  <2>1. lines \in Seq(AllLines) /\ view = ResolveDocumentView(lines)
    BY DEF ViewInv
  <2>2. PICK ok \in BOOLEAN :
            TotalChain(nodes) = {[region |-> <<"to_total">>, ok |-> ok]} /\ (ok <=> Balances)
    BY PlainRollUp
  <2>3. \E r \in Regions(nodes) : ~r.ok
    <3> DEFINE r == [region |-> <<"to_total">>, ok |-> ok]
    <3>1. r \in Regions(nodes) /\ r.ok = ok
      BY <2>2 DEF Regions
    <3> HIDE DEF r
    <3> QED BY <2>2, <3>1
  <2>4. TreeVerdict(nodes) = "CONFLICT"
    BY <2>3, PlainRollUp DEF TreeVerdict
  <2>5. view.verdict = "CONFLICT"
    <3> DEFINE stated == ResolvedFields(lines)
               claimed == IF "total" \in DOMAIN stated THEN stated["total"] ELSE Absent
    <3>1. view.verdict = Verification(lines, claimed).verdict
      BY <2>1 DEF ResolveDocumentView
    <3>2. VerifyTotalTree(nodes, claimed).verdict = "CONFLICT"
      <4> HIDE DEF claimed
      <4>1. VerdictMap["CONFLICT"] = "CONFLICT"
        BY DEF VerdictMap
      <4> QED BY <2>4, <4>1 DEF VerifyTotalTree
    <3>3. Verification(lines, claimed) = VerifyTotalTree(nodes, claimed)
      <4> HIDE DEF claimed
      <4> QED BY <2>4 DEF Verification
    <3> QED BY <3>1, <3>2, <3>3
  <2>6. ASSUME NEW id \in WithStatus(report, "SUPERSEDED") PROVE FALSE
    <3>1. view.verdict = "CONFIRM"
      BY <2>1, Superseded DEF ViewInv
    <3> QED BY <2>5, <3>1
  <2> QED BY <2>5, <2>6
<1> QED BY <1>1, ViewInvariant, PTL
-----------------------------------------------------------------------------
(* The items the tree publishes *)

ItemsUpTo(f, nodes, N) ==
    f = [n \in 0 .. N |-> IF n = 0 THEN <<>> ELSE TakeItem(f[n - 1], nodes[n])]

(* The items of n nodes are those of n - 1 with the item of node n, if it  *)
(* is one.                                                                 *)
LEMMA ItemsStep ==
  ASSUME NEW f, NEW nodes, NEW N \in Nat, ItemsUpTo(f, nodes, N)
  PROVE  /\ f[0] = <<>>
         /\ \A n \in 1 .. N : f[n] = TakeItem(f[n - 1], nodes[n])
<1>1. f = [n \in 0 .. N |-> IF n = 0 THEN <<>> ELSE TakeItem(f[n - 1], nodes[n])]
  BY DEF ItemsUpTo
<1> QED BY <1>1

(* The items of the nodes are the last of such a sequence.                 *)
LEMMA ItemsExist ==
  ASSUME NEW nodes, Len(nodes) \in Nat
  PROVE  \E f : ItemsUpTo(f, nodes, Len(nodes)) /\ LineItems(nodes) = f[Len(nodes)]
<1> DEFINE Good == {N \in 0 .. Len(nodes) : \E f : ItemsUpTo(f, nodes, N)}
<1>1. 0 \in Good
  <2> DEFINE g == [n \in 0 .. 0 |-> <<>>]
  <2>1. ItemsUpTo(g, nodes, 0)
    BY DEF ItemsUpTo
  <2> QED BY <2>1
<1>2. ASSUME NEW N \in 0 .. Len(nodes) - 1, N \in Good PROVE N + 1 \in Good
  <2>1. PICK f : ItemsUpTo(f, nodes, N)
    BY <1>2
  <2> DEFINE g == [n \in 0 .. N + 1 |-> IF n <= N THEN f[n] ELSE TakeItem(f[N], nodes[N + 1])]
  <2>2. \A n \in 0 .. N : f[n] = IF n = 0 THEN <<>> ELSE TakeItem(f[n - 1], nodes[n])
    BY <2>1 DEF ItemsUpTo
  <2>3. ASSUME NEW n \in 0 .. N + 1
        PROVE  g[n] = IF n = 0 THEN <<>> ELSE TakeItem(g[n - 1], nodes[n])
    <3>1. CASE n <= N
      <4>1. g[n] = f[n] /\ (n # 0 => g[n - 1] = f[n - 1])
        BY <3>1
      <4> HIDE DEF g
      <4> QED BY <2>2, <3>1, <4>1
    <3>2. CASE n = N + 1
      <4>1. n # 0 /\ n - 1 = N /\ g[n] = TakeItem(f[N], nodes[n]) /\ g[N] = f[N]
        BY <3>2
      <4> HIDE DEF g
      <4> QED BY <4>1
    <3> QED BY <3>1, <3>2
  <2>4. ItemsUpTo(g, nodes, N + 1)
    <3>1. g = [n \in 0 .. N + 1 |-> g[n]]
      OBVIOUS
    <3> HIDE DEF g
    <3> QED BY <2>3, <3>1 DEF ItemsUpTo
  <2>5. N + 1 \in 0 .. Len(nodes)
    OBVIOUS
  <2> HIDE DEF g
  <2> QED BY <2>4, <2>5
<1>3. Len(nodes) \in Good
  <2> HIDE DEF Good
  <2>1. 0 .. Len(nodes) \subseteq Good
    BY <1>1, <1>2, UpTo
  <2> QED BY <2>1
<1> DEFINE items == CHOOSE f : ItemsUpTo(f, nodes, Len(nodes))
<1>4. ItemsUpTo(items, nodes, Len(nodes))
  BY <1>3
<1>5. LineItems(nodes) = items[Len(nodes)]
  BY DEF LineItems, ItemsUpTo
<1> HIDE DEF items
<1> QED BY <1>4, <1>5

(* No nodes, no items.                                                     *)
LEMMA ItemsOfNone == LineItems(<<>>) = <<>>
<1>1. Len(<<>>) = 0
  OBVIOUS
<1>2. PICK f : ItemsUpTo(f, <<>>, 0) /\ LineItems(<<>>) = f[0]
  BY <1>1, ItemsExist
<1> QED BY <1>2, ItemsStep

(* One node more adds its item, if it is one.                              *)
LEMMA ItemsOfMore ==
  ASSUME NEW nodes, AreNodes(nodes), NEW x
  PROVE  LineItems(Append(nodes, x)) =
             TakeItem(LineItems(nodes), x)
<1> DEFINE S == {nodes[i] : i \in DOMAIN nodes} \cup {x}
           N == Len(nodes)
           more == Append(nodes, x)
<1>1. nodes \in Seq(S) /\ N \in Nat
  BY SeqMonotonic, LenProperties DEF AreNodes
<1>2. Len(more) = N + 1 /\ more[N + 1] = x /\ \A i \in 1 .. N : more[i] = nodes[i]
  <2> HIDE DEF S
  <2> QED BY <1>1
<1> HIDE DEF S, N, more
<1>3. PICK f : ItemsUpTo(f, nodes, N) /\ LineItems(nodes) = f[N]
  BY <1>1, ItemsExist DEF N
<1>4. PICK g : ItemsUpTo(g, more, N + 1) /\ LineItems(more) = g[N + 1]
  BY <1>1, <1>2, ItemsExist
<1>5. /\ f[0] = <<>>
      /\ \A n \in 1 .. N : f[n] = TakeItem(f[n - 1], nodes[n])
  BY <1>1, <1>3, ItemsStep
<1>6. /\ g[0] = <<>>
      /\ \A n \in 1 .. N + 1 : g[n] = TakeItem(g[n - 1], more[n])
  BY <1>1, <1>4, ItemsStep
<1> DEFINE Good == {n \in 0 .. N : f[n] = g[n]}
<1>7. 0 \in Good
  BY <1>1, <1>5, <1>6
<1>8. ASSUME NEW n \in 0 .. N - 1, n \in Good PROVE n + 1 \in Good
  <2>1. n + 1 \in 1 .. N /\ n + 1 \in 1 .. N + 1 /\ (n + 1) - 1 = n
    BY <1>1
  <2>2. f[n + 1] = TakeItem(f[n], nodes[n + 1])
    BY <1>5, <2>1
  <2>3. g[n + 1] = TakeItem(g[n], more[n + 1])
    BY <1>6, <2>1
  <2>4. more[n + 1] = nodes[n + 1] /\ f[n] = g[n]
    BY <1>2, <1>8, <2>1
  <2>5. f[n + 1] = g[n + 1]
    BY <2>2, <2>3, <2>4, Zenon
  <2> QED BY <1>1, <2>1, <2>5
<1>9. f[N] = g[N]
  <2> HIDE DEF Good
  <2>1. 0 .. N \subseteq Good
    BY <1>1, <1>7, <1>8, UpTo
  <2> QED BY <1>1, <2>1 DEF Good
<1>10. N + 1 \in 1 .. N + 1 /\ (N + 1) - 1 = N
  BY <1>1
<1>11. g[N + 1] = TakeItem(g[N], more[N + 1])
  BY <1>6, <1>10
<1> QED BY <1>2, <1>3, <1>4, <1>9, <1>11, Zenon DEF more

-----------------------------------------------------------------------------
(* The sums of the model *)

NodeValue(nodes) == [j \in DOMAIN nodes |-> nodes[j].value]
LineValue == [i \in DOMAIN lines |-> lines[i].value]

(* The sum of nodes is a sum of their figures.                             *)
LEMMA SumOfNodes ==
  ASSUME NEW nodes, NEW S \in SUBSET DOMAIN nodes, IsFiniteSet(S)
  PROVE  SumOf(nodes, S) = SumOver(NodeValue(nodes), S)
<1> DEFINE h == NodeValue(nodes)
           Folds(f) == f = [s \in SUBSET S |-> IF s = {} THEN 0
                                               ELSE nodes[First(s)].value + f[s \ {First(s)}]]
           iter == CHOOSE f : Folds(f)
<1>1. SumOf(nodes, S) = iter[S]
  BY DEF SumOf, MapThenSumSet, MapThenFoldSet, First
<1>2. \A s \in SUBSET S : s # {} => h[First(s)] = nodes[First(s)].value
  <2>1. \A s \in SUBSET S : s # {} => First(s) \in DOMAIN nodes
    BY DEF First
  <2> QED BY <2>1 DEF NodeValue
<1> HIDE DEF h
<1>3. \A f : Folds(f) <=> Solves(f, SUBSET S, h)
  BY <1>2 DEF Solves
<1>4. PICK g : Solves(g, SUBSET S, h) /\ SumOver(h, S) = g[S]
  BY SumIsSolved
<1> HIDE DEF Folds
<1>5. Folds(iter)
  BY <1>3, <1>4
<1>6. Solves(iter, SUBSET S, h)
  <2> HIDE DEF iter
  <2> QED BY <1>3, <1>5
<1> HIDE DEF iter
<1>7. iter[S] = g[S]
  BY <1>4, <1>6, SumIsUnique
<1> QED BY <1>1, <1>4, <1>7 DEF h

(* The sum of the rows is a sum of their figures.                          *)
LEMMA SumOfRows ==
  ASSUME NEW S \in SUBSET DOMAIN lines, IsFiniteSet(S), S = Rows
  PROVE  MapThenSumSet(LAMBDA i : lines[i].value, Rows) = SumOver(LineValue, Rows)
<1> DEFINE h == LineValue
           Folds(f) == f = [s \in SUBSET S |-> IF s = {} THEN 0
                                               ELSE lines[First(s)].value + f[s \ {First(s)}]]
           iter == CHOOSE f : Folds(f)
<1>1. MapThenSumSet(LAMBDA i : lines[i].value, Rows) = iter[S]
  BY DEF MapThenSumSet, MapThenFoldSet, First
<1>2. \A s \in SUBSET S : s # {} => h[First(s)] = lines[First(s)].value
  <2>1. \A s \in SUBSET S : s # {} => First(s) \in DOMAIN lines
    BY DEF First
  <2> QED BY <2>1 DEF LineValue
<1> HIDE DEF h
<1>3. \A f : Folds(f) <=> Solves(f, SUBSET S, h)
  BY <1>2 DEF Solves
<1>4. PICK g : Solves(g, SUBSET S, h) /\ SumOver(h, S) = g[S]
  BY SumIsSolved
<1> HIDE DEF Folds
<1>5. Folds(iter)
  BY <1>3, <1>4
<1>6. Solves(iter, SUBSET S, h)
  <2> HIDE DEF iter
  <2> QED BY <1>3, <1>5
<1> HIDE DEF iter
<1>7. iter[S] = g[S]
  BY <1>4, <1>6, SumIsUnique
<1> QED BY <1>1, <1>4, <1>7 DEF h

(* The sum of a column of figures is a sum of its cells.                   *)
LEMMA SumOfColumn ==
  ASSUME NEW cells \in Seq(Int), Absent \notin Int
  PROVE  ColumnSum(cells) = SumOver(cells, 1 .. Len(cells))
<1> DEFINE S == 1 .. Len(cells)
           Folds(f) == f = [s \in SUBSET S |-> IF s = {} THEN 0
                                               ELSE cells[First(s)] + f[s \ {First(s)}]]
           iter == CHOOSE f : Folds(f)
<1>1. Len(cells) \in Nat /\ DOMAIN cells = S /\ \A i \in S : cells[i] \in Int
  BY LenProperties
<1>2. {i \in DOMAIN cells : Given(cells[i])} = S
  BY <1>1 DEF Given
<1>3. ColumnSum(cells) = iter[S]
  BY <1>2 DEF ColumnSum, MapThenSumSet, MapThenFoldSet, First
<1>4. IsFiniteSet(S)
  BY <1>1, FS_Interval
<1> HIDE DEF S
<1>5. \A f : Folds(f) <=> Solves(f, SUBSET S, cells)
  BY DEF Solves
<1>6. PICK g : Solves(g, SUBSET S, cells) /\ SumOver(cells, S) = g[S]
  BY <1>4, SumIsSolved
<1> HIDE DEF Folds
<1>7. Folds(iter)
  BY <1>5, <1>6
<1>8. Solves(iter, SUBSET S, cells)
  <2> HIDE DEF iter
  <2> QED BY <1>5, <1>7
<1> HIDE DEF iter
<1>9. iter[S] = g[S]
  BY <1>4, <1>6, <1>8, SumIsUnique
<1> QED BY <1>3, <1>6, <1>9 DEF S
-----------------------------------------------------------------------------
(* The rows of a plain invoice *)

(* What a sequence of nodes is after one more.                             *)
LEMMA MoreNodes ==
  ASSUME NEW nodes, AreNodes(nodes), NEW x, x.value \in Int,
         NEW more, more = Append(nodes, x)
  PROVE  /\ Len(nodes) \in Nat /\ DOMAIN nodes = 1 .. Len(nodes)
         /\ DOMAIN more = 1 .. Len(nodes) + 1 /\ more[Len(nodes) + 1] = x
         /\ \A j \in 1 .. Len(nodes) : more[j] = nodes[j]
         /\ AreNodes(more)
<1> DEFINE S == {nodes[i] : i \in DOMAIN nodes} \cup {x}
<1>1. nodes \in Seq(S) /\ x \in S
  BY SeqMonotonic DEF AreNodes
<1> HIDE DEF S
<1>2. Len(nodes) \in Nat /\ DOMAIN nodes = 1 .. Len(nodes)
  BY <1>1, LenProperties
<1>3. /\ DOMAIN more = 1 .. Len(nodes) + 1 /\ more[Len(nodes) + 1] = x
      /\ \A j \in 1 .. Len(nodes) : more[j] = nodes[j]
  BY <1>1, <1>2
<1>4. AreNodes(more)
  BY AppendNode
<1> QED BY <1>2, <1>3, <1>4

(* Among the first n lines, the items published and the nodes of the rows  *)
(* are as many as the rows, and add up to the same.                        *)
RowsTo(n) == Rows \cap (1 .. n)
SumsUp(nodes, n) ==
    /\ LineItems(nodes) \in Seq(Int) /\ Len(LineItems(nodes)) = Cardinality(RowsTo(n))
    /\ SumOver(LineItems(nodes), 1 .. Len(LineItems(nodes))) = SumOver(LineValue, RowsTo(n))
    /\ SumOver(NodeValue(nodes), At(nodes, "line")) = SumOver(LineValue, RowsTo(n))
    /\ RowsTo(n) = {} => At(nodes, "line") = {}

(* The rows are charges and come first, and no figure is stated twice.     *)
Ordered(nodes) ==
    /\ \A j \in At(nodes, "line") :
           /\ nodes[j].value > 0
           /\ \A k \in DOMAIN nodes : nodes[k].role \in SummaryWords => j < k
    /\ \A w \in SummaryWords : \A j, k \in At(nodes, w) : j = k

(* A node of the summary adds nothing to what the rows come to.            *)
LEMMA ReadSummary ==
  ASSUME NEW nodes, AreNodes(nodes), NEW n \in Nat, SumsUp(nodes, n), n + 1 \notin Rows,
         NEW x, x.value \in Int, x.role # "line", NEW more, more = Append(nodes, x)
  PROVE  SumsUp(more, n + 1)
<1>1. RowsTo(n + 1) = RowsTo(n)
  BY DEF RowsTo
<1>2. LineItems(more) = LineItems(nodes)
  BY ItemsOfMore DEF TakeItem
<1>3. At(more, "line") = At(nodes, "line")
  BY MoreNodes DEF At
<1>4. \A j \in At(nodes, "line") : NodeValue(more)[j] = NodeValue(nodes)[j]
  BY MoreNodes DEF At, NodeValue
<1>5. IsFiniteSet(At(nodes, "line"))
  <2>1. Len(nodes) \in Nat /\ DOMAIN nodes = 1 .. Len(nodes)
    BY MoreNodes
  <2>2. At(nodes, "line") \subseteq 1 .. Len(nodes)
    BY <2>1 DEF At
  <2>3. IsFiniteSet(1 .. Len(nodes))
    BY <2>1, FS_Interval
  <2> QED BY <2>2, <2>3, FS_Subset
<1>6. SumOver(NodeValue(more), At(nodes, "line")) = SumOver(NodeValue(nodes), At(nodes, "line"))
  BY <1>4, <1>5, SumsAgree
<1> QED BY <1>1, <1>2, <1>3, <1>6 DEF SumsUp

(* The node of a row adds the figure of its row to nodes and items alike.  *)
LEMMA ReadRow ==
  ASSUME NEW nodes, AreNodes(nodes), NEW n \in Nat, SumsUp(nodes, n), n + 1 \in Rows,
         DOMAIN lines \in SUBSET Nat, \A i \in RowsTo(n) : lines[i].value \in Int,
         NEW x, x.value \in Int, x.value > 0, x.role = "line", x.value = lines[n + 1].value,
         NEW more, more = Append(nodes, x)
  PROVE  SumsUp(more, n + 1)
<1> DEFINE rows == RowsTo(n)
           cells == LineItems(nodes)
           grown == Append(cells, x.value)
           N == Len(nodes)
           k == Len(cells)
           items == At(nodes, "line")
           total == SumOver(LineValue, rows)
<1>1. RowsTo(n + 1) = rows \cup {n + 1} /\ n + 1 \notin rows /\ rows \subseteq 1 .. n
  BY DEF RowsTo
<1>2. IsFiniteSet(rows) /\ Cardinality(RowsTo(n + 1)) = Cardinality(rows) + 1
  <2>1. IsFiniteSet(rows)
    <3>1. IsFiniteSet(1 .. n)
      BY FS_Interval
    <3> HIDE DEF rows
    <3> QED BY <1>1, <3>1, FS_Subset
  <2> HIDE DEF rows
  <2> QED BY <1>1, <2>1, FS_AddElement
<1>3. /\ cells \in Seq(Int) /\ k = Cardinality(rows) /\ SumOver(cells, 1 .. k) = total
      /\ SumOver(NodeValue(nodes), items) = total
  BY DEF SumsUp
<1>4. LineItems(more) = grown
  BY ItemsOfMore DEF TakeItem
<1>5. /\ N \in Nat /\ DOMAIN nodes = 1 .. N
      /\ DOMAIN more = 1 .. N + 1 /\ more[N + 1] = x
      /\ \A j \in 1 .. N : more[j] = nodes[j]
  BY MoreNodes
<1>6. At(more, "line") = items \cup {N + 1} /\ N + 1 \notin items /\ items \subseteq 1 .. N
  BY <1>5 DEF At
<1>7. \A i \in rows \cup {n + 1} : LineValue[i] = lines[i].value /\ LineValue[i] \in Int
  BY <1>1 DEF LineValue, RowsTo, Rows
<1>8. SumOver(LineValue, RowsTo(n + 1)) = total + x.value /\ total \in Int
  <2> HIDE DEF rows
  <2> DEFINE h == LineValue
             m == n + 1
  <2>1. m \notin rows /\ IsFiniteSet(rows) /\ \A i \in rows \cup {m} : h[i] \in Int
    BY <1>1, <1>2, <1>7
  <2>2. h[m] = x.value /\ RowsTo(n + 1) = rows \cup {m}
    BY <1>1, <1>7
  <2> HIDE DEF h, m
  <2>3. SumOver(h, rows \cup {m}) = SumOver(h, rows) + h[m]
    BY <2>1, SumOfMore
  <2>4. SumOver(h, rows) \in Int
    BY <2>1, SumType
  <2> QED BY <2>2, <2>3, <2>4 DEF h
<1> HIDE DEF total, rows
<1>9. k \in Nat /\ DOMAIN cells = 1 .. k /\ \A i \in 1 .. k : cells[i] \in Int
  BY <1>3, LenProperties
<1>10. /\ grown \in Seq(Int) /\ Len(grown) = k + 1 /\ grown[k + 1] = x.value
       /\ \A i \in 1 .. k : grown[i] = cells[i]
  <2> HIDE DEF cells
  <2> QED BY <1>3, <1>9
<1> HIDE DEF grown, cells, k
<1>11. SumOver(grown, 1 .. k + 1) = total + x.value
  <2> DEFINE A == 1 .. k
             a == k + 1
  <2>1. 1 .. k + 1 = A \cup {a} /\ a \notin A
    BY <1>9
  <2>2. IsFiniteSet(A)
    <3>1. k \in Int /\ 1 \in Int
      BY <1>9
    <3> QED BY <3>1, FS_Interval
  <2>3. \A i \in A \cup {a} : grown[i] \in Int
    BY <1>9, <1>10
  <2>4. grown[a] = x.value /\ \A i \in A : grown[i] = cells[i]
    BY <1>10
  <2>5. SumOver(cells, A) = total
    BY <1>3
  <2> HIDE DEF A, a
  <2>6. SumOver(grown, A \cup {a}) = SumOver(grown, A) + grown[a]
    BY <2>1, <2>2, <2>3, SumOfMore
  <2>7. SumOver(grown, A) = SumOver(cells, A)
    BY <2>2, <2>4, SumsAgree
  <2> QED BY <2>1, <2>4, <2>5, <2>6, <2>7
<1>12. SumOver(NodeValue(more), At(more, "line")) = total + x.value
  <2>1. IsFiniteSet(items)
    <3>1. IsFiniteSet(1 .. N)
      BY <1>5, FS_Interval
    <3> HIDE DEF items
    <3> QED BY <1>6, <3>1, FS_Subset
  <2>2. \A j \in items \cup {N + 1} : NodeValue(more)[j] \in Int
    BY <1>5, <1>6 DEF NodeValue, AreNodes
  <2>3. \A j \in items : NodeValue(more)[j] = NodeValue(nodes)[j]
    BY <1>5, <1>6 DEF NodeValue
  <2>4. NodeValue(more)[N + 1] = x.value
    BY <1>5 DEF NodeValue
  <2> HIDE DEF items, N
  <2>5. SumOver(NodeValue(more), items \cup {N + 1}) =
            SumOver(NodeValue(more), items) + NodeValue(more)[N + 1]
    BY <1>6, <2>1, <2>2, SumOfMore
  <2>6. SumOver(NodeValue(more), items) = SumOver(NodeValue(nodes), items)
    BY <2>1, <2>3, SumsAgree
  <2> QED BY <1>3, <1>6, <2>4, <2>5, <2>6
<1>13. RowsTo(n + 1) # {}
  BY <1>1
<1>14. Len(grown) = Cardinality(RowsTo(n + 1))
  BY <1>2, <1>3, <1>10
<1> QED BY <1>4, <1>8, <1>10, <1>11, <1>12, <1>13, <1>14 DEF SumsUp

(* The nodes of the rows, and the items, add up to the rows of a plain     *)
(* invoice.                                                                *)
LEMMA PlainRows ==
  ASSUME ViewInv, IsPlainInvoice(TRUE), IsClearlyLabelled
  PROVE  SumsUp(ParseMoneyNodes(lines), Len(lines)) /\ Ordered(ParseMoneyNodes(lines))
<1> DEFINE Reader(n) == Readings(lines)[n]
           Good == {n \in 0 .. Len(lines) : SumsUp(Reader(n).nodes, n) /\ Ordered(Reader(n).nodes)}
<1>1. Len(lines) \in Nat /\ DOMAIN lines = 1 .. Len(lines)
  BY TextOfLines DEF ViewInv
<1>2. \A n \in 0 .. Len(lines) :
          /\ ReaderOK(Reader(n)) /\ PlainText(Reader(n).pending)
          /\ Accounted(Reader(n).nodes, n)
  BY <1>1, PlainLines, ReadingsOK, PlainReadings
<1>3. 0 \in Good
  <2>1. Reader(0) = Blank
    BY <1>1, ReadingStep
  <2>2. RowsTo(0) = {} /\ At(<<>>, "line") = {}
    BY DEF RowsTo, At
  <2>3. LineItems(<<>>) = <<>> /\ Len(<<>>) = 0 /\ <<>> \in Seq(Int) /\ 1 .. 0 = {}
    BY ItemsOfNone, EmptySeq
  <2>4. SumsUp(<<>>, 0)
    BY <2>2, <2>3, SumOfNone, FS_EmptySet DEF SumsUp
  <2>5. Ordered(<<>>)
    BY DEF Ordered, At
  <2> QED BY <1>1, <2>1, <2>4, <2>5 DEF Blank
<1>4. ASSUME NEW n \in 0 .. Len(lines) - 1, n \in Good PROVE n + 1 \in Good
  <2> DEFINE r == Reader(n)
             line == lines[n + 1]
  <2>1. /\ n + 1 \in 1 .. Len(lines) /\ (n + 1) - 1 = n /\ n \in 0 .. Len(lines) /\ n \in Nat
        /\ n + 1 \in DOMAIN lines
    BY <1>1
  <2>2. Reader(n + 1) = Read(r, line)
    BY <1>1, <2>1, ReadingStep
  <2>3. /\ PlainLine(line) /\ IsLine(line) /\ ReaderOK(r) /\ PlainText(r.pending)
        /\ Accounted(r.nodes, n) /\ SumsUp(r.nodes, n) /\ Ordered(r.nodes)
    BY <1>2, <1>4, <2>1, PlainLines
  <2>4. AreNodes(r.nodes)
    BY <2>3 DEF ReaderOK
  <2>5. n + 1 \in Rows <=> IsPriced(line)
    BY <2>1 DEF Rows
  <2> HIDE DEF r, line
  <2>6. CASE line.type # "money"
    <3>1. Reader(n + 1).nodes = r.nodes
      BY <2>2, <2>3, <2>6, PlainWords
    <3>2. ~IsPriced(line)
      BY <2>3, <2>6 DEF PlainLine, IsPriced
    <3>3. RowsTo(n + 1) = RowsTo(n)
      BY <2>1, <2>5, <3>2 DEF RowsTo
    <3>4. SumsUp(r.nodes, n + 1)
      BY <2>3, <3>3 DEF SumsUp
    <3> QED BY <2>1, <2>3, <3>1, <3>4
  <2>7. CASE line.type = "money"
    <3> DEFINE x == NodeOf(r, line)
               nodes == Append(r.nodes, x)
               N == Len(r.nodes)
    <3>1. /\ Reader(n + 1) = [nodes |-> nodes, pending |-> <<>>, hint |-> Absent]
          /\ x.value = line.value
          /\ IF IsPriced(line) THEN x.role = "line"
             ELSE x.role \in SummaryWords /\ line.words = {x.role}
      BY <2>2, <2>3, <2>7, PlainFigure
    <3>2. x.value \in Int
      BY <2>3, <2>7, <3>1 DEF IsLine
    <3> HIDE DEF x, nodes
    <3>3. /\ N \in Nat /\ DOMAIN r.nodes = 1 .. N
          /\ DOMAIN nodes = 1 .. N + 1 /\ nodes[N + 1] = x
          /\ \A j \in 1 .. N : nodes[j] = r.nodes[j]
      BY <2>4, <3>2, MoreNodes DEF nodes
    <3>4. "line" \notin SummaryWords
      BY DEF SummaryWords
    <3>5. CASE IsPriced(line)
      <4>1. n + 1 \in Rows /\ x.role = "line" /\ x.value > 0 /\ x.value = lines[n + 1].value
        BY <2>1, <2>5, <3>1, <3>5 DEF IsClearlyLabelled, line
      <4>2. \A i \in RowsTo(n) : lines[i].value \in Int
        <5> TAKE i \in RowsTo(n)
        <5>1. i \in DOMAIN lines /\ IsPriced(lines[i])
          BY DEF RowsTo, Rows
        <5>2. lines[i].type = "money"
          BY <1>1, <5>1, PlainLines DEF PlainLine, IsPriced
        <5> QED BY <1>1, <5>1, <5>2, PlainLines DEF IsLine
      <4>3. DOMAIN lines \in SUBSET Nat
        BY <1>1
      <4>4. SumsUp(nodes, n + 1)
        BY <2>1, <2>3, <2>4, <3>2, <4>1, <4>2, <4>3, ReadRow DEF nodes
      <4>5. \A j \in DOMAIN r.nodes : r.nodes[j].role \notin SummaryWords
        <5> SUFFICES ASSUME NEW j \in DOMAIN r.nodes, r.nodes[j].role \in SummaryWords
                     PROVE FALSE
          OBVIOUS
        <5>1. PICK w \in SummaryWords : j \in At(r.nodes, w)
          BY DEF At
        <5>2. PICK i \in Stands(w, n) : TRUE
          BY <2>3, <5>1 DEF Accounted
        <5>3. i \in SummaryLines(w) /\ i <= n /\ i \in DOMAIN lines
          BY <5>2 DEF Stands, SummaryLines
        <5>4. n + 1 < i
          BY <4>1, <5>3 DEF IsPlainInvoice
        <5> QED BY <1>1, <2>1, <5>3, <5>4
      <4>6. Ordered(nodes)
        <5>1. \A w \in SummaryWords : At(nodes, w) = {}
          BY <3>3, <3>4, <4>1, <4>5 DEF At
        <5>2. \A k \in DOMAIN nodes : nodes[k].role \notin SummaryWords
          BY <5>1 DEF At
        <5>3. ASSUME NEW j \in At(nodes, "line") PROVE nodes[j].value > 0
          <6>1. CASE j = N + 1
            BY <3>3, <4>1, <6>1
          <6>2. CASE j # N + 1
            <7>1. j \in At(r.nodes, "line") /\ nodes[j] = r.nodes[j]
              BY <3>3, <6>2 DEF At
            <7> QED BY <2>3, <7>1 DEF Ordered
          <6> QED BY <6>1, <6>2
        <5> QED BY <5>1, <5>2, <5>3 DEF Ordered
      <4> QED BY <2>1, <3>1, <4>4, <4>6
    <3>6. CASE ~IsPriced(line)
      <4>1. n + 1 \notin Rows /\ x.role \in SummaryWords /\ line.words = {x.role} /\ x.role # "line"
        BY <2>5, <3>1, <3>4, <3>6
      <4>2. SumsUp(nodes, n + 1)
        BY <2>1, <2>3, <2>4, <3>2, <4>1, ReadSummary DEF nodes
      <4>3. At(r.nodes, x.role) = {}
        <5> SUFFICES ASSUME NEW j \in At(r.nodes, x.role) PROVE FALSE
          OBVIOUS
        <5>1. PICK i \in Stands(x.role, n) : TRUE
          BY <2>3, <4>1 DEF Accounted
        <5>2. i \in SummaryLines(x.role) /\ i <= n /\ i \in DOMAIN lines
          BY <5>1 DEF Stands, SummaryLines
        <5>3. n + 1 \in SummaryLines(x.role)
          BY <2>1, <4>1 DEF SummaryLines, line
        <5>4. \E m \in 1 .. Len(lines) : SummaryLines(x.role) = {m}
          BY <4>1, <5>2, AmountStated
        <5> QED BY <1>1, <2>1, <5>2, <5>3, <5>4
      <4>4. \A j \in At(nodes, "line") : nodes[j].value > 0
        BY <2>3, <3>3, <4>1 DEF Ordered, At
      <4>5. \A j \in At(nodes, "line") : \A k \in DOMAIN nodes :
                nodes[k].role \in SummaryWords => j < k
        <5> TAKE j \in At(nodes, "line")
        <5> TAKE k \in DOMAIN nodes
        <5>1. j \in 1 .. N /\ j \in At(r.nodes, "line")
          BY <3>3, <4>1 DEF At
        <5>2. CASE k = N + 1
          BY <3>3, <5>1, <5>2
        <5>3. CASE k # N + 1
          BY <2>3, <3>3, <5>1, <5>3 DEF Ordered
        <5> QED BY <5>2, <5>3
      <4>6. ASSUME NEW w \in SummaryWords, NEW j \in At(nodes, w), NEW k \in At(nodes, w)
            PROVE  j = k
        <5>1. CASE w = x.role
          BY <3>3, <4>3, <5>1 DEF At
        <5>2. CASE w # x.role
          <6>1. j \in At(r.nodes, w) /\ k \in At(r.nodes, w)
            BY <3>3, <5>2 DEF At
          <6> QED BY <2>3, <6>1 DEF Ordered
        <5> QED BY <5>1, <5>2
      <4>7. Ordered(nodes)
        BY <4>4, <4>5, <4>6 DEF Ordered
      <4> QED BY <2>1, <3>1, <4>2, <4>7
    <3> QED BY <3>5, <3>6
  <2> QED BY <2>6, <2>7
<1>5. 0 .. Len(lines) \subseteq Good
  <2> HIDE DEF Good
  <2> QED BY <1>1, <1>3, <1>4, UpTo
<1> QED BY <1>1, <1>5 DEF ParseMoneyNodes

-----------------------------------------------------------------------------
(* Honest invoices *)

(* The rows of a plain invoice add up to the lines the tree reads. *)
LEMMA PlainRowSum ==
  ASSUME ViewInv, IsPlainInvoice(TRUE), IsClearlyLabelled, RowsAddUp, Rows # {},
         NEW nodes, nodes = ParseMoneyNodes(lines)
  PROVE  /\ SumOf(nodes, At(nodes, "line")) = Amount("subtotal")
         /\ LineItems(nodes) \in Seq(Int)
         /\ SumOver(LineItems(nodes), 1 .. Len(LineItems(nodes))) = Amount("subtotal")
         /\ Len(LineItems(nodes)) = Cardinality(Rows)
         /\ SumOver(LineValue, Rows) = Amount("subtotal")
<1>1. Len(lines) \in Nat /\ DOMAIN lines = 1 .. Len(lines)
  BY TextOfLines DEF ViewInv
<1>2. RowsTo(Len(lines)) = Rows /\ Rows \subseteq 1 .. Len(lines)
  BY <1>1 DEF RowsTo, Rows
<1>3. SumsUp(nodes, Len(lines)) /\ AreNodes(nodes)
  BY PlainRows, NodesOfText DEF ViewInv
<1>4. IsFiniteSet(Rows)
  <2>1. IsFiniteSet(1 .. Len(lines))
    BY <1>1, FS_Interval
  <2> QED BY <1>2, <2>1, FS_Subset
<1>5. SumOver(LineValue, Rows) = Amount("subtotal")
  <2>1. MapThenSumSet(LAMBDA i : lines[i].value, Rows) = Amount("subtotal")
    BY DEF RowsAddUp
  <2>2. MapThenSumSet(LAMBDA i : lines[i].value, Rows) = SumOver(LineValue, Rows)
    BY <1>1, <1>2, <1>4, SumOfRows
  <2> QED BY <2>1, <2>2
<1>6. SumOf(nodes, At(nodes, "line")) = SumOver(NodeValue(nodes), At(nodes, "line"))
  <2>1. Len(nodes) \in Nat /\ DOMAIN nodes = 1 .. Len(nodes)
    BY <1>3, LenProperties DEF AreNodes
  <2>2. At(nodes, "line") \subseteq DOMAIN nodes
    BY DEF At
  <2>3. IsFiniteSet(1 .. Len(nodes))
    BY <2>1, FS_Interval
  <2>4. IsFiniteSet(At(nodes, "line"))
    BY <2>1, <2>2, <2>3, FS_Subset
  <2> QED BY <2>2, <2>4, SumOfNodes
<1> QED BY <1>2, <1>3, <1>5, <1>6 DEF SumsUp

(* Every section the tree checks in an honest invoice is its rows. *)
LEMMA HonestSections ==
  ASSUME ViewInv, IsPlainInvoice(TRUE), IsClearlyLabelled, RowsAddUp,
         NEW nodes, nodes = ParseMoneyNodes(lines), NEW r \in Sections(nodes)
  PROVE  r.ok
<1>1. /\ Ordered(nodes) /\ SumsUp(nodes, Len(lines)) /\ AreNodes(nodes)
      /\ Accounted(nodes, Len(lines))
  BY PlainRows, PlainNodes, NodesOfText DEF ViewInv
<1>2. Len(nodes) \in Nat /\ DOMAIN nodes = 1 .. Len(nodes)
  BY <1>1, LenProperties DEF AreNodes
<1>3. PICK s \in At(nodes, "subtotal") :
          /\ Cardinality(SectionLines(nodes, s)) >= 2
          /\ r = Check(<<"section", s>>, nodes[s].value, SumOf(nodes, SectionLines(nodes, s)))
  BY DEF Sections
<1>4. "subtotal" \in SummaryWords
  BY DEF SummaryWords
<1>5. PositiveLines(nodes) = At(nodes, "line")
  <2> SUFFICES ASSUME NEW i \in At(nodes, "line") PROVE nodes[i].value > 0 /\ ~IsEcho(nodes, i)
    BY DEF PositiveLines
  <2>1. nodes[i].value > 0
    BY <1>1 DEF Ordered
  <2>2. ASSUME NEW j \in 1 .. i - 1, nodes[j].role \notin {"line", "subtotal"} PROVE FALSE
    <3>1. i \in 1 .. Len(nodes)
      BY <1>2 DEF At
    <3>2. j \in DOMAIN nodes /\ j < i /\ i \in Int /\ j \in Int
      BY <1>2, <3>1
    <3>3. nodes[j].role \in SummaryWords
      BY <1>1, <2>2, <3>2 DEF Accounted
    <3>4. i < j
      BY <1>1, <3>2, <3>3 DEF Ordered
    <3> QED BY <3>2, <3>4
  <2> QED BY <2>1, <2>2 DEF IsEcho
<1>6. SectionLines(nodes, s) = At(nodes, "line")
  <2> SUFFICES ASSUME NEW i \in At(nodes, "line")
               PROVE  i < s /\ \A j \in i .. s - 1 : nodes[j].role # "subtotal"
    BY <1>5 DEF SectionLines
  <2>1. s \in 1 .. Len(nodes) /\ nodes[s].role = "subtotal" /\ i \in 1 .. Len(nodes)
    BY <1>2 DEF At
  <2>2. i < s
    BY <1>1, <1>2, <1>4, <2>1 DEF Ordered
  <2>3. ASSUME NEW j \in i .. s - 1, nodes[j].role = "subtotal" PROVE FALSE
    <3>1. j \in 1 .. Len(nodes) /\ j # s
      BY <1>2, <2>1
    <3>2. j \in At(nodes, "subtotal")
      BY <1>2, <2>3, <3>1 DEF At
    <3> QED BY <1>1, <1>4, <3>1, <3>2 DEF Ordered
  <2> QED BY <2>2, <2>3
<1>7. Rows # {}
  <2>1. At(nodes, "line") # {}
    BY <1>3, <1>6, FS_EmptySet
  <2> QED BY <1>1, <2>1 DEF SumsUp, RowsTo
<1>8. nodes[s].value = Amount("subtotal")
  <2>1. ByRole(nodes, "subtotal") = Amount("subtotal")
    BY <1>4, PlainAmounts
  <2>2. Max(At(nodes, "subtotal")) \in At(nodes, "subtotal")
    BY <1>2, <1>3, LastPosition DEF At
  <2>3. Max(At(nodes, "subtotal")) = s
    BY <1>1, <1>3, <1>4, <2>2 DEF Ordered
  <2> QED BY <1>3, <2>1, <2>3 DEF ByRole, Stated
<1>9. SumOf(nodes, At(nodes, "line")) = Amount("subtotal")
  BY <1>7, PlainRowSum
<1> DEFINE ok == nodes[s].value = SumOf(nodes, SectionLines(nodes, s))
<1>10. ok
  BY <1>6, <1>8, <1>9
<1>11. r = [region |-> <<"section", s>>, ok |-> ok]
  BY <1>3 DEF Check
<1> HIDE DEF ok
<1> QED BY <1>10, <1>11

(* The tree confirms an honest invoice. *)
LEMMA HonestTree ==
  ASSUME ViewInv, IsPlainInvoice(TRUE), IsClearlyLabelled, RowsAddUp, Balances,
         NEW nodes, nodes = ParseMoneyNodes(lines)
  PROVE  /\ TreeVerdict(nodes) = "CONFIRM" /\ TreeTotal(nodes) = Amount("total")
         /\ Amount("total") \in Int
<1>1. /\ Stated(nodes, "total") /\ Stated(nodes, "subtotal") /\ DerivedTotal(nodes) = Absent
  BY PlainRollUp
<1>2. PICK ok \in BOOLEAN :
          TotalChain(nodes) = {[region |-> <<"to_total">>, ok |-> ok]} /\ (ok <=> Balances)
  BY PlainRollUp
<1>3. "total" \in SummaryWords
  BY DEF SummaryWords
<1>4. ByRole(nodes, "total") = Amount("total") /\ Amount("total") \in Int
      /\ ~Stated(nodes, "taxable_subtotal")
  BY <1>3, PlainAmounts
<1>5. \A r \in TotalChain(nodes) : r.ok
  <2> DEFINE chain == [region |-> <<"to_total">>, ok |-> ok]
  <2>1. chain.ok = ok
    OBVIOUS
  <2>2. TotalChain(nodes) = {chain}
    BY <1>2
  <2> HIDE DEF chain
  <2> QED BY <1>2, <2>1, <2>2
<1>6. \A r \in GrandSubtotal(nodes) : r.ok
  BY DEF GrandSubtotal
<1>7. Taxable(nodes) = {} /\ LoneSubtotal(nodes) = {}
  BY <1>1, <1>4 DEF Taxable, LoneSubtotal
<1>8. \A r \in Sections(nodes) : r.ok
  BY HonestSections
<1>9. \A r \in Regions(nodes) : r.ok
  BY <1>5, <1>6, <1>7, <1>8 DEF Regions
<1>10. Regions(nodes) # {}
  BY <1>2 DEF Regions
<1> QED BY <1>1, <1>4, <1>9, <1>10 DEF TreeVerdict, TreeTotal

(* A figure found by its label is the amount the invoice states. *)
LEMMA HonestField ==
  ASSUME ViewInv, IsPlainInvoice(TRUE), IsClearlyLabelled,
         NEW f \in {"subtotal", "total"}, f \in DOMAIN ResolvedFields(lines)
  PROVE  ResolvedFields(lines)[f] = Amount(f)
<1> DEFINE values == ValuesOf(lines, f)
           raw == CHOOSE x \in values : TRUE
<1>1. ResolvedFields(lines)[f] = raw.value /\ Cardinality(values) = 1
  BY DEF ResolvedFields
<1>2. raw \in values
  <2> HIDE DEF values
  <2>1. Cardinality({}) = 0
    BY FS_EmptySet
  <2>2. values # {}
    BY <1>1, <2>1
  <2> QED BY <2>2
<1>3. ~Schema[f].heading
  BY DEF Schema, FieldSpec
<1>4. raw \in FromKeyValues(lines, Schema[f].aliases)
  <2> HIDE DEF raw
  <2> QED BY <1>2, <1>3 DEF ValuesOf
<1>5. \A a \in DOMAIN Schema[f].aliases :
          Schema[f].aliases[a] \in MoneyLabels \ (SummaryWords \ {f})
  BY DEF Schema, FieldSpec, MoneyLabels, SummaryWords
<1>6. \E label \in MoneyLabels \ (SummaryWords \ {f}) : raw \in ValuesUnder(lines, label)
  <2> HIDE DEF raw
  <2> DEFINE aliases == Schema[f].aliases
             matching == {a \in DOMAIN aliases : ValuesUnder(lines, aliases[a]) # {}}
  <2>1. matching # {} /\ raw \in ValuesUnder(lines, aliases[Min(matching)])
    BY <1>4 DEF FromKeyValues
  <2>2. DOMAIN aliases \in SUBSET Nat
    BY DEF Schema, FieldSpec
  <2>3. Min(matching) \in DOMAIN aliases
    <3> HIDE DEF aliases
    <3>1. matching \in SUBSET Nat
      BY <2>2
    <3>2. PICK m \in matching : \A k \in matching : m <= k
      <4> HIDE DEF matching
      <4> QED BY <2>1, <3>1, LeastNatural
    <3>3. Min(matching) \in matching
      <4> HIDE DEF matching
      <4> QED BY <3>2 DEF Min
    <3> QED BY <3>3
  <2> HIDE DEF aliases, matching
  <2> QED BY <1>5, <2>1, <2>3 DEF aliases
<1>7. PICK label \in MoneyLabels \ (SummaryWords \ {f}), i \in Labelled(lines) :
          label \in lines[i].keys /\ raw = Raw(ValueLine(lines, i))
  <2> HIDE DEF raw
  <2> QED BY <1>6 DEF ValuesUnder
<1>8. Len(lines) \in Nat /\ DOMAIN lines = 1 .. Len(lines) /\ i \in DOMAIN lines
  BY TextOfLines DEF ViewInv, Labelled
<1>9. PlainLine(lines[i]) /\ \A j \in DOMAIN lines : lines[j].shape # "blank"
  BY <1>8, PlainLines DEF PlainLine, IsPriced
<1>10. raw.value = lines[i].value
  <2> HIDE DEF raw
  <2> QED BY <1>7, <1>9 DEF ValueLine, NamesNext, Raw
<1>11. i \notin Rows /\ label \in lines[i].words
  BY <1>7, <1>8 DEF IsClearlyLabelled
<1>12. i \in SummaryLines(f)
  <2>1. ~IsPriced(lines[i])
    BY <1>8, <1>11 DEF Rows
  <2>2. PICK w \in SummaryWords : lines[i].words = {w}
    BY <1>9, <1>11, <2>1 DEF PlainLine
  <2>3. w = f
    BY <1>7, <1>11, <2>2
  <2> QED BY <1>8, <1>11, <2>2, <2>3 DEF SummaryLines
<1>13. f \in SummaryWords
  BY DEF SummaryWords
<1>14. Amount(f) = lines[i].value
  BY <1>12, <1>13, AmountStated
<1> HIDE DEF raw
<1> QED BY <1>1, <1>10, <1>14

(* A run of values adds up to the same wherever it begins. *)
Copies(h, k, m, N) == \A i \in 1 .. N : h[i] = k[m + i - 1] /\ h[i] \in Int
RunFrom(m, N) == m .. m + N - 1

(* Terms copied from a run of consecutive places have the sum of that run. *)
LEMMA SumOfRun ==
  ASSUME NEW h, NEW k, NEW m \in Int, NEW N \in Nat, Copies(h, k, m, N)
  PROVE  SumOver(h, 1 .. N) = SumOver(k, RunFrom(m, N))
<1> USE DEF Copies, RunFrom
<1> DEFINE Good == {n \in 0 .. N : SumOver(h, 1 .. n) = SumOver(k, m .. m + n - 1)}
<1>1. 0 \in Good
  <2>1. 1 .. 0 = {} /\ m .. m + 0 - 1 = {}
    OBVIOUS
  <2> QED BY <2>1, SumOfNone
<1>2. ASSUME NEW n \in 0 .. N - 1, n \in Good PROVE n + 1 \in Good
  <2> DEFINE A == 1 .. n
             B == m .. m + n - 1
             a == n + 1
             b == m + n
  <2>1. 1 .. n + 1 = A \cup {a} /\ a \notin A /\ m .. m + (n + 1) - 1 = B \cup {b} /\ b \notin B
    OBVIOUS
  <2>2. IsFiniteSet(A) /\ IsFiniteSet(B)
    BY FS_Interval
  <2>3. \A i \in A \cup {a} : h[i] \in Int
    OBVIOUS
  <2>4. \A j \in B \cup {b} : k[j] \in Int
    <3> TAKE j \in B \cup {b}
    <3>1. j - m + 1 \in 1 .. N /\ m + (j - m + 1) - 1 = j
      OBVIOUS
    <3> QED BY <3>1
  <2>5. h[a] = k[b]
    <3>1. a \in 1 .. N /\ m + a - 1 = b
      OBVIOUS
    <3> HIDE DEF a, b
    <3> QED BY <3>1
  <2>6. SumOver(h, A) = SumOver(k, B) /\ n + 1 \in 0 .. N
    BY <1>2
  <2> HIDE DEF A, B, a, b
  <2>7. SumOver(h, A \cup {a}) = SumOver(h, A) + h[a]
    BY <2>1, <2>2, <2>3, SumOfMore
  <2>8. SumOver(k, B \cup {b}) = SumOver(k, B) + k[b]
    BY <2>1, <2>2, <2>4, SumOfMore
  <2> QED BY <2>1, <2>5, <2>6, <2>7, <2>8
<1>3. 0 .. N \subseteq Good
  <2> HIDE DEF Good
  <2> QED BY <1>1, <1>2, UpTo
<1> QED BY <1>3

(* The first table has rows of the document, each of them once. *)
LEMMA TableLength ==
  ASSUME ViewInv
  PROVE  Len(FirstTable(lines)) \in Nat /\ (Rows = {} => FirstTable(lines) = <<>>)
<1> DEFINE m == Min(Rows)
           first == {i \in Rows : \A j \in m .. i : j \in Rows}
           K == Cardinality(first)
           amount(i) == IF lines[m + i - 1].type = "money" THEN lines[m + i - 1].value ELSE Absent
           table == [i \in 1 .. K |-> amount(i)]
<1>1. FirstTable(lines) = table
  BY DEF FirstTable, Rows
<1>2. K \in Nat
  <2>1. Len(lines) \in Nat /\ DOMAIN lines = 1 .. Len(lines)
    BY TextOfLines DEF ViewInv
  <2>2. first \subseteq 1 .. Len(lines)
    BY <2>1 DEF Rows
  <2>3. IsFiniteSet(1 .. Len(lines))
    BY <2>1, FS_Interval
  <2> HIDE DEF first
  <2> QED BY <2>2, <2>3, FS_Subset, FS_CardinalityType
<1>3. Rows = {} => K = 0
  <2>1. Rows = {} => first = {}
    OBVIOUS
  <2> HIDE DEF first
  <2> QED BY <2>1, FS_EmptySet
<1> HIDE DEF K, amount
<1>4. table \in Seq({amount(i) : i \in 1 .. K})
  BY <1>2
<1>5. Len(table) \in Nat
  BY <1>4, LenProperties
<1>6. K = 0 => table = <<>>
  OBVIOUS
<1> QED BY <1>1, <1>3, <1>5, <1>6

(* A first table that holds every row of a plain invoice adds up to them. *)
LEMMA PlainTable ==
  ASSUME ViewInv, IsPlainInvoice(TRUE), NEW table, table = FirstTable(lines),
         Len(table) >= Cardinality(Rows), table # <<>>
  PROVE  /\ Rows # {} /\ table \in Seq(Int)
         /\ SumOver(table, 1 .. Len(table)) = SumOver(LineValue, Rows)
<1> DEFINE m == Min(Rows)
           first == {i \in Rows : \A j \in m .. i : j \in Rows}
           K == Cardinality(first)
           amount(i) == IF lines[m + i - 1].type = "money" THEN lines[m + i - 1].value ELSE Absent
<1>1. Len(lines) \in Nat /\ DOMAIN lines = 1 .. Len(lines)
  BY TextOfLines DEF ViewInv
<1>2. Rows \subseteq 1 .. Len(lines)
  BY <1>1 DEF Rows
<1>3. IsFiniteSet(Rows)
  <2>1. IsFiniteSet(1 .. Len(lines))
    BY <1>1, FS_Interval
  <2> QED BY <1>2, <2>1, FS_Subset
<1>4. table = [i \in 1 .. K |-> amount(i)]
  BY DEF FirstTable, Rows
<1>5. first \subseteq Rows
  OBVIOUS
<1> HIDE DEF first, amount
<1>6. IsFiniteSet(first) /\ K \in Nat /\ K <= Cardinality(Rows) /\ Cardinality(Rows) \in Nat
      /\ (K = Cardinality(Rows) => first = Rows)
  BY <1>3, <1>5, FS_Subset, FS_CardinalityType
<1>7. \A i \in Rows : lines[i].type = "money" /\ lines[i].value \in Int
  <2> TAKE i \in Rows
  <2>1. PlainLine(lines[i]) /\ IsLine(lines[i]) /\ IsPriced(lines[i])
    BY <1>2, PlainLines DEF Rows
  <2> QED BY <2>1 DEF PlainLine, IsPriced, IsLine
<1> HIDE DEF K
<1>8. Len(table) = K /\ DOMAIN table = 1 .. K
  BY <1>4, <1>6
<1>9. first = Rows
  BY <1>6, <1>8
<1>10. Rows # {}
  <2>1. K # 0
    BY <1>4
  <2>2. Cardinality({}) = 0
    BY FS_EmptySet
  <2> QED BY <1>9, <2>1, <2>2 DEF K
<1>11. m \in Rows /\ \A i \in Rows : m <= i
  <2>1. PICK i \in Rows : \A j \in Rows : i <= j
    BY <1>2, <1>10, LeastNatural
  <2> QED BY <2>1 DEF Min
<1> HIDE DEF m
<1> DEFINE M == Max(Rows)
<1>12. M \in Rows /\ \A i \in Rows : i <= M
  BY <1>1, <1>2, <1>10, LastPosition
<1> HIDE DEF M
<1>13. Rows = m .. M
  <2>1. \A j \in m .. M : j \in Rows
    BY <1>9, <1>12 DEF first
  <2>2. \A i \in Rows : i \in m .. M
    BY <1>2, <1>11, <1>12
  <2> QED BY <2>1, <2>2
<1>14. m \in Int /\ M \in Int /\ m <= M
  BY <1>2, <1>11, <1>12
<1>15. K = M - m + 1
  BY <1>9, <1>13, <1>14, FS_Interval DEF K
<1>16. \A i \in 1 .. K : table[i] = LineValue[m + i - 1] /\ table[i] \in Int
  <2> TAKE i \in 1 .. K
  <2>1. m + i - 1 \in m .. M
    BY <1>6, <1>14, <1>15
  <2>2. m + i - 1 \in Rows /\ m + i - 1 \in DOMAIN lines
    BY <1>1, <1>2, <1>13, <2>1
  <2>3. table[i] = amount(i)
    BY <1>4
  <2> QED BY <1>7, <2>2, <2>3 DEF amount, LineValue
<1>17. table \in Seq(Int)
  BY <1>4, <1>6, <1>16
<1>18. SumOver(table, 1 .. K) = SumOver(LineValue, m .. m + K - 1)
  <2> DEFINE k == LineValue
  <2>1. Copies(table, k, m, K)
    BY <1>16 DEF Copies
  <2> HIDE DEF k
  <2>2. K \in Nat /\ m \in Int
    BY <1>6, <1>14
  <2>3. SumOver(table, 1 .. K) = SumOver(k, RunFrom(m, K))
    BY <2>1, <2>2, SumOfRun
  <2> QED BY <2>3 DEF k, RunFrom
<1>19. m + K - 1 = M
  BY <1>14, <1>15
<1> QED BY <1>8, <1>10, <1>13, <1>17, <1>18, <1>19

(* A sum over a single column is the sum of its cells. *)
LEMMA SumOfItems ==
  ASSUME NEW v, ~Given(FieldOf(v, "line_items.amount")),
         ColumnSum(ColumnOf(v, "line_items.amount")) \in Int
  PROVE  Amounts(v, ItemsAddUp) = ColumnSum(ColumnOf(v, "line_items.amount"))
<1> DEFINE S == {"line_items.amount"}
           op(ref) == IF Given(FieldOf(v, ref)) THEN FieldOf(v, ref) ELSE ColumnSum(ColumnOf(v, ref))
           h == [ref \in S |-> op(ref)]
           Folds(f) == f = [s \in SUBSET S |-> IF s = {} THEN 0
                                               ELSE op(First(s)) + f[s \ {First(s)}]]
           iter == CHOOSE f : Folds(f)
<1>1. ItemsAddUp.inputs = S
  BY DEF ItemsAddUp, SumEquals, Rule
<1>2. Amounts(v, ItemsAddUp) = iter[S]
  BY <1>1 DEF Amounts, MapThenSumSet, MapThenFoldSet, First
<1>3. op("line_items.amount") = ColumnSum(ColumnOf(v, "line_items.amount"))
  OBVIOUS
<1> HIDE DEF op
<1>4. \A s \in SUBSET S : s # {} => h[First(s)] = op(First(s))
  BY DEF First
<1>5. h["line_items.amount"] = op("line_items.amount") /\ \A i \in S : h[i] \in Int
  BY <1>3
<1> HIDE DEF h
<1>6. \A f : Folds(f) <=> Solves(f, SUBSET S, h)
  BY <1>4 DEF Solves
<1>7. IsFiniteSet(S) /\ IsFiniteSet({})
  BY FS_Singleton, FS_EmptySet
<1>8. PICK g : Solves(g, SUBSET S, h) /\ SumOver(h, S) = g[S]
  BY <1>7, SumIsSolved
<1> HIDE DEF Folds
<1>9. Folds(iter)
  BY <1>6, <1>8
<1>10. Solves(iter, SUBSET S, h)
  <2> HIDE DEF iter
  <2> QED BY <1>6, <1>9
<1> HIDE DEF iter
<1>11. iter[S] = g[S]
  BY <1>7, <1>8, <1>10, SumIsUnique
<1>12. SumOver(h, {} \cup {"line_items.amount"}) = SumOver(h, {}) + h["line_items.amount"]
  BY <1>5, <1>7, SumOfMore
<1>13. {} \cup {"line_items.amount"} = S
  OBVIOUS
<1>14. SumOver(h, {}) = 0
  BY SumOfNone
<1> QED BY <1>2, <1>3, <1>5, <1>8, <1>11, <1>12, <1>13, <1>14

(* What the view of an honest invoice says of its figures. *)
LEMMA HonestView ==
  ASSUME ViewInv, IsPlainInvoice(TRUE), IsClearlyLabelled, RowsAddUp, Balances,
         view = ResolveDocumentView(lines)
  PROVE  /\ view.verdict = "CONFIRM" /\ FieldOf(view, "total") = Amount("total")
         /\ Amount("total") \in Int
         /\ Given(FieldOf(view, "subtotal")) => FieldOf(view, "subtotal") = Amount("subtotal")
         /\ ~Given(FieldOf(view, "line_items.amount"))
         /\ Given(ColumnOf(view, "line_items.amount")) =>
                /\ ColumnSum(ColumnOf(view, "line_items.amount")) = Amount("subtotal")
                /\ Amount("subtotal") \in Int
<1> DEFINE nodes == ParseMoneyNodes(lines)
           stated == ResolvedFields(lines)
           claimed == IF "total" \in DOMAIN stated THEN stated["total"] ELSE Absent
           check == Verification(lines, claimed)
           filled == claimed = Absent /\ check.identified # Absent
           table == FirstTable(lines)
           items == IF Len(check.items) > Len(table) THEN check.items ELSE table
<1>1. /\ view.verdict = check.verdict
      /\ view.fields = IF filled THEN WithTotal(stated, check.identified) ELSE stated
      /\ view.columns = [c \in IF items = <<>> THEN {} ELSE {"line_items.amount"} |-> items]
  BY DEF ResolveDocumentView
<1>2. \A f \in {"subtotal", "total"} : f \in DOMAIN stated => stated[f] = Amount(f)
  BY HonestField
<1>3. DOMAIN stated \subseteq Fields
  BY DEF ResolvedFields
<1>4. "line_items.amount" \notin Fields \cup {"total"}
  BY DEF Fields, Schema
<1>5. /\ TreeVerdict(nodes) = "CONFIRM" /\ TreeTotal(nodes) = Amount("total")
      /\ Amount("total") \in Int /\ Absent \notin Int
  BY HonestTree, BlockAssumption
<1> HIDE DEF stated, table
<1>6. claimed = Absent \/ claimed = Amount("total")
  BY <1>2
<1>7. check = VerifyTotalTree(nodes, claimed)
  <2> HIDE DEF claimed
  <2> QED BY <1>5 DEF Verification, nodes
<1>8. /\ check.verdict = "CONFIRM" /\ check.identified = Amount("total")
      /\ check.items = LineItems(nodes)
  <2> HIDE DEF claimed, nodes
  <2>1. VerdictMap["CONFIRM"] = "CONFIRM"
    BY DEF VerdictMap
  <2> QED BY <1>5, <1>6, <1>7, <2>1 DEF VerifyTotalTree
<1>9. "total" \in DOMAIN view.fields /\ view.fields["total"] = Amount("total")
  <2>1. CASE claimed = Absent
    <3>1. view.fields = WithTotal(stated, Amount("total"))
      BY <1>1, <1>5, <1>8, <2>1
    <3> QED BY <3>1 DEF WithTotal
  <2>2. CASE claimed # Absent
    <3>1. "total" \in DOMAIN stated /\ stated["total"] = Amount("total")
      BY <1>2, <2>2
    <3>2. view.fields = stated
      BY <1>1, <2>2
    <3> QED BY <3>1, <3>2
  <2> QED BY <2>1, <2>2
<1>10. view.fields = stated \/ \E total : view.fields = WithTotal(stated, total)
  BY <1>1
<1>11. DOMAIN view.fields \subseteq Fields \cup {"total"}
  BY <1>3, <1>10 DEF WithTotal
<1>12. "subtotal" \in DOMAIN view.fields => view.fields["subtotal"] = Amount("subtotal")
  BY <1>2, <1>10 DEF WithTotal
<1>13. ~Given(FieldOf(view, "line_items.amount"))
  BY <1>4, <1>11 DEF FieldOf, Given
<1>14. Given(FieldOf(view, "subtotal")) => FieldOf(view, "subtotal") = Amount("subtotal")
  BY <1>12 DEF FieldOf, Given
<1>15. ASSUME Given(ColumnOf(view, "line_items.amount"))
       PROVE  /\ ColumnSum(ColumnOf(view, "line_items.amount")) = Amount("subtotal")
              /\ Amount("subtotal") \in Int
  <2>1. items # <<>> /\ ColumnOf(view, "line_items.amount") = items
    <3> HIDE DEF items
    <3> QED BY <1>1, <1>15 DEF ColumnOf, Given
  <2>2. IsFiniteSet(Rows) /\ Cardinality(Rows) \in Nat
    <3>1. Len(lines) \in Nat /\ DOMAIN lines = 1 .. Len(lines)
      BY TextOfLines DEF ViewInv
    <3>2. Rows \subseteq 1 .. Len(lines)
      BY <3>1 DEF Rows
    <3>3. IsFiniteSet(1 .. Len(lines))
      BY <3>1, FS_Interval
    <3> QED BY <3>2, <3>3, FS_Subset, FS_CardinalityType
  <2>3. Amount("subtotal") \in Int
    BY PlainAmounts DEF SummaryWords
  <2>4. CASE Rows # {}
    <3>1. /\ LineItems(nodes) \in Seq(Int) /\ Len(LineItems(nodes)) = Cardinality(Rows)
          /\ SumOver(LineItems(nodes), 1 .. Len(LineItems(nodes))) = Amount("subtotal")
          /\ SumOver(LineValue, Rows) = Amount("subtotal")
      BY <2>4, PlainRowSum
    <3>2. CASE Len(check.items) > Len(table)
      <4>1. items = LineItems(nodes)
        BY <1>8, <3>2
      <4> HIDE DEF items, nodes
      <4>2. ColumnSum(items) = Amount("subtotal")
        BY <1>5, <3>1, <4>1, SumOfColumn
      <4> QED BY <2>1, <2>3, <4>2
    <3>3. CASE ~(Len(check.items) > Len(table))
      <4>1. items = table
        BY <3>3
      <4>2. Len(table) >= Cardinality(Rows)
        <5>1. Len(check.items) = Cardinality(Rows)
          BY <1>8, <3>1
        <5>2. Len(table) \in Nat
          BY TableLength DEF table
        <5> HIDE DEF check
        <5> QED BY <2>2, <3>3, <5>1, <5>2
      <4>3. table \in Seq(Int) /\ SumOver(table, 1 .. Len(table)) = Amount("subtotal")
        <5>1. table = FirstTable(lines) /\ table # <<>>
          BY <2>1, <4>1 DEF table
        <5> QED BY <3>1, <4>2, <5>1, PlainTable
      <4> HIDE DEF items
      <4>4. ColumnSum(table) = Amount("subtotal")
        BY <1>5, <4>3, SumOfColumn
      <4> QED BY <2>1, <2>3, <4>1, <4>4
    <3> QED BY <3>2, <3>3
  <2>5. CASE Rows = {}
    <3>1. table = <<>>
      BY <2>5, TableLength DEF table
    <3>2. LineItems(nodes) \in Seq(Int) /\ Len(LineItems(nodes)) = Cardinality(RowsTo(Len(lines)))
      BY PlainRows DEF SumsUp, nodes
    <3>3. RowsTo(Len(lines)) = {} /\ Cardinality({}) = 0
      BY <2>5, FS_EmptySet DEF RowsTo
    <3>4. Len(check.items) = 0
      BY <1>8, <3>2, <3>3
    <3>5. Len(table) = 0
      BY <3>1
    <3> HIDE DEF check
    <3>6. items = table
      BY <3>4, <3>5
    <3> QED BY <2>1, <3>1, <3>6
  <2> QED BY <2>4, <2>5
<1> QED BY <1>5, <1>8, <1>1, <1>9, <1>13, <1>14, <1>15 DEF FieldOf

(* Whatever plain invoice it is, with its rows charges and its labels as   *)
(* its text has them: where its figures add up it is confirmed, and no     *)
(* rule about them is held against it.                                     *)
THEOREM HonestInvoicesPass == ViewSpec => []HonestInvoicesAreConfirmed
<1>1. ViewInv => HonestInvoicesAreConfirmed
  <2> SUFFICES ASSUME ViewInv, stage = "validated", IsPlainInvoice(TRUE), IsClearlyLabelled,
                      Balances, RowsAddUp
               PROVE  /\ view.verdict = "CONFIRM"
                      /\ \A id \in {"totals_balance", "line_items_sum_to_subtotal", "total_required"} :
                             id \notin WithStatus(report, "FAIL")
    BY DEF HonestInvoicesAreConfirmed
  <2> DEFINE results == Evaluate(view, InvoiceRules)
  <2>1. view = ResolveDocumentView(lines) /\ report = ApplyVerifierPrecedence(results, view.verdict)
    BY DEF ViewInv
  <2>2. /\ view.verdict = "CONFIRM" /\ FieldOf(view, "total") = Amount("total")
        /\ Amount("total") \in Int
        /\ Given(FieldOf(view, "subtotal")) => FieldOf(view, "subtotal") = Amount("subtotal")
        /\ ~Given(FieldOf(view, "line_items.amount"))
        /\ Given(ColumnOf(view, "line_items.amount")) =>
               /\ ColumnSum(ColumnOf(view, "line_items.amount")) = Amount("subtotal")
               /\ Amount("subtotal") \in Int
    BY <2>1, HonestView
  <2>3. \A id \in DOMAIN results :
            report[id] = IF id \in VerifierSupersedes /\ results[id] = "FAIL"
                         THEN "SUPERSEDED" ELSE results[id]
    <3> HIDE DEF results
    <3> QED BY <2>1, <2>2 DEF ApplyVerifierPrecedence
  <2>4. DOMAIN report = DOMAIN results
    <3> HIDE DEF results
    <3> QED BY <2>1 DEF ApplyVerifierPrecedence
  <2> DEFINE Ruled(id) == CHOOSE rule \in InvoiceRules : rule.id = id
  <2>5. \A id \in DOMAIN results : results[id] = Status(view, Ruled(id))
    BY DEF Evaluate
  <2>6. /\ Exists("total_required", "total") \in InvoiceRules /\ ItemsAddUp \in InvoiceRules
        /\ \A rule \in InvoiceRules :
               /\ rule.id = "total_required" => rule = Exists("total_required", "total")
               /\ rule.id = "line_items_sum_to_subtotal" => rule = ItemsAddUp
    <3>1. /\ \A i, f : Exists(i, f).id = i /\ Formatted(i, f).id = i
          /\ \A i, f, o, g : Compare(i, f, o, g).id = i /\ CompareTo(i, f, o, g).id = i
          /\ ItemsAddUp.id = "line_items_sum_to_subtotal" /\ TotalsBalance.id = "totals_balance"
      BY DEF Exists, Formatted, Compare, CompareTo, ItemsAddUp, TotalsBalance, SumEquals, Rule
    <3> QED BY <3>1 DEF InvoiceRules
  <2>7. ASSUME "totals_balance" \in WithStatus(report, "FAIL") PROVE FALSE
    <3>1. "totals_balance" \in DOMAIN results /\ report["totals_balance"] = "FAIL"
      BY <2>4, <2>7 DEF WithStatus
    <3> HIDE DEF results
    <3> QED BY <2>3, <3>1 DEF VerifierSupersedes
  <2>8. ASSUME "total_required" \in WithStatus(report, "FAIL") PROVE FALSE
    <3>1. "total_required" \in DOMAIN results /\ report["total_required"] = "FAIL"
      BY <2>4, <2>8 DEF WithStatus
    <3>2. Ruled("total_required") = Exists("total_required", "total")
      <4>1. Exists("total_required", "total").id = "total_required"
        BY DEF Exists, Rule
      <4> QED BY <2>6, <4>1
    <3>3. Status(view, Exists("total_required", "total")) = "FAIL"
      <4> HIDE DEF results
      <4> QED BY <2>3, <2>5, <3>1, <3>2 DEF VerifierSupersedes
    <3>4. Given(FieldOf(view, "total"))
      BY <2>2, BlockAssumption DEF Given
    <3> QED BY <3>3, <3>4 DEF Status, Holds, Exists, Rule, Primitives
  <2>9. ASSUME "line_items_sum_to_subtotal" \in WithStatus(report, "FAIL") PROVE FALSE
    <3>1. /\ "line_items_sum_to_subtotal" \in DOMAIN results
          /\ report["line_items_sum_to_subtotal"] = "FAIL"
      BY <2>4, <2>9 DEF WithStatus
    <3>2. Ruled("line_items_sum_to_subtotal") = ItemsAddUp
      <4>1. ItemsAddUp.id = "line_items_sum_to_subtotal"
        BY DEF ItemsAddUp, SumEquals, Rule
      <4> QED BY <2>6, <4>1
    <3>3. Status(view, ItemsAddUp) = "FAIL"
      <4> HIDE DEF results
      <4> QED BY <2>3, <2>5, <3>1, <3>2 DEF VerifierSupersedes
    <3>4. /\ ItemsAddUp.type = "compute" /\ ItemsAddUp.right = "subtotal"
          /\ ItemsAddUp.requires = {"line_items.amount", "subtotal"}
          /\ ItemsAddUp.inputs = {"line_items.amount"}
      BY DEF ItemsAddUp, SumEquals, Rule
    <3>5. /\ Found(view, "line_items.amount") /\ Found(view, "subtotal")
          /\ ~Holds(view, ItemsAddUp)
      <4> HIDE DEF ItemsAddUp
      <4> QED BY <3>3, <3>4 DEF Status, Primitives
    <3>6. Given(ColumnOf(view, "line_items.amount"))
      BY <2>2, <3>5 DEF Found
    <3>7. ColumnOf(view, "subtotal") = Absent
      <4>1. DOMAIN view.columns \subseteq {"line_items.amount"}
        BY <2>1 DEF ResolveDocumentView
      <4> QED BY <4>1 DEF ColumnOf
    <3>8. Given(FieldOf(view, "subtotal"))
      BY <3>5, <3>7 DEF Found, Given
    <3>9. Amounts(view, ItemsAddUp) = FieldOf(view, "subtotal")
      BY <2>2, <3>6, <3>8, SumOfItems
    <3> QED BY <3>4, <3>5, <3>8, <3>9 DEF Holds
  <2> QED BY <2>2, <2>7, <2>8, <2>9
<1> QED BY <1>1, ViewInvariant, PTL
=============================================================================
