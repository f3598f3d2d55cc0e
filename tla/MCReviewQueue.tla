--------------------------- MODULE MCReviewQueue ---------------------------
(* Instances of ReviewQueue.  Labels are the file names of the uploads. *)
EXTENDS ReviewQueue, TLC

CONSTANTS r1, r2, r3, v1, V, EUR

Upload(label, d) == [f \in Fields \cup {"label"} |-> IF f = "label" THEN label ELSE d[f]]

Plain ==
    [doc_type |-> "invoice", instrument |-> None, vendor |-> V,
     recipient |-> None, num |-> <<"A9", 1>>, po |-> None, amount |-> 12,
     raw_amount |-> 12, sub |-> None, tax |-> None, discount |-> None,
     currency |-> EUR, date |-> 5, tax_id |-> None, surface |-> 1,
     verdict |-> None]

Invoice   == Upload("a.pdf", Plain)
NextMonth == Upload("a.pdf", [Plain EXCEPT !.num = <<"A9", 2>>, !.po = <<"P9", 1>>])
Rebill    == Upload("b.pdf", [Plain EXCEPT !.amount = 20, !.raw_amount = 20])
Order     == Upload("po.pdf", [Plain EXCEPT !.doc_type = "purchase_order",
                        !.num = None, !.po = <<"P9", 1>>])
Scan      == Upload("scan.pdf", [Plain EXCEPT !.num = None, !.vendor = None])

TwoInvoicesAndScan == {Invoice, Rebill, Scan}
OneInvoice  == {Invoice}
SameName    == {Invoice, NextMonth}
WithOrder   == {NextMonth, Order, Scan}

TwoRequests   == {r1, r2}
ThreeRequests == {r1, r2, r3}
Symmetry == Permutations(Requests)
=============================================================================
