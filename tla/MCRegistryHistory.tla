------------------------- MODULE MCRegistryHistory -------------------------
(* Instances of RegistryHistory: a handful of documents of one vendor, each *)
(* of which differs from the plain invoice in what one check looks at.      *)
EXTENDS RegistryHistory, TLC

CONSTANTS V, U, T1, T2, EUR, USD

Invoice ==
    [doc_type |-> "invoice", instrument |-> "INVOICE", vendor |-> V,
     recipient |-> None, num |-> <<"A9", 1>>, po |-> None, amount |-> 12,
     raw_amount |-> 12, sub |-> 10, tax |-> 2, discount |-> None,
     currency |-> EUR, date |-> 5, tax_id |-> T1, surface |-> 1,
     verdict |-> None]

Order == [Invoice EXCEPT !.doc_type = "purchase_order", !.num = None,
             !.instrument = "PURCHASE ORDER", !.po = <<"P9", 1>>, !.tax_id = None]
Citing == [Invoice EXCEPT !.num = <<"A9", 2>>, !.po = <<"P9", 1>>, !.date = 50]
(* its total was worked out by the role verifier, not read *)
CitingMore == [Citing EXCEPT !.amount = 24, !.raw_amount = None, !.sub = 20, !.tax = 4]
Payment == [Invoice EXCEPT !.doc_type = "payment", !.instrument = None,
               !.sub = None, !.tax = None]
(* a remittance that names the invoice in its reference (PO) field *)
Remittance == [Payment EXCEPT !.num = <<"R9", 7>>, !.po = <<"A9", 1>>]
OtherTax == [Invoice EXCEPT !.tax_id = T2, !.num = <<"A9", 3>>]
NoTax == [Invoice EXCEPT !.tax_id = None, !.num = <<"A9", 4>>, !.date = 70]
OtherShape == [Invoice EXCEPT !.num = <<"AA", 1>>, !.currency = USD]
OtherRate == [Invoice EXCEPT !.tax = 4, !.amount = 14, !.raw_amount = 14,
                 !.num = <<"A9", 6>>]
Bare == [Invoice EXCEPT !.num = None, !.currency = None, !.date = None]
Foreign == [Invoice EXCEPT !.vendor = U, !.recipient = "r"]

AllKinds == {Invoice, Order, Citing, CitingMore, Payment, Remittance, OtherTax,
             NoTax, OtherShape, OtherRate, Bare, Foreign}
TaxIds == {Invoice, OtherTax}
=============================================================================
