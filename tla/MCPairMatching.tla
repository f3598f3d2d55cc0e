--------------------------- MODULE MCPairMatching ---------------------------
(* Two originals, and two or three values for every field the verdict reads. *)
EXTENDS PairMatching

CONSTANTS V, W, R, S, EUR, USD

Full ==
    [doc_type |-> "invoice", instrument |-> "INVOICE", vendor |-> V,
     recipient |-> R, num |-> <<"A9", 1>>, po |-> <<"P9", 1>>, amount |-> 120,
     raw_amount |-> 120, sub |-> 100, tax |-> 20, discount |-> None,
     currency |-> EUR, date |-> 5, tax_id |-> None, surface |-> 1,
     verdict |-> None]

(* what a terse extraction finds of it *)
Bare == [Full EXCEPT !.recipient = None, !.instrument = None, !.sub = None,
                     !.tax = None, !.po = None]

MCOriginals == {Full, Bare}

MCValues ==
    [vendor     |-> {V, W, None},
     recipient  |-> {R, S, None},
     num        |-> {<<"A9", 1>>, <<"A9", 2>>, None},
     po         |-> {<<"P9", 1>>, <<"P9", 2>>, None},
     amount     |-> {120, 121, 122, None},
     sub        |-> {100, 90, None},
     tax        |-> {20, 30, None},
     currency   |-> {EUR, USD, None},
     date       |-> {5, 40, None},
     surface    |-> {1, 2},
     instrument |-> {"INVOICE", "DEBIT MEMO", "STATEMENT", "QUOTE", None},
     doc_type   |-> {"invoice", "purchase_order"}]
=============================================================================
