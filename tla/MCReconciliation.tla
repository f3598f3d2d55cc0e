-------------------------- MODULE MCReconciliation --------------------------
(***************************************************************************)
(* Documents of up to two lines against up to three, with a plain header;  *)
(* and every header against every header, with one line each.              *)
(***************************************************************************)
EXTENDS Reconciliation

CONSTANTS Acme, Bolt, Po158, Po999, OtherPo, Eur, Usd, Laptop, Cable

(* Po158 and Po999 are PO-2026-0158 and PO-2026-0999: their first number   *)
(* is the year.                                                            *)
MCNumberIn ==
    [t \in {Acme, Bolt, Po158, Po999, OtherPo, Eur, Usd} |->
        IF t \in {Po158, Po999} THEN 2026 ELSE IF t = OtherPo THEN 7 ELSE Absent]

Header(po, vendor, currency, total) ==
    [po_number |-> po, vendor |-> vendor, currency |-> currency, total |-> total]

Line(item, quantity, price) == [item |-> item, quantity |-> quantity, price |-> price]

Lines ==
    {Line(Laptop, 1, 1), Line(Laptop, 2, 1), Line(Laptop, 1, 2), Line(Cable, 1, 1),
     Line(Laptop, Absent, Absent), Line(Absent, 1, 1)}

Rows(n) == UNION {[1 .. k -> Lines] : k \in 0 .. n}

View(header, rows) == [fields |-> header, lines |-> rows]
Plain == Header(Po158, Acme, Absent, 2)
OneLine == <<Line(Laptop, 1, 2)>>

Headers ==
    [po_number : {Po158, Po999, OtherPo, Absent}, vendor : {Acme, Bolt, Absent},
     currency : {Eur, Usd, Absent}, total : {1, 2, Absent}]

ByLines == {<<View(Plain, a), View(Plain, b)>> : a \in Rows(2), b \in Rows(3)}
ByHeaders == {<<View(a, OneLine), View(b, OneLine)>> : a \in Headers, b \in Headers}

Alert(partition, competing, duplicate, signals) ==
    [partition |-> partition, competing |-> competing, duplicate |-> duplicate,
     signals |-> signals]

NoContext == Alert(Absent, {}, FALSE, [s \in {} |-> FALSE])
Cleared == Alert("SINGLE_DOCUMENT", {}, FALSE, [s \in Signals |-> FALSE])

MCContexts ==
    {NoContext, Cleared,
     Alert("AMBIGUOUS", {}, FALSE, [s \in Signals |-> FALSE]),
     Alert("SINGLE_DOCUMENT", {"total"}, FALSE, [s \in Signals |-> FALSE]),
     Alert("SINGLE_DOCUMENT", {}, TRUE, [s \in Signals |-> FALSE]),
     Alert("SINGLE_DOCUMENT", {}, FALSE, [s \in Signals |-> s = "already_paid"]),
     Alert("SINGLE_DOCUMENT", {}, FALSE, [s \in Signals \ {"new_vendor"} |-> FALSE])}

MCSubmissions == ByLines \cup ByHeaders
MCWellFormed == {}

(* every quantity is given *)
MCCounted ==
    {s \in ByLines : \A v \in {s[1], s[2]} : \A i \in DOMAIN v.lines :
        Given(v.lines[i].item) /\ Given(v.lines[i].quantity)}
=============================================================================
