--------------------------- MODULE MCDocumentView ---------------------------
(***************************************************************************)
(* Documents of up to MaxBlocks blocks of the usual invoice lines, amounts *)
(* of a few units, and faulty variants of the definitions.                 *)
(***************************************************************************)
EXTENDS DocumentView

CONSTANTS Acme, Inv1, Inv2   \* the texts of a document

Line(keys, words, value, type, marked, shape) ==
    [keys |-> keys, words |-> words, value |-> value, type |-> type,
     marked |-> marked, shape |-> shape]

Text(keys, value) == Line(keys, {}, value, "text", FALSE, "label")
Summary(word, value) == Line({word}, {word}, value, "money", TRUE, "label")
Row(value, marked) == Line({}, {}, value, "money", marked, "priced")

Number(n) == Text({"invoice_number"}, n)
DueDate == Line({"due_date", "date"}, {}, 9, "date", FALSE, "label")
Heading == Text({}, Acme)
BareFigure(value) == Line({}, {}, value, "money", TRUE, "blank")
TotalLabel == Line({"total"}, {"total"}, Absent, "none", FALSE, "label")
Credit(value) == Line({"discount"}, {"discount"}, value, "money", TRUE, "label")
Unmarked(word, value) == Line({word}, {word}, value, "money", FALSE, "label")
Columns == Line({}, {"total"}, Absent, "none", FALSE, "columns")
Stem == Line({}, {"subtotal"}, Absent, "none", FALSE, "stem")
AmountDue(value) == Line({"total_due", "due"}, {"total", "due"}, value, "money", TRUE, "label")
Terms == Line({}, {"discount"}, Absent, "none", FALSE, "prose")

MCBlocks ==
    {<<Heading, Number(Inv1)>>, <<Number(Inv2), DueDate>>,
     <<Row(1, TRUE), Row(2, TRUE)>>, <<Row(2, FALSE)>>,
     <<Summary("subtotal", 3)>>, <<Summary("subtotal", 1)>>,
     <<Summary("tax", 1)>>, <<Credit(-1)>>, <<Terms>>, <<Columns>>,
     <<Summary("taxable", 2)>>, <<Stem, Heading, BareFigure(3)>>, <<AmountDue(4)>>,
     <<Summary("total", 4)>>, <<Summary("total", 3)>>,
     <<TotalLabel>>, <<BareFigure(2)>>,
     <<Unmarked("total", 2)>>, <<Unmarked("total", 3)>>, <<Unmarked("discount", -1)>>,
     <<Unmarked("subtotal", 2), Unmarked("tax", 1)>>,
     <<Unmarked("subtotal", 0), Unmarked("tax", 0), Unmarked("fee", 1)>>,
     <<Summary("shipping", 1)>>}

MCWellFormed == {}
=============================================================================
