----------------------------- MODULE MoneyTree -----------------------------
(***************************************************************************)
(* The money structure of a document (profiles/money_tree.py): reading the *)
(* lines into money nodes, and validating every money region on its own.   *)
(*                                                                         *)
(* A line is what the extractors see of it:                                *)
(*   keys    the labels it is found under, {} if it has none               *)
(*   words   the money words of its text, the figure left out              *)
(*   value   the value it carries and its type, "money", "date", "text" or *)
(*           "none"; marked says whether a currency symbol or code makes   *)
(*           it money to the tree                                          *)
(*   shape   what kind of text it is:                                      *)
(*             "blank" no text, "label", "stem" a label that begins with a *)
(*             money word, "long" a label of more than four words, "tail"  *)
(*             the rest of a broken word, "caps" a category title, "prose",*)
(*             "columns" a row of column names, "unit" a bare currency,    *)
(*             "priced" a row with its own description, "quantity" a       *)
(*             priced row without one                                      *)
(***************************************************************************)
EXTENDS Absence, Integers, Sequences, FiniteSetsExt, SequencesExt

IsMoney(line) == line.type = "money" /\ line.marked

Precedence == <<"taxable", "tax", "discount", "shipping", "due", "subtotal", "total">>
HintPrecedence == <<"discount", "shipping", "taxable", "subtotal">>
RoleNamed == [taxable |-> "taxable_subtotal", tax |-> "tax", discount |-> "discount",
              shipping |-> "shipping", due |-> "total", subtotal |-> "subtotal",
              total |-> "total"]

(* The first of the words in order decides, so the more specific role wins. *)
Strongest(words, order, otherwise) ==
    LET named == {i \in DOMAIN order : order[i] \in words}
    IN  IF named = {} THEN otherwise ELSE RoleNamed[order[Min(named)]]

Classify(words) == Strongest(words, Precedence, "line")
RoleHint(words) == Strongest(words, HintPrecedence, Absent)

IsPriced(line) == line.shape \in {"priced", "quantity"}
WordsOf(lines) == UNION {lines[i].words : i \in DOMAIN lines}
SplitLabel(pending) ==
    /\ pending # <<>> /\ Head(pending).shape = "stem"
    /\ \A i \in DOMAIN pending : pending[i].shape # "long"

(* reader state: the nodes so far, the text since the last figure, and the *)
(* role salvaged from prose                                                *)
Blank == [nodes |-> <<>>, pending |-> <<>>, hint |-> Absent]

NodeOf(reader, line) ==
    LET pending == reader.pending
        titled == line.shape = "priced" /\ pending # <<>> /\ Last(pending).shape = "caps"
        near == IF pending = <<>> \/ titled THEN {} ELSE Last(pending).words
        own == IF line.shape \in {"blank", "prose"} THEN {} ELSE line.words
        label == near \cup own
        asLabelled ==
            IF Classify(label) # "line" THEN Classify(label)
            ELSE IF SplitLabel(pending) /\ Classify(WordsOf(pending)) # "line"
            THEN Classify(WordsOf(pending))
            ELSE IF reader.hint # Absent THEN reader.hint
            ELSE IF line.value < 0 /\ "adjustment" \in label THEN "discount"
            ELSE "line"
    IN  [role  |-> IF IsPriced(line) THEN "line" ELSE asLabelled,
         value |-> line.value,
         named |-> \/ pending # <<>> /\ ~titled
                   \/ line.shape \notin {"blank", "prose"}
                   \/ Classify(label) = "line" /\ reader.hint # Absent]

(* faulty variant: the text before a figure is kept for the next one *)
ReadFigureKeeping(reader, line) ==
    [reader EXCEPT !.nodes = IF line.shape = "columns" THEN @ ELSE Append(@, NodeOf(reader, line)),
                   !.hint = Absent]

ReadFigure(reader, line) ==
    [nodes |-> IF line.shape = "columns" THEN reader.nodes
               ELSE Append(reader.nodes, NodeOf(reader, line)),
     pending |-> <<>>, hint |-> Absent]

ReadText(reader, line) ==
    IF line.shape = "unit" THEN reader
    ELSE IF line.shape = "columns" THEN [reader EXCEPT !.pending = <<>>]
    ELSE IF line.shape = "prose"
    THEN [reader EXCEPT !.pending = <<>>, !.hint = RoleHint(line.words)]
    ELSE IF line.shape = "tail" /\ reader.pending # <<>>
    THEN [reader EXCEPT !.pending[Len(reader.pending)].words = @ \cup line.words]
    ELSE [reader EXCEPT !.pending = Append(@, line)]

Read(reader, line) ==
    IF IsMoney(line) THEN ReadFigure(reader, line) ELSE ReadText(reader, line)

(* the reader after every line *)
Readings(lines) ==
    LET reader[n \in 0 .. Len(lines)] ==
            IF n = 0 THEN Blank ELSE Read(reader[n - 1], lines[n])
    IN  reader

ParseMoneyNodes(lines) == Readings(lines)[Len(lines)].nodes

-----------------------------------------------------------------------------
(* Regions.  A node is [role, value, named]; named: its label is not empty. *)
At(nodes, role) == {i \in DOMAIN nodes : nodes[i].role = role}
Stated(nodes, role) == At(nodes, role) # {}
(* the last value of a role counts: grand subtotal, final total *)
ByRole(nodes, role) == IF Stated(nodes, role) THEN nodes[Max(At(nodes, role))].value ELSE 0
(* faulty variant: the sign on the page decides, not the role *)
MagnitudeSigned(nodes, role) == ByRole(nodes, role)
Magnitude(nodes, role) ==
    IF ByRole(nodes, role) < 0 THEN -ByRole(nodes, role) ELSE ByRole(nodes, role)
SumOf(nodes, S) == MapThenSumSet(LAMBDA i : nodes[i].value, S)

(* an unlabelled figure after the summary has begun repeats a total *)
IsEcho(nodes, i) ==
    /\ ~nodes[i].named
    /\ \E j \in 1 .. i - 1 : nodes[j].role \notin {"line", "subtotal"}
PositiveLines(nodes) ==
    {i \in At(nodes, "line") : nodes[i].value > 0 /\ ~IsEcho(nodes, i)}
SectionLines(nodes, s) ==
    {i \in PositiveLines(nodes) :
        i < s /\ \A j \in i .. s - 1 : nodes[j].role # "subtotal"}

Check(region, got, want) == [region |-> region, ok |-> got = want]

(* the lines up to a subtotal, if there are at least two of them *)
Sections(nodes) ==
    {Check(<<"section", s>>, nodes[s].value, SumOf(nodes, SectionLines(nodes, s))) :
        s \in {t \in At(nodes, "subtotal") : Cardinality(SectionLines(nodes, t)) >= 2}}

(* asserted only where it holds *)
GrandSubtotal(nodes) ==
    LET last == Max(At(nodes, "subtotal")) IN
    IF /\ Cardinality(At(nodes, "subtotal")) >= 2
       /\ SumOf(nodes, At(nodes, "subtotal") \ {last}) = nodes[last].value
    THEN {[region |-> <<"grand_subtotal">>, ok |-> TRUE]} ELSE {}

Discounted(nodes) ==
    ByRole(nodes, "subtotal") - Magnitude(nodes, "discount") + Magnitude(nodes, "shipping")

Taxable(nodes) ==
    IF Stated(nodes, "taxable_subtotal") /\ Stated(nodes, "subtotal")
    THEN {Check(<<"taxable">>, ByRole(nodes, "taxable_subtotal"), Discounted(nodes))}
    ELSE {}

HasBase(nodes) == Stated(nodes, "taxable_subtotal") \/ Stated(nodes, "subtotal")
Base(nodes) == IF Stated(nodes, "taxable_subtotal") THEN ByRole(nodes, "taxable_subtotal")
               ELSE Discounted(nodes)
LineSum(nodes) == SumOf(nodes, PositiveLines(nodes))

(* faulty variant: a total below what it is made of passes *)
TotalChainUpTo(nodes) ==
    IF ~Stated(nodes, "total") \/ (~HasBase(nodes) /\ LineSum(nodes) = 0) THEN {}
    ELSE LET base == IF HasBase(nodes) THEN Base(nodes) ELSE LineSum(nodes)
         IN  {[region |-> <<"to_total">>,
               ok |-> ByRole(nodes, "total") >= base + ByRole(nodes, "tax")]}

(* The roll-up to the stated total; tax may be included in the base. *)
TotalChain(nodes) ==
    LET total == ByRole(nodes, "total")
        tax == ByRole(nodes, "tax")
        base == Base(nodes)
    IN  IF ~Stated(nodes, "total") THEN {}
        ELSE IF HasBase(nodes)
        THEN {Check(<<"to_total">>, total, IF total = base THEN base ELSE base + tax)}
        ELSE IF LineSum(nodes) > 0
        THEN {Check(<<"to_total">>, total, LineSum(nodes) + tax)}
        ELSE {}

(* no total, one subtotal, and no section to check it *)
LoneSubtotal(nodes) ==
    IF /\ ~Stated(nodes, "total") /\ Cardinality(At(nodes, "subtotal")) = 1
       /\ Sections(nodes) = {} /\ LineSum(nodes) > 0
    THEN {Check(<<"to_subtotal">>, ByRole(nodes, "subtotal"), LineSum(nodes))}
    ELSE {}

Regions(nodes) ==
    Sections(nodes) \cup GrandSubtotal(nodes) \cup Taxable(nodes)
        \cup TotalChain(nodes) \cup LoneSubtotal(nodes)

(* A total is computed when none is stated. *)
DerivedTotal(nodes) ==
    IF Stated(nodes, "total") THEN Absent
    ELSE IF Stated(nodes, "subtotal") THEN Discounted(nodes) + ByRole(nodes, "tax")
    ELSE IF LineSum(nodes) > 0 THEN LineSum(nodes) + ByRole(nodes, "tax")
    ELSE Absent

TreeVerdict(nodes) ==
    IF DerivedTotal(nodes) # Absent
    THEN IF \E r \in Regions(nodes) : r.ok /\ r.region = <<"to_total">>
         THEN "CONFIRM" ELSE "DERIVED"
    ELSE IF Regions(nodes) = {} THEN "UNVERIFIABLE"
    ELSE IF \A r \in Regions(nodes) : r.ok THEN "CONFIRM"
    ELSE "CONFLICT"

TreeTotal(nodes) ==
    IF Stated(nodes, "total") THEN ByRole(nodes, "total") ELSE DerivedTotal(nodes)

(* the amounts of the line items it publishes *)
TakeItem(items, node) ==
    IF node.role = "line" /\ node.value > 0 THEN Append(items, node.value) ELSE items
LineItems(nodes) ==
    LET items[n \in 0 .. Len(nodes)] ==
            IF n = 0 THEN <<>> ELSE TakeItem(items[n - 1], nodes[n])
    IN  items[Len(nodes)]

VerdictMap == [CONFIRM |-> "CONFIRM", CONFLICT |-> "CONFLICT", DERIVED |-> "FILL",
               UNVERIFIABLE |-> "UNVERIFIABLE"]

(* verify_total_tree: the tree's verdict, unless the label resolver found  *)
(* another total than the one it confirmed                                 *)
VerifyTotalTree(nodes, claimed) ==
    LET verdict == VerdictMap[TreeVerdict(nodes)]
        identified == TreeTotal(nodes)
    IN  [verdict |-> IF /\ verdict = "CONFIRM" /\ claimed # Absent
                        /\ identified # Absent /\ claimed # identified
                     THEN "CONFLICT" ELSE verdict,
         identified |-> identified,
         derived |-> DerivedTotal(nodes) # Absent,
         items |-> LineItems(nodes)]
=============================================================================
