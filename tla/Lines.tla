------------------------------- MODULE Lines -------------------------------
(***************************************************************************)
(* The lines of text the reconstruction reads.                             *)
(*                                                                         *)
(* Every stage of the reconstruction looks at a line through regular       *)
(* expressions, and only at what they find in it.  A line is here one of a *)
(* vocabulary of sample lines, given by what those expressions find, and   *)
(* the number of blanks it is indented by.  The samples are                *)
(*                                                                         *)
(*   blank                        total   Total: 77                        *)
(*   sep     -----                notes   Notes:                           *)
(*   rule    = = =                due     Due Date 02 Aug 2026             *)
(*   prose   Thank you for your business.                                  *)
(*   remark  The following applies to all orders: none                     *)
(*   header  Description Qty Amount                                        *)
(*   row     Design Sprint 40 $100.00 $4,000.00                            *)
(*   audit   Audit 1 $500.00      csv     alpha,beta,gamma                 *)
(*   pipe    | Item | 40 |        log     ERROR disk is full               *)
(*   item    - first point        node    Branch office                    *)
(*   trail   Audit trail          value   Best value                       *)
(*   leaf    +-- Leaf             code    0x1f 12 34                       *)
(*   json    {"a": 1}                                                      *)
(***************************************************************************)
EXTENDS Integers, Sequences, FiniteSets, TLC

(* What the expressions of the stages find in a line: the tokens with the  *)
(* place where each starts, the key and value if it is a field, the words  *)
(* of three letters or digits and more, the rest.                          *)
Plain == [toks |-> <<>>, kinds |-> <<>>, alnum |-> TRUE, marks |-> {}, words |-> {},
          pair |-> "none", bars |-> 0, signs |-> 0, commas |-> 0]

Word  == "word"
Sign  == "sign"     \* no letter and no amount in it
Hex   == "hex"
Num   == "num"      \* digits only
Money == "money"    \* an amount with its currency

Vocabulary ==
  [blank  |-> [Plain EXCEPT !.alnum = FALSE],
   sep    |-> [Plain EXCEPT !.toks = <<0>>, !.kinds = <<Sign>>, !.alnum = FALSE, !.signs = 5,
               !.marks = {"separator", "ruled"}],
   rule   |-> [Plain EXCEPT !.toks = <<0, 2, 4>>, !.kinds = <<Sign, Sign, Sign>>, !.alnum = FALSE, !.signs = 3,
               !.marks = {"ruled", "delimiter"}],
   total  |-> [Plain EXCEPT !.toks = <<0, 7>>, !.kinds = <<Word, Num>>, !.signs = 1, !.pair = "full",
               !.marks = {"rulekv", "kvline", "kvpair", "delimiter"}, !.words = {"Total"}],
   notes  |-> [Plain EXCEPT !.toks = <<0>>, !.kinds = <<Word>>, !.signs = 1, !.pair = "empty",
               !.marks = {"kvpair", "delimiter"}, !.words = {"Notes"}],
   due    |-> [Plain EXCEPT !.toks = <<0, 4, 9, 12, 16>>, !.kinds = <<Word, Word, Num, Word, Num>>,
               !.pair = "label", !.marks = {"kvline"}, !.words = {"Due", "Date", "Aug", "2026"}],
   prose  |-> [Plain EXCEPT !.toks = <<0, 6, 10, 14, 19>>, !.kinds = <<Word, Word, Word, Word, Word>>,
               !.signs = 1, !.words = {"Thank", "you", "for", "your", "business"}],
   remark |-> [Plain EXCEPT !.toks = <<0, 4, 14, 22, 25, 29, 37>>, !.signs = 1,
               !.kinds = <<Word, Word, Word, Word, Word, Word, Word>>,
               !.marks = {"kvpair", "delimiter"},
               !.words = {"The", "following", "applies", "all", "orders", "none"}],
   header |-> [Plain EXCEPT !.toks = <<0, 12, 16>>, !.kinds = <<Word, Word, Word>>, !.marks = {"labels"},
               !.words = {"Description", "Qty", "Amount"}],
   row    |-> [Plain EXCEPT !.toks = <<0, 7, 14, 17, 25>>, !.kinds = <<Word, Word, Num, Money, Money>>,
               !.signs = 5, !.commas = 1, !.marks = {"numcell"},
               !.words = {"Design", "Sprint", "100", "000"}],
   audit  |-> [Plain EXCEPT !.toks = <<0, 6, 8>>, !.kinds = <<Word, Num, Money>>, !.signs = 2,
               !.words = {"Audit", "500"}],
   csv    |-> [Plain EXCEPT !.toks = <<0>>, !.kinds = <<Word>>, !.signs = 2, !.commas = 2,
               !.words = {"alpha", "beta", "gamma"}],
   pipe   |-> [Plain EXCEPT !.toks = <<0, 2, 7, 9, 12>>, !.kinds = <<Sign, Word, Sign, Num, Sign>>,
               !.signs = 3, !.bars = 3, !.marks = {"pipe"}, !.words = {"Item"}],
   log    |-> [Plain EXCEPT !.toks = <<0, 6, 11, 14>>, !.kinds = <<Word, Word, Word, Word>>,
               !.marks = {"severity"}, !.words = {"ERROR", "disk", "full"}],
   item   |-> [Plain EXCEPT !.toks = <<0, 2, 8>>, !.kinds = <<Sign, Word, Word>>, !.signs = 1,
               !.marks = {"list"}, !.words = {"first", "point"}],
   node   |-> [Plain EXCEPT !.toks = <<0, 7>>, !.kinds = <<Word, Word>>,
               !.words = {"Branch", "office"}],
   trail  |-> [Plain EXCEPT !.toks = <<0, 6>>, !.kinds = <<Word, Word>>, !.words = {"Audit", "trail"}],
   value  |-> [Plain EXCEPT !.toks = <<0, 5>>, !.kinds = <<Word, Word>>, !.words = {"Best", "value"}],
   leaf   |-> [Plain EXCEPT !.toks = <<0, 4>>, !.kinds = <<Sign, Word>>, !.signs = 3, !.bars = 1,
               !.marks = {"glyph"}, !.words = {"Leaf"}],
   code   |-> [Plain EXCEPT !.toks = <<0, 5, 8>>, !.kinds = <<Hex, Num, Num>>, !.words = {"0x1f"}],
   json   |-> [Plain EXCEPT !.toks = <<0, 6>>, !.kinds = <<Word, Sign>>, !.signs = 5,
               !.marks = {"kvpair", "delimiter", "json"}]]

Shapes == DOMAIN Vocabulary

(* A line of the line model: what is in it, and how far it is indented.    *)
LineObject == [shape : Shapes, indent : {0, 2, 4}]

L(shape) == [shape |-> shape, indent |-> 0]

IsEmpty(l)      == l.shape = "blank"
Marked(l, mark) == mark \in Vocabulary[l.shape].marks
Tokens(l)       == Len(Vocabulary[l.shape].toks)
Offset(l, k)    == Vocabulary[l.shape].toks[k]
IsAlnum(l)      == Vocabulary[l.shape].alnum
LongerWords(l)  == Vocabulary[l.shape].words

(* The k-th of a set of numbers, what a sequence holds at the places of    *)
(* such a set, and the items the test holds of, all in order.              *)
Nth(places, k)   == CHOOSE i \in places : Cardinality({j \in places : j <= i}) = k
At(s, places)    == [k \in 1 .. Cardinality(places) |-> s[Nth(places, k)]]
Where(s, Test(_)) == At(s, {i \in DOMAIN s : Test(s[i])})

NonEmpty(lines) == Where(lines, LAMBDA l : ~ IsEmpty(l))

(* How many of the lines the test holds of.                                *)
Count(lines, Test(_)) == Cardinality({i \in DOMAIN lines : Test(lines[i])})

(* Total of a quantity over the lines.                                     *)
Total(lines, F(_)) ==
  LET f[i \in 0 .. Len(lines)] == IF i = 0 THEN 0 ELSE f[i - 1] + F(lines[i])
  IN  f[Len(lines)]

Larger(a, b) == IF a >= b THEN a ELSE b

(* The length of the run of amounts the line ends with.                    *)
TrailingNums(l) ==
  LET kinds == Vocabulary[l.shape].kinds
      worded == {k \in DOMAIN kinds : kinds[k] \notin {Num, Money}}
  IN  Len(kinds) - (IF worded = {} THEN 0 ELSE CHOOSE k \in worded : \A j \in worded : j <= k)

(* A ratio as the code keeps it, rounded to so many parts of one.          *)
Rounded(a, b, scale) == IF b = 0 THEN 0 ELSE (2 * scale * a + b) \div (2 * b)

(* The same in whole hundredths, where the sums the code rounds stay below *)
(* the half they come to on paper.                                         *)
Hundredths(a, b) == (2 * a + b - 1) \div (2 * b)

(* The same for a score, as the code rounds it: what lies halfway between *)
(* two of them goes up or down as the nearest double lies above or below.  *)
(* (A product of two numbers no double holds can come out just below it.)  *)
ToHundredths(a, b) ==
  LET k == a \div b
      fine == IF k >= 50 THEN 2 ELSE 4
  IN  IF 2 * (a % b) > b \/ (2 * (a % b) = b /\ (fine * k) % 25 < 12) THEN k + 1 ELSE k

(* A table header of column labels, looked for in the first six lines; the *)
(* same function stands in the pre-classifier and the region classifier.   *)
HasLabelHeader(lines) == \E i \in DOMAIN lines : i <= 6 /\ Marked(lines[i], "labels")

(* A row of amounts needs two of them, or one under a header of labels.    *)
DataRows(lines) ==
  LET least == IF HasLabelHeader(NonEmpty(lines)) THEN 1 ELSE 2
  IN  Count(lines, LAMBDA l : Tokens(l) >= 3 /\ TrailingNums(l) >= least)
=============================================================================
