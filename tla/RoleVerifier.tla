---------------------------- MODULE RoleVerifier ----------------------------
(***************************************************************************)
(* The verifier that searches for an arithmetic identity among the         *)
(* labelled figures of a document (profiles/role_verifier.py), used where  *)
(* the money tree recovers nothing.  Lines are those of MoneyTree.         *)
(***************************************************************************)
EXTENDS Absence, Integers, Sequences, FiniteSets, FiniteSetsExt

HasValue(line) == line.type # "none"

(* A label alone on its line names the value alone on the next.            *)
NamesNext(lines, i) ==
    /\ lines[i].keys # {} /\ ~HasValue(lines[i])
    /\ i + 1 \in DOMAIN lines /\ HasValue(lines[i + 1]) /\ lines[i + 1].shape = "blank"

(* the line that holds the value registered under the labels of line i     *)
ValueLine(lines, i) == IF NamesNext(lines, i) THEN lines[i + 1] ELSE lines[i]

Labelled(lines) ==
    {i \in DOMAIN lines : lines[i].keys # {} /\ HasValue(ValueLine(lines, i))}

(* One physical line is one figure, however many labels it has.            *)
MoneyKvValues(lines) ==
    [i \in {j \in Labelled(lines) : ValueLine(lines, j).type = "money"} |->
        ValueLine(lines, i).value]

(* None if a row has no amount: an incomplete sum is no sum. *)
SumLineItems(cells) ==
    IF cells = <<>> \/ \E i \in DOMAIN cells : cells[i] = Absent THEN Absent
    ELSE MapThenSumSet(LAMBDA i : cells[i], DOMAIN cells)

MinSummaryValues == 3
MaxSummaryValues == 12

(* The values that are the sum of at least two of the other figures.       *)
Solutions(money) ==
    IF Cardinality(DOMAIN money) \notin MinSummaryValues .. MaxSummaryValues THEN {}
    ELSE {money[c] : c \in {k \in DOMAIN money :
              \E S \in SUBSET (DOMAIN money \ {k}) :
                  /\ Cardinality(S) >= 2
                  /\ MapThenSumSet(LAMBDA i : money[i], S) = money[k]}}

(* the words in which one of the texts that are looked for stands: "tax" is *)
(* also found in "taxable"                                                  *)
TaxLike == {"tax", "taxable", "discount", "shipping", "adjustment"}
HasTaxLike(lines, money) ==
    \E i \in DOMAIN money : lines[i].words \cap TaxLike # {} /\ money[i] # 0

Identified(lines, cells, claimed) ==
    LET money == MoneyKvValues(lines)
        items == SumLineItems(cells)
        sought == Solutions(money)
    IN  IF Cardinality(sought) = 1 THEN CHOOSE v \in sought : TRUE
        ELSE IF sought = {} /\ items # Absent /\ ~HasTaxLike(lines, money)
                /\ \/ items \in {money[i] : i \in DOMAIN money}
                   \/ DOMAIN money = {} /\ claimed = Absent
        THEN items
        ELSE Absent

VerifyTotal(lines, cells, claimed) ==
    LET money == MoneyKvValues(lines)
        found == Identified(lines, cells, claimed)
        ambiguous == Cardinality(Solutions(money)) > 1
    IN  [verdict |->
            IF ambiguous THEN "UNVERIFIABLE"
            ELSE IF found = Absent
            THEN IF Cardinality(DOMAIN money) >= MinSummaryValues THEN "INCONSISTENT"
                 ELSE "UNVERIFIABLE"
            ELSE IF claimed = Absent THEN "FILL"
            ELSE IF claimed = found THEN "CONFIRM"
            ELSE "CONFLICT",
         identified |-> found, derived |-> FALSE, items |-> <<>>]
=============================================================================
