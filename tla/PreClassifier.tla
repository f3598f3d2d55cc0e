--------------------------- MODULE PreClassifier ---------------------------
(***************************************************************************)
(* The pre-classifier: by counting its lines it decides for each segment   *)
(* whether the structure engine sees it at all.                            *)
(*                                                                         *)
(* Ratios are kept as the code rounds them, in ten-thousandths; the scores *)
(* of the candidates are in millionths.  What routing only reports (the    *)
(* confidence and the reasons) is left out.                                *)
(***************************************************************************)
EXTENDS Lines

Ratio(a, b) == Rounded(a, b, 10000)

Abs(n) == IF n < 0 THEN -n ELSE n

-----------------------------------------------------------------------------
(* Is the block a hierarchy?  The one definition every layer uses.         *)

DiscoverUnit(widths) ==
  LET positive == {widths[i] : i \in DOMAIN widths} \ {0}
  IN  IF positive = {} THEN 1
      ELSE CHOOSE g \in 1 .. 4 : /\ \A w \in positive : w % g = 0
                                 /\ \A h \in (g + 1) .. 4 : \E w \in positive : w % h # 0

LineDepths(lines) ==
  LET shown == NonEmpty(lines)
      unit  == DiscoverUnit([i \in DOMAIN shown |-> shown[i].indent])
      raw   == [i \in DOMAIN shown |-> shown[i].indent \div unit]
  IN  [i \in DOMAIN raw |-> raw[i] - (CHOOSE d \in {raw[j] : j \in DOMAIN raw} :
                                        \A j \in DOMAIN raw : d <= raw[j])]

(* A step that goes down by more than one level skips a parent.            *)
ValidSteps(depths) ==
  Cardinality({i \in 1 .. Len(depths) - 1 : depths[i + 1] <= depths[i] + 1})

ValidFraction(depths) == Ratio(ValidSteps(depths), Len(depths) - 1)

HierarchySignal(lines) ==
  LET depths == LineDepths(lines)
  IN  /\ Len(depths) >= 2
      /\ \E i, j \in DOMAIN depths : depths[i] # depths[j]
      /\ 10 * ValidSteps(depths) >= 9 * (Len(depths) - 1)

-----------------------------------------------------------------------------
(* Comma-separated values: three lines or more of equally many fields.  Two *)
(* fields are taken only if those below the first line hold numbers, as the *)
(* part of an amount behind its comma does.                                *)
CsvDensity(lines) ==
  LET rows == NonEmpty(lines)
      commas(i) == Vocabulary[rows[i].shape].commas
  IN  IF /\ Len(rows) >= 3
         /\ \A i \in DOMAIN rows : commas(i) = commas(1)
         /\ \/ commas(1) >= 2
            \/ commas(1) = 1 /\ \A i \in 2 .. Len(rows) : Marked(rows[i], "numcell")
      THEN Ratio(1, 1) ELSE 0

KvLine(l)    == Marked(l, "kvline")
PipeLine(l)  == Marked(l, "pipe")
MultiSpace(l) == l.indent >= 2

(* Of the lines of three tokens or more, those that end in amounts.        *)
ColumnConsistency(lines) ==
  Ratio(DataRows(lines), Count(lines, LAMBDA l : Tokens(l) >= 3))

HierarchyStepRatio(lines) ==
  LET shown == NonEmpty(lines)
  IN  Ratio(Cardinality({i \in 2 .. Len(shown) :
                           Abs(shown[i].indent - shown[i - 1].indent) \in {2, 4, 8}}),
            Len(shown) - 1)

ExtractSignals(lines) ==
  LET n     == Len(lines)
      signs == Total(lines, LAMBDA l : Vocabulary[l.shape].signs) + n - 1
  IN  [delimiter |-> Ratio(Total(lines, LAMBDA l : Vocabulary[l.shape].bars),
                           IF signs = 0 THEN 1 ELSE signs),
       csv     |-> CsvDensity(lines),
       pipe    |-> Ratio(Count(lines, PipeLine), n),
       kv      |-> Ratio(Count(lines, KvLine), n),
       steps   |-> HierarchyStepRatio(lines),
       spaces  |-> Ratio(Count(lines, MultiSpace), n),
       columns |-> ColumnConsistency(lines),
       is_hierarchy |-> HierarchySignal(lines),
       hierarchy    |-> ValidFraction(LineDepths(lines))]

-----------------------------------------------------------------------------
(* The candidates, each with its score; all of them are looked at.         *)
EvaluateCandidates(s) ==
  LET table == Larger(Larger(s.pipe * 50 + s.spaces * 30 + s.delimiter * 20, s.csv * 80),
                      s.columns * 80)
  IN  (IF \/ s.pipe >= 6000
          \/ s.pipe >= 1500 /\ s.spaces >= 4000
          \/ s.csv >= 10000
          \/ s.columns >= 5000
       THEN {[route |-> "TABLE", score |-> table]} ELSE {})
      \cup (IF s.is_hierarchy THEN {[route |-> "TREE", score |-> s.hierarchy * 100]} ELSE {})
      \cup (IF s.kv >= 2000 THEN {[route |-> "KV", score |-> s.kv * 70 + s.delimiter * 30]} ELSE {})

StrongestSignal(s) ==
  Larger(Larger(Larger(s.pipe, s.kv), Larger(s.steps, s.csv)), s.columns)

IsJson(lines) == Len(lines) = 1 /\ Marked(lines[1], "json")

(* The route of a segment: two tiers of weak structure, and a segment with *)
(* no candidate, pass the structure engine by; candidates within 0.15 of   *)
(* each other leave it undecided.                                          *)
RouteBy(lines, s, candidates) ==
  LET clear == {c \in candidates : \A d \in candidates \ {c} : c.score - d.score >= 150000}
  IN  CASE IsJson(lines)                                       -> "JSON_NATIVE"
        [] ~ s.is_hierarchy /\ StrongestSignal(s) < 1500       -> "PASS_THROUGH"
        [] candidates = {}                                     -> "PASS_THROUGH"
        [] clear # {}                                          -> (CHOOSE c \in clear : TRUE).route
        [] OTHER                                               -> "AMBIGUOUS"

RouteWith(lines, s) == RouteBy(lines, s, EvaluateCandidates(s))

DecideRoute(lines) == RouteWith(lines, ExtractSignals(lines))

(* An envelope carries the segment, its place in the document, its route   *)
(* and, later, its result.                                                 *)
PreClassify(lines, index) ==
  [sequence_index |-> index, payload |-> lines, assigned_route |-> DecideRoute(lines)]

PreClassifyDocument(segments) == [i \in DOMAIN segments |-> PreClassify(segments[i], i)]
=============================================================================
