----------------------------- MODULE Reconciler -----------------------------
(***************************************************************************)
(* The blocks of a region compete: the reconciler drops those that lose to *)
(* a conflicting one on the same lines, and the classifier names the       *)
(* region after what is left.                                              *)
(*                                                                         *)
(* A region has at most one block of each source.  Confidences are in      *)
(* hundredths, scores in millionths.                                       *)
(***************************************************************************)
EXTENDS Detectors

SourcePriority == [table |-> 5, tree_structure |-> 4, context |-> 3, kv |-> 2]

(* Pairs that cannot both claim a line; blocks of one source never can.    *)
Conflicts(a, b) ==
  \/ a.source = b.source
  \/ {a.source, b.source} \in {{"table", "kv"}, {"tree_structure", "context"}}

Overlaps(a, b) == a.start <= b.end /\ b.start <= a.end

LineCount(b) == b.end - b.start + 1

SpanShare(b, total, weight) ==
  LET n == IF LineCount(b) < total THEN LineCount(b) ELSE total
  IN  Rounded(n, total, weight)

ArbitrationScore(b, total) ==
  7500 * b.confidence + 30000 * SourcePriority[b.source] + SpanShare(b, total, 100000)

(* The order of the sweep: by the first line, tables and trees before the  *)
(* rest, the wider block before the narrower.                              *)
SweptBefore(a, b) ==
  \/ a.start < b.start
  \/ a.start = b.start /\ SourcePriority[a.source] > SourcePriority[b.source]
  \/ a.start = b.start /\ a.source = b.source /\ a.end > b.end

Swept(blocks) ==
  [k \in 1 .. Cardinality(blocks) |->
     CHOOSE b \in blocks : Cardinality({c \in blocks : SweptBefore(c, b)}) = k - 1]

(* A block is accepted unless it scores less than an accepted one it       *)
(* conflicts with; those it scores at least as much as go instead.  (With  *)
(* one block of each source no block meets two it conflicts with.)         *)
Sweep(accepted, b, total) ==
  LET rivals == {a \in accepted : Overlaps(a, b) /\ Conflicts(a, b)}
  IN  IF \E a \in rivals : ArbitrationScore(b, total) < ArbitrationScore(a, total)
      THEN accepted
      ELSE (accepted \ rivals) \cup {b}

MinConfidence == 15

Reconcile(blocks, total) ==
  LET swept == Swept({b \in blocks : b.confidence >= MinConfidence})
      kept[k \in 0 .. Len(swept)] == IF k = 0 THEN {} ELSE Sweep(kept[k - 1], swept[k], total)
  IN  kept[Len(swept)]

-----------------------------------------------------------------------------
SourceLabel == [table |-> "table", kv |-> "kv_block", tree_structure |-> "hierarchy",
                context |-> "context"]

SourceWeight == [table |-> 100, tree_structure |-> 90, kv |-> 80, context |-> 70]

BlockScore(b, total) ==
  6000 * b.confidence + SpanShare(b, total, 250000) + 1500 * SourceWeight[b.source]

(* A context block most of whose lines a more specific block spans says    *)
(* nothing new, and does not compete.                                      *)
SuppressRedundantContext(blocks) ==
  LET specific == {b \in blocks : b.source # "context"}
      covered(c) == {i \in c.start .. c.end : \E b \in specific : i \in b.start .. b.end}
  IN  {b \in blocks : ~ /\ b.source = "context"
                        /\ specific # {}
                        /\ 10 * Cardinality(covered(b)) >= 8 * LineCount(b)}

(* Logarithms to the base two, in ten-thousandths.                         *)
Log2 == <<0, 10000, 15850, 20000, 23219, 25850, 28074, 30000, 31699, 33219, 34594, 35850,
          37004, 38074, 39069, 40000, 40875, 41699, 42479, 43219, 43923, 44594, 45236, 45850>>

SumOf(blocks, F(_)) ==
  LET order == Swept(blocks)
      f[k \in 0 .. Len(order)] == IF k = 0 THEN 0 ELSE f[k - 1] + F(order[k])
  IN  f[Len(order)]

(* The spans compete evenly: their entropy is 0.85 of what it could be.    *)
HighEntropy(blocks) ==
  LET n == Cardinality(blocks)
      lines == SumOf(blocks, LineCount)
      entropy == lines * Log2[lines] - SumOf(blocks, LAMBDA b : LineCount(b) * Log2[LineCount(b)])
  IN  n > 1 /\ 100 * entropy >= 85 * lines * Log2[n]

(* The label of a region and its confidence, damped by how little of the   *)
(* segment it covers.  (A block's score is never below 0.10: what is left  *)
(* is prose only when nothing is.)                                         *)
Classify(reconciled, total) ==
  LET blocks == SuppressRedundantContext(reconciled)
      score(b) == BlockScore(b, total)
      top  == CHOOSE b \in blocks : \A c \in blocks : score(c) < score(b) \/ (score(c) = score(b) /\ ~ SweptBefore(c, b))
      clear == ~ HighEntropy(blocks) /\ \A c \in blocks \ {top} : score(top) - score(c) >= 150000
      cover == IF clear THEN LineCount(top) ELSE SumOf(blocks, LineCount)
      damped == total + (IF cover < total THEN cover ELSE total)
      capped == IF score(top) > 1000000 THEN 1000000 ELSE score(top)
  IN  IF blocks = {} THEN [type |-> "prose", confidence |-> 0]
      ELSE [type       |-> IF clear THEN SourceLabel[top.source] ELSE "mixed",
            confidence |-> ToHundredths(capped * damped, 20000 * total)]
=============================================================================
