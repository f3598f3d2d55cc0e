---------------------------- MODULE Postprocess ----------------------------
(***************************************************************************)
(* What becomes of the named segments: the formatter packages each, the    *)
(* cleanup drops those left empty, the validation counts what is left.     *)
(*                                                                         *)
(* A packaged segment holds lines of its text by their places: in the      *)
(* blocks it is packaged from, in its text, and as gaps, the lines that no *)
(* block took up.  Nothing in the sample lines is itself cleaned away (no  *)
(* control characters, no junk keys, no cosmetic rows).                    *)
(***************************************************************************)
EXTENDS StructureEngine

(* The text of a segment as prose: its lines without the separators, and   *)
(* without empty lines at its ends.                                        *)
StripSeparators(payload) ==
  LET kept == Where(LineModel(payload), LAMBDA l : ~ Marked(l, "ruled"))
      full == {k \in DOMAIN kept : ~ IsEmpty(kept[k])}
  IN  IF full = {} THEN <<>> ELSE PlacesOf(SubSeq(kept, Least(full), Greatest(full)))

BlocksOf(blocks, source) == Where(blocks, LAMBDA b : b.source = source)
FirstOf(blocks, source)  ==
  LET all == BlocksOf(blocks, source)
  IN  [k \in {1} \cap DOMAIN all |-> all[k]]

(* The blocks a segment of a type is packaged from: all its fields, but    *)
(* only the first table, tree or context of several.                       *)
Packaged(type, blocks) ==
  CASE type = "kv_block"  -> BlocksOf(blocks, "kv")
    [] type = "table"     -> FirstOf(blocks, "table")
    [] type = "hierarchy" -> FirstOf(blocks, "tree_structure")
    [] type = "context"   -> FirstOf(blocks, "context")
    [] type = "mixed"     -> blocks

PlacesIn(b) == {b.items[k] : k \in DOMAIN b.items} \cup ({b.headers} \ {0})

(* The names the fields of a block are written under, as far as they have *)
(* a word of a sample line in them.                                        *)
NamesIn == [kv |-> {"value"}, table |-> {}, tree_structure |-> {}, context |-> {"value"}]

(* The longer words of what the blocks of a segment are written as.        *)
LinesIn(b, lines) == {lines[m] : m \in {m \in DOMAIN lines : lines[m].index \in PlacesIn(b)}}

Written(blocks, lines) ==
  UNION {NamesIn[blocks[k].source] \cup UNION {LongerWords(l) : l \in LinesIn(blocks[k], lines)} :
           k \in DOMAIN blocks}

(* A line is represented if any one of its longer words is written, be it  *)
(* for this line, for another, or as a name; or if it has none.            *)
Represented(l, lines, blocks) ==
  LongerWords(l) = {} \/ LongerWords(l) \cap Written(blocks, lines) # {}

DetectGaps(lines, blocks) ==
  PlacesOf(Where(NonEmpty(lines), LAMBDA l : ~ Represented(l, lines, blocks)))

(* Without blocks the segment is packaged as text.  (A packaged segment    *)
(* bears its place here, to tell it from its likes.)                       *)
Package(result, payload, place) ==
  LET blocks == Packaged(result.type, result.blocks)
      byText == result.blocks = <<>> \/ result.lines = <<>> \/ result.type = "prose"
  IN  [place      |-> place,
       type       |-> result.type,
       confidence |-> result.confidence,
       payload    |-> payload,
       text       |-> IF byText THEN StripSeparators(payload) ELSE <<>>,
       blocks     |-> IF byText THEN <<>> ELSE blocks,
       gaps       |-> IF byText THEN <<>> ELSE DetectGaps(result.lines, blocks)]

FormatSegments(results, payloads) ==
  [k \in DOMAIN results |-> Package(results[k], payloads[k], k)]

-----------------------------------------------------------------------------
(* Fields without a pair, a table without a row, and the like: a segment   *)
(* of fields packaged as text has no pair.                                 *)
IsEmptySegment(seg) ==
  CASE seg.type = "prose" -> seg.text = <<>>
    [] seg.type = "mixed" -> seg.blocks = <<>> /\ seg.gaps = <<>>
    [] OTHER              -> \A k \in DOMAIN seg.blocks : seg.blocks[k].items = <<>>

Cleanup(segments) == Where(segments, LAMBDA seg : ~ IsEmptySegment(seg))

-----------------------------------------------------------------------------
(* The lines a segment accounts for: the spans of a mixed one as a union,  *)
(* the items and the gaps of the others one by one.                        *)
Spanned(seg) ==
  UNION {seg.blocks[k].start .. seg.blocks[k].end : k \in DOMAIN seg.blocks}

SegmentLines(seg) ==
  CASE seg.type = "mixed" -> Cardinality(Spanned(seg) \cup {seg.gaps[k] : k \in DOMAIN seg.gaps})
    [] seg.type = "prose" -> Len(seg.text)
    [] OTHER              -> Total(seg.blocks, LAMBDA b : Len(b.items) + (IF b.headers # 0 THEN 1 ELSE 0))
                               + Len(seg.gaps)

CountSegmentLines(segments) == Total(segments, SegmentLines)

(* faulty variant: what is left is measured against itself.                *)
LineConservationOfWhatIsLeft(segments, raw) ==
  2 * CountSegmentLines(segments) >= Total(segments, LAMBDA seg : Len(seg.payload))

(* Advisory: it fails on less than half the lines or half as many again.   *)
(* (The pruned lines it means to add are counted by flags no segment here  *)
(* ever carries; that of a pruned segment is not among a segment's own.)   *)
LineConservation(segments, raw) ==
  /\ 2 * CountSegmentLines(segments) >= raw
  /\ 2 * CountSegmentLines(segments) <= 3 * raw

(* What a reader of a segment is warned of: fields half of which are       *)
(* empty, a table of one row, a tree that skips a generation, little       *)
(* confidence.  No other anomaly can arise in the samples, and no error.   *)
EmptyValues(seg) ==
  Total(seg.blocks, LAMBDA b :
    Len(Where(b.items, LAMBDA i : Vocabulary[seg.payload[i].shape].pair = "empty")))

DepthJumps(b) ==
  Cardinality({k \in 2 .. Len(b.tree) : b.tree[k].depth > b.tree[k - 1].depth + 1})

KvAnomalies(seg) ==
  IF 2 * EmptyValues(seg) >= Total(seg.blocks, LAMBDA b : Len(b.items)) THEN 1 ELSE 0

TableAnomalies(seg) == IF Len(seg.blocks[1].items) < 2 THEN 1 ELSE 0

HierarchyAnomalies(seg) == DepthJumps(seg.blocks[1])

LowConfidence(seg) == IF seg.confidence < 40 THEN 1 ELSE 0

Anomalies(seg) ==
  LowConfidence(seg)
    + (CASE seg.type = "kv_block"  -> KvAnomalies(seg)
         [] seg.type = "table"     -> TableAnomalies(seg)
         [] seg.type = "hierarchy" -> HierarchyAnomalies(seg)
         [] OTHER                  -> 0)

DocumentFlags(segments) ==
  IF segments = <<>> THEN {"EMPTY_DOCUMENT"}
  ELSE (IF CountSegmentLines(segments) < 3 * Len(segments) THEN {"HIGH_FRAGMENTATION"} ELSE {})
       \cup (IF 10 * Count(segments, LAMBDA seg : seg.type = "mixed") >= 6 * Len(segments)
             THEN {"EXCESSIVE_MIXED"} ELSE {})

(* The score in hundredths: penalties for the anomalies and flags spread   *)
(* over the segments, and one for the failed check that is not.  (The      *)
(* code's sum of them can come out one hundredth higher.)                  *)
QualityScore(segments, conserved) ==
  LET n == Len(segments)
      penalty == 5 * Total(segments, Anomalies) + 10 * Cardinality(DocumentFlags(segments))
                   + (IF conserved THEN 0 ELSE 20 * n)
  IN  IF n = 0 \/ penalty >= 100 * n THEN 0 ELSE ToHundredths(100 * n - penalty, n)

Validate(segments, raw) ==
  [is_valid          |-> segments # <<>>,
   line_conservation |-> LineConservation(segments, raw),
   lines_reconciled  |-> CountSegmentLines(segments),
   quality_score     |-> QualityScore(segments, LineConservation(segments, raw))]

-----------------------------------------------------------------------------
(* What is shown to a human of a segment, as places of its lines: the      *)
(* context of a mixed segment is not, nor are the gaps of any other.       *)
Shown(b) == (IF b.headers # 0 THEN <<b.headers>> ELSE <<>>) \o b.items

HumanReadable(seg) ==
  CASE seg.type = "prose" -> seg.text
    [] seg.type = "mixed" -> Joined(Where(seg.blocks, LAMBDA b : b.source # "context"), Shown) \o seg.gaps
    [] OTHER              -> Joined(seg.blocks, Shown)

(* All lines a segment has kept anywhere.                                  *)
KeptPlaces(seg) ==
  {seg.text[k] : k \in DOMAIN seg.text} \cup {seg.gaps[k] : k \in DOMAIN seg.gaps}
    \cup UNION {PlacesIn(seg.blocks[k]) : k \in DOMAIN seg.blocks}
=============================================================================
