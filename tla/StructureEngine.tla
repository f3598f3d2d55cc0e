-------------------------- MODULE StructureEngine --------------------------
(***************************************************************************)
(* The structure engine: a segment is taken apart into sub-segments at its *)
(* separators and empty lines, each goes to one of three engines by what   *)
(* its lines look like together, its blocks are reconciled and it is       *)
(* named; then the parts are put together again as one result.             *)
(*                                                                         *)
(* A block comes with what it holds: the places of the lines its items     *)
(* were read from, in order, the line a table has its headers from,        *)
(* and the nodes of a tree.  Confidences are in hundredths.                *)
(***************************************************************************)
EXTENDS Reconciler, Tables

(* The lines of a segment with their places in it (from one, not zero).    *)
LineModel(segment) ==
  [i \in DOMAIN segment |->
     [index |-> i, shape |-> segment[i].shape, indent |-> segment[i].indent]]

IsSeparator(l)       == Marked(l, "ruled")
IsStructuralEmpty(l) == IsEmpty(l) /\ l.indent = 0
IsBoundary(l)        == IsSeparator(l) \/ IsStructuralEmpty(l)

MinSegmentLines == 2

(* faulty variant: a short run goes out by itself as soon as it ends, and  *)
(* what waited before it is forgotten.                                     *)
EmitsOnlyLongRuns(model, i) ==
  /\ ~ IsBoundary(model[i])
  /\ i >= MinSegmentLines
  /\ ~ IsBoundary(model[i - 1])
  /\ i = Len(model) \/ IsBoundary(model[i + 1])

(* A run of lines between boundaries is emitted when it has two lines, or  *)
(* when it is the last thing in the segment; a shorter run waits for the   *)
(* next one that is.  A run that waits when the segment ends in a boundary *)
(* is never emitted.                                                       *)
Emits(model, i) ==
  /\ ~ IsBoundary(model[i])
  /\ \/ i = Len(model)
     \/ /\ IsBoundary(model[i + 1])
        /\ i >= MinSegmentLines
        /\ ~ IsBoundary(model[i - 1])

SubSegment(model) ==
  LET ends  == {i \in DOMAIN model : Emits(model, i)}
      start(e) == LET earlier == {d \in ends : d < e}
                  IN  IF earlier = {} THEN 1 ELSE (CHOOSE d \in earlier : \A c \in earlier : c <= d) + 1
  IN  At([e \in ends |-> Where(SubSeq(model, start(e), e), LAMBDA l : ~ IsBoundary(l))], ends)

-----------------------------------------------------------------------------
(* What the lines of a region have in common.  AtLeast(a, b, p) is the     *)
(* comparison a / b >= p in hundredths.                                    *)

AtLeast(a, b, p) == b > 0 /\ 100 * a >= p * b

KvPair(l)     == Marked(l, "kvpair")
Delimited(l)  == Marked(l, "delimiter")
HasPipe(l)    == Marked(l, "pipe")
GlyphLine(l)  == Marked(l, "glyph")

LinesWith(ne, n) == Count(ne, LAMBDA l : Tokens(l) = n)

(* The number of tokens most lines have; the smaller of two.               *)
CommonTokens(ne) ==
  LET counts == {Tokens(ne[i]) : i \in DOMAIN ne}
  IN  CHOOSE n \in counts :
        \A m \in counts : \/ LinesWith(ne, m) < LinesWith(ne, n)
                          \/ LinesWith(ne, m) = LinesWith(ne, n) /\ n <= m

(* A column is aligned when its tokens start within two places.            *)
AlignedColumns(ne, n) ==
  LET alike == {i \in DOMAIN ne : Tokens(ne[i]) = n}
  IN  IF Cardinality(alike) < 2 THEN 0
      ELSE Cardinality({c \in 1 .. n : \A i, j \in alike : Offset(ne[i], c) - Offset(ne[j], c) <= 2})

LineShape(l) == <<Tokens(l), Delimited(l), l.indent > 0>>

MostAlike(ne) ==
  LET alike(i) == Cardinality({j \in DOMAIN ne : LineShape(ne[j]) = LineShape(ne[i])})
      sizes == {alike(i) : i \in DOMAIN ne}
  IN  CHOOSE s \in sizes : \A t \in sizes : t <= s

CsvConsistent(ne) ==
  LET commas(i) == Vocabulary[ne[i].shape].commas
  IN  \A i \in DOMAIN ne : commas(i) = commas(1) /\ commas(i) >= 1

MinTableLines == 3

(* Rows that are many enough and agree on their columns are a table; the   *)
(* first sign that holds decides.  (No sample line has two blanks in a row, *)
(* which is one more sign of columns.)                                     *)
CandidateOf(lines, ne, common) ==
  LET n  == Len(ne)
      pipes   == AtLeast(Count(ne, HasPipe), n, 50)
      stable(p)  == AtLeast(LinesWith(ne, common), n, p)
      aligned == AtLeast(AlignedColumns(ne, common), common, 70)
      ruled   == \E i \in DOMAIN lines : IsSeparator(lines[i]) \/ HasPipe(lines[i])
      signals == {s \in 1 .. 4 : <<pipes, aligned, stable(70), ruled>>[s]}
      glyphs  == AtLeast(Count(ne, GlyphLine), n, 30)
      numbers == DataRows(ne)
  IN  IF n < MinTableLines THEN "no"
      ELSE CASE CsvConsistent(ne)                  -> "sure"
             [] pipes \/ (aligned /\ stable(70))   -> IF Cardinality(signals) >= 3 THEN "sure" ELSE "weak"
             [] glyphs                             -> "tree"
             [] AtLeast(numbers, n, 50)            -> "sure"
             [] OTHER                              -> "no"

TableCandidate(lines) == CandidateOf(lines, NonEmpty(lines), CommonTokens(NonEmpty(lines)))

(* Lines that are fields, or at least delimited and alike.                 *)
StructuredBlock(lines) ==
  LET ne == NonEmpty(lines)
      n  == Len(ne)
  IN  /\ n >= MinSegmentLines
      /\ \/ AtLeast(Count(ne, KvPair), n, 35)
         \/ AtLeast(Count(ne, Delimited), n, 40) /\ AtLeast(MostAlike(ne), n, 50)

(* A table seen with little confidence goes to the block engine.           *)
RouteOf(candidate, lines) ==
  CASE candidate = "sure"             -> "structure_engine"
    [] candidate \in {"weak", "tree"} -> "block_engine"
    [] StructuredBlock(lines)         -> "block_engine"
    [] OTHER                          -> "fallback_engine"

Route(lines) == RouteOf(TableCandidate(lines), lines)

-----------------------------------------------------------------------------
EngineOf(route, lines) ==
  CASE route = "structure_engine" -> TableBlocks(lines)
    [] route = "block_engine"     -> BlockEngine(lines)
    [] OTHER                      -> FallbackEngine(lines)

Content(b, lines, table) ==
  [source     |-> b.source,
   start      |-> b.start,
   end        |-> b.end,
   confidence |-> b.confidence,
   items   |-> CASE b.source = "kv"             -> PlacesOf(DetectAllKv(lines))
                 [] b.source = "table"          -> table.rows
                 [] b.source = "tree_structure" -> PlacesOf(NonEmpty(lines))
                 [] b.source = "context"        -> PlacesOf(NonEmpty(lines)),
   headers |-> IF b.source = "table" THEN table.headers ELSE 0,
   tree    |-> IF b.source = "tree_structure" THEN BuildTree(lines) ELSE <<>>]

Filled(blocks, lines, table) ==
  [k \in DOMAIN blocks |-> Content(blocks[k], lines, table)]

PartResult(blocks, lines, total) ==
  LET label == Classify(blocks, total)
  IN  [type       |-> label.type,
       confidence |-> label.confidence,
       blocks     |-> Filled(Swept(blocks), lines, DetectTable(lines)),
       lines      |-> lines]

ProcessSubSegment(lines, total) ==
  PartResult(Reconcile(EngineOf(Route(lines), lines), total), lines, total)

(* A segment with no sub-segment is one as a whole.                        *)
PartsOr(parts, whole) == IF parts = <<>> THEN <<whole>> ELSE parts

RunParts(parts, total) == [k \in DOMAIN parts |-> ProcessSubSegment(parts[k], total)]

RunStructureEngine(payload) ==
  RunParts(PartsOr(SubSegment(LineModel(payload)), LineModel(payload)), Len(payload))

Joined(results, F(_)) ==
  LET f[k \in 0 .. Len(results)] == IF k = 0 THEN <<>> ELSE f[k - 1] \o F(results[k])
  IN  f[Len(results)]

(* The blocks and lines of all parts, under the name of the part named with *)
(* most confidence, the first of several.                                  *)
MergeSubSegments(results) ==
  LET best == CHOOSE k \in DOMAIN results :
                \A j \in DOMAIN results : \/ results[j].confidence < results[k].confidence
                                          \/ results[j].confidence = results[k].confidence /\ k <= j
  IN  [type       |-> results[best].type,
       confidence |-> results[best].confidence,
       blocks     |-> Joined(results, LAMBDA r : r.blocks),
       lines      |-> Joined(results, LAMBDA r : r.lines)]

(* What the engine makes of a payload, and of one it does not look at.     *)
Structure(payload) == MergeSubSegments(RunStructureEngine(payload))

Bypass(type, confidence) ==
  [type |-> type, confidence |-> confidence, blocks |-> <<>>, lines |-> <<>>]

ProseFallback == Bypass("prose", 0)
=============================================================================
