------------------------------- MODULE Tables -------------------------------
(***************************************************************************)
(* The table detector: a region is read as comma-separated values, by the  *)
(* kinds of its tokens, by its pipes and by the places its tokens start    *)
(* at, and the reading that explains it best is the table.                 *)
(*                                                                         *)
(* A table is the line its headers come from (0 for none), the places of   *)
(* the lines that are its rows, its number of columns, and a confidence in *)
(* hundredths.  All the rows of a reading have equally many cells, so that *)
(* the gate on their variance never closes and no row is ever padded.  A   *)
(* region is a sequence of lines with their places in the segment.         *)
(***************************************************************************)
EXTENDS Detectors

MinColumns == 2

Reading(headers, rows, cols, confidence) ==
  [headers |-> headers, rows |-> rows, cols |-> cols, confidence |-> confidence]

NoReading == Reading(0, <<>>, 0, 0)

PlacesOf(rows) == [k \in DOMAIN rows |-> rows[k].index]

(* Structure and consistency of the rows, headers and format, weighted.    *)
Score(cols, rows, headers, format) ==
  (IF cols >= MinColumns THEN 40 ELSE 0) + (IF rows >= 2 THEN 30 ELSE 15)
    + (IF headers THEN 20 ELSE 0) + format

-----------------------------------------------------------------------------
(* Comma-separated values: as many fields in every line.  (In the samples  *)
(* these are lines of one shape, and the first is no header to the rest.)  *)
CsvReading(lines) ==
  LET ne == NonEmpty(lines)
      commas(i) == Vocabulary[ne[i].shape].commas
  IN  IF Len(ne) >= 2 /\ \A i \in DOMAIN ne : commas(i) >= 1 /\ commas(i) = commas(1)
      THEN Reading(0, PlacesOf(ne), commas(1) + 1, Score(commas(1) + 1, Len(ne), FALSE, 10))
      ELSE NoReading

-----------------------------------------------------------------------------
(* A row by the kinds of its tokens is a description and the run of amounts *)
(* after it: two of them, or one below a line of column labels.  That line, *)
(* or any other that begins the region without being a row, is the header. *)

IsRow(l, least) ==
  Tokens(l) > least /\ TrailingNums(l) >= least /\ TrailingNums(l) < Tokens(l)

TokenRows(ne) ==
  LET least == IF Marked(ne[1], "labels") THEN 1 ELSE 2
  IN  Where(ne, LAMBDA l : IsRow(l, least))

RowsReading(first, rows, cols) ==
  IF \E k \in DOMAIN rows : TrailingNums(rows[k]) + 1 # cols THEN NoReading
  ELSE Reading(IF first.index # rows[1].index /\ Tokens(first) >= cols THEN first.index ELSE 0,
               PlacesOf(rows), cols, 72)

TokenReadingOf(ne, rows) ==
  IF rows = <<>> THEN NoReading ELSE RowsReading(ne[1], rows, TrailingNums(rows[1]) + 1)

TokenReading(lines) ==
  IF Len(NonEmpty(lines)) < 2 THEN NoReading
  ELSE TokenReadingOf(NonEmpty(lines), TokenRows(NonEmpty(lines)))

-----------------------------------------------------------------------------
(* The lines with two cells or more between pipes.                         *)
PipeReading(lines) ==
  LET ne   == NonEmpty(lines)
      rows == Where(ne, LAMBDA l : Marked(l, "pipe"))
      cols == IF rows = <<>> THEN 0 ELSE 2
      format == Rounded(Len(rows), Len(ne), 20)
  IN  Reading(0, PlacesOf(rows), cols,
              Score(cols, Len(rows), FALSE, IF format > 10 THEN 10 ELSE format))

(* The columns of a region start where tokens of two lines or more (two in *)
(* five, of many lines) do; a token belongs to the last column that starts *)
(* at or before it.                                                        *)
Boundaries(ne) ==
  LET support(o) == Cardinality({i \in DOMAIN ne : \E k \in 1 .. Tokens(ne[i]) : Offset(ne[i], k) = o})
      least == Larger(2, (4 * Len(ne)) \div 10)
      offsets == UNION {{Offset(ne[i], k) : k \in 1 .. Tokens(ne[i])} : i \in DOMAIN ne}
  IN  {o \in offsets : support(o) >= least}

(* The cells of a line, by their column: the numbers of the tokens in it.  *)
Cells(l, boundaries) ==
  LET column(o) == LET before == {b \in boundaries : b <= o}
                   IN  IF before = {} THEN Least(boundaries) ELSE Greatest(before)
  IN  [b \in boundaries |-> {k \in 1 .. Tokens(l) : column(Offset(l, k)) = b}]

KindOf(l, k) == Vocabulary[l.shape].kinds[k]

NumericCells(l, cells) ==
  Cardinality({b \in DOMAIN cells : \E k \in cells[b] : cells[b] = {k} /\ KindOf(l, k) = Num})

AlphaCells(l, cells) ==
  Cardinality({b \in DOMAIN cells : \E k \in cells[b] : KindOf(l, k) \in {Word, Hex}})

(* The first line is a header if it is less numeric than the second, and   *)
(* no less made of letters.                                                *)
LooksLikeHeader(first, second, cells) ==
  /\ NumericCells(first, cells[1]) < NumericCells(second, cells[2])
  /\ AlphaCells(first, cells[1]) >= AlphaCells(second, cells[2])

InferHeader(ne, boundaries) ==
  /\ Len(ne) >= 2
  /\ LooksLikeHeader(ne[1], ne[2], [i \in {1, 2} |-> Cells(ne[i], boundaries)])

GridReading(ne, cols, headed) ==
  LET rows == IF headed THEN Tail(ne) ELSE ne
  IN  Reading(IF headed THEN ne[1].index ELSE 0, PlacesOf(rows), cols,
              Score(cols, Len(rows), headed, 10))

AlignedReadingOf(ne, boundaries) ==
  IF Cardinality(boundaries) < MinColumns THEN Reading(0, <<>>, 0, Score(0, 0, FALSE, 0))
  ELSE GridReading(ne, Cardinality(boundaries), InferHeader(ne, boundaries))

AlignedReading(lines) == AlignedReadingOf(NonEmpty(lines), Boundaries(NonEmpty(lines)))

-----------------------------------------------------------------------------
(* Comma-separated values are unambiguous; the reading by tokens wins with *)
(* a header or with more columns than the other two have; of those the one *)
(* that scores higher.  (Its second try after these never finds a table:   *)
(* it would have had more columns than none.)                              *)
BestReading(csv, tokens, pipe, aligned) ==
  CASE csv.rows # <<>> -> csv
    [] /\ tokens.rows # <<>>
       /\ tokens.headers # 0 \/ tokens.cols > Larger(pipe.cols, aligned.cols) -> tokens
    [] OTHER -> IF pipe.confidence >= aligned.confidence THEN pipe ELSE aligned

DetectTable(lines) ==
  IF NonEmpty(lines) = <<>> THEN NoReading
  ELSE BestReading(CsvReading(lines), TokenReading(lines), PipeReading(lines), AlignedReading(lines))

TableBlock(lines, table) ==
  IF table.rows = <<>> THEN {} ELSE {Block("table", Places(lines), table.confidence)}

TableBlocks(lines) == TableBlock(lines, DetectTable(lines))
=============================================================================
