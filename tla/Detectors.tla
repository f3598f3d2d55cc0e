----------------------------- MODULE Detectors -----------------------------
(***************************************************************************)
(* What the block and fallback engines find in a region: its fields, the   *)
(* kind of each of its lines, and the tree its indentation draws; each     *)
(* packaged as a block, which spans from the first line it knows of to the *)
(* last.                                                                   *)
(*                                                                         *)
(* Confidences are in hundredths.  A region is a sequence of lines with    *)
(* their places in the segment.                                            *)
(***************************************************************************)
EXTENDS Lines

Least(S)    == CHOOSE x \in S : \A y \in S : x <= y
Greatest(S) == CHOOSE x \in S : \A y \in S : y <= x
Places(lines) == {lines[i].index : i \in DOMAIN lines}

-----------------------------------------------------------------------------
(* The fields: a valid key before a colon, or a known label before         *)
(* something that looks like a value.                                      *)

IsField(l) == Vocabulary[l.shape].pair # "none"

KvConfidence(l) ==
  [full |-> 100, empty |-> 80, label |-> 75][Vocabulary[l.shape].pair]

DetectAllKv(lines) == Where(lines, IsField)

-----------------------------------------------------------------------------
(* The kind of a line; a field is one whatever else it is.                 *)

IsTelemetry(l) ==
  LET kinds == Vocabulary[l.shape].kinds
  IN  /\ kinds # <<>>
      /\ 10 * Cardinality({k \in DOMAIN kinds : kinds[k] \in {Num, Hex}}) >= 6 * Len(kinds)

LineType(l) ==
  CASE IsField(l)             -> "kv"
    [] Marked(l, "severity")  -> "log"
    [] IsTelemetry(l)         -> "telemetry"
    [] OTHER                  -> "prose"

TypeOrder == <<"kv", "log", "telemetry", "prose">>

OfType(lines, type) == Count(lines, LAMBDA l : LineType(l) = type)

(* The kind most lines have, the first of several; none if it has not half *)
(* of them.                                                                *)
MostOf(counts, total) ==
  LET most == CHOOSE k \in DOMAIN counts :
                \A j \in DOMAIN counts : counts[j] < counts[k] \/ (counts[j] = counts[k] /\ k <= j)
  IN  IF 2 * counts[most] >= total THEN TypeOrder[most] ELSE "mixed"

DominantType(lines) ==
  MostOf([k \in DOMAIN TypeOrder |-> OfType(lines, TypeOrder[k])], Len(lines))

(* Neighbours of one kind form a group.                                    *)
Groups(lines) ==
  1 + Cardinality({i \in 2 .. Len(lines) : LineType(lines[i]) # LineType(lines[i - 1])})

(* How much of the region is of its kind, and how few groups it falls      *)
(* into.                                                                   *)
ContextConfidence(lines) ==
  LET type == DominantType(lines)
      n    == Len(lines)
      pure == IF type = "mixed" THEN 30 * n ELSE 100 * OfType(lines, type)
  IN  Hundredths(7 * pure + 300 * (n - Groups(lines)), 10 * n)

-----------------------------------------------------------------------------
(* The tree: the depth of a line is its indentation in units, and one more *)
(* for a bar it starts with; its parent is the nearest line above it that  *)
(* is less deep.                                                           *)

IndentUnit(lines) ==
  LET positive == {lines[i].indent : i \in DOMAIN lines} \ {0}
  IN  IF positive = {2} \/ positive = {2, 4} THEN 2 ELSE 4

Depth(l, unit) == l.indent \div unit + (IF Marked(l, "pipe") THEN 1 ELSE 0)

Depths(lines) ==
  LET shown == NonEmpty(lines)
  IN  [i \in DOMAIN shown |-> Depth(shown[i], IndentUnit(shown))]

MinValidDepth == 2

HasHierarchy(lines) == \E i \in DOMAIN Depths(lines) : Depths(lines)[i] >= MinValidDepth

Parent(depths, i) ==
  LET above == {j \in 1 .. i - 1 : depths[j] < depths[i]}
  IN  IF above = {} THEN 0 ELSE Greatest(above)

(* The nodes of the tree by the places of their lines; roots have no parent. *)
BuildTree(lines) ==
  LET shown == NonEmpty(lines)
  IN  [i \in DOMAIN shown |->
         [index  |-> shown[i].index,
          depth  |-> Depths(lines)[i],
          parent |-> LET p == Parent(Depths(lines), i)
                     IN  IF p = 0 THEN 0 ELSE shown[p].index]]

-----------------------------------------------------------------------------
Block(source, places, confidence) ==
  [source |-> source, start |-> Least(places), end |-> Greatest(places), confidence |-> confidence]

KvBlock(lines) ==
  LET fields == DetectAllKv(lines)
  IN  Block("kv", Places(fields), Rounded(Total(fields, KvConfidence), Len(fields), 1))

ContextBlock(lines) == Block("context", Places(lines), ContextConfidence(lines))

TreeBlock(lines) == Block("tree_structure", Places(NonEmpty(lines)), 100)

KvBlocks(lines)   == IF DetectAllKv(lines) = <<>> THEN {} ELSE {KvBlock(lines)}
TreeBlocks(lines) == IF HasHierarchy(lines) THEN {TreeBlock(lines)} ELSE {}

BlockEngine(lines)    == KvBlocks(lines) \cup {ContextBlock(lines)} \cup TreeBlocks(lines)
FallbackEngine(lines) == KvBlocks(lines) \cup {ContextBlock(lines)}
=============================================================================
