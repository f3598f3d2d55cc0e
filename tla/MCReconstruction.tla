-------------------------- MODULE MCReconstruction --------------------------
(***************************************************************************)
(* Short documents over a small alphabet of lines, and documents of up to  *)
(* three paragraphs, each of a kind the engine treats in its own way.      *)
(***************************************************************************)
EXTENDS Reconstruction

CONSTANTS Length, Paragraphs

In(k, shape) == [shape |-> shape, indent |-> k]

Alphabet == {L("total"), L("rule"), L("blank"), L("item"), In(2, "node")}

Legal(text) == /\ ~ IsEmpty(text[1]) /\ text[1].indent = 0
               /\ ~ IsEmpty(text[Len(text)])

ShortTexts == {t \in UNION {[1 .. n -> Alphabet] : n \in 1 .. Length} : Legal(t)}

Kinds ==
  {<<L("prose"), L("prose")>>,
   <<L("total"), L("prose"), L("notes")>>,
   <<L("header"), L("audit"), L("audit")>>,
   <<L("pipe"), L("pipe"), L("pipe"), L("rule"), L("due")>>,
   <<L("node"), In(2, "node"), In(4, "node")>>,
   <<L("total"), L("due"), L("rule"), L("remark"), L("rule")>>,
   <<L("json")>>}

(* Lines that are lost in a block, among them those that share a word with *)
(* another line or with the name of a field, and lines that only its span  *)
(* covers.                                                                 *)
LossyKinds ==
  {<<L("total"), L("json"), L("audit"), L("header"), L("notes")>>,
   <<L("total"), L("json"), L("value"), L("header"), L("notes")>>,
   <<L("total"), L("trail"), L("value"), L("notes")>>,
   <<L("header"), L("audit"), L("audit"), L("rule"), L("trail")>>,
   <<L("header"), L("audit"), L("audit"), L("rule"), L("value")>>,
   <<L("prose")>> \o [i \in 1 .. 6 |-> L("rule")] \o <<L("total"), L("due")>>}

Joint == <<L("blank")>>

LongTexts ==
  {a \o Joint \o b : a, b \in Kinds \cup LossyKinds}
    \cup (IF Paragraphs < 3 THEN {} ELSE {a \o Joint \o b \o Joint \o c : a, b, c \in Kinds})

MCTexts == ShortTexts \cup LongTexts
=============================================================================
