---------------------------- MODULE Segmentation ----------------------------
(***************************************************************************)
(* The core pass: the text of a document is normalised and cut into        *)
(* segments.                                                               *)
(*                                                                         *)
(* The code works on positions in the text, this module on its lines: a    *)
(* cut before a line is a pair of split positions around the newline before *)
(* it.  A document neither begins nor ends with an empty line, and holds   *)
(* no markup (the sanitizer then returns the text as it is).               *)
(***************************************************************************)
EXTENDS Lines

Blank == L("blank")

(* Two empty lines or more between two lines become one, and the blanks    *)
(* the next line is indented by go with them.                              *)
Normalize(doc) ==
  LET blank(i) == i \in DOMAIN doc /\ IsEmpty(doc[i])
      squeezed == [i \in DOMAIN doc |->
                     CASE blank(i) /\ blank(i + 1)                       -> Blank
                       [] ~ blank(i) /\ blank(i - 1) /\ blank(i - 2)     -> L(doc[i].shape)
                       [] OTHER                                          -> doc[i]]
      kept == {i \in DOMAIN doc : ~ (blank(i) /\ blank(i - 1))}
  IN  At(squeezed, kept)

(* The neighbour of a line that is not empty, zero when there is none.     *)
Before(doc, i) ==
  LET earlier == {j \in DOMAIN doc : j < i /\ ~ IsEmpty(doc[j])}
  IN  IF earlier = {} THEN 0 ELSE CHOOSE j \in earlier : \A k \in earlier : k <= j

(* A list begins or ends at the line; empty lines do not end it.           *)
ListTransition(doc, i) ==
  LET in_list == Before(doc, i) # 0 /\ Marked(doc[Before(doc, i)], "list")
  IN  ~ IsEmpty(doc[i]) /\ Marked(doc[i], "list") # in_list

LooksLikeKv(l) == Marked(l, "rulekv")

(* An empty line parts two paragraphs, but not two fields.                 *)
EmptyLineSplits(doc, i) ==
  LET b == Before(doc, i)
  IN  b < i - 1 /\ ~ (b # 0 /\ LooksLikeKv(doc[b]) /\ LooksLikeKv(doc[i]))

(* The strongest rule that speaks of the place before the line decides.    *)
SplitBefore(doc, i) ==
  \/ Marked(doc[i], "separator")
  \/ Before(doc, i) # 0 /\ Marked(doc[Before(doc, i)], "separator")
  \/ ListTransition(doc, i)
  \/ EmptyLineSplits(doc, i)

ComputeSplits(doc) == {i \in DOMAIN doc : ~ IsEmpty(doc[i]) /\ SplitBefore(doc, i)} \cup {1}

(* strip() takes the blanks before the first line, and the empty lines at  *)
(* the end with it.                                                        *)
Strip(lines) ==
  LET last == CHOOSE i \in DOMAIN lines :
                ~ IsEmpty(lines[i]) /\ \A j \in DOMAIN lines : j > i => IsEmpty(lines[j])
  IN  [i \in 1 .. last |-> IF i = 1 THEN L(lines[1].shape) ELSE lines[i]]

(* What lies between two cuts is a segment if it holds a letter or digit;  *)
(* what follows the last cut is one whatever it holds, but the last cut of *)
(* a document that ends in a separator is behind it.                       *)
SegmentText(doc) ==
  LET splits == ComputeSplits(doc)
      end(i) == LET later == {j \in splits : j > i}
                IN  IF later = {} THEN Len(doc) ELSE (CHOOSE j \in later : \A k \in later : j <= k) - 1
      isTail(i) == end(i) = Len(doc) /\ ~ Marked(doc[i], "separator")
      kept == {i \in splits : isTail(i) \/ \E j \in i .. end(i) : IsAlnum(doc[j])}
  IN  At([i \in kept |-> Strip(SubSeq(doc, i, end(i)))], kept)

(* The core pipeline of the engine: what the stages before the splits find *)
(* beside them (metrics, features, hints) changes no cut.                  *)
RunCorePipeline(doc) == SegmentText(Normalize(doc))
=============================================================================
