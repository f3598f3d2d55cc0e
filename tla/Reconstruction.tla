--------------------------- MODULE Reconstruction ---------------------------
(***************************************************************************)
(* The reconstruction of a document: it is cut into segments, each is      *)
(* routed, the structure engine works on them in a pool of threads, and    *)
(* the results are put together in the order of the document, packaged,    *)
(* cleaned and validated.                                                  *)
(*                                                                         *)
(* The threads finish in any order, and each can fail; a segment whose     *)
(* thread failed is kept as prose.                                         *)
(***************************************************************************)
EXTENDS Segmentation, PreClassifier, Postprocess

CONSTANTS
  Texts,        \* the documents
  MaxFailures   \* bound: threads that fail in one run

(* A text neither begins nor ends with an empty line.                      *)
ASSUME TextAssumption ==
  /\ Texts \subseteq Seq(LineObject)
  /\ \A text \in Texts : text # <<>> /\ ~ IsEmpty(text[1]) /\ ~ IsEmpty(text[Len(text)])
  /\ MaxFailures \in Nat

VARIABLES
  doc,         \* the document
  stage,       \* what the engine does next
  segments,    \* the segments of the document
  envelopes,   \* a segment with its place, route, status and result
  completed,   \* the places of the envelopes in the order they were done
  output       \* the packaged, cleaned and validated document

vars == <<doc, stage, segments, envelopes, completed, output>>

Stages  == {"core", "routing", "processing", "postprocess", "done"}
Routes  == {"JSON_NATIVE", "PASS_THROUGH", "TABLE", "TREE", "KV", "AMBIGUOUS"}
NoOutput == [segments |-> <<>>, validation |-> "none"]

Init ==
  /\ doc \in Texts
  /\ stage = "core"
  /\ segments = <<>>
  /\ envelopes = <<>>
  /\ completed = <<>>
  /\ output = NoOutput

-----------------------------------------------------------------------------
(* A document without segments is answered at once, unvalidated.           *)
RunCore ==
  /\ stage = "core"
  /\ segments' = RunCorePipeline(doc)
  /\ stage' = IF segments' = <<>> THEN "done" ELSE "routing"
  /\ UNCHANGED <<doc, envelopes, completed, output>>

(* An envelope as it is queued for its task.                               *)
Queued(envelope) ==
  [sequence_index |-> envelope.sequence_index, payload |-> envelope.payload,
   assigned_route |-> envelope.assigned_route,
   status |-> "queued", result |-> ProseFallback]

RouteSegments ==
  /\ stage = "routing"
  /\ envelopes' = [i \in DOMAIN segments |-> Queued(PreClassifyDocument(segments)[i])]
  /\ stage' = "processing"
  /\ UNCHANGED <<doc, segments, completed, output>>

Complete(i, status, result) ==
  /\ envelopes' = [envelopes EXCEPT ![i].status = status, ![i].result = result]
  /\ completed' = Append(completed, i)
  /\ UNCHANGED <<doc, stage, segments, output>>

Bypasses(envelope) == envelope.assigned_route \in {"PASS_THROUGH", "JSON_NATIVE"}

(* What the engine does not look at is done when its task starts.          *)
PassBy(i) ==
  /\ stage = "processing"
  /\ envelopes[i].status = "queued"
  /\ Bypasses(envelopes[i])
  /\ Complete(i, "done",
              Bypass(IF envelopes[i].assigned_route = "PASS_THROUGH" THEN "prose" ELSE "kv_block", 100))

(* The other tasks hand their payload to the pool.                         *)
Submit(i) ==
  /\ stage = "processing"
  /\ envelopes[i].status = "queued"
  /\ ~ Bypasses(envelopes[i])
  /\ envelopes' = [envelopes EXCEPT ![i].status = "processing"]
  /\ UNCHANGED <<doc, stage, segments, completed, output>>

Finish(i) ==
  /\ stage = "processing"
  /\ envelopes[i].status = "processing"
  /\ Complete(i, "done", Structure(envelopes[i].payload))

(* Whatever is raised in the thread is caught, and kept as the result.     *)
Fail(i) ==
  /\ stage = "processing"
  /\ envelopes[i].status = "processing"
  /\ Cardinality({j \in DOMAIN envelopes : envelopes[j].status = "failed"}) < MaxFailures
  /\ Complete(i, "failed", ProseFallback)

-----------------------------------------------------------------------------
(* faulty variant: the results are taken as they come in.                  *)
ReassembleAsCompleted(done, order) == [k \in DOMAIN order |-> done[order[k]]]

(* The envelopes in the order of their places in the document, whatever    *)
(* the order they were completed in.                                       *)
Reassemble(done, order) ==
  [k \in DOMAIN done |-> CHOOSE e \in {done[i] : i \in DOMAIN done} : e.sequence_index = k]

Gather ==
  /\ stage = "processing"
  /\ \A i \in DOMAIN envelopes : envelopes[i].status \in {"done", "failed"}
  /\ envelopes' = Reassemble(envelopes, completed)
  /\ stage' = "postprocess"
  /\ UNCHANGED <<doc, segments, completed, output>>

(* The validation measures what is left against the lines of the segments. *)
RunPostprocess ==
  /\ stage = "postprocess"
  /\ LET results == [i \in DOMAIN envelopes |-> envelopes[i].result]
         cleaned == Cleanup(FormatSegments(results, segments))
     IN  output' = [segments |-> cleaned, validation |-> Validate(cleaned, Total(segments, Len))]
  /\ stage' = "done"
  /\ UNCHANGED <<doc, segments, envelopes, completed>>

Next ==
  \/ RunCore
  \/ RouteSegments
  \/ \E i \in DOMAIN envelopes : PassBy(i) \/ Submit(i) \/ Finish(i) \/ Fail(i)
  \/ Gather
  \/ RunPostprocess

Spec == Init /\ [][Next]_vars

-----------------------------------------------------------------------------
(* Type invariant: the envelopes are those of the segments, in order.      *)
TypeOK ==
  /\ doc \in Texts \cap Seq(LineObject)
  /\ stage \in Stages
  /\ \A i \in DOMAIN envelopes :
       /\ envelopes[i].sequence_index = i
       /\ envelopes[i].payload = segments[i]
       /\ envelopes[i].assigned_route \in Routes
       /\ envelopes[i].status \in {"queued", "processing", "done", "failed"}

-----------------------------------------------------------------------------
(* Where the lines of a segment can get lost, in spite of all that is done *)
(* to keep them.                                                           *)

(* A payload that is JSON is named a block of fields and packaged as text; *)
(* the cleanup finds no fields in it.                                      *)
PrunedJson(payload) == IsJson(payload)

(* A single line between the last boundaries waits for one that can take   *)
(* it along, and there is none.                                            *)
Stranded(payload, i) ==
  LET model == LineModel(payload)
      wall(j) == j \notin DOMAIN model \/ IsBoundary(model[j])
  IN  /\ wall(Len(model))
      /\ \A j \in i .. Len(model) : wall(j) \/ (wall(j - 1) /\ wall(j + 1))
      /\ SubSegment(model) # <<>>

Done == stage = "done" /\ segments # <<>>

(* What the lines with a letter or a digit say.                            *)
Words(lines) ==
  LET worded == Where(lines, IsAlnum)
  IN  [k \in DOMAIN worded |-> worded[k].shape]

(* What has been kept of the i-th segment.                                 *)
Surviving(i) ==
  UNION {KeptPlaces(output.segments[k]) :
           k \in {k \in DOMAIN output.segments : output.segments[k].place = i}}

(* The longer words a block of the i-th segment is written with, and the   *)
(* lines taken to be kept for their sake: those with one of them, and      *)
(* those without a longer word.                                            *)
WordsWritten(i) ==
  UNION {Written(output.segments[k].blocks, LineModel(segments[i])) :
           k \in {k \in DOMAIN output.segments : output.segments[k].place = i}}

Repeated(i, j) ==
  LET words == LongerWords(segments[i][j])
  IN  words = {} \/ words \cap WordsWritten(i) # {}

(* Every line of the document with a letter or a digit in it is in a       *)
(* segment, in order, and in the output, as part of a block or as a gap,   *)
(* unless it is JSON, is stranded, has no longer word, or shares one with  *)
(* a line or a name its segment is packaged with.  The formatter's promise *)
(* that "no physical line silently vanishes from the output"               *)
(* (formatter.py), as far as it is kept.                                   *)
NoLineVanishes ==
  Done =>
    /\ Words(Joined(segments, LAMBDA s : s)) = Words(doc)
    /\ \A i \in DOMAIN segments, j \in 1 .. Len(doc) :
         j \in DOMAIN segments[i] /\ IsAlnum(segments[i][j]) =>
           \/ j \in Surviving(i)
           \/ PrunedJson(segments[i])
           \/ Stranded(segments[i], j)
           \/ Repeated(i, j)

(* What comes out depends on the document and on which segments failed,    *)
(* not on the order the threads finished in; a segment that failed is kept *)
(* as text, and the others come out as if it had not ("Out-of-order        *)
(* execution is safe", pre_classifier.py).                                 *)
Alone(i) ==
  IF envelopes[i].status = "failed" THEN ProseFallback
  ELSE CASE DecideRoute(segments[i]) = "PASS_THROUGH" -> Bypass("prose", 100)
         [] DecideRoute(segments[i]) = "JSON_NATIVE"  -> Bypass("kv_block", 100)
         [] OTHER                                     -> Structure(segments[i])

OrderDoesNotMatter ==
  Done =>
    /\ Len(envelopes) = Len(segments)
    /\ output.segments = Cleanup(FormatSegments([i \in DOMAIN segments |-> Alone(i)], segments))

(* The lines between the first and the last of a mixed segment's block are *)
(* counted with it, whether the block holds them or not.                   *)
SpannedOver(i) ==
  UNION {Spanned(output.segments[k]) :
           k \in {k \in DOMAIN output.segments :
                    output.segments[k].place = i /\ output.segments[k].type = "mixed"}}

(* A document that lost more than half of its lines fails the check of     *)
(* line conservation, whatever its segments were packaged as, unless the   *)
(* lost lines lie within the blocks of mixed segments ("overlapping mixed  *)
(* sub_blocks make element counts non-1:1", validation.py).                *)
Lost ==
  {line \in (DOMAIN segments) \X (1 .. Len(doc)) :
     LET i == line[1]
         j == line[2]
     IN  /\ j \in DOMAIN segments[i]
         /\ ~ IsEmpty(segments[i][j])
         /\ j \notin Surviving(i) \cup SpannedOver(i)}

GrossLossIsSeen ==
  Done /\ 2 * Cardinality(Lost) > Total(segments, Len) => ~ output.validation.line_conservation

-----------------------------------------------------------------------------
(* Documented, and not so.                                                 *)

(* "So: keep every sub-segment's blocks and lines, in document order.      *)
(* Nothing is dropped" (engine.py).                                        *)
NothingIsDropped ==
  Done => \A i \in DOMAIN segments : \A j \in DOMAIN segments[i] :
            IsAlnum(segments[i][j]) => j \in Surviving(i) \/ Repeated(i, j)

(* "A line is represented if its substantial alphanumeric tokens survived  *)
(* into the packaged content" (formatter.py): one of them is enough, and   *)
(* the name of a field will do for it.                                     *)
DroppedIsNotCovered ==
  Done => \A i \in DOMAIN segments : \A j \in DOMAIN segments[i] :
            IsAlnum(segments[i][j]) =>
              \/ j \in Surviving(i) \/ PrunedJson(segments[i]) \/ Stranded(segments[i], j)
              \/ LongerWords(segments[i][j]) \subseteq WordsWritten(i)

(* "Such lines are returned for explicit prose fallback + flagging so no   *)
(* physical line silently vanishes from the output" (formatter.py): the    *)
(* gaps of a segment of fields, a table or a tree are not in the text a    *)
(* human is shown, and neither are the lines only a mixed segment's        *)
(* context holds.                                                          *)
GapsAreShown ==
  Done => \A k \in DOMAIN output.segments :
            KeptPlaces(output.segments[k])
              = {HumanReadable(output.segments[k])[n] : n \in DOMAIN HumanReadable(output.segments[k])}
=============================================================================
