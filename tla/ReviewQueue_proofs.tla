------------------------ MODULE ReviewQueue_proofs ------------------------
(***************************************************************************)
(* Proofs about ReviewQueue, for any number of requests, reviewers and     *)
(* documents: the shape of its state, the append-only history, dry runs,   *)
(* reopened disputes, and the implementation of CaseLifecycle; then what a *)
(* request has read and recorded when it evaluates, that the halves of a   *)
(* duplicate do not slip past each other, and the way of a finding into    *)
(* the queue.                                                              *)
(***************************************************************************)
EXTENDS ReviewQueue, FiniteSetTheorems, TLAPS

-----------------------------------------------------------------------------
(* A numbered collection is filled from 1 upwards. *)
Numbered(f) ==
    /\ Cardinality(DOMAIN f) \in Nat
    /\ DOMAIN f = 1 .. Cardinality(DOMAIN f)

(* Adding an entry under its fresh number keeps a numbered collection       *)
(* numbered, and touches no entry that is already there.                    *)
LEMMA FreshEntry ==
    ASSUME NEW f, NEW v, Numbered(f)
    PROVE  /\ Fresh(f) \in Nat \ DOMAIN f
           /\ DOMAIN Put(f, Fresh(f), v) = DOMAIN f \cup {Fresh(f)}
           /\ Put(f, Fresh(f), v)[Fresh(f)] = v
           /\ \A x \in DOMAIN f : Put(f, Fresh(f), v)[x] = f[x]
           /\ Numbered(Put(f, Fresh(f), v))
<1> DEFINE n == Cardinality(DOMAIN f)
           g == Put(f, Fresh(f), v)
<1>1. n \in Nat /\ DOMAIN f = 1 .. n /\ Fresh(f) = n + 1
  BY DEF Numbered, Fresh
<1>2. DOMAIN g = 1 .. n + 1
  BY <1>1 DEF Put
<1>3. Cardinality(1 .. n + 1) = n + 1
  BY <1>1, FS_Interval
<1>4. Numbered(g)
  BY <1>1, <1>2, <1>3 DEF Numbered
<1>5. Fresh(f) \in Nat \ DOMAIN f
  BY <1>1
<1>6. /\ DOMAIN g = DOMAIN f \cup {Fresh(f)}
      /\ g[Fresh(f)] = v
      /\ \A x \in DOMAIN f : g[x] = f[x]
  BY <1>5 DEF Put
<1> QED BY <1>4, <1>5, <1>6

-----------------------------------------------------------------------------
(* The inductive invariant behind type correctness, one part per variable. *)

(* Assertions are filed under numbers already minted, with known contents. *)
RegistryOK ==
    /\ minted \in Nat
    /\ registry \in [DOMAIN registry -> Documented]
    /\ DOMAIN registry \subseteq 1 .. minted

IsCase(c) ==
    /\ c = [status |-> c.status, kind |-> c.kind, subject |-> c.subject,
            counterparts |-> c.counterparts, docs |-> c.docs]
    /\ c.status \in Statuses

CasesOK == Numbered(cases) /\ \A c \in DOMAIN cases : IsCase(cases[c])

(* Every decision is about a case that exists ... *)
DecisionsOK ==
    /\ Numbered(resolutions)
    /\ resolutions \in [DOMAIN resolutions -> DOMAIN cases]

(* ... and a reviewer about to close a case has recorded one about it. *)
ClosingOK ==
    /\ closing \in [Reviewers -> DOMAIN cases \cup {None}]
    /\ \A v \in Reviewers : closing[v] # None =>
          \E n \in DOMAIN resolutions : resolutions[n] = closing[v]

(* A request that reads or records is at one of its documents. *)
IsRequest(q, m) ==
    /\ DOMAIN q = DOMAIN Idle
    /\ q.pc \in Stages
    /\ q.own \subseteq 1 .. m
    /\ q.pc \in {"read", "record"} => q.next \in DOMAIN q.batch
    /\ q.pc \in {"read", "record"} => q.batch \in Batches

RequestsOK ==
    /\ req = [r \in Requests |-> req[r]]
    /\ \A r \in Requests : IsRequest(req[r], minted)

Shape == RegistryOK /\ CasesOK /\ DecisionsOK /\ ClosingOK /\ RequestsOK

(* A batch is a sequence of uploads; its positions are 1 .. Len(batch). *)
LEMMA BatchPositions ==
    ASSUME NEW b \in Batches
    PROVE  /\ Len(b) \in Nat \ {0}
           /\ DOMAIN b = 1 .. Len(b)
           /\ \A i \in DOMAIN b : b[i] \in Contents
<1>1. PICK k \in 1 .. MaxBatch : b \in [1 .. k -> Contents]
  BY DEF Batches
<1>2. k \in Nat \ {0}
  BY RequestAssumption
<1>3. Len(b) = k
  BY <1>1, <1>2
<1> QED BY <1>1, <1>2, <1>3

(* A step of one request leaves all requests well-formed if its own new    *)
(* state is.                                                                *)
LEMMA OneRequestMoves ==
    ASSUME RequestsOK, minted \in Nat, minted' \in Nat, minted <= minted',
           NEW r \in Requests, NEW q, Step(r, q), IsRequest(q, minted')
    PROVE  RequestsOK'
<1>1. /\ req' = [s \in Requests |-> req'[s]]
      /\ \A s \in Requests : req'[s] = IF s = r THEN q ELSE req[s]
  BY DEF Step, RequestsOK
<1>2. ASSUME NEW s \in Requests PROVE IsRequest(req'[s], minted')
  <2>1. CASE s = r
    BY <1>1, <2>1
  <2>2. CASE s # r
    <3>1. req'[s] = req[s] /\ IsRequest(req[s], minted)
      BY <1>1, <2>2 DEF RequestsOK
    <3>2. 1 .. minted \subseteq 1 .. minted'
      OBVIOUS
    <3> QED BY <3>1, <3>2 DEF IsRequest
  <2> QED BY <2>1, <2>2
<1> QED BY <1>1, <1>2 DEF RequestsOK

(* Steps that leave the collections alone: what remains is the request.    *)
LEMMA OnlyRequestMoves ==
    ASSUME Shape, UNCHANGED <<registry, minted, cases, resolutions, closing>>,
           NEW r \in Requests, NEW q, Step(r, q), IsRequest(q, minted)
    PROVE  Shape'
<1>1. RequestsOK'
  BY OneRequestMoves DEF Shape, RegistryOK
<1>2. RegistryOK' /\ CasesOK' /\ DecisionsOK' /\ ClosingOK'
  BY DEF Shape, RegistryOK, CasesOK, DecisionsOK, ClosingOK
<1> QED BY <1>1, <1>2 DEF Shape

(* The empty collections and the idle requests have the shape.             *)
LEMMA ShapeInit == Init => Shape
<1> SUFFICES ASSUME Init PROVE Shape
  OBVIOUS
<1>1. Cardinality({}) = 0 /\ DOMAIN Empty = {}
  BY FS_EmptySet DEF Empty
<1>2. Numbered(Empty) /\ Empty = [x \in DOMAIN Empty |-> Empty[x]]
  BY <1>1 DEF Numbered, Empty
<1>3. RegistryOK /\ CasesOK /\ DecisionsOK
  BY <1>1, <1>2 DEF Init, RegistryOK, CasesOK, DecisionsOK
<1>4. ClosingOK
  BY DEF Init, ClosingOK
<1>5. IsRequest(Idle, minted)
  BY DEF Init, IsRequest, Idle, Stages
<1>6. RequestsOK
  BY <1>5 DEF Init, RequestsOK
<1> QED BY <1>3, <1>4, <1>6 DEF Shape

-----------------------------------------------------------------------------
(* The requests keep the shape: the steps that only move a request first.  *)

(* A request comes in with a batch and no assertions of its own.           *)
LEMMA SubmitShape ==
    ASSUME Shape, NEW r \in Requests, NEW e \in Endpoints, NEW dry \in DryRuns,
           NEW b \in Batches, Submit(r, e, dry, b)
    PROVE  Shape'
<1> DEFINE q == [Idle EXCEPT !.endpoint = e, !.dry = dry, !.batch = b,
                    !.known = [registry  |-> DOMAIN registry,
                               closed    |-> {c \in DOMAIN cases : cases[c].status = "resolved"},
                               decisions |-> DOMAIN resolutions],
                    !.pc = IF e = "dedupe" THEN "read" ELSE "record"]
<1>1. Step(r, q) /\ UNCHANGED <<registry, minted, cases, resolutions, closing>>
  BY DEF Submit
<1>2. /\ DOMAIN q = DOMAIN Idle /\ q.pc \in {"read", "record"}
      /\ q.own = {} /\ q.batch = b /\ q.next = 1
  BY DEF Idle
<1>3. 1 \in DOMAIN b
  BY BatchPositions
<1>4. IsRequest(q, minted)
  BY <1>2, <1>3 DEF IsRequest, Stages
<1> HIDE DEF q
<1> QED BY <1>1, <1>4, OnlyRequestMoves

(* Reading history moves through the batch, or on to recording.            *)
LEMMA ReadHistoryShape ==
    ASSUME Shape, NEW r \in Requests, ReadHistory(r)
    PROVE  Shape'
<1> DEFINE q == req[r]
           hits == StoredCandidates(registry, Record(r, q.next), 0)
           priors == [n \in DOMAIN q.priors \cup hits |-> registry[n]]
           w == IF q.next = Len(q.batch)
                THEN [q EXCEPT !.priors = priors, !.next = 1, !.pc = "record"]
                ELSE [q EXCEPT !.priors = priors, !.next = @ + 1]
<1>1. /\ q.pc = "read" /\ Step(r, w)
      /\ UNCHANGED <<registry, minted, cases, resolutions, closing>>
  BY DEF ReadHistory
<1>2. IsRequest(q, minted)
  BY DEF Shape, RequestsOK
<1> HIDE DEF priors
<1>3. /\ DOMAIN w = DOMAIN Idle /\ w.own = q.own /\ w.batch = q.batch
      /\ w.pc \in {"read", "record"}
      /\ w.next = IF q.next = Len(q.batch) THEN 1 ELSE q.next + 1
  BY <1>1, <1>2 DEF IsRequest, Idle
<1>4. w.next \in DOMAIN q.batch
  BY <1>1, <1>2, <1>3, BatchPositions DEF IsRequest
<1>5. IsRequest(w, minted)
  BY <1>1, <1>2, <1>3, <1>4 DEF IsRequest, Stages
<1> HIDE DEF w
<1> QED BY <1>1, <1>5, OnlyRequestMoves

(* Any change of stage that leaves the batch alone and does not go back to *)
(* reading or recording keeps the shape.                                   *)
LEMMA LaterStageShape ==
    ASSUME Shape, UNCHANGED <<registry, minted, cases, resolutions, closing>>,
           NEW r \in Requests, NEW q, Step(r, q),
           DOMAIN q = DOMAIN Idle, q.own \subseteq 1 .. minted,
           q.pc \in {"evaluate", "file", "done", "lost"}
    PROVE  Shape'
<1>1. IsRequest(q, minted)
  BY DEF IsRequest, Stages
<1> QED BY <1>1, OnlyRequestMoves

(* Moving on in the batch keeps the position inside it.                    *)
LEMMA AdvanceShape ==
    ASSUME NEW m \in Nat, NEW q, IsRequest(q, m), q.pc = "record"
    PROVE  IsRequest(Advance(q), m)
<1>1. /\ DOMAIN Advance(q) = DOMAIN Idle
      /\ Advance(q).own = q.own /\ Advance(q).batch = q.batch
      /\ Advance(q).pc = IF q.next = Len(q.batch) THEN "evaluate" ELSE "record"
      /\ Advance(q).next = IF q.next = Len(q.batch) THEN 1 ELSE q.next + 1
  BY DEF Advance, IsRequest, Idle
<1>2. Advance(q).next \in DOMAIN q.batch
  BY <1>1, BatchPositions DEF IsRequest
<1> QED BY <1>1, <1>2 DEF IsRequest, Stages

(* What is recorded is the content of a document of the batch. *)
LEMMA RecordIsDocumented ==
    ASSUME Shape, NEW r \in Requests, req[r].pc = "record"
    PROVE  Record(r, req[r].next) \in Documented
<1>1. /\ req[r].batch \in Batches
      /\ req[r].next \in DOMAIN req[r].batch
  BY DEF Shape, RequestsOK, IsRequest
<1>2. req[r].batch[req[r].next] \in Contents
  BY <1>1, BatchPositions
<1> QED BY <1>2 DEF Record, Documented

(* Recording files a known content under a number not yet minted.          *)
LEMMA RecordAssertionShape ==
    ASSUME Shape, NEW r \in Requests, RecordAssertion(r)
    PROVE  Shape'
<1> DEFINE q == req[r]
           n == minted + 1
           d == Record(r, q.next)
           w == [q EXCEPT !.own = @ \cup {n},
                          !.overlay = IF q.dry THEN Put(@, n, d) ELSE @]
<1>1. /\ q.pc = "record" /\ minted' = n
      /\ registry' = IF q.dry THEN registry ELSE Put(registry, n, d)
      /\ Step(r, Advance(w))
      /\ UNCHANGED <<cases, resolutions, closing>>
  BY DEF RecordAssertion
<1>2. IsRequest(q, minted) /\ minted \in Nat
  BY DEF Shape, RequestsOK, RegistryOK
<1>3. IsRequest(w, minted') /\ w.pc = "record"
  <2>1. /\ DOMAIN w = DOMAIN Idle /\ w.own = q.own \cup {n}
        /\ w.batch = q.batch /\ w.next = q.next /\ w.pc = q.pc
    BY <1>2 DEF IsRequest, Idle
  <2> QED BY <1>1, <1>2, <2>1 DEF IsRequest
<1> HIDE DEF w
<1>4. IsRequest(Advance(w), minted')
  BY <1>1, <1>2, <1>3, AdvanceShape
<1>5. RequestsOK'
  BY <1>1, <1>2, <1>4, OneRequestMoves DEF Shape
<1>6. RegistryOK'
  <2>1. d \in Documented
    BY <1>1, RecordIsDocumented
  <2>2. CASE q.dry
    BY <1>1, <2>2 DEF Shape, RegistryOK
  <2>3. CASE ~q.dry
    <3> HIDE DEF d
    <3>1. /\ DOMAIN registry' = DOMAIN registry \cup {n}
          /\ \A x \in DOMAIN registry' : registry'[x] \in Documented
          /\ registry' = [x \in DOMAIN registry' |-> registry'[x]]
      BY <1>1, <2>1, <2>3 DEF Shape, RegistryOK, Put
    <3> QED BY <1>1, <3>1 DEF Shape, RegistryOK
  <2> QED BY <2>2, <2>3
<1>7. CasesOK' /\ DecisionsOK' /\ ClosingOK'
  BY <1>1 DEF Shape, CasesOK, DecisionsOK, ClosingOK
<1> QED BY <1>5, <1>6, <1>7 DEF Shape

(* A failed write does the same, or files nothing.                         *)
LEMMA RecordFailsShape ==
    ASSUME Shape, NEW r \in Requests, RecordFails(r)
    PROVE  Shape'
<1> DEFINE q == req[r]
           n == minted + 1
           d == Record(r, q.next)
           w == [q EXCEPT !.next = 1, !.pc = "evaluate", !.reported = TRUE]
<1>1. /\ q.pc = "record" /\ minted' = n /\ Step(r, w)
      /\ UNCHANGED <<cases, resolutions, closing>>
      /\ registry' = registry \/ registry' = Put(registry, n, d)
  BY DEF RecordFails
<1>2. IsRequest(q, minted) /\ minted \in Nat
  BY DEF Shape, RequestsOK, RegistryOK
<1>3. IsRequest(w, minted')
  BY <1>1, <1>2 DEF IsRequest, Idle, Stages
<1>4. RequestsOK'
  <2> HIDE DEF w
  <2> QED BY <1>1, <1>2, <1>3, OneRequestMoves DEF Shape
<1>5. RegistryOK'
  <2>1. d \in Documented
    BY <1>1, RecordIsDocumented
  <2>2. CASE registry' = registry
    BY <1>1, <2>2 DEF Shape, RegistryOK
  <2>3. CASE registry' = Put(registry, n, d)
    <3> HIDE DEF d
    <3>1. /\ DOMAIN registry' = DOMAIN registry \cup {n}
          /\ \A x \in DOMAIN registry' : registry'[x] \in Documented
          /\ registry' = [x \in DOMAIN registry' |-> registry'[x]]
      BY <1>1, <2>1, <2>3 DEF Shape, RegistryOK, Put
    <3> QED BY <1>1, <3>1 DEF Shape, RegistryOK
  <2> QED BY <1>1, <2>2, <2>3
<1>6. CasesOK' /\ DecisionsOK' /\ ClosingOK'
  BY <1>1 DEF Shape, CasesOK, DecisionsOK, ClosingOK
<1> QED BY <1>4, <1>5, <1>6 DEF Shape

(* The steps that touch no collection keep the shape.                      *)
LEMMA QuietStepsShape ==
    ASSUME Shape, NEW r \in Requests,
           \/ ReadFails(r) \/ DeclineAssertion(r)
           \/ EvaluateOne(r) \/ EvaluateFails(r) \/ StartFiling(r)
           \/ LookForOpenCase(r) \/ Respond(r) \/ Crash(r)
    PROVE  Shape'
<1> DEFINE q == req[r]
<1>0. IsRequest(q, minted) /\ minted \in Nat
  BY DEF Shape, RequestsOK, RegistryOK
<1>1. CASE ReadFails(r)
  <2> DEFINE w == [q EXCEPT !.priors = Empty, !.reported = TRUE, !.next = 1, !.pc = "record"]
  <2>1. q.pc = "read" /\ Step(r, w) /\ UNCHANGED <<registry, minted, cases, resolutions, closing>>
    BY <1>1 DEF ReadFails
  <2>2. 1 \in DOMAIN q.batch
    BY <1>0, <2>1, BatchPositions DEF IsRequest
  <2>3. IsRequest(w, minted)
    BY <1>0, <2>1, <2>2 DEF IsRequest, Idle, Stages
  <2> HIDE DEF w
  <2> QED BY <2>1, <2>3, OnlyRequestMoves
<1>2. CASE DeclineAssertion(r)
  <2> DEFINE w == [q EXCEPT !.reported = TRUE]
  <2>1. /\ q.pc = "record" /\ Step(r, Advance(w))
        /\ UNCHANGED <<registry, minted, cases, resolutions, closing>>
    BY <1>2 DEF DeclineAssertion
  <2>2. IsRequest(w, minted) /\ w.pc = "record"
    BY <1>0, <2>1 DEF IsRequest, Idle
  <2> HIDE DEF w
  <2>3. IsRequest(Advance(w), minted)
    BY <1>0, <2>2, AdvanceShape
  <2> QED BY <2>1, <2>3, OnlyRequestMoves
<1>3. CASE EvaluateOne(r)
  <2>1. PICK n \in Unevaluated(r) :
           Step(r, [q EXCEPT !.seen = @ \cup {n},
                             !.found = @ \cup {<<f, FindingDispute(ProviderOf(r), n, f)>> :
                                 f \in Evaluate(ProviderOf(r), n, q.endpoint = "process")}])
    BY <1>3 DEF EvaluateOne
  <2> DEFINE fs == {<<f, FindingDispute(ProviderOf(r), n, f)>> :
                       f \in Evaluate(ProviderOf(r), n, q.endpoint = "process")}
             w == [q EXCEPT !.seen = @ \cup {n}, !.found = @ \cup fs]
  <2>2. Step(r, w)
    BY <2>1
  <2> HIDE DEF fs
  <2>3. DOMAIN w = DOMAIN Idle /\ w.own = q.own /\ w.pc = "evaluate"
    BY <1>0, <1>3 DEF EvaluateOne, IsRequest, Idle
  <2>4. UNCHANGED <<registry, minted, cases, resolutions, closing>>
    BY <1>3 DEF EvaluateOne
  <2>5. w.own \subseteq 1 .. minted
    BY <1>0, <2>3 DEF IsRequest
  <2> HIDE DEF w
  <2> QED BY <2>2, <2>3, <2>4, <2>5, LaterStageShape
<1>4. CASE EvaluateFails(r)
  <2> DEFINE w == [q EXCEPT !.seen = q.own, !.reported = TRUE]
  <2>1. /\ Step(r, w) /\ DOMAIN w = DOMAIN Idle
        /\ w.own \subseteq 1 .. minted /\ w.pc = "evaluate"
        /\ UNCHANGED <<registry, minted, cases, resolutions, closing>>
    BY <1>0, <1>4 DEF EvaluateFails, IsRequest, Idle
  <2> HIDE DEF w
  <2> QED BY <2>1, LaterStageShape
<1>5. CASE StartFiling(r)
  <2> DEFINE todo == IF q.dry THEN {} ELSE Disputes(q)
             w == [q EXCEPT !.pc = "file", !.todo = todo]
  <2>1. Step(r, w) /\ UNCHANGED <<registry, minted, cases, resolutions, closing>>
    BY <1>5 DEF StartFiling
  <2> HIDE DEF todo
  <2>2. DOMAIN w = DOMAIN Idle /\ w.own \subseteq 1 .. minted /\ w.pc = "file"
    BY <1>0 DEF IsRequest, Idle
  <2> HIDE DEF w
  <2> QED BY <2>1, <2>2, LaterStageShape
<1>6. CASE LookForOpenCase(r)
  <2> DEFINE d == NextDispute(q)
  <2>1. q.pc = "file" /\ UNCHANGED <<registry, minted, cases, resolutions, closing>>
    BY <1>6 DEF LookForOpenCase
  <2>2. \/ Step(r, [q EXCEPT !.opening = d])
        \/ \E c \in FindOpen(d) :
              Step(r, [q EXCEPT !.todo = @ \ {d}, !.filed = @ \cup {<<d, c>>}])
    BY <1>6 DEF LookForOpenCase
  <2> HIDE DEF d
  <2>3. CASE Step(r, [q EXCEPT !.opening = d])
    <3> DEFINE w == [q EXCEPT !.opening = d]
    <3>1. DOMAIN w = DOMAIN Idle /\ w.own \subseteq 1 .. minted /\ w.pc = "file"
      BY <1>0, <2>1 DEF IsRequest, Idle
    <3> QED BY <2>1, <2>3, <3>1, LaterStageShape
  <2>4. CASE \E c \in FindOpen(d) :
              Step(r, [q EXCEPT !.todo = @ \ {d}, !.filed = @ \cup {<<d, c>>}])
    <3>1. PICK c \in FindOpen(d) :
              Step(r, [q EXCEPT !.todo = @ \ {d}, !.filed = @ \cup {<<d, c>>}])
      BY <2>4
    <3> DEFINE w == [q EXCEPT !.todo = @ \ {d}, !.filed = @ \cup {<<d, c>>}]
    <3>2. DOMAIN w = DOMAIN Idle /\ w.own \subseteq 1 .. minted /\ w.pc = "file"
      BY <1>0, <2>1 DEF IsRequest, Idle
    <3> QED BY <2>1, <3>1, <3>2, LaterStageShape
  <2> QED BY <2>2, <2>3, <2>4
<1>7. CASE Respond(r)
  <2> DEFINE w == [q EXCEPT !.pc = "done", !.reported = Reply(r)]
  <2>1. /\ Step(r, w) /\ DOMAIN w = DOMAIN Idle
        /\ w.own \subseteq 1 .. minted /\ w.pc = "done"
        /\ UNCHANGED <<registry, minted, cases, resolutions, closing>>
    BY <1>0, <1>7 DEF Respond, IsRequest, Idle
  <2> HIDE DEF w
  <2> QED BY <2>1, LaterStageShape
<1>8. CASE Crash(r)
  <2> DEFINE w == [Idle EXCEPT !.pc = "lost"]
  <2>1. /\ Step(r, w) /\ DOMAIN w = DOMAIN Idle
        /\ w.own \subseteq 1 .. minted /\ w.pc = "lost"
        /\ UNCHANGED <<registry, minted, cases, resolutions, closing>>
    BY <1>0, <1>8 DEF Crash, Idle
  <2> HIDE DEF w
  <2> QED BY <2>1, LaterStageShape
<1> QED BY <1>1, <1>2, <1>3, <1>4, <1>5, <1>6, <1>7, <1>8

-----------------------------------------------------------------------------
(* The steps that change the collection of cases. *)

(* A new case under a fresh number keeps cases, decisions and reviewers in *)
(* shape.                                                                  *)
LEMMA NewCaseShape ==
    ASSUME Shape, NEW d, cases' = Put(cases, Fresh(cases), NewCase(d)),
           UNCHANGED <<resolutions, closing>>
    PROVE  CasesOK' /\ DecisionsOK' /\ ClosingOK'
<1> DEFINE new == NewCase(d)
<1>1. IsCase(new)
  BY DEF IsCase, NewCase, Statuses
<1> HIDE DEF new
<1>2. /\ DOMAIN cases' = DOMAIN cases \cup {Fresh(cases)}
      /\ cases'[Fresh(cases)] = new
      /\ \A c \in DOMAIN cases : cases'[c] = cases[c]
      /\ Numbered(cases')
  BY FreshEntry DEF Shape, CasesOK, new
<1>3. CasesOK'
  BY <1>1, <1>2 DEF Shape, CasesOK
<1>4. DecisionsOK'
  BY <1>2 DEF Shape, DecisionsOK
<1>5. ClosingOK'
  BY <1>2 DEF Shape, ClosingOK
<1> QED BY <1>3, <1>4, <1>5

(* Opening a case keeps the shape.                                         *)
LEMMA OpenCaseShape ==
    ASSUME Shape, NEW r \in Requests, OpenCase(r)
    PROVE  Shape'
<1> DEFINE q == req[r]
           w == [q EXCEPT !.todo = @ \ {q.opening}, !.opening = None,
                          !.filed = @ \cup {<<q.opening, Fresh(cases)>>}]
<1>1. /\ q.pc = "file" /\ Step(r, w)
      /\ cases' = Put(cases, Fresh(cases), NewCase(q.opening))
      /\ UNCHANGED <<registry, minted, resolutions, closing>>
  BY DEF OpenCase
<1>2. IsRequest(q, minted) /\ minted \in Nat
  BY DEF Shape, RequestsOK, RegistryOK
<1>3. IsRequest(w, minted')
  BY <1>1, <1>2 DEF IsRequest, Idle
<1> HIDE DEF w
<1>4. RequestsOK'
  BY <1>1, <1>2, <1>3, OneRequestMoves DEF Shape
<1>5. RegistryOK'
  BY <1>1 DEF Shape, RegistryOK
<1> QED BY <1>1, <1>4, <1>5, NewCaseShape DEF Shape

(* So does a failure to open one, whether or not it was stored.            *)
LEMMA FilingFailsShape ==
    ASSUME Shape, NEW r \in Requests, FilingFails(r)
    PROVE  Shape'
<1> DEFINE q == req[r]
           w == [q EXCEPT !.todo = @ \ {NextDispute(q)}, !.opening = None]
<1>1. /\ q.pc = "file" /\ Step(r, w)
      /\ \/ UNCHANGED cases
         \/ cases' = Put(cases, Fresh(cases), NewCase(q.opening))
      /\ UNCHANGED <<registry, minted, resolutions, closing>>
  BY DEF FilingFails
<1>2. IsRequest(q, minted) /\ minted \in Nat
  BY DEF Shape, RequestsOK, RegistryOK
<1>3. IsRequest(w, minted')
  BY <1>1, <1>2 DEF IsRequest, Idle
<1> HIDE DEF w
<1>4. RequestsOK'
  BY <1>1, <1>2, <1>3, OneRequestMoves DEF Shape
<1>5. RegistryOK'
  BY <1>1 DEF Shape, RegistryOK
<1>6. CASE UNCHANGED cases
  BY <1>1, <1>4, <1>5, <1>6 DEF Shape, CasesOK, DecisionsOK, ClosingOK
<1>7. CASE cases' = Put(cases, Fresh(cases), NewCase(q.opening))
  BY <1>1, <1>4, <1>5, <1>7, NewCaseShape DEF Shape
<1> QED BY <1>1, <1>6, <1>7

(* So do the two writes of a resolution, and the loss of the second.       *)
LEMMA ReviewerShape ==
    ASSUME Shape, NEW v \in Reviewers,
           \/ \E c \in DOMAIN cases : RecordDecision(v, c)
           \/ CloseCase(v) \/ CloseFails(v)
    PROVE  Shape'
<1>1. UNCHANGED <<registry, minted, req>>
  BY DEF RecordDecision, CloseCase, CloseFails
<1>2. RegistryOK' /\ RequestsOK'
  BY <1>1 DEF Shape, RegistryOK, RequestsOK
<1>3. CASE \E c \in DOMAIN cases : RecordDecision(v, c)
  <2>1. PICK c \in DOMAIN cases : RecordDecision(v, c)
    BY <1>3
  <2>2. /\ resolutions' = Put(resolutions, Fresh(resolutions), c)
        /\ closing' = [closing EXCEPT ![v] = c] /\ cases' = cases
    BY <2>1 DEF RecordDecision
  <2>3. /\ DOMAIN resolutions' = DOMAIN resolutions \cup {Fresh(resolutions)}
        /\ resolutions'[Fresh(resolutions)] = c
        /\ \A n \in DOMAIN resolutions : resolutions'[n] = resolutions[n]
        /\ Numbered(resolutions')
    BY <2>2, FreshEntry DEF Shape, DecisionsOK
  <2>4. resolutions' = [n \in DOMAIN resolutions' |-> resolutions'[n]]
    BY <2>2 DEF Put
  <2>5. DecisionsOK'
    BY <2>2, <2>3, <2>4 DEF Shape, DecisionsOK
  <2>6. ClosingOK'
    BY <2>2, <2>3 DEF Shape, ClosingOK
  <2>7. CasesOK'
    BY <2>2 DEF Shape, CasesOK
  <2> QED BY <1>2, <2>5, <2>6, <2>7 DEF Shape
<1>4. CASE CloseCase(v)
  <2>1. /\ cases' = [cases EXCEPT ![closing[v]].status = "resolved"]
        /\ closing' = [closing EXCEPT ![v] = None] /\ resolutions' = resolutions
    BY <1>4 DEF CloseCase
  <2>2. DOMAIN cases' = DOMAIN cases
    BY <2>1
  <2>3. \A c \in DOMAIN cases : IsCase(cases'[c])
    BY <2>1 DEF Shape, CasesOK, IsCase, Statuses
  <2>4. CasesOK'
    BY <2>2, <2>3 DEF Shape, CasesOK, Numbered
  <2>5. DecisionsOK' /\ ClosingOK'
    BY <2>1, <2>2 DEF Shape, DecisionsOK, ClosingOK
  <2> QED BY <1>2, <2>4, <2>5 DEF Shape
<1>5. CASE CloseFails(v)
  <2>1. /\ closing' = [closing EXCEPT ![v] = None]
        /\ UNCHANGED <<cases, resolutions>>
    BY <1>5 DEF CloseFails
  <2> QED BY <1>2, <2>1 DEF Shape, CasesOK, DecisionsOK, ClosingOK
<1> QED BY <1>3, <1>4, <1>5

-----------------------------------------------------------------------------
(* Every step keeps the shape.                                             *)
LEMMA ShapeStep == Shape /\ [Next]_vars => Shape'
<1> SUFFICES ASSUME Shape, [Next]_vars PROVE Shape'
  OBVIOUS
<1>1. ASSUME NEW r \in Requests, NEW e \in Endpoints, NEW dry \in DryRuns,
             NEW b \in Batches, Submit(r, e, dry, b)
      PROVE  Shape'
  BY <1>1, SubmitShape
<1>2. ASSUME NEW r \in Requests, Serve(r) \/ Crash(r) PROVE Shape'
  BY <1>2, ReadHistoryShape, RecordAssertionShape, RecordFailsShape,
     QuietStepsShape, OpenCaseShape, FilingFailsShape DEF Serve
<1>3. ASSUME NEW v \in Reviewers,
             (\E c \in DOMAIN cases : RecordDecision(v, c)) \/ CloseCase(v) \/ CloseFails(v)
      PROVE  Shape'
  BY <1>3, ReviewerShape
<1>4. CASE UNCHANGED vars
  BY <1>4 DEF vars, Shape, RegistryOK, CasesOK, DecisionsOK, ClosingOK, RequestsOK
<1> QED BY <1>1, <1>2, <1>3, <1>4 DEF Next

(* The shape is an invariant of the queue.                                 *)
THEOREM ShapeHolds == Spec => []Shape
BY ShapeInit, ShapeStep, PTL DEF Spec

(* TypeOK of ReviewQueue holds for every number of requests and reviewers. *)
THEOREM TypeCorrect == Spec => []TypeOK
<1>1. Shape => TypeOK
  BY DEF Shape, RegistryOK, CasesOK, DecisionsOK, ClosingOK, RequestsOK,
         Numbered, IsCase, IsRequest, TypeOK
<1> QED BY <1>1, ShapeHolds, PTL

-----------------------------------------------------------------------------
(* Assertions are never changed or removed: an assertion is written under a *)
(* number larger than every number in use.                                  *)
LEMMA AppendOnlyStep ==
    ASSUME Shape, Next
    PROVE  \A n \in DOMAIN registry : n \in DOMAIN registry' /\ registry'[n] = registry[n]
<1>1. ASSUME NEW d, registry' = Put(registry, minted + 1, d)
      PROVE  \A n \in DOMAIN registry : n \in DOMAIN registry' /\ registry'[n] = registry[n]
  <2>1. minted + 1 \notin DOMAIN registry
    BY DEF Shape, RegistryOK
  <2> QED BY <1>1, <2>1 DEF Put
<1>2. \/ UNCHANGED registry
      \/ \E r \in Requests : RecordAssertion(r) \/ RecordFails(r)
  BY DEF Next, Serve, Submit, ReadHistory, ReadFails, DeclineAssertion, EvaluateOne,
         EvaluateFails, StartFiling, LookForOpenCase, OpenCase, FilingFails, Respond,
         Crash, RecordDecision, CloseCase, CloseFails
<1>3. ASSUME NEW r \in Requests, RecordAssertion(r) \/ RecordFails(r)
      PROVE  UNCHANGED registry
                \/ registry' = Put(registry, minted + 1, Record(r, req[r].next))
  BY <1>3 DEF RecordAssertion, RecordFails
<1> QED BY <1>1, <1>2, <1>3

(* The registry only grows: FirestoreRegistry.append never overwrites.     *)
THEOREM HistoryIsAppendOnly == Spec => AppendOnly
<1>1. Shape /\ [Next]_vars =>
        [\A n \in DOMAIN registry : n \in DOMAIN registry' /\ registry'[n] = registry[n]]_vars
  BY AppendOnlyStep
<1> QED BY <1>1, ShapeHolds, PTL DEF Spec, AppendOnly

-----------------------------------------------------------------------------
(* A dry run never has anything to file.  This is what makes it harmless:   *)
(* OpenCase and FilingFails do not look at the flag, they trust the list.   *)
DryHasNoWork ==
    \A r \in Requests : req[r].dry => req[r].todo = {} /\ req[r].opening = None

(* How a step may change one request, as far as dry runs are concerned.     *)
LEMMA DryStep ==
    ASSUME Shape, DryHasNoWork, NEW r \in Requests, Serve(r) \/ Crash(r)
    PROVE  /\ \A s \in Requests \ {r} : req'[s] = req[s]
           /\ req'[r].dry => req'[r].todo = {} /\ req'[r].opening = None
           /\ req[r].dry => UNCHANGED <<registry, cases, resolutions>>
<1> DEFINE q == req[r]
<1>1. /\ DOMAIN q = DOMAIN Idle
      /\ DOMAIN req = Requests
      /\ q.dry => q.todo = {} /\ q.opening = None
  BY DEF Shape, RequestsOK, IsRequest, DryHasNoWork
<1>2. CASE ReadHistory(r)
  BY <1>1, <1>2 DEF ReadHistory, Step, Idle
<1>3. CASE ReadFails(r)
  BY <1>1, <1>3 DEF ReadFails, Step, Idle
<1>4. CASE RecordAssertion(r)
  BY <1>1, <1>4 DEF RecordAssertion, Advance, Step, Idle
<1>5. CASE DeclineAssertion(r)
  BY <1>1, <1>5 DEF DeclineAssertion, Advance, Step, Idle
<1>6. CASE RecordFails(r)
  <2>1. ~q.dry /\ Step(r, [q EXCEPT !.next = 1, !.pc = "evaluate", !.reported = TRUE])
    BY <1>6 DEF RecordFails
  <2> QED BY <1>1, <2>1 DEF Step, Idle
<1>7. CASE EvaluateOne(r)
  BY <1>1, <1>7 DEF EvaluateOne, Step, Idle
<1>8. CASE EvaluateFails(r)
  BY <1>1, <1>8 DEF EvaluateFails, Step, Idle
<1>9. CASE StartFiling(r)
  BY <1>1, <1>9 DEF StartFiling, Step, Idle
<1>10. CASE LookForOpenCase(r)
  BY <1>1, <1>10 DEF LookForOpenCase, Step, Idle
<1>11. CASE OpenCase(r)
  BY <1>1, <1>11 DEF OpenCase, Step, Idle
<1>12. CASE FilingFails(r)
  BY <1>1, <1>12 DEF FilingFails, Step, Idle
<1>13. CASE Respond(r)
  BY <1>1, <1>13 DEF Respond, Step, Idle
<1>14. CASE Crash(r)
  BY <1>1, <1>14 DEF Crash, Step, Idle
<1> QED
  BY <1>2, <1>4, <1>5, <1>7, <1>9, <1>10, <1>11, <1>12, <1>6, <1>3, <1>8, <1>13, <1>14
     DEF Serve

(* A dry run never has anything to file.                                   *)
LEMMA DryInvariant == Spec => [](Shape /\ DryHasNoWork)
<1>1. Init => DryHasNoWork
  BY DEF Init, DryHasNoWork, Idle
<1>2. Shape /\ DryHasNoWork /\ [Next]_vars => DryHasNoWork'
  <2> SUFFICES ASSUME Shape, DryHasNoWork, [Next]_vars PROVE DryHasNoWork'
    OBVIOUS
  <2>1. ASSUME NEW r \in Requests, NEW e \in Endpoints, NEW dry \in DryRuns,
               NEW b \in Batches, Submit(r, e, dry, b)
        PROVE  DryHasNoWork'
    BY <2>1 DEF Submit, Step, Idle, DryHasNoWork, Shape, RequestsOK
  <2>2. ASSUME NEW r \in Requests, Serve(r) \/ Crash(r) PROVE DryHasNoWork'
    BY <2>2, DryStep DEF DryHasNoWork
  <2>3. ASSUME UNCHANGED req PROVE DryHasNoWork'
    BY <2>3 DEF DryHasNoWork
  <2> QED BY <2>1, <2>2, <2>3 DEF Next, vars, RecordDecision, CloseCase, CloseFails
<1> QED BY <1>1, <1>2, ShapeHolds, PTL DEF Spec

(* No step of a dry run changes a collection, whatever the other requests   *)
(* and the reviewers do between its steps.                                  *)
THEOREM DryRunsLeaveNothing == Spec => DryRunLeavesNothing
<1> DEFINE Quiet == \A r \in Requests :
              req[r].dry /\ req'[r] # req[r] => UNCHANGED <<registry, cases, resolutions>>
<1>1. Shape /\ DryHasNoWork /\ [Next]_vars => [Quiet]_vars
  <2> SUFFICES ASSUME Shape, DryHasNoWork, Next,
                      NEW r \in Requests, req[r].dry, req'[r] # req[r]
               PROVE  UNCHANGED <<registry, cases, resolutions>>
    OBVIOUS
  <2>1. ASSUME NEW s \in Requests, NEW e \in Endpoints, NEW dry \in DryRuns,
               NEW b \in Batches, Submit(s, e, dry, b)
        PROVE  UNCHANGED <<registry, cases, resolutions>>
    BY <2>1 DEF Submit
  <2>2. ASSUME NEW s \in Requests, Serve(s) \/ Crash(s)
        PROVE  UNCHANGED <<registry, cases, resolutions>>
    BY <2>2, DryStep
  <2>3. ASSUME UNCHANGED req PROVE FALSE
    BY <2>3
  <2> QED BY <2>1, <2>2, <2>3 DEF Next, RecordDecision, CloseCase, CloseFails
<1> QED BY <1>1, DryInvariant, PTL DEF Spec, DryRunLeavesNothing

-----------------------------------------------------------------------------
(* The cases that are closed, and what a request knew of them. *)
ClosedCases == {c \in DOMAIN cases : cases[c].status = "resolved"}

(* What was closed when the request came in is closed still, and what the   *)
(* request has filed are other cases.                                       *)
FiledAnew ==
    \A r \in Requests :
        /\ req[r].known.closed \subseteq ClosedCases
        /\ \A entry \in req[r].filed :
              entry[2] \in DOMAIN cases \ req[r].known.closed

(* A closed case stays closed: no step opens a case again. *)
LEMMA ClosedStaysClosed ==
    ASSUME Shape, Next
    PROVE  DOMAIN cases \subseteq DOMAIN cases' /\ ClosedCases \subseteq ClosedCases'
<1> DEFINE Files == \E v : cases' = Put(cases, Fresh(cases), v)
           Closes == \E c \in DOMAIN cases : cases' = [cases EXCEPT ![c].status = "resolved"]
<1>1. UNCHANGED cases \/ Files \/ Closes
  <2>1. ASSUME NEW v \in Reviewers, CloseCase(v)
        PROVE  Closes
    BY <2>1 DEF CloseCase, Shape, ClosingOK
  <2>2. ASSUME NEW r \in Requests, OpenCase(r) \/ FilingFails(r)
        PROVE  UNCHANGED cases \/ Files
    <3>1. \/ UNCHANGED cases
          \/ cases' = Put(cases, Fresh(cases), NewCase(req[r].opening))
      BY <2>2 DEF OpenCase, FilingFails
    <3> QED BY <3>1
  <2>3. ASSUME NEW r \in Requests, Serve(r) \/ Crash(r), ~OpenCase(r), ~FilingFails(r)
        PROVE  UNCHANGED cases
    BY <2>3 DEF Serve, ReadHistory, ReadFails, RecordAssertion, DeclineAssertion,
       RecordFails, EvaluateOne, EvaluateFails, StartFiling, LookForOpenCase, Respond, Crash
  <2>4. ASSUME NEW r \in Requests, NEW e \in Endpoints, NEW dry \in DryRuns,
               NEW b \in Batches, Submit(r, e, dry, b)
        PROVE  UNCHANGED cases
    BY <2>4 DEF Submit
  <2>5. ASSUME NEW v \in Reviewers, \/ \E c \in DOMAIN cases : RecordDecision(v, c)
                                   \/ CloseFails(v)
        PROVE  UNCHANGED cases
    BY <2>5 DEF RecordDecision, CloseFails
  <2> HIDE DEF Files, Closes
  <2> QED BY <2>1, <2>2, <2>3, <2>4, <2>5 DEF Next
<1>2. ASSUME NEW v, cases' = Put(cases, Fresh(cases), v)
      PROVE  DOMAIN cases \subseteq DOMAIN cases' /\ ClosedCases \subseteq ClosedCases'
  <2>1. Numbered(cases)
    BY DEF Shape, CasesOK
  <2>2. /\ DOMAIN cases' = DOMAIN cases \cup {Fresh(cases)}
        /\ \A x \in DOMAIN cases : cases'[x] = cases[x]
    <3>1. /\ DOMAIN Put(cases, Fresh(cases), v) = DOMAIN cases \cup {Fresh(cases)}
          /\ \A x \in DOMAIN cases : Put(cases, Fresh(cases), v)[x] = cases[x]
      BY <2>1, FreshEntry, Zenon
    <3> QED BY <1>2, <3>1, Zenon
  <2> QED BY <2>2 DEF ClosedCases
<1>3. ASSUME NEW c \in DOMAIN cases, cases' = [cases EXCEPT ![c].status = "resolved"]
      PROVE  DOMAIN cases \subseteq DOMAIN cases' /\ ClosedCases \subseteq ClosedCases'
  BY <1>3 DEF Shape, CasesOK, IsCase, ClosedCases
<1> QED BY <1>1, <1>2, <1>3 DEF ClosedCases

(* What a step files is a case that is open or did not exist. *)
LEMMA FilingStep ==
    ASSUME Shape, NEW r \in Requests, Serve(r) \/ Crash(r)
    PROVE  /\ \A s \in Requests \ {r} : req'[s] = req[s]
           /\ \/ /\ req'[r].known = req[r].known
                 /\ \A entry \in req'[r].filed \ req[r].filed :
                       entry[2] \in DOMAIN cases' \ ClosedCases
              \/ req'[r].known.closed = {} /\ req'[r].filed = {}
<1> DEFINE q == req[r]
<1>1. DOMAIN q = DOMAIN Idle /\ DOMAIN req = Requests
  BY DEF Shape, RequestsOK, IsRequest
<1>0. ASSUME NEW w, Step(r, w), w.known = q.known, w.filed = q.filed
      PROVE  /\ \A s \in Requests \ {r} : req'[s] = req[s]
             /\ req'[r].known = q.known /\ req'[r].filed = q.filed
  BY <1>0, <1>1 DEF Step
<1>2. CASE ReadHistory(r) \/ ReadFails(r)
  <2>1. CASE ReadHistory(r)
    <3> DEFINE priors == [n \in DOMAIN q.priors \cup StoredCandidates(registry, Record(r, q.next), 0)
                            |-> registry[n]]
    <3>1. \/ Step(r, [q EXCEPT !.priors = priors, !.next = 1, !.pc = "record"])
          \/ Step(r, [q EXCEPT !.priors = priors, !.next = @ + 1])
      BY <2>1 DEF ReadHistory
    <3> HIDE DEF priors
    <3> QED BY <1>0, <1>1, <3>1 DEF Idle
  <2>2. CASE ReadFails(r)
    BY <1>0, <1>1, <2>2 DEF ReadFails, Idle
  <2> QED BY <1>2, <2>1, <2>2
<1>3. CASE RecordAssertion(r)
  BY <1>1, <1>3 DEF RecordAssertion, Advance, Step, Idle
<1>4. CASE DeclineAssertion(r)
  BY <1>1, <1>4 DEF DeclineAssertion, Advance, Step, Idle
<1>5. CASE RecordFails(r)
  <2>1. Step(r, [q EXCEPT !.next = 1, !.pc = "evaluate", !.reported = TRUE])
    BY <1>5 DEF RecordFails
  <2> QED BY <1>1, <2>1 DEF Step, Idle
<1>6. CASE EvaluateOne(r) \/ EvaluateFails(r) \/ StartFiling(r)
  <2>1. CASE EvaluateOne(r)
    <3>1. \E ns, fs : Step(r, [q EXCEPT !.seen = ns, !.found = fs])
      BY <2>1 DEF EvaluateOne
    <3> QED BY <1>0, <1>1, <3>1 DEF Idle
  <2>2. CASE EvaluateFails(r)
    BY <1>0, <1>1, <2>2 DEF EvaluateFails, Idle
  <2>3. CASE StartFiling(r)
    <3>1. \E ds : Step(r, [q EXCEPT !.pc = "file", !.todo = ds])
      BY <2>3 DEF StartFiling
    <3> QED BY <1>0, <1>1, <3>1 DEF Idle
  <2> QED BY <1>6, <2>1, <2>2, <2>3
<1>7. CASE LookForOpenCase(r)
  <2> DEFINE d == NextDispute(q)
  <2>1. \/ Step(r, [q EXCEPT !.opening = d])
        \/ \E c \in FindOpen(d) :
              Step(r, [q EXCEPT !.todo = @ \ {d}, !.filed = @ \cup {<<d, c>>}])
    BY <1>7 DEF LookForOpenCase
  <2>2. cases' = cases
    BY <1>7 DEF LookForOpenCase
  <2> HIDE DEF d
  <2>3. CASE Step(r, [q EXCEPT !.opening = d])
    BY <1>0, <1>1, <2>3 DEF Idle
  <2>4. CASE \E c \in FindOpen(d) :
              Step(r, [q EXCEPT !.todo = @ \ {d}, !.filed = @ \cup {<<d, c>>}])
    <3>1. PICK c \in FindOpen(d) :
              Step(r, [q EXCEPT !.todo = @ \ {d}, !.filed = @ \cup {<<d, c>>}])
      BY <2>4
    <3>2. /\ \A s \in Requests \ {r} : req'[s] = req[s]
          /\ req'[r].known = q.known
          /\ req'[r].filed = q.filed \cup {<<d, c>>}
      BY <1>1, <3>1 DEF Step, Idle
    <3>3. c \in DOMAIN cases' \ ClosedCases
      BY <2>2 DEF FindOpen, ClosedCases
    <3> QED BY <3>2, <3>3
  <2> QED BY <2>1, <2>3, <2>4
<1>8. CASE OpenCase(r)
  <2> DEFINE c == Fresh(cases)
  <2>1. c \notin DOMAIN cases
    BY FreshEntry DEF Shape, CasesOK
  <2>2. c \in DOMAIN cases'
    BY <1>8 DEF OpenCase, Put
  <2>3. /\ \A s \in Requests \ {r} : req'[s] = req[s]
        /\ req'[r].known = q.known
        /\ req'[r].filed = q.filed \cup {<<q.opening, c>>}
    BY <1>1, <1>8 DEF OpenCase, Step, Idle
  <2> QED BY <2>1, <2>2, <2>3 DEF ClosedCases
<1>9. CASE FilingFails(r)
  <2>1. \E ds : Step(r, [q EXCEPT !.todo = ds, !.opening = None])
    BY <1>9 DEF FilingFails
  <2> QED BY <1>0, <1>1, <2>1 DEF Idle
<1>10. CASE Respond(r)
  <2>1. \E b : Step(r, [q EXCEPT !.pc = "done", !.reported = b])
    BY <1>10 DEF Respond
  <2> QED BY <1>1, <1>10, <2>1 DEF Respond, Step, Idle
<1>11. CASE Crash(r)
  BY <1>1, <1>11 DEF Crash, Step, Idle, Unknown
<1> QED BY <1>2, <1>3, <1>4, <1>5, <1>6, <1>7, <1>8, <1>9, <1>10, <1>11 DEF Serve

(* Every step keeps: what a request filed was not closed before it.        *)
LEMMA FiledAnewStep == Shape /\ FiledAnew /\ [Next]_vars => FiledAnew'
<1> SUFFICES ASSUME Shape, FiledAnew, [Next]_vars PROVE FiledAnew'
  OBVIOUS
<1>1. CASE UNCHANGED vars
  BY <1>1 DEF vars, FiledAnew, ClosedCases
<1>2. ASSUME Next, NEW r \in Requests, NEW e \in Endpoints, NEW dry \in DryRuns,
             NEW b \in Batches, Submit(r, e, dry, b)
      PROVE  FiledAnew'
  BY <1>2 DEF Submit, Step, Idle, Shape, RequestsOK, FiledAnew, ClosedCases
<1>3. ASSUME Next, NEW r \in Requests, Serve(r) \/ Crash(r)
      PROVE  FiledAnew'
  <2>1. DOMAIN cases \subseteq DOMAIN cases' /\ ClosedCases \subseteq ClosedCases'
    BY <1>3, ClosedStaysClosed
  <2> QED BY <1>3, <2>1, FilingStep DEF FiledAnew
<1>4. ASSUME Next, UNCHANGED req
      PROVE  FiledAnew'
  BY <1>4, ClosedStaysClosed DEF FiledAnew
<1> QED BY <1>1, <1>2, <1>3, <1>4 DEF Next, RecordDecision, CloseCase, CloseFails

(* A case closed before a request came in never answers that request.      *)
THEOREM DisputesAreReopened == Spec => []ClosedCasesAreOpenedAnew
<1>1. Init => FiledAnew
  BY DEF Init, FiledAnew, Idle, Unknown
<1>2. FiledAnew => ClosedCasesAreOpenedAnew
  BY DEF FiledAnew, ClosedCasesAreOpenedAnew
<1> QED BY <1>1, <1>2, FiledAnewStep, ShapeHolds, PTL DEF Spec

-----------------------------------------------------------------------------
(* Every step is a step of the abstract life of a case, or none.            *)
Findings == [c \in DOMAIN cases |-> NewCase(cases[c])]

(* A case under a fresh number, all others untouched, is an Open.          *)
LEMMA OpenIsOpen ==
    ASSUME Shape, NEW d, cases' = Put(cases, Fresh(cases), NewCase(d)),
           UNCHANGED resolutions
    PROVE  Lifecycle!Open
<1> DEFINE n == Fresh(cases)
           new == NewCase(d)
<1>0. Numbered(cases) /\ new.status = "open"
  BY DEF Shape, CasesOK, NewCase
<1> HIDE DEF new
<1>1. /\ n \notin DOMAIN cases
      /\ DOMAIN cases' = DOMAIN cases \cup {n}
      /\ cases'[n] = new
      /\ \A c \in DOMAIN cases : cases'[c] = cases[c]
  <2>1. cases' = Put(cases, n, new)
    BY DEF new
  <2>2. n \notin DOMAIN cases
    BY <1>0, FreshEntry
  <2> QED BY <2>1, <2>2 DEF Put
<1>2. Lifecycle!GrowsByOne(Findings, Findings')
  <2>1. n \in DOMAIN Findings' \ DOMAIN Findings /\ DOMAIN Findings' = DOMAIN Findings \cup {n}
    BY <1>1 DEF Findings
  <2>2. \A c \in DOMAIN Findings : Findings'[c] = Findings[c]
    BY <1>1 DEF Findings, NewCase
  <2> QED BY <2>1, <2>2 DEF Lifecycle!GrowsByOne
<1>3. {c \in DOMAIN cases' : cases'[c].status = "resolved"} = ClosedCases
  BY <1>0, <1>1 DEF ClosedCases
<1> QED BY <1>2, <1>3 DEF Lifecycle!Open, Findings, ClosedCases

(* The first write of a resolution is a Decide.                            *)
LEMMA RecordDecisionIsDecide ==
    ASSUME Shape, NEW v \in Reviewers, NEW c \in DOMAIN cases, RecordDecision(v, c)
    PROVE  Lifecycle!Decide
<1>1. /\ resolutions' = Put(resolutions, Fresh(resolutions), c)
      /\ cases' = cases
  BY DEF RecordDecision
<1>2. Numbered(resolutions)
  BY DEF Shape, DecisionsOK
<1>3. /\ Fresh(resolutions) \notin DOMAIN resolutions
      /\ DOMAIN resolutions' = DOMAIN resolutions \cup {Fresh(resolutions)}
      /\ resolutions'[Fresh(resolutions)] = c
      /\ \A n \in DOMAIN resolutions : resolutions'[n] = resolutions[n]
  <2>1. Fresh(resolutions) \notin DOMAIN resolutions
    BY <1>2, FreshEntry
  <2> QED BY <1>1, <2>1 DEF Put
<1>4. Lifecycle!GrowsByOne(resolutions, resolutions')
  BY <1>3 DEF Lifecycle!GrowsByOne
<1> QED BY <1>1, <1>3, <1>4 DEF Lifecycle!Decide

(* The second write is a Close: the decision is already there.             *)
LEMMA CloseCaseIsClose ==
    ASSUME Shape, NEW v \in Reviewers, CloseCase(v)
    PROVE  Lifecycle!Close
<1> DEFINE k == closing[v]
<1>1. /\ k # None /\ cases' = [cases EXCEPT ![k].status = "resolved"]
      /\ resolutions' = resolutions
  BY DEF CloseCase
<1>2. k \in DOMAIN cases /\ \A c \in DOMAIN cases : IsCase(cases[c])
  BY <1>1 DEF Shape, CasesOK, ClosingOK
<1>3. PICK n \in DOMAIN resolutions : resolutions[n] = k
  BY <1>1 DEF Shape, ClosingOK
<1> HIDE DEF k
<1>4. /\ DOMAIN cases' = DOMAIN cases
      /\ \A c \in DOMAIN cases : c # k => cases'[c] = cases[c]
      /\ cases'[k] = [cases[k] EXCEPT !.status = "resolved"]
  BY <1>1, <1>2
<1>5. NewCase(cases'[k]) = NewCase(cases[k]) /\ cases'[k].status = "resolved"
  BY <1>2, <1>4 DEF NewCase, IsCase
<1>6. Findings' = Findings
  BY <1>4, <1>5 DEF Findings
<1>7. {c \in DOMAIN cases' : cases'[c].status = "resolved"} = ClosedCases \cup {k}
  BY <1>2, <1>4, <1>5 DEF ClosedCases
<1> QED BY <1>1, <1>3, <1>6, <1>7 DEF Lifecycle!Close, Findings, ClosedCases

(* Every step of the queue is a step of the lifecycle, or none.            *)
LEMMA LifecycleStep == Shape /\ [Next]_vars => [Lifecycle!Next]_(Lifecycle!vars)
<1> SUFFICES ASSUME Shape, [Next]_vars PROVE Lifecycle!Next \/ UNCHANGED Lifecycle!vars
  OBVIOUS
<1>1. ASSUME UNCHANGED <<cases, resolutions>> PROVE UNCHANGED Lifecycle!vars
  BY <1>1 DEF Lifecycle!vars
<1>2. ASSUME NEW r \in Requests, OpenCase(r) \/ FilingFails(r)
      PROVE  UNCHANGED <<cases, resolutions>> \/ Lifecycle!Open
  <2>1. /\ UNCHANGED resolutions
        /\ \/ UNCHANGED cases
           \/ cases' = Put(cases, Fresh(cases), NewCase(req[r].opening))
    BY <1>2 DEF OpenCase, FilingFails
  <2> QED BY <2>1, OpenIsOpen
<1>3. ASSUME NEW v \in Reviewers, NEW c \in DOMAIN cases, RecordDecision(v, c)
      PROVE  Lifecycle!Decide
  BY <1>3, RecordDecisionIsDecide
<1>4. ASSUME NEW v \in Reviewers, CloseCase(v)
      PROVE  Lifecycle!Close
  BY <1>4, CloseCaseIsClose
<1>5. CASE UNCHANGED vars
  BY <1>1, <1>5 DEF vars
<1>6. CASE Next
  <2>1. \/ UNCHANGED <<cases, resolutions>>
        \/ \E r \in Requests : OpenCase(r) \/ FilingFails(r)
        \/ \E v \in Reviewers : \/ \E c \in DOMAIN cases : RecordDecision(v, c)
                              \/ CloseCase(v)
    BY <1>6 DEF Next, Serve, Submit, ReadHistory, ReadFails, RecordAssertion,
         DeclineAssertion, RecordFails, EvaluateOne, EvaluateFails, StartFiling,
         LookForOpenCase, Respond, Crash, CloseFails
  <2> QED BY <1>1, <1>2, <1>3, <1>4, <2>1 DEF Lifecycle!Next
<1> QED BY <1>5, <1>6

(* ReviewQueue implements CaseLifecycle, for every number of requests,      *)
(* reviewers and documents, under any of the faults.                        *)
THEOREM QueueImplementsLifecycle == Spec => ImplementsLifecycle
<1>1. Init => Lifecycle!Init
  BY DEF Init, Lifecycle!Init, Empty
<1> QED BY <1>1, LifecycleStep, ShapeHolds, PTL DEF Spec, ImplementsLifecycle, Lifecycle!Spec

-----------------------------------------------------------------------------
(* What each step of a request changes.  A step of r touches the fields in  *)
(* F of its own state, and no other request.                                *)
Touches(r, F) ==
    /\ \A s \in Requests \ {r} : req'[s] = req[s]
    /\ \A f \in DOMAIN Idle \ F : req'[r][f] = req[r][f]

(* Where the reading and the recording of the next document leave r: at the *)
(* document after it, or at the beginning of the next stage.                *)
MovesOn(r, stage) ==
    \/ /\ req[r].next = Len(req[r].batch)
       /\ req'[r].next = 1 /\ req'[r].pc = stage
    \/ /\ req[r].next # Len(req[r].batch)
       /\ req'[r].next = req[r].next + 1 /\ req'[r].pc = req[r].pc

(* What reading the history changes of a request, and what its failure     *)
(* does.                                                                   *)
LEMMA ReadingChanges ==
    ASSUME Shape, NEW r \in Requests
    PROVE  /\ ReadHistory(r) =>
                /\ Touches(r, {"priors", "next", "pc"}) /\ MovesOn(r, "record")
                /\ req'[r].priors =
                      [n \in DOMAIN req[r].priors
                                \cup StoredCandidates(registry, Record(r, req[r].next), 0)
                          |-> registry[n]]
           /\ ReadFails(r) =>
                /\ Touches(r, {"priors", "next", "pc", "reported"})
                /\ req'[r].priors = Empty /\ req'[r].reported
                /\ req'[r].next = 1 /\ req'[r].pc = "record"
<1> DEFINE q == req[r]
<1>1. DOMAIN q = DOMAIN Idle /\ DOMAIN req = Requests
  BY DEF Shape, RequestsOK, IsRequest
<1>2. ASSUME ReadHistory(r)
      PROVE  /\ Touches(r, {"priors", "next", "pc"}) /\ MovesOn(r, "record")
             /\ req'[r].priors =
                   [n \in DOMAIN q.priors
                             \cup StoredCandidates(registry, Record(r, q.next), 0)
                       |-> registry[n]]
  <2> DEFINE priors == [n \in DOMAIN q.priors \cup StoredCandidates(registry, Record(r, q.next), 0)
                           |-> registry[n]]
  <2>1. /\ q.pc = "read"
        /\ Step(r, IF q.next = Len(q.batch)
                   THEN [q EXCEPT !.priors = priors, !.next = 1, !.pc = "record"]
                   ELSE [q EXCEPT !.priors = priors, !.next = @ + 1])
    BY <1>2 DEF ReadHistory
  <2> HIDE DEF priors
  <2>2. Touches(r, {"priors", "next", "pc"}) /\ MovesOn(r, "record") /\ req'[r].priors = priors
    BY <1>1, <2>1 DEF Step, Idle, Touches, MovesOn
  <2> QED BY <2>2 DEF priors
<1>3. ASSUME ReadFails(r)
      PROVE  /\ Touches(r, {"priors", "next", "pc", "reported"})
             /\ req'[r].priors = Empty /\ req'[r].reported
             /\ req'[r].next = 1 /\ req'[r].pc = "record"
  <2>1. Step(r, [q EXCEPT !.priors = Empty, !.reported = TRUE, !.next = 1, !.pc = "record"])
    BY <1>3 DEF ReadFails
  <2> QED BY <1>1, <2>1 DEF Step, Idle, Touches
<1> QED BY <1>2, <1>3

(* What recording an assertion, declining it or failing to record it       *)
(* changes.                                                                *)
LEMMA RecordingChanges ==
    ASSUME Shape, NEW r \in Requests
    PROVE  /\ RecordAssertion(r) =>
                /\ Touches(r, {"own", "overlay", "next", "pc"}) /\ MovesOn(r, "evaluate")
                /\ req'[r].own = req[r].own \cup {minted + 1}
                /\ req'[r].overlay = IF req[r].dry
                                     THEN Put(req[r].overlay, minted + 1, Record(r, req[r].next))
                                     ELSE req[r].overlay
           /\ DeclineAssertion(r) =>
                /\ Touches(r, {"reported", "next", "pc"}) /\ MovesOn(r, "evaluate")
                /\ req'[r].reported
           /\ RecordFails(r) =>
                /\ Touches(r, {"reported", "next", "pc"})
                /\ req'[r].reported /\ req'[r].next = 1 /\ req'[r].pc = "evaluate"
<1> DEFINE q == req[r]
<1>1. DOMAIN q = DOMAIN Idle /\ DOMAIN req = Requests
  BY DEF Shape, RequestsOK, IsRequest
<1>2. ASSUME RecordAssertion(r)
      PROVE  /\ Touches(r, {"own", "overlay", "next", "pc"}) /\ MovesOn(r, "evaluate")
             /\ req'[r].own = q.own \cup {minted + 1}
             /\ req'[r].overlay = IF q.dry
                                  THEN Put(q.overlay, minted + 1, Record(r, q.next))
                                  ELSE q.overlay
  <2> DEFINE d == Record(r, q.next)
             overlay == IF q.dry THEN Put(q.overlay, minted + 1, d) ELSE q.overlay
             w == [q EXCEPT !.own = @ \cup {minted + 1}, !.overlay = overlay]
  <2>1. q.pc = "record" /\ Step(r, Advance(w))
    BY <1>2 DEF RecordAssertion
  <2> HIDE DEF overlay
  <2>2. /\ DOMAIN w = DOMAIN Idle /\ w.own = q.own \cup {minted + 1} /\ w.overlay = overlay
        /\ \A f \in DOMAIN Idle \ {"own", "overlay"} : w[f] = q[f]
        /\ w.next = q.next /\ w.batch = q.batch /\ w.pc = q.pc
    BY <1>1 DEF Idle
  <2> HIDE DEF w
  <2>3. /\ Touches(r, {"own", "overlay", "next", "pc"}) /\ MovesOn(r, "evaluate")
        /\ req'[r].own = q.own \cup {minted + 1} /\ req'[r].overlay = overlay
    BY <1>1, <2>1, <2>2 DEF Step, Advance, Idle, Touches, MovesOn
  <2> QED BY <2>3 DEF overlay
<1>3. ASSUME DeclineAssertion(r)
      PROVE  /\ Touches(r, {"reported", "next", "pc"}) /\ MovesOn(r, "evaluate")
             /\ req'[r].reported
  <2>1. q.pc = "record" /\ Step(r, Advance([q EXCEPT !.reported = TRUE]))
    BY <1>3 DEF DeclineAssertion
  <2> QED BY <1>1, <2>1 DEF Step, Advance, Idle, Touches, MovesOn
<1>4. ASSUME RecordFails(r)
      PROVE  /\ Touches(r, {"reported", "next", "pc"})
             /\ req'[r].reported /\ req'[r].next = 1 /\ req'[r].pc = "evaluate"
  <2>1. Step(r, [q EXCEPT !.next = 1, !.pc = "evaluate", !.reported = TRUE])
    BY <1>4 DEF RecordFails
  <2> QED BY <1>1, <2>1 DEF Step, Idle, Touches
<1> QED BY <1>2, <1>3, <1>4

(* The findings that evaluating assertion n adds. *)
FindingsOn(r, n) ==
    {<<f, FindingDispute(ProviderOf(r), n, f)>> :
        f \in Evaluate(ProviderOf(r), n, req[r].endpoint = "process")}

(* What evaluating one document, failing to and going on to file change.   *)
LEMMA EvaluationChanges ==
    ASSUME Shape, NEW r \in Requests
    PROVE  /\ EvaluateOne(r) =>
                /\ req[r].pc = "evaluate" /\ Touches(r, {"seen", "found"})
                /\ \E n \in Unevaluated(r) :
                      /\ req'[r].seen = req[r].seen \cup {n}
                      /\ req'[r].found = req[r].found \cup FindingsOn(r, n)
           /\ EvaluateFails(r) =>
                /\ Touches(r, {"seen", "reported"})
                /\ req'[r].seen = req[r].own /\ req'[r].reported
           /\ StartFiling(r) =>
                /\ Touches(r, {"pc", "todo"}) /\ req'[r].pc = "file"
                /\ req'[r].todo = IF req[r].dry THEN {} ELSE Disputes(req[r])
<1> DEFINE q == req[r]
<1>1. DOMAIN q = DOMAIN Idle /\ DOMAIN req = Requests
  BY DEF Shape, RequestsOK, IsRequest
<1>2. ASSUME EvaluateOne(r)
      PROVE  /\ q.pc = "evaluate" /\ Touches(r, {"seen", "found"})
             /\ \E n \in Unevaluated(r) :
                   /\ req'[r].seen = q.seen \cup {n}
                   /\ req'[r].found = q.found \cup FindingsOn(r, n)
  <2>1. PICK n \in Unevaluated(r) :
           Step(r, [q EXCEPT !.seen = @ \cup {n}, !.found = @ \cup FindingsOn(r, n)])
    BY <1>2 DEF EvaluateOne, FindingsOn
  <2>2. q.pc = "evaluate"
    BY <1>2 DEF EvaluateOne
  <2> QED BY <1>1, <2>1, <2>2 DEF Step, Idle, Touches
<1>3. ASSUME EvaluateFails(r)
      PROVE  /\ Touches(r, {"seen", "reported"})
             /\ req'[r].seen = q.own /\ req'[r].reported
  <2>1. Step(r, [q EXCEPT !.seen = q.own, !.reported = TRUE])
    BY <1>3 DEF EvaluateFails
  <2> QED BY <1>1, <2>1 DEF Step, Idle, Touches
<1>4. ASSUME StartFiling(r)
      PROVE  /\ Touches(r, {"pc", "todo"}) /\ req'[r].pc = "file"
             /\ req'[r].todo = IF q.dry THEN {} ELSE Disputes(q)
  <2> DEFINE todo == IF q.dry THEN {} ELSE Disputes(q)
  <2>1. Step(r, [q EXCEPT !.pc = "file", !.todo = todo])
    BY <1>4 DEF StartFiling
  <2> HIDE DEF todo
  <2>2. Touches(r, {"pc", "todo"}) /\ req'[r].pc = "file" /\ req'[r].todo = todo
    BY <1>1, <2>1 DEF Step, Idle, Touches
  <2> QED BY <2>2 DEF todo
<1> QED BY <1>2, <1>3, <1>4

(* What looking for an open case, opening one and failing to file change.  *)
LEMMA FilingChanges ==
    ASSUME Shape, NEW r \in Requests
    PROVE  /\ LookForOpenCase(r) =>
                \/ /\ Touches(r, {"opening"}) /\ req'[r].opening = NextDispute(req[r])
                \/ /\ Touches(r, {"todo", "filed"})
                   /\ \E c \in FindOpen(NextDispute(req[r])) :
                         /\ req'[r].todo = req[r].todo \ {NextDispute(req[r])}
                         /\ req'[r].filed = req[r].filed \cup {<<NextDispute(req[r]), c>>}
           /\ OpenCase(r) =>
                /\ Touches(r, {"todo", "opening", "filed"})
                /\ req'[r].todo = req[r].todo \ {req[r].opening} /\ req'[r].opening = None
                /\ req'[r].filed = req[r].filed \cup {<<req[r].opening, Fresh(cases)>>}
           /\ FilingFails(r) => Touches(r, {"todo", "opening"})
           /\ Respond(r) =>
                /\ Touches(r, {"pc", "reported"})
                /\ req'[r].pc = "done" /\ req'[r].reported = Reply(r)
           /\ Crash(r) =>
                /\ \A s \in Requests \ {r} : req'[s] = req[s]
                /\ req'[r] = [Idle EXCEPT !.pc = "lost"]
<1> DEFINE q == req[r]
<1>1. DOMAIN q = DOMAIN Idle /\ DOMAIN req = Requests
  BY DEF Shape, RequestsOK, IsRequest
<1>2. ASSUME LookForOpenCase(r)
      PROVE  \/ /\ Touches(r, {"opening"}) /\ req'[r].opening = NextDispute(q)
             \/ /\ Touches(r, {"todo", "filed"})
                /\ \E c \in FindOpen(NextDispute(q)) :
                      /\ req'[r].todo = q.todo \ {NextDispute(q)}
                      /\ req'[r].filed = q.filed \cup {<<NextDispute(q), c>>}
  <2> DEFINE d == NextDispute(q)
  <2>1. \/ Step(r, [q EXCEPT !.opening = d])
        \/ \E c \in FindOpen(d) :
              Step(r, [q EXCEPT !.todo = @ \ {d}, !.filed = @ \cup {<<d, c>>}])
    BY <1>2 DEF LookForOpenCase
  <2> HIDE DEF d
  <2>2. \/ /\ Touches(r, {"opening"}) /\ req'[r].opening = d
        \/ /\ Touches(r, {"todo", "filed"})
           /\ \E c \in FindOpen(d) :
                 /\ req'[r].todo = q.todo \ {d}
                 /\ req'[r].filed = q.filed \cup {<<d, c>>}
    BY <1>1, <2>1 DEF Step, Idle, Touches
  <2> QED BY <2>2 DEF d
<1>3. ASSUME OpenCase(r)
      PROVE  /\ Touches(r, {"todo", "opening", "filed"})
             /\ req'[r].todo = q.todo \ {q.opening} /\ req'[r].opening = None
             /\ req'[r].filed = q.filed \cup {<<q.opening, Fresh(cases)>>}
  <2>1. Step(r, [q EXCEPT !.todo = @ \ {q.opening}, !.opening = None,
                          !.filed = @ \cup {<<q.opening, Fresh(cases)>>}])
    BY <1>3 DEF OpenCase
  <2> QED BY <1>1, <2>1 DEF Step, Idle, Touches
<1>4. ASSUME FilingFails(r) PROVE Touches(r, {"todo", "opening"})
  <2>1. Step(r, [q EXCEPT !.todo = @ \ {NextDispute(q)}, !.opening = None])
    BY <1>4 DEF FilingFails
  <2> QED BY <1>1, <2>1 DEF Step, Idle, Touches
<1>5. ASSUME Respond(r)
      PROVE  /\ Touches(r, {"pc", "reported"})
             /\ req'[r].pc = "done" /\ req'[r].reported = Reply(r)
  <2> DEFINE reply == Reply(r)
  <2>1. Step(r, [q EXCEPT !.pc = "done", !.reported = reply])
    BY <1>5 DEF Respond
  <2> HIDE DEF reply
  <2>2. Touches(r, {"pc", "reported"}) /\ req'[r].pc = "done" /\ req'[r].reported = reply
    BY <1>1, <2>1 DEF Step, Idle, Touches
  <2> QED BY <2>2 DEF reply
<1>6. ASSUME Crash(r)
      PROVE  /\ \A s \in Requests \ {r} : req'[s] = req[s]
             /\ req'[r] = [Idle EXCEPT !.pc = "lost"]
  BY <1>1, <1>6 DEF Crash, Step
<1> QED BY <1>2, <1>3, <1>4, <1>5, <1>6

(* What a request is when it begins.                                       *)
LEMMA SubmitChanges ==
    ASSUME Shape, NEW r \in Requests, NEW e \in Endpoints, NEW dry \in DryRuns,
           NEW b \in Batches, Submit(r, e, dry, b)
    PROVE  /\ \A s \in Requests \ {r} : req'[s] = req[s]
           /\ UNCHANGED <<registry, minted, cases>>
           /\ req'[r].endpoint = e /\ req'[r].dry = dry /\ req'[r].batch = b
           /\ req'[r].known.registry = DOMAIN registry
           /\ req'[r].pc = (IF e = "dedupe" THEN "read" ELSE "record") /\ req'[r].next = 1
           /\ req'[r].priors = Empty /\ req'[r].overlay = Empty /\ req'[r].opening = None
           /\ req'[r].own = {} /\ req'[r].found = {} /\ req'[r].seen = {}
           /\ req'[r].todo = {} /\ req'[r].filed = {} /\ req'[r].reported = FALSE
<1>1. DOMAIN req = Requests
  BY DEF Shape, RequestsOK
<1> QED BY <1>1 DEF Submit, Step, Idle

-----------------------------------------------------------------------------
(* What a /dedupe request has read.  The candidates for document i among    *)
(* the assertions that were there when the request came in:                 *)
Hits(r, i) == {n \in req[r].known.registry : n \in StoredCandidates(registry, Record(r, i), 0)}

(* History is read document by document, before anything is recorded; what  *)
(* was there is there still, and what the request records is new.           *)
HasRead(r) ==
    LET q == req[r] IN
    q.endpoint = "dedupe" =>
        /\ q.known.registry \cup DOMAIN q.priors \subseteq DOMAIN registry
        /\ DOMAIN q.priors \cap q.own = {}
        /\ q.pc = "read" =>
              /\ q.own = {}
              /\ \A i \in DOMAIN q.batch : i < q.next => Hits(r, i) \subseteq DOMAIN q.priors
        /\ q.pc \in {"record", "evaluate", "file"} /\ ~q.reported =>
              \A i \in DOMAIN q.batch : Hits(r, i) \subseteq DOMAIN q.priors

HistoryRead == \A r \in Requests : HasRead(r)

(* The registry grows, and what a request looks for in it stays the same. *)
LEMMA HitsStay ==
    ASSUME Shape, [Next]_vars, NEW r \in Requests,
           req[r].known.registry \subseteq DOMAIN registry,
           req'[r].endpoint = req[r].endpoint, req'[r].batch = req[r].batch,
           req'[r].known = req[r].known
    PROVE  /\ DOMAIN registry \subseteq DOMAIN registry'
           /\ \A i : Hits(r, i)' = Hits(r, i)
<1>1. \A n \in DOMAIN registry : n \in DOMAIN registry' /\ registry'[n] = registry[n]
  BY AppendOnlyStep DEF vars
<1>2. ASSUME NEW i PROVE Record(r, i)' = Record(r, i)
  BY DEF Record
<1>3. ASSUME NEW i, NEW n \in DOMAIN registry
      PROVE  n \in StoredCandidates(registry', Record(r, i)', 0)
                <=> n \in StoredCandidates(registry, Record(r, i), 0)
  BY <1>1, <1>2 DEF StoredCandidates
<1>4. ASSUME NEW i PROVE Hits(r, i)' = Hits(r, i)
  BY <1>3 DEF Hits
<1> QED BY <1>1, <1>4

(* A step that touches nothing a request has read from or into leaves it    *)
(* with what it read.                                                       *)
LEMMA HasReadStays ==
    ASSUME Shape, [Next]_vars, NEW r \in Requests, HasRead(r),
           req'[r].endpoint = req[r].endpoint, req'[r].batch = req[r].batch,
           req'[r].known = req[r].known, req'[r].priors = req[r].priors,
           req'[r].own = req[r].own, req[r].reported => req'[r].reported,
           \/ req'[r].pc = req[r].pc /\ req'[r].next = req[r].next
           \/ req[r].pc \in {"record", "evaluate", "file"} /\ req'[r].pc # "read"
    PROVE  HasRead(r)'
<1> SUFFICES ASSUME req[r].endpoint = "dedupe" PROVE HasRead(r)'
  BY DEF HasRead
<1>1. /\ req[r].known.registry \cup DOMAIN req[r].priors \subseteq DOMAIN registry
      /\ DOMAIN req[r].priors \cap req[r].own = {}
      /\ req[r].pc = "read" =>
              /\ req[r].own = {}
              /\ \A i \in DOMAIN req[r].batch :
                    i < req[r].next => Hits(r, i) \subseteq DOMAIN req[r].priors
      /\ req[r].pc \in {"record", "evaluate", "file"} /\ ~req[r].reported =>
              \A i \in DOMAIN req[r].batch : Hits(r, i) \subseteq DOMAIN req[r].priors
  BY DEF HasRead
<1>2. /\ DOMAIN registry \subseteq DOMAIN registry'
      /\ \A i : Hits(r, i)' = Hits(r, i)
  BY <1>1, HitsStay
<1> QED BY <1>1, <1>2 DEF HasRead

(* Every step keeps what a request has read of the history.                *)
LEMMA HistoryReadStep == Shape /\ HistoryRead /\ [Next]_vars => HistoryRead'
<1> SUFFICES ASSUME Shape, HistoryRead, [Next]_vars PROVE HistoryRead'
  OBVIOUS
<1>0. ASSUME NEW r \in Requests, req'[r] = req[r] PROVE HasRead(r)'
  BY <1>0, HasReadStays DEF HistoryRead
<1>1. ASSUME NEW r \in Requests, NEW e \in Endpoints, NEW dry \in DryRuns,
             NEW b \in Batches, Submit(r, e, dry, b)
      PROVE  HistoryRead'
  <2>1. HasRead(r)'
    <3>1. /\ req'[r].known.registry = DOMAIN registry' /\ req'[r].own = {}
          /\ req'[r].next = 1 /\ req'[r].batch = b /\ DOMAIN req'[r].priors = {}
          /\ req'[r].endpoint = "dedupe" => req'[r].pc = "read"
      <4>1. /\ req'[r].endpoint = e /\ req'[r].batch = b /\ req'[r].next = 1
            /\ req'[r].pc = IF e = "dedupe" THEN "read" ELSE "record"
            /\ registry' = registry /\ req'[r].known.registry = DOMAIN registry
            /\ req'[r].priors = Empty /\ req'[r].own = {}
        BY <1>1, SubmitChanges, ZenonT(60)
      <4>2. DOMAIN Empty = {}
        BY DEF Empty
      <4> QED BY <4>1, <4>2
    <3>2. \A i \in DOMAIN b : ~(i < 1)
      BY BatchPositions
    <3> QED BY <3>1, <3>2 DEF HasRead
  <2>2. \A s \in Requests \ {r} : req'[s] = req[s]
    BY <1>1, SubmitChanges
  <2> QED BY <1>0, <2>1, <2>2 DEF HistoryRead
<1>2. ASSUME NEW r \in Requests, Serve(r) \/ Crash(r) PROVE HasRead(r)'
  <2> DEFINE q == req[r]
             w == req'[r]
  <2>0. HasRead(r) /\ IsRequest(q, minted) /\ minted \in Nat /\ DOMAIN registry \subseteq 1 .. minted
    BY DEF HistoryRead, Shape, RequestsOK, RegistryOK
  <2>1. CASE ReadHistory(r)
    <3>1. /\ Touches(r, {"priors", "next", "pc"}) /\ MovesOn(r, "record")
          /\ DOMAIN w.priors = DOMAIN q.priors \cup StoredCandidates(registry, Record(r, q.next), 0)
          /\ q.pc = "read" /\ registry' = registry
      BY <2>1, ReadingChanges DEF ReadHistory
    <3>2. /\ w.endpoint = q.endpoint /\ w.batch = q.batch /\ w.known = q.known
          /\ w.own = q.own
      BY <3>1 DEF Touches, Idle
    <3>3. q.next \in 1 .. Len(q.batch) /\ Len(q.batch) \in Nat /\ DOMAIN q.batch = 1 .. Len(q.batch)
      BY <2>0, <3>1, BatchPositions DEF IsRequest
    <3> SUFFICES ASSUME q.endpoint = "dedupe" PROVE HasRead(r)'
      BY <3>2 DEF HasRead
    <3>4. /\ q.known.registry \cup DOMAIN q.priors \subseteq DOMAIN registry
          /\ q.own = {}
          /\ \A i \in DOMAIN q.batch : i < q.next => Hits(r, i) \subseteq DOMAIN q.priors
      BY <2>0, <3>1 DEF HasRead
    <3>5. \A i : Hits(r, i)' = Hits(r, i)
      BY <3>2, <3>4, HitsStay
    <3>6. Hits(r, q.next) \subseteq DOMAIN w.priors /\ DOMAIN q.priors \subseteq DOMAIN w.priors
      BY <3>1 DEF Hits
    <3>7. w.known.registry \cup DOMAIN w.priors \subseteq DOMAIN registry'
      BY <3>1, <3>2, <3>4 DEF StoredCandidates
    <3>8. ASSUME NEW i \in DOMAIN q.batch, i <= q.next PROVE Hits(r, i)' \subseteq DOMAIN w.priors
      <4>1. i < q.next \/ i = q.next
        BY <3>3, <3>8
      <4> QED BY <3>4, <3>5, <3>6, <4>1
    <3>9. CASE w.next = 1 /\ w.pc = "record" /\ q.next = Len(q.batch)
      <4>1. \A i \in DOMAIN q.batch : i <= q.next
        BY <3>3, <3>9
      <4> QED BY <3>2, <3>4, <3>7, <3>8, <3>9, <4>1 DEF HasRead
    <3>10. CASE w.next = q.next + 1 /\ w.pc = "read"
      <4>1. \A i \in DOMAIN q.batch : i < w.next => i <= q.next
        BY <3>3, <3>10
      <4> QED BY <3>2, <3>4, <3>7, <3>8, <3>10, <4>1 DEF HasRead
    <3> QED BY <3>1, <3>9, <3>10 DEF MovesOn
  <2>2. CASE ReadFails(r)
    <3>1. /\ Touches(r, {"priors", "next", "pc", "reported"})
          /\ DOMAIN w.priors = {} /\ w.reported /\ w.pc = "record"
          /\ q.pc = "read" /\ registry' = registry
      BY <2>2, ReadingChanges DEF ReadFails, Empty
    <3>2. w.endpoint = q.endpoint /\ w.known = q.known
      BY <3>1 DEF Touches, Idle
    <3> QED BY <2>0, <3>1, <3>2 DEF HasRead
  <2>3. CASE RecordAssertion(r)
    <3>1. /\ Touches(r, {"own", "overlay", "next", "pc"}) /\ MovesOn(r, "evaluate")
          /\ w.own = q.own \cup {minted + 1} /\ q.pc = "record"
      BY <2>3, RecordingChanges DEF RecordAssertion
    <3>2. /\ w.endpoint = q.endpoint /\ w.batch = q.batch /\ w.known = q.known
          /\ w.priors = q.priors /\ w.reported = q.reported
      BY <3>1 DEF Touches, Idle
    <3> SUFFICES ASSUME q.endpoint = "dedupe" PROVE HasRead(r)'
      BY <3>2 DEF HasRead
    <3>3. q.known.registry \cup DOMAIN q.priors \subseteq DOMAIN registry
      BY <2>0 DEF HasRead
    <3>4. DOMAIN registry \subseteq DOMAIN registry' /\ \A i : Hits(r, i)' = Hits(r, i)
      BY <3>2, <3>3, HitsStay
    <3>5. minted + 1 \notin DOMAIN registry
      BY <2>0
    <3>6. w.pc \in {"record", "evaluate"}
      BY <3>1 DEF MovesOn
    <3> QED BY <2>0, <3>1, <3>2, <3>3, <3>4, <3>5, <3>6 DEF HasRead
  <2>4. CASE DeclineAssertion(r)
    <3>1. /\ Touches(r, {"reported", "next", "pc"}) /\ MovesOn(r, "evaluate")
          /\ w.reported /\ q.pc = "record"
      BY <2>4, RecordingChanges DEF DeclineAssertion
    <3>2. /\ w.endpoint = q.endpoint /\ w.batch = q.batch /\ w.known = q.known
          /\ w.priors = q.priors /\ w.own = q.own
      BY <3>1 DEF Touches, Idle
    <3> QED BY <2>0, <3>1, <3>2, HasReadStays DEF MovesOn
  <2>5. CASE RecordFails(r)
    <3>1. Touches(r, {"reported", "next", "pc"}) /\ w.reported /\ w.pc = "evaluate" /\ q.pc = "record"
      BY <2>5, RecordingChanges DEF RecordFails
    <3>2. /\ w.endpoint = q.endpoint /\ w.batch = q.batch /\ w.known = q.known
          /\ w.priors = q.priors /\ w.own = q.own
      BY <3>1 DEF Touches, Idle
    <3> QED BY <2>0, <3>1, <3>2, HasReadStays
  <2>6. CASE EvaluateOne(r) \/ EvaluateFails(r)
    <3>1. Touches(r, {"seen", "found", "reported"}) /\ (q.reported => w.reported)
      BY <2>6, EvaluationChanges DEF Touches, Idle
    <3>2. /\ w.endpoint = q.endpoint /\ w.batch = q.batch /\ w.known = q.known
          /\ w.priors = q.priors /\ w.own = q.own /\ w.pc = q.pc /\ w.next = q.next
      BY <3>1 DEF Touches, Idle
    <3> QED BY <2>0, <3>1, <3>2, HasReadStays
  <2>7. CASE StartFiling(r)
    <3>1. Touches(r, {"pc", "todo"}) /\ w.pc = "file" /\ q.pc = "evaluate"
      BY <2>7, EvaluationChanges DEF StartFiling
    <3>2. /\ w.endpoint = q.endpoint /\ w.batch = q.batch /\ w.known = q.known
          /\ w.priors = q.priors /\ w.own = q.own /\ w.reported = q.reported
      BY <3>1 DEF Touches, Idle
    <3> QED BY <2>0, <3>1, <3>2, HasReadStays
  <2>8. CASE LookForOpenCase(r) \/ OpenCase(r) \/ FilingFails(r)
    <3>1. Touches(r, {"todo", "opening", "filed"})
      BY <2>8, FilingChanges DEF Touches
    <3>2. /\ w.endpoint = q.endpoint /\ w.batch = q.batch /\ w.known = q.known
          /\ w.priors = q.priors /\ w.own = q.own /\ w.reported = q.reported
          /\ w.pc = q.pc /\ w.next = q.next
      BY <3>1 DEF Touches, Idle
    <3> QED BY <2>0, <3>2, HasReadStays
  <2>9. CASE Respond(r)
    <3>1. Touches(r, {"pc", "reported"}) /\ w.pc = "done" /\ registry' = registry
      BY <2>9, FilingChanges DEF Respond
    <3>2. /\ w.endpoint = q.endpoint /\ w.known = q.known /\ w.priors = q.priors /\ w.own = q.own
      BY <3>1 DEF Touches, Idle
    <3> QED BY <2>0, <3>1, <3>2 DEF HasRead
  <2>10. CASE Crash(r)
    <3>1. /\ w.known.registry = {} /\ DOMAIN w.priors = {} /\ w.own = {}
          /\ w.pc = "lost"
      BY <2>10, FilingChanges DEF Idle, Unknown, Empty
    <3> QED BY <3>1 DEF HasRead
  <2> QED BY <1>2, <2>1, <2>2, <2>3, <2>4, <2>5, <2>6, <2>7, <2>8, <2>9, <2>10 DEF Serve
<1>3. ASSUME NEW r \in Requests, Serve(r) \/ Crash(r) PROVE HistoryRead'
  <2>1. \A s \in Requests \ {r} : req'[s] = req[s]
    BY <1>3, FilingStep
  <2> QED BY <1>0, <1>2, <1>3, <2>1 DEF HistoryRead
<1>4. ASSUME UNCHANGED req PROVE HistoryRead'
  BY <1>0, <1>4 DEF HistoryRead
<1> QED BY <1>1, <1>3, <1>4 DEF Next, vars, RecordDecision, CloseCase, CloseFails

(* A /dedupe request matches against everything recorded when it came in,   *)
(* and never against its own assertions.                                    *)
THEOREM DedupeSeesHistory == Spec => []DedupeReadsHistory
<1>1. Init => HistoryRead
  BY DEF Init, HistoryRead, HasRead, Idle, Unknown, Empty
<1>2. Shape /\ HistoryRead => DedupeReadsHistory
  <2> SUFFICES ASSUME HistoryRead, NEW r \in Requests, req[r].endpoint = "dedupe",
                      req[r].pc \in {"record", "evaluate", "file"}
               PROVE  /\ DOMAIN req[r].priors \cap req[r].own = {}
                      /\ ~req[r].reported =>
                            {n \in req[r].known.registry : \E i \in DOMAIN req[r].batch :
                                n \in StoredCandidates(registry, Record(r, i), 0)}
                                    \subseteq DOMAIN req[r].priors
    BY DEF DedupeReadsHistory
  <2>1. HasRead(r)
    BY DEF HistoryRead
  <2> QED BY <2>1 DEF HasRead, Hits
<1> QED BY <1>1, <1>2, HistoryReadStep, ShapeHolds, PTL DEF Spec

-----------------------------------------------------------------------------
(* Where the assertions of a request are: in the overlay of a dry run, in   *)
(* the registry otherwise; no number is in both.                            *)
IsPlaced(q) ==
    /\ DOMAIN q.overlay \subseteq 1 .. minted
    /\ DOMAIN q.overlay \cap DOMAIN registry = {}
    /\ q.dry => q.own \subseteq DOMAIN q.overlay
    /\ ~q.dry => DOMAIN q.overlay = {} /\ q.own \subseteq DOMAIN registry

Placed == \A r \in Requests : IsPlaced(req[r])

(* How the registry grows in a step. *)
LEMMA RegistryGrows ==
    ASSUME Shape, [Next]_vars
    PROVE  /\ minted \in Nat /\ minted' \in Nat /\ minted <= minted'
           /\ DOMAIN registry \subseteq 1 .. minted
           /\ DOMAIN registry \subseteq DOMAIN registry'
           /\ DOMAIN registry' \subseteq DOMAIN registry \cup {minted + 1}
           /\ \A n \in DOMAIN registry : registry'[n] = registry[n]
<1>1. \A n \in DOMAIN registry : n \in DOMAIN registry' /\ registry'[n] = registry[n]
  BY AppendOnlyStep DEF vars
<1>2. minted \in Nat /\ DOMAIN registry \subseteq 1 .. minted
  BY DEF Shape, RegistryOK
<1>3. \/ UNCHANGED <<registry, minted>>
      \/ \E r \in Requests : RecordAssertion(r) \/ RecordFails(r)
  BY DEF Next, vars, Serve, Submit, ReadHistory, ReadFails, DeclineAssertion, EvaluateOne,
         EvaluateFails, StartFiling, LookForOpenCase, OpenCase, FilingFails, Respond,
         Crash, RecordDecision, CloseCase, CloseFails
<1>4. ASSUME NEW r \in Requests, RecordAssertion(r) \/ RecordFails(r)
      PROVE  /\ minted' = minted + 1
             /\ \/ UNCHANGED registry
                \/ registry' = Put(registry, minted + 1, Record(r, req[r].next))
  BY <1>4 DEF RecordAssertion, RecordFails
<1>5. /\ minted' = minted \/ minted' = minted + 1
      /\ DOMAIN registry' \subseteq DOMAIN registry \cup {minted + 1}
  BY <1>3, <1>4 DEF Put
<1> QED BY <1>1, <1>2, <1>5

(* A request whose overlay and own assertions are as before keeps them      *)
(* apart from what the registry takes in: a new number.                     *)
LEMMA PlacedStays ==
    ASSUME Shape, [Next]_vars, NEW r \in Requests, IsPlaced(req[r]),
           req'[r].overlay = req[r].overlay, req'[r].own = req[r].own,
           req'[r].dry = req[r].dry
    PROVE  IsPlaced(req[r])'
<1>1. /\ minted \in Nat /\ minted' \in Nat /\ minted <= minted'
      /\ DOMAIN registry \subseteq DOMAIN registry'
      /\ DOMAIN registry' \subseteq DOMAIN registry \cup {minted + 1}
  BY RegistryGrows
<1>2. minted + 1 \notin 1 .. minted /\ 1 .. minted \subseteq 1 .. minted'
  BY <1>1
<1> QED BY <1>1, <1>2 DEF IsPlaced

(* Every step keeps the assertions of the requests in their places.        *)
LEMMA PlacedStep == Shape /\ Placed /\ [Next]_vars => Placed'
<1> SUFFICES ASSUME Shape, Placed, [Next]_vars PROVE Placed'
  OBVIOUS
<1>0. ASSUME NEW r \in Requests, req'[r] = req[r] PROVE IsPlaced(req[r])'
  BY <1>0, PlacedStays DEF Placed
<1>1. ASSUME NEW r \in Requests, NEW e \in Endpoints, NEW dry \in DryRuns,
             NEW b \in Batches, Submit(r, e, dry, b)
      PROVE  Placed'
  <2>1. req'[r].own = {} /\ DOMAIN req'[r].overlay = {}
    BY <1>1, SubmitChanges DEF Empty
  <2>2. IsPlaced(req[r])'
    BY <2>1 DEF IsPlaced
  <2>3. \A s \in Requests \ {r} : req'[s] = req[s]
    BY <1>1, SubmitChanges
  <2> QED BY <1>0, <2>2, <2>3 DEF Placed
<1>2. ASSUME NEW r \in Requests, Serve(r) \/ Crash(r) PROVE IsPlaced(req[r])'
  <2> DEFINE q == req[r]
             w == req'[r]
  <2>0. IsPlaced(q) /\ IsRequest(q, minted) /\ minted \in Nat /\ DOMAIN registry \subseteq 1 .. minted
    BY DEF Placed, Shape, RequestsOK, RegistryOK
  <2>1. CASE RecordAssertion(r)
    <3>1. /\ w.own = q.own \cup {minted + 1}
          /\ w.overlay = IF q.dry THEN Put(q.overlay, minted + 1, Record(r, q.next)) ELSE q.overlay
          /\ Touches(r, {"own", "overlay", "next", "pc"})
          /\ minted' = minted + 1
          /\ registry' = IF q.dry THEN registry ELSE Put(registry, minted + 1, Record(r, q.next))
      BY <2>1, RecordingChanges DEF RecordAssertion
    <3>2. w.dry = q.dry
      BY <3>1 DEF Touches, Idle
    <3>3. CASE q.dry
      <4>1. /\ DOMAIN w.overlay = DOMAIN q.overlay \cup {minted + 1}
            /\ registry' = registry /\ minted + 1 \notin DOMAIN registry
        BY <2>0, <3>1, <3>3 DEF Put
      <4>2. w.own \subseteq DOMAIN w.overlay /\ DOMAIN w.overlay \subseteq 1 .. minted'
        BY <2>0, <3>1, <3>3, <4>1 DEF IsPlaced
      <4>3. DOMAIN w.overlay \cap DOMAIN registry' = {}
        BY <2>0, <4>1 DEF IsPlaced
      <4> QED BY <3>2, <3>3, <4>2, <4>3 DEF IsPlaced
    <3>4. CASE ~q.dry
      <4>1. /\ w.overlay = q.overlay /\ DOMAIN registry' = DOMAIN registry \cup {minted + 1}
        BY <3>1, <3>4 DEF Put
      <4> QED BY <2>0, <3>1, <3>2, <3>4, <4>1 DEF IsPlaced
    <3> QED BY <3>3, <3>4
  <2>2. CASE Crash(r)
    <3>1. w.own = {} /\ DOMAIN w.overlay = {}
      BY <2>2, FilingChanges DEF Idle, Empty
    <3> QED BY <3>1 DEF IsPlaced
  <2>3. CASE ~RecordAssertion(r) /\ ~Crash(r)
    <3>1. Touches(r, DOMAIN Idle \ {"overlay", "own", "dry"})
      <4>1. ASSUME NEW F, Touches(r, F), "overlay" \notin F, "own" \notin F, "dry" \notin F
            PROVE  Touches(r, DOMAIN Idle \ {"overlay", "own", "dry"})
        BY <4>1 DEF Touches
      <4> QED BY <1>2, <2>3, <4>1, ReadingChanges, RecordingChanges, EvaluationChanges,
                 FilingChanges, ZenonT(60) DEF Serve
    <3>2. w.overlay = q.overlay /\ w.own = q.own /\ w.dry = q.dry
      BY <3>1 DEF Touches, Idle
    <3> QED BY <2>0, <3>2, PlacedStays
  <2> QED BY <2>1, <2>2, <2>3
<1>3. ASSUME NEW r \in Requests, Serve(r) \/ Crash(r) PROVE Placed'
  <2>1. \A s \in Requests \ {r} : req'[s] = req[s]
    BY <1>3, FilingStep
  <2> QED BY <1>0, <1>2, <1>3, <2>1 DEF Placed
<1>4. ASSUME UNCHANGED req PROVE Placed'
  BY <1>0, <1>4 DEF Placed
<1> QED BY <1>1, <1>3, <1>4 DEF Next, vars, RecordDecision, CloseCase, CloseFails

(* Each assertion of a request stands where its endpoint puts it, in every *)
(* state.                                                                  *)
LEMMA PlacedHolds == Spec => [](Shape /\ Placed)
<1>1. Init => Placed
  BY DEF Init, Placed, IsPlaced, Idle, Empty
<1> QED BY <1>1, PlacedStep, ShapeHolds, PTL DEF Spec

-----------------------------------------------------------------------------
(* An assertion that a provider knows, stored or pending, answers to the    *)
(* references of its document.                                              *)
LEMMA ReferenceKeys ==
    ASSUME NEW d, NEW type, NEW ref
    PROVE  /\ <<"doc_ref", <<type, ref>>>> \in RegistryKeys(d) => Present(type)
           /\ Present(type) /\ Present(ref) /\ d.doc_type = type /\ OwnReference(d) = ref
                => <<"doc_ref", <<type, ref>>>> \in RegistryKeys(d)
           /\ Present(ref) /\ d.po = ref => <<"po_ref", <<ref>>>> \in RegistryKeys(d)
<1> DEFINE key == <<"doc_ref", <<type, ref>>>>
<1>1. ASSUME NEW name, NEW parts, name # "doc_ref" PROVE key \notin KeyOf(name, parts)
  BY <1>1 DEF KeyOf
<1>2. key \notin MonthKey(d)
  BY <1>1 DEF MonthKey
<1>3. key \notin IdentityKeys(d)
  BY <1>1, <1>2 DEF IdentityKeys
<1>4. key \in RegistryKeys(d) => key \in KeyOf("doc_ref", <<d.doc_type, OwnReference(d)>>)
  BY <1>1, <1>3 DEF RegistryKeys
<1>5. key \in KeyOf("doc_ref", <<d.doc_type, OwnReference(d)>>) => Present(type)
  BY DEF KeyOf
<1>6. Present(type) /\ Present(ref) /\ d.doc_type = type /\ OwnReference(d) = ref
         => key \in KeyOf("doc_ref", <<d.doc_type, OwnReference(d)>>)
  BY DEF KeyOf
<1>7. Present(ref) /\ d.po = ref => <<"po_ref", <<ref>>>> \in KeyOf("po_ref", <<d.po>>)
  BY DEF KeyOf
<1> HIDE DEF key
<1>8. KeyOf("doc_ref", <<d.doc_type, OwnReference(d)>>) \cup KeyOf("po_ref", <<d.po>>)
         \subseteq RegistryKeys(d)
  BY DEF RegistryKeys
<1> QED BY <1>4, <1>5, <1>6, <1>7, <1>8 DEF key

(* An order with the number cited is among the orders cited, whether       *)
(* stored or pending.                                                      *)
LEMMA OrderAnswers ==
    ASSUME NEW p, DOMAIN p.base \cap DOMAIN p.pending = {},
           NEW n \in DOMAIN p.base \cup DOMAIN p.pending,
           NEW po, Present(po), Asserted(p, n).doc_type = "purchase_order", Asserted(p, n).po = po
    PROVE  n \in OrdersCited(p, po)
<1>1. CASE n \in DOMAIN p.base
  <2> DEFINE own == Lookup(p.base, "doc_ref", <<"purchase_order", po>>)
             citing == Lookup(p.base, "po_ref", <<po>>)
  <2>1. p.base[n].doc_type = "purchase_order" /\ p.base[n].po = po
    BY <1>1 DEF Asserted
  <2>2. OwnReference(p.base[n]) = po
    BY <2>1 DEF OwnReference
  <2>3. own # {} => Present("purchase_order")
    BY ReferenceKeys DEF Lookup
  <2>4. Present("purchase_order") => n \in own
    BY <1>1, <2>1, <2>2, ReferenceKeys DEF Lookup
  <2>5. n \in citing
    BY <1>1, <2>1, ReferenceKeys DEF Lookup
  <2>6. n \in StoredByReference(p.base, "purchase_order", po)
    BY <2>3, <2>4, <2>5 DEF StoredByReference
  <2> QED BY <2>6 DEF OrdersCited, ByReference
<1>2. CASE n \in DOMAIN p.pending
  <2>1. Asserted(p, n) = p.pending[n]
    BY <1>2 DEF Asserted
  <2>2. OwnReference(p.pending[n]) = po
    BY <2>1 DEF OwnReference
  <2> QED BY <1>2, <2>1, <2>2 DEF OrdersCited, ByReference
<1> QED BY <1>1, <1>2

(* Only the check of orders reports one as unknown, and only while no order *)
(* answers.                                                                 *)
LEMMA UnknownOrder ==
    ASSUME NEW p, NEW n, NEW dup, NEW f \in Evaluate(p, n, dup), f.kind = "PO_NOT_FOUND"
    PROVE  Present(Asserted(p, n).po) /\ OrdersCited(p, Asserted(p, n).po) = {}
<1>1. f \notin CheckInternal(p, n)
  BY DEF CheckInternal, Finding
<1>2. f \notin CheckDuplicates(p, n)
  BY DEF CheckDuplicates, Finding
<1>3. f \notin CheckTaxId(p, n)
  BY DEF CheckTaxId, Finding
<1>4. f \notin CheckTaxRate(p, n)
  BY DEF CheckTaxRate, Finding
<1>5. f \notin CheckNumberFormat(p, n)
  BY DEF CheckNumberFormat, Finding
<1>6. f \notin CheckPayments(p, n)
  BY DEF CheckPayments, Finding
<1>7. f \in CheckPO(p, n)
  BY <1>1, <1>2, <1>3, <1>4, <1>5, <1>6 DEF Evaluate
<1> QED BY <1>7 DEF CheckPO, Finding

-----------------------------------------------------------------------------
(* Document i of a request is among what the request recorded ... *)
Held(r, i) ==
    \E n \in req[r].own :
        /\ n \in DOMAIN registry \cup DOMAIN req[r].overlay
        /\ Asserted(ProviderOf(r), n) = Record(r, i)

(* ... unless the answer will say that something was left out. *)
Excused(r) == req[r].reported /\ (req[r].dry => Declined(r))

NoneMissed(r) ==
    \A f \in req[r].found : f[1].kind = "PO_NOT_FOUND" =>
        ~\E i \in DOMAIN req[r].batch :
            /\ req[r].batch[i].doc_type = "purchase_order"
            /\ req[r].batch[i].po = f[2].docs[1].po

(* All documents are recorded before the first is evaluated. *)
Complete(r) ==
    LET q == req[r] IN
    /\ q.pc \in {"idle", "read", "record", "lost"} => q.found = {}
    /\ q.pc \in {"read", "record", "evaluate", "file"} =>
          Excused(r) \/
              /\ NoneMissed(r)
              /\ q.pc = "record" => \A i \in DOMAIN q.batch : i < q.next => Held(r, i)
              /\ q.pc = "evaluate" => \A i \in DOMAIN q.batch : Held(r, i)
    /\ q.pc = "done" => q.reported \/ NoneMissed(r)

OrdersSeen == \A r \in Requests : Complete(r)

(* What a request recorded, it keeps. *)
LEMMA HeldStays ==
    ASSUME Shape, Placed, [Next]_vars, NEW r \in Requests, NEW i, Held(r, i),
           req'[r].endpoint = req[r].endpoint, req'[r].batch = req[r].batch,
           req'[r].overlay = req[r].overlay, req[r].own \subseteq req'[r].own
    PROVE  Held(r, i)'
<1>1. PICK n \in req[r].own :
         /\ n \in DOMAIN registry \cup DOMAIN req[r].overlay
         /\ Asserted(ProviderOf(r), n) = Record(r, i)
  BY DEF Held
<1>2. /\ DOMAIN registry \subseteq DOMAIN registry'
      /\ DOMAIN registry' \subseteq DOMAIN registry \cup {minted + 1}
      /\ \A m \in DOMAIN registry : registry'[m] = registry[m]
      /\ minted \in Nat
  BY RegistryGrows
<1>3. Record(r, i)' = Record(r, i)
  BY DEF Record
<1>4. req[r].own \subseteq 1 .. minted
  BY DEF Shape, RequestsOK, IsRequest
<1>5. n \in DOMAIN registry' <=> n \in DOMAIN registry
  BY <1>1, <1>2, <1>4
<1>6. Asserted(ProviderOf(r), n)' = Asserted(ProviderOf(r), n)
  BY <1>2, <1>5 DEF Asserted, ProviderOf, Provider
<1> QED BY <1>1, <1>3, <1>5, <1>6 DEF Held

(* While every document is recorded, no order of the request is missed.    *)
LEMMA NoneMissedYet ==
    ASSUME Shape, Placed, NEW r \in Requests, NEW n,
           \A i \in DOMAIN req[r].batch : Held(r, i)
    PROVE  \A f \in FindingsOn(r, n) : f[1].kind = "PO_NOT_FOUND" =>
               ~\E i \in DOMAIN req[r].batch :
                   /\ req[r].batch[i].doc_type = "purchase_order"
                   /\ req[r].batch[i].po = f[2].docs[1].po
<1> DEFINE p == ProviderOf(r)
<1> SUFFICES ASSUME NEW g \in Evaluate(p, n, req[r].endpoint = "process"),
                    g.kind = "PO_NOT_FOUND", NEW i \in DOMAIN req[r].batch,
                    req[r].batch[i].doc_type = "purchase_order",
                    req[r].batch[i].po = Asserted(p, n).po
             PROVE  FALSE
  <2>1. ASSUME NEW f \in FindingsOn(r, n)
        PROVE  \E g \in Evaluate(p, n, req[r].endpoint = "process") :
                   f[1] = g /\ f[2].docs[1] = Asserted(p, n)
    BY <2>1 DEF FindingsOn, FindingDispute, Dispute
  <2> QED BY <2>1
<1>1. PICK m \in req[r].own :
         m \in DOMAIN registry \cup DOMAIN req[r].overlay /\ Asserted(p, m) = Record(r, i)
  BY DEF Held
<1>2. Record(r, i).doc_type = "purchase_order" /\ Record(r, i).po = Asserted(p, n).po
  BY DEF Record, FieldsOnly, Content, Fields
<1>3. Present(Asserted(p, n).po) /\ OrdersCited(p, Asserted(p, n).po) = {}
  BY UnknownOrder
<1>4. p.base = registry /\ p.pending = req[r].overlay
  BY DEF ProviderOf, Provider
<1>5. DOMAIN p.base \cap DOMAIN p.pending = {}
  BY <1>4 DEF Placed, IsPlaced
<1> HIDE DEF p
<1> QED BY <1>1, <1>2, <1>3, <1>4, <1>5, OrderAnswers

(* The document just recorded is held. *)
LEMMA RecordedIsHeld ==
    ASSUME Shape, Placed, NEW r \in Requests, RecordAssertion(r), NEW k, k = req[r].next
    PROVE  /\ Held(r, k)'
           /\ \A i : Held(r, i) => Held(r, i)'
<1> DEFINE q == req[r]
           w == req'[r]
<1>0. PICK n : n = minted + 1
  OBVIOUS
<1>1. /\ w.own = q.own \cup {n}
      /\ w.overlay = IF q.dry THEN Put(q.overlay, n, Record(r, k)) ELSE q.overlay
      /\ Touches(r, {"own", "overlay", "next", "pc"})
      /\ registry' = IF q.dry THEN registry ELSE Put(registry, n, Record(r, k))
  BY <1>0, RecordingChanges DEF RecordAssertion
<1>2. w.endpoint = q.endpoint /\ w.batch = q.batch /\ w.dry = q.dry
  BY <1>1 DEF Touches, Idle
<1>3. \A i : Record(r, i)' = Record(r, i)
  BY <1>2 DEF Record
<1>4. /\ minted \in Nat /\ DOMAIN registry \subseteq 1 .. minted
      /\ DOMAIN q.overlay \subseteq 1 .. minted /\ q.own \subseteq 1 .. minted
  BY DEF Shape, RegistryOK, RequestsOK, IsRequest, Placed, IsPlaced
<1>5. n \notin DOMAIN registry /\ n \notin DOMAIN q.overlay /\ n \notin q.own
  BY <1>0, <1>4
<1>6. Held(r, k)'
  <2>1. CASE q.dry
    <3>1. n \in DOMAIN w.overlay /\ w.overlay[n] = Record(r, k) /\ n \notin DOMAIN registry'
      BY <1>1, <1>5, <2>1 DEF Put
    <3>2. Asserted(ProviderOf(r), n)' = Record(r, k)
      BY <3>1 DEF Asserted, ProviderOf, Provider
    <3>3. n \in req'[r].own /\ n \in DOMAIN registry' \cup DOMAIN req'[r].overlay
      BY <1>1, <3>1
    <3> QED BY <1>3, <3>2, <3>3 DEF Held
  <2>2. CASE ~q.dry
    <3>1. n \in DOMAIN registry' /\ registry'[n] = Record(r, k)
      BY <1>1, <2>2 DEF Put
    <3>2. Asserted(ProviderOf(r), n)' = Record(r, k)
      BY <3>1 DEF Asserted, ProviderOf, Provider
    <3> QED BY <1>1, <1>3, <3>1, <3>2 DEF Held
  <2> QED BY <2>1, <2>2
<1>7. ASSUME NEW i, Held(r, i) PROVE Held(r, i)'
  <2>1. PICK m \in q.own :
           m \in DOMAIN registry \cup DOMAIN q.overlay /\ Asserted(ProviderOf(r), m) = Record(r, i)
    BY <1>7 DEF Held
  <2>2. m # n
    BY <1>5
  <2>3. /\ m \in DOMAIN registry' <=> m \in DOMAIN registry
        /\ m \in DOMAIN registry => registry'[m] = registry[m]
        /\ m \in DOMAIN w.overlay <=> m \in DOMAIN q.overlay
        /\ m \in DOMAIN q.overlay => w.overlay[m] = q.overlay[m]
    BY <1>1, <2>2 DEF Put
  <2>4. Asserted(ProviderOf(r), m)' = Asserted(ProviderOf(r), m)
    BY <2>1, <2>3 DEF Asserted, ProviderOf, Provider
  <2> QED BY <1>1, <1>3, <2>1, <2>3, <2>4 DEF Held
<1> QED BY <1>6, <1>7

(* What is said of a request whose batch, flags and findings are as before. *)
LEMMA ReportStays ==
    ASSUME NEW r \in Requests,
           req'[r].endpoint = req[r].endpoint, req'[r].batch = req[r].batch,
           req'[r].dry = req[r].dry
    PROVE  /\ Declined(r)' = Declined(r)
           /\ (req[r].reported => req'[r].reported) => (Excused(r) => Excused(r)')
           /\ req'[r].found = req[r].found => NoneMissed(r)' = NoneMissed(r)
<1>1. \A i : Record(r, i)' = Record(r, i)
  BY DEF Record
<1>2. Declined(r)' <=> Declined(r)
  BY <1>1 DEF Declined
<1>3. Declined(r)' = Declined(r)
  BY <1>2, Zenon DEF Declined
<1>4. req'[r].found = req[r].found => NoneMissed(r)' = NoneMissed(r)
  BY DEF NoneMissed
<1> QED BY <1>3, <1>4 DEF Excused

(* A request that is complete stays so in a step that leaves it alone.     *)
LEMMA CompleteStays ==
    ASSUME Shape, Placed, [Next]_vars, NEW r \in Requests, Complete(r), req'[r] = req[r]
    PROVE  Complete(r)'
<1>1. /\ Excused(r) => Excused(r)'
      /\ NoneMissed(r)' = NoneMissed(r)
  BY ReportStays
<1>2. \A i : Held(r, i) => Held(r, i)'
  BY HeldStays
<1> QED BY <1>1, <1>2 DEF Complete

(* Every step keeps the requests complete: no order held was missed.       *)
LEMMA OrdersSeenStep == Shape /\ Placed /\ OrdersSeen /\ [Next]_vars => OrdersSeen'
<1> SUFFICES ASSUME Shape, Placed, OrdersSeen, [Next]_vars PROVE OrdersSeen'
  OBVIOUS
<1>0. ASSUME NEW r \in Requests, req'[r] = req[r] PROVE Complete(r)'
  BY <1>0, CompleteStays DEF OrdersSeen
<1>1. ASSUME NEW r \in Requests, NEW e \in Endpoints, NEW dry \in DryRuns,
             NEW b \in Batches, Submit(r, e, dry, b)
      PROVE  OrdersSeen'
  <2>1. req'[r].found = {} /\ req'[r].next = 1 /\ req'[r].pc \in {"read", "record"}
    BY <1>1, SubmitChanges
  <2>2. \A i \in DOMAIN req'[r].batch : ~(i < 1)
    <3>1. req'[r].batch = b
      BY <1>1 DEF Submit, Step, Idle, Shape, RequestsOK
    <3>2. \A i \in DOMAIN b : ~(i < 1)
      BY BatchPositions
    <3> QED BY <3>1, <3>2, Zenon
  <2>3. Complete(r)'
    BY <2>1, <2>2 DEF Complete, NoneMissed
  <2>4. \A s \in Requests \ {r} : req'[s] = req[s]
    BY <1>1, SubmitChanges
  <2> QED BY <1>0, <2>3, <2>4 DEF OrdersSeen
<1>2. ASSUME NEW r \in Requests, Serve(r) \/ Crash(r) PROVE Complete(r)'
  <2> DEFINE q == req[r]
             w == req'[r]
  <2>0. Complete(r) /\ IsRequest(q, minted)
    BY DEF OrdersSeen, Shape, RequestsOK
  <2>1. CASE ReadHistory(r) \/ ReadFails(r)
    <3>1. /\ q.pc = "read" /\ Touches(r, {"priors", "next", "pc", "reported"})
          /\ \/ w.pc = "record" /\ w.next = 1
             \/ w.pc = "read"
      BY <2>1, ReadingChanges DEF ReadHistory, ReadFails, Touches, MovesOn
    <3>2. w.found = q.found /\ w.batch = q.batch
      BY <3>1 DEF Touches, Idle
    <3>3. \A i \in DOMAIN q.batch : ~(i < 1)
      BY <2>0, <3>1, BatchPositions DEF IsRequest
    <3> QED BY <2>0, <3>1, <3>2, <3>3 DEF Complete, NoneMissed
  <2>2. CASE RecordAssertion(r)
    <3>1. /\ q.pc = "record" /\ Touches(r, {"own", "overlay", "next", "pc"})
          /\ MovesOn(r, "evaluate")
      BY <2>2, RecordingChanges DEF RecordAssertion
    <3>2. /\ w.found = q.found /\ w.batch = q.batch /\ w.dry = q.dry
          /\ w.endpoint = q.endpoint /\ w.reported = q.reported
      BY <3>1 DEF Touches, Idle
    <3>3. (Excused(r) => Excused(r)') /\ NoneMissed(r)' = NoneMissed(r)
      BY <3>2, ReportStays
    <3>4. PICK k : k = q.next
      OBVIOUS
    <3>5. Held(r, k)' /\ \A i : Held(r, i) => Held(r, i)'
      BY <2>2, <3>4, RecordedIsHeld
    <3>6. k \in 1 .. Len(q.batch) /\ Len(q.batch) \in Nat /\ DOMAIN q.batch = 1 .. Len(q.batch)
      BY <2>0, <3>1, <3>4, BatchPositions DEF IsRequest
    <3>7. \/ /\ w.pc = "evaluate" /\ \A i \in DOMAIN q.batch : i < k \/ i = k
          \/ /\ w.pc = "record" /\ \A i \in DOMAIN q.batch : i < w.next => i < k \/ i = k
      BY <3>1, <3>4, <3>6 DEF MovesOn
    <3>8. ASSUME ~Excused(r)
          PROVE  /\ NoneMissed(r)
                 /\ \A i \in DOMAIN q.batch : i < k => Held(r, i)
      BY <2>0, <3>1, <3>4, <3>8 DEF Complete
    <3> QED BY <2>0, <3>1, <3>2, <3>3, <3>5, <3>7, <3>8 DEF Complete
  <2>3. CASE DeclineAssertion(r)
    <3>1. /\ q.pc = "record" /\ Touches(r, {"reported", "next", "pc"})
          /\ MovesOn(r, "evaluate") /\ w.reported
          /\ ~Recordable(r)
      BY <2>3, RecordingChanges DEF DeclineAssertion
    <3>2. /\ w.found = q.found /\ w.batch = q.batch /\ w.dry = q.dry
          /\ w.endpoint = q.endpoint
      BY <3>1 DEF Touches, Idle
    <3>3. Declined(r)
      BY <2>0, <3>1 DEF Declined, Recordable, IsRequest
    <3>4. Excused(r)'
      BY <3>1, <3>2, <3>3, ReportStays DEF Excused
    <3> QED BY <2>0, <3>1, <3>2, <3>4 DEF Complete, MovesOn
  <2>4. CASE RecordFails(r)
    <3>1. /\ q.pc = "record" /\ ~q.dry /\ Touches(r, {"reported", "next", "pc"})
          /\ w.pc = "evaluate" /\ w.reported
      BY <2>4, RecordingChanges DEF RecordFails
    <3>2. w.dry = q.dry
      BY <3>1 DEF Touches, Idle
    <3> QED BY <3>1, <3>2 DEF Complete, Excused
  <2>5. CASE EvaluateOne(r) \/ EvaluateFails(r)
    <3>1. /\ q.pc = "evaluate" /\ Touches(r, {"seen", "found", "reported"})
          /\ q.reported => w.reported
      BY <2>5, EvaluationChanges DEF EvaluateFails, Touches, Idle
    <3>2. /\ w.batch = q.batch /\ w.dry = q.dry /\ w.endpoint = q.endpoint
          /\ w.pc = q.pc /\ w.own = q.own /\ w.overlay = q.overlay
      BY <3>1 DEF Touches, Idle
    <3>3. Excused(r) => Excused(r)'
      BY <3>1, <3>2, ReportStays
    <3>4. \A i : Held(r, i) => Held(r, i)'
      BY <3>2, HeldStays
    <3>5. ASSUME ~Excused(r) PROVE NoneMissed(r)'
      <4>1. NoneMissed(r) /\ \A i \in DOMAIN q.batch : Held(r, i)
        BY <2>0, <3>1, <3>5 DEF Complete
      <4>2. CASE EvaluateOne(r)
        <5>1. PICK n \in Unevaluated(r) : w.found = q.found \cup FindingsOn(r, n)
          BY <4>2, EvaluationChanges
        <5>2. \A f \in FindingsOn(r, n) : f[1].kind = "PO_NOT_FOUND" =>
                 ~\E i \in DOMAIN q.batch :
                     /\ q.batch[i].doc_type = "purchase_order"
                     /\ q.batch[i].po = f[2].docs[1].po
          BY <4>1, NoneMissedYet
        <5> QED BY <3>2, <4>1, <5>1, <5>2 DEF NoneMissed
      <4>3. CASE EvaluateFails(r)
        <5>1. w.found = q.found
          BY <4>3, EvaluationChanges DEF Touches, Idle
        <5> QED BY <3>2, <4>1, <5>1, ReportStays
      <4> QED BY <2>5, <4>2, <4>3
    <3> QED BY <2>0, <3>1, <3>2, <3>3, <3>4, <3>5 DEF Complete
  <2>6. CASE StartFiling(r) \/ LookForOpenCase(r) \/ OpenCase(r) \/ FilingFails(r)
    <3>1. /\ Touches(r, {"pc", "todo", "opening", "filed"})
          /\ q.pc \in {"evaluate", "file"} /\ w.pc = "file"
      <4>1. CASE StartFiling(r)
        BY <4>1, EvaluationChanges DEF StartFiling, Touches
      <4>2. CASE LookForOpenCase(r) \/ OpenCase(r) \/ FilingFails(r)
        <5>1. q.pc = "file"
          BY <4>2 DEF LookForOpenCase, OpenCase, FilingFails
        <5>2. Touches(r, {"todo", "opening", "filed"})
          BY <4>2, FilingChanges DEF Touches
        <5> QED BY <5>1, <5>2 DEF Touches, Idle
      <4> QED BY <2>6, <4>1, <4>2
    <3>2. /\ w.found = q.found /\ w.batch = q.batch /\ w.dry = q.dry
          /\ w.endpoint = q.endpoint /\ w.reported = q.reported
      BY <3>1 DEF Touches, Idle
    <3>3. (Excused(r) => Excused(r)') /\ NoneMissed(r)' = NoneMissed(r)
      BY <3>2, ReportStays
    <3> QED BY <2>0, <3>1, <3>3 DEF Complete
  <2>7. CASE Respond(r)
    <3>1. /\ Touches(r, {"pc", "reported"}) /\ w.pc = "done" /\ w.reported = Reply(r)
          /\ q.pc = "file"
      BY <2>7, FilingChanges DEF Respond
    <3>2. /\ w.found = q.found /\ w.batch = q.batch /\ w.dry = q.dry
          /\ w.endpoint = q.endpoint
      BY <3>1 DEF Touches, Idle
    <3>3. NoneMissed(r)' = NoneMissed(r)
      BY <3>2, ReportStays
    <3>4. Excused(r) => w.reported
      BY <3>1 DEF Excused, Reply
    <3> QED BY <2>0, <3>1, <3>3, <3>4 DEF Complete
  <2>8. CASE Crash(r)
    <3>1. w.found = {} /\ w.pc = "lost"
      BY <2>8, FilingChanges DEF Idle
    <3> QED BY <3>1 DEF Complete
  <2> QED BY <1>2, <2>1, <2>2, <2>3, <2>4, <2>5, <2>6, <2>7, <2>8 DEF Serve
<1>3. ASSUME NEW r \in Requests, Serve(r) \/ Crash(r) PROVE OrdersSeen'
  <2>1. \A s \in Requests \ {r} : req'[s] = req[s]
    BY <1>3, FilingStep
  <2> QED BY <1>0, <1>2, <1>3, <2>1 DEF OrdersSeen
<1>4. ASSUME UNCHANGED req PROVE OrdersSeen'
  BY <1>0, <1>4 DEF OrdersSeen
<1> QED BY <1>1, <1>3, <1>4 DEF Next, vars, RecordDecision, CloseCase, CloseFails

(* An order of the same submission is never reported as unknown.            *)
THEOREM SiblingsAreSeen == Spec => []SiblingOrderIsFound
<1>1. Init => OrdersSeen
  BY DEF Init, OrdersSeen, Complete, Idle
<1>2. Shape /\ OrdersSeen => SiblingOrderIsFound
  <2> SUFFICES ASSUME Shape, OrdersSeen, NEW r \in Requests, ~req[r].reported
               PROVE  NoneMissed(r)
    BY DEF SiblingOrderIsFound, NoneMissed
  <2>1. Complete(r) /\ req[r].pc \in Stages
    BY DEF OrdersSeen, Shape, RequestsOK, IsRequest
  <2>2. ~Excused(r)
    BY DEF Excused
  <2> QED BY <2>1, <2>2 DEF Complete, NoneMissed, Stages
<1> QED BY <1>1, <1>2, OrdersSeenStep, PlacedHolds, PTL DEF Spec

-----------------------------------------------------------------------------
(* The verdict on a pair does not depend on which document comes first.    *)
LEMMA ActionSymmetric ==
    ASSUME NEW a, NEW b
    PROVE  Action(a, b) = Action(b, a)
<1>1. \A x, y : /\ Agree(x, y) = Agree(y, x)
                /\ Differ(x, y) = Differ(y, x)
                /\ (x = y) = (y = x)
  BY Zenon DEF Agree, Differ
<1>2. \A x, y : AmountsEqual(x, y) = AmountsEqual(y, x)
  <2> SUFFICES ASSUME NEW x, NEW y PROVE AmountsEqual(x, y) = AmountsEqual(y, x)
    OBVIOUS
  <2>1. AmountsEqual(x, y) <=> AmountsEqual(y, x)
    BY DEF AmountsEqual
  <2> QED BY <2>1, Zenon DEF AmountsEqual
<1>3. \A x, y : InstrumentsConflict(x, y) = InstrumentsConflict(y, x)
  <2> SUFFICES ASSUME NEW x, NEW y
               PROVE  InstrumentsConflict(x, y) = InstrumentsConflict(y, x)
    OBVIOUS
  <2>1. {x, y} = {y, x}
    OBVIOUS
  <2> QED BY <2>1, Zenon DEF InstrumentsConflict
<1>4. \A x, y : (Present(x) /\ Present(y)) = (Present(y) /\ Present(x))
  BY Zenon DEF Present
<1>5. \A x, y : AmountsDiffer(x, y) = AmountsDiffer(y, x)
  BY <1>2, Zenon DEF AmountsDiffer, Present
<1>6. (/\ Present(a.date) /\ Present(b.date) /\ Month(a.date) # Month(b.date))
        = (/\ Present(b.date) /\ Present(a.date) /\ Month(b.date) # Month(a.date))
  BY Zenon DEF Present
<1>7. (AmountsDiffer(a.sub, b.sub) \/ AmountsDiffer(a.tax, b.tax))
        = (AmountsDiffer(b.sub, a.sub) \/ AmountsDiffer(b.tax, a.tax))
  BY <1>5, Zenon
<1>8. /\ AmountsEqual(a.amount, b.amount) = AmountsEqual(b.amount, a.amount)
      /\ InstrumentsConflict(a.instrument, b.instrument)
            = InstrumentsConflict(b.instrument, a.instrument)
      /\ (Present(a.amount) /\ Present(b.amount)) = (Present(b.amount) /\ Present(a.amount))
  BY <1>2, <1>3, <1>4, Zenon
<1>9. Facts(a, b) = Facts(b, a)
  BY <1>1, <1>6, <1>7, <1>8, Zenon DEF Facts
<1> QED BY <1>9 DEF Action, Classify

(* A document whose total was read is matched on as it was recorded. *)
LEMMA StatedTotalsAreKept ==
    ASSUME NEW d, IsDocument(d), StatedTotal(d)
    PROVE  /\ Rehydrate(d).doc_type = d.doc_type
           /\ IdentityKeys(Rehydrate(d)) = IdentityKeys(d)
           /\ \A other : Action(other, Rehydrate(d)) = Action(other, d)
<1>1. \A f \in Fields : Rehydrate(d)[f] = d[f]
  BY DEF Rehydrate, IsDocument, StatedTotal
<1>2. /\ Rehydrate(d).doc_type = d.doc_type /\ Rehydrate(d).instrument = d.instrument
      /\ Rehydrate(d).vendor = d.vendor /\ Rehydrate(d).recipient = d.recipient
      /\ Rehydrate(d).num = d.num /\ Rehydrate(d).po = d.po
      /\ Rehydrate(d).amount = d.amount /\ Rehydrate(d).sub = d.sub
      /\ Rehydrate(d).tax = d.tax /\ Rehydrate(d).currency = d.currency
      /\ Rehydrate(d).date = d.date /\ Rehydrate(d).surface = d.surface
  BY <1>1 DEF Fields
<1>3. IdentityKeys(Rehydrate(d)) = IdentityKeys(d)
  BY <1>2, Zenon DEF IdentityKeys, MonthKey
<1>4. ASSUME NEW other PROVE Facts(other, Rehydrate(d)) = Facts(other, d)
  BY <1>2, Zenon DEF Facts
<1>5. \A other : Action(other, Rehydrate(d)) = Action(other, d)
  BY <1>4 DEF Action, Classify
<1> QED BY <1>2, <1>3, <1>5

(* Evaluating an assertion raises every duplicate of it that the registry   *)
(* holds.                                                                   *)
Real(r) == req[r].endpoint = "process" /\ ~req[r].dry

(* Evaluating a document against a duplicate in the registry raises a      *)
(* finding about it.                                                       *)
LEMMA DuplicateIsRaised ==
    ASSUME Shape, Placed, NEW r \in Requests, Real(r), NEW n \in req[r].own,
           NEW m \in DOMAIN registry, n # m,
           StatedTotal(registry[n]), StatedTotal(registry[m]),
           Candidates(registry[n], registry[m]),
           Action(registry[n], registry[m]) \in NeedsCase
    PROVE  \E f \in FindingsOn(r, n) :
              f[1] = Finding("DUPLICATE", {m}, f[1].action) /\ f[2].subject = AssertionId(n)
<1> DEFINE p == ProviderOf(r)
           query == Rehydrate(Asserted(p, n))
           action == Action(Rehydrate(Asserted(p, m)), query)
           f == Finding("DUPLICATE", {m}, action)
<1>1. n \in DOMAIN registry
  BY DEF Real, Placed, IsPlaced
<1>2. Asserted(p, n) = registry[n] /\ Asserted(p, m) = registry[m] /\ p.base = registry
  BY <1>1 DEF Asserted, ProviderOf, Provider
<1>3. IsDocument(registry[n]) /\ IsDocument(registry[m])
  <2>1. registry[n] \in Documented /\ registry[m] \in Documented
    BY <1>1 DEF Shape, RegistryOK
  <2> QED BY <2>1 DEF Documented, Content, FieldsOnly, IsDocument
<1>4. /\ query.doc_type = registry[n].doc_type
      /\ IdentityKeys(query) = IdentityKeys(registry[n])
  BY <1>2, <1>3, StatedTotalsAreKept
<1>5. m \in CandidatesFor(p, query, n)
  <2>1. IdentityKeys(registry[m]) \subseteq RegistryKeys(registry[m])
    BY DEF RegistryKeys
  <2> HIDE DEF query, p
  <2>2. m \in StoredCandidates(registry, query, n)
    BY <1>4, <2>1 DEF Candidates, StoredCandidates
  <2> QED BY <1>2, <2>2 DEF CandidatesFor
<1>6. action = Action(registry[n], registry[m])
  <2>1. action = Action(Rehydrate(registry[m]), registry[n])
    BY <1>2, <1>3, StatedTotalsAreKept
  <2>2. Action(Rehydrate(registry[m]), registry[n]) = Action(registry[n], Rehydrate(registry[m]))
    BY ActionSymmetric
  <2>3. Action(registry[n], Rehydrate(registry[m])) = Action(registry[n], registry[m])
    BY <1>3, StatedTotalsAreKept
  <2> HIDE DEF action
  <2> QED BY <2>1, <2>2, <2>3
<1>7. action # "ALLOW"
  BY <1>6 DEF NeedsCase
<1>8. f \in CheckDuplicates(p, n)
  BY <1>5, <1>7 DEF CheckDuplicates
<1>9. f \in Evaluate(p, n, req[r].endpoint = "process")
  BY <1>8 DEF Evaluate, Real
<1>10. <<f, FindingDispute(p, n, f)>> \in FindingsOn(r, n)
  BY <1>9 DEF FindingsOn
<1>11. f = Finding("DUPLICATE", {m}, f.action) /\ FindingDispute(p, n, f).subject = AssertionId(n)
  BY DEF Finding, FindingDispute, Dispute
<1> HIDE DEF f
<1> QED BY <1>10, <1>11

-----------------------------------------------------------------------------
(* What a request has evaluated: only its own assertions, and all of them   *)
(* once it starts to file.                                                  *)
IsEvaluated(q) ==
    /\ q.seen \subseteq q.own
    /\ q.pc \in {"file", "done"} => q.own \subseteq q.seen

Raised(r, n, m) ==
    \E f \in req[r].found :
        f[1] = Finding("DUPLICATE", {m}, f[1].action) /\ f[2].subject = AssertionId(n)

Sincere(r) == Real(r) /\ ~req[r].reported

(* The halves of a duplicate that both have been evaluated: whichever came  *)
(* second found the other in the registry.                                  *)
PairSeen(r, s) ==
    Sincere(r) /\ Sincere(s) =>
        \A n \in req[r].seen, m \in req[s].seen :
            n # m /\ StatedTotal(registry[n]) /\ StatedTotal(registry[m])
                  /\ Candidates(registry[n], registry[m])
                  /\ Action(registry[n], registry[m]) \in NeedsCase =>
                Raised(r, n, m) \/ Raised(s, m, n)

PairsSeen ==
    /\ \A r \in Requests : IsEvaluated(req[r])
    /\ \A r, s \in Requests : PairSeen(r, s)

(* A step that evaluates nothing for r: if what r has evaluated counts      *)
(* after it, it counted before.                                             *)
Calm(r) ==
    Sincere(r)' /\ req'[r].seen # {} =>
        Sincere(r) /\ req'[r].seen \subseteq req[r].seen /\ req[r].found \subseteq req'[r].found

(* A step keeps what a request has evaluated in order, and any step but an *)
(* evaluation is calm.                                                     *)
LEMMA CalmSteps ==
    ASSUME Shape, NEW r \in Requests, Serve(r) \/ Crash(r), IsEvaluated(req[r])
    PROVE  /\ IsEvaluated(req'[r])
           /\ ~EvaluateOne(r) => Calm(r)
<1> DEFINE q == req[r]
           w == req'[r]
<1>1. CASE RecordAssertion(r)
  <2>1. Touches(r, {"own", "overlay", "next", "pc"}) /\ w.own = q.own \cup {minted + 1}
        /\ MovesOn(r, "evaluate") /\ q.pc = "record"
    BY <1>1, RecordingChanges DEF RecordAssertion
  <2>2. /\ w.seen = q.seen /\ w.found = q.found /\ w.endpoint = q.endpoint /\ w.dry = q.dry
        /\ w.reported = q.reported
    BY <2>1 DEF Touches, Idle
  <2> QED BY <2>1, <2>2 DEF IsEvaluated, Calm, Sincere, Real, MovesOn
<1>2. CASE EvaluateOne(r)
  <2>1. /\ q.pc = "evaluate" /\ Touches(r, {"seen", "found"})
        /\ \E n \in Unevaluated(r) : w.seen = q.seen \cup {n}
    BY <1>2, EvaluationChanges
  <2>2. w.pc = "evaluate" /\ w.own = q.own
    BY <2>1 DEF Touches, Idle
  <2> QED BY <1>2, <2>1, <2>2 DEF IsEvaluated, Unevaluated
<1>3. CASE EvaluateFails(r)
  <2>1. Touches(r, {"seen", "reported"}) /\ w.seen = q.own /\ w.reported
    BY <1>3, EvaluationChanges
  <2>2. w.own = q.own
    BY <2>1 DEF Touches, Idle
  <2> QED BY <2>1, <2>2 DEF IsEvaluated, Calm, Sincere
<1>4. CASE StartFiling(r)
  <2>1. Touches(r, {"pc", "todo"}) /\ Unevaluated(r) = {}
    BY <1>4, EvaluationChanges DEF StartFiling
  <2>2. /\ w.seen = q.seen /\ w.found = q.found /\ w.endpoint = q.endpoint /\ w.dry = q.dry
        /\ w.reported = q.reported /\ w.own = q.own
    BY <2>1 DEF Touches, Idle
  <2> QED BY <2>1, <2>2 DEF IsEvaluated, Calm, Sincere, Real, Unevaluated
<1>5. CASE Respond(r)
  <2>1. Touches(r, {"pc", "reported"}) /\ w.reported = Reply(r) /\ q.pc = "file"
    BY <1>5, FilingChanges DEF Respond
  <2>2. /\ w.seen = q.seen /\ w.found = q.found /\ w.endpoint = q.endpoint /\ w.dry = q.dry
        /\ w.own = q.own
    BY <2>1 DEF Touches, Idle
  <2>3. ~q.dry => w.reported = q.reported \/ (w.reported <=> q.reported)
    BY <2>1 DEF Reply
  <2> QED BY <2>1, <2>2, <2>3 DEF IsEvaluated, Calm, Sincere, Real
<1>6. CASE Crash(r)
  <2>1. w.seen = {} /\ w.own = {}
    BY <1>6, FilingChanges DEF Idle
  <2> QED BY <2>1, <1>6 DEF IsEvaluated, Calm
<1>7. CASE LookForOpenCase(r) \/ OpenCase(r) \/ FilingFails(r)
  <2>1. Touches(r, {"todo", "opening", "filed"})
    BY <1>7, FilingChanges DEF Touches
  <2>2. /\ w.seen = q.seen /\ w.found = q.found /\ w.endpoint = q.endpoint /\ w.dry = q.dry
        /\ w.reported = q.reported /\ w.own = q.own /\ w.pc = q.pc
    BY <2>1 DEF Touches, Idle
  <2> QED BY <2>2 DEF IsEvaluated, Calm, Sincere, Real
<1>8. CASE ReadHistory(r) \/ ReadFails(r) \/ DeclineAssertion(r) \/ RecordFails(r)
  <2>1. /\ Touches(r, {"priors", "reported", "next", "pc"})
        /\ w.pc \in {"read", "record", "evaluate"}
    <3>1. CASE ReadHistory(r) \/ ReadFails(r)
      BY <3>1, ReadingChanges DEF ReadHistory, Touches, MovesOn
    <3>2. CASE DeclineAssertion(r) \/ RecordFails(r)
      BY <3>2, RecordingChanges DEF DeclineAssertion, Touches, MovesOn
    <3> QED BY <1>8, <3>1, <3>2
  <2>2. /\ w.seen = q.seen /\ w.found = q.found /\ w.endpoint = q.endpoint /\ w.dry = q.dry
        /\ w.own = q.own
    BY <2>1 DEF Touches, Idle
  <2>3. q.reported => w.reported
    <3>1. CASE ReadHistory(r)
      <4>1. Touches(r, {"priors", "next", "pc"})
        BY <3>1, ReadingChanges
      <4> QED BY <4>1 DEF Touches, Idle
    <3>2. CASE ReadFails(r)
      BY <3>2, ReadingChanges
    <3>3. CASE DeclineAssertion(r) \/ RecordFails(r)
      BY <3>3, RecordingChanges
    <3> QED BY <1>8, <3>1, <3>2, <3>3
  <2> QED BY <2>1, <2>2, <2>3 DEF IsEvaluated, Calm, Sincere, Real
<1> QED BY <1>1, <1>2, <1>3, <1>4, <1>5, <1>6, <1>7, <1>8 DEF Serve

(* Two requests that evaluate nothing in a step have seen their pairs.      *)
LEMMA PairSeenStays ==
    ASSUME Shape, Placed, PairsSeen, [Next]_vars, NEW r \in Requests, NEW s \in Requests,
           Calm(r), Calm(s)
    PROVE  PairSeen(r, s)'
<1> SUFFICES ASSUME Sincere(r)', Sincere(s)', NEW n \in req'[r].seen, NEW m \in req'[s].seen,
                    n # m, StatedTotal(registry'[n]), StatedTotal(registry'[m]),
                    Candidates(registry'[n], registry'[m]),
                    Action(registry'[n], registry'[m]) \in NeedsCase
             PROVE  Raised(r, n, m)' \/ Raised(s, m, n)'
  BY DEF PairSeen
<1>1. /\ Sincere(r) /\ Sincere(s) /\ n \in req[r].seen /\ m \in req[s].seen
      /\ req[r].found \subseteq req'[r].found /\ req[s].found \subseteq req'[s].found
  BY DEF Calm
<1>2. n \in DOMAIN registry /\ m \in DOMAIN registry
  BY <1>1 DEF PairsSeen, IsEvaluated, Placed, IsPlaced, Sincere, Real
<1>3. registry'[n] = registry[n] /\ registry'[m] = registry[m]
  BY <1>2, RegistryGrows
<1>4. Raised(r, n, m) \/ Raised(s, m, n)
  BY <1>1, <1>3 DEF PairsSeen, PairSeen
<1> QED BY <1>1, <1>4 DEF Raised

(* The request that evaluates n compares it with every assertion that is    *)
(* recorded, those of other requests included.                              *)
LEMMA EvaluationSees ==
    ASSUME Shape, Placed, PairsSeen, [Next]_vars, NEW r \in Requests, EvaluateOne(r),
           NEW s \in Requests, s # r => Calm(s),
           NEW n \in req'[r].seen, NEW m \in req'[s].seen,
           Sincere(r)', Sincere(s)', n # m,
           StatedTotal(registry'[n]), StatedTotal(registry'[m]),
           Candidates(registry'[n], registry'[m]),
           Action(registry'[n], registry'[m]) \in NeedsCase
    PROVE  Raised(r, n, m)' \/ Raised(s, m, n)'
<1>1. PICK k \in Unevaluated(r) : /\ req'[r].seen = req[r].seen \cup {k}
                                  /\ req'[r].found = req[r].found \cup FindingsOn(r, k)
  BY EvaluationChanges
<1>2. registry' = registry
  BY DEF EvaluateOne
<1>3. /\ req'[r].endpoint = req[r].endpoint /\ req'[r].dry = req[r].dry
      /\ req'[r].reported = req[r].reported
  BY EvaluationChanges DEF Touches, Idle
<1>4. Sincere(r) /\ k \in req[r].own
  BY <1>3 DEF Sincere, Real, Unevaluated
<1>5. /\ Sincere(s) /\ req[s].found \subseteq req'[s].found
      /\ s # r => m \in req[s].seen
  BY <1>1, <1>4 DEF Calm
<1>6. /\ n \in DOMAIN registry /\ m \in DOMAIN registry
      /\ n \in req[r].own /\ m \in req[s].own
  BY <1>1, <1>4, <1>5 DEF PairsSeen, IsEvaluated, Placed, IsPlaced, Sincere, Real
<1>7. CASE n = k
  <2>1. \E f \in FindingsOn(r, n) :
           f[1] = Finding("DUPLICATE", {m}, f[1].action) /\ f[2].subject = AssertionId(n)
    BY <1>2, <1>4, <1>6, DuplicateIsRaised DEF Sincere
  <2> QED BY <1>1, <1>7, <2>1 DEF Raised
<1>8. CASE s = r /\ m = k
  <2>1. Candidates(registry[m], registry[n]) /\ Action(registry[m], registry[n]) \in NeedsCase
    BY <1>2, ActionSymmetric DEF Candidates
  <2>2. \E f \in FindingsOn(r, m) :
           f[1] = Finding("DUPLICATE", {n}, f[1].action) /\ f[2].subject = AssertionId(m)
    BY <1>2, <1>4, <1>6, <1>8, <2>1, DuplicateIsRaised DEF Sincere
  <2> QED BY <1>1, <1>8, <2>2 DEF Raised
<1>9. CASE n # k /\ ~(s = r /\ m = k)
  <2>1. n \in req[r].seen /\ m \in req[s].seen
    BY <1>1, <1>5, <1>9
  <2>2. Raised(r, n, m) \/ Raised(s, m, n)
    BY <1>2, <1>4, <1>5, <2>1 DEF PairsSeen, PairSeen
  <2> QED BY <1>1, <1>5, <2>2 DEF Raised
<1> QED BY <1>7, <1>8, <1>9

(* Every step keeps that the later of two evaluated documents was compared *)
(* with the earlier.                                                       *)
LEMMA PairsSeenStep == Shape /\ Placed /\ PairsSeen /\ [Next]_vars => PairsSeen'
<1> SUFFICES ASSUME Shape, Placed, PairsSeen, [Next]_vars PROVE PairsSeen'
  OBVIOUS
<1>0. ASSUME NEW r \in Requests, req'[r] = req[r]
      PROVE  Calm(r) /\ IsEvaluated(req'[r])
  BY <1>0 DEF Calm, Sincere, Real, PairsSeen, IsEvaluated
<1>1. ASSUME NEW r \in Requests, NEW e \in Endpoints, NEW dry \in DryRuns,
             NEW b \in Batches, Submit(r, e, dry, b)
      PROVE  PairsSeen'
  <2>1. req'[r].seen = {} /\ req'[r].own = {}
    BY <1>1, SubmitChanges
  <2>2. \A s \in Requests \ {r} : req'[s] = req[s]
    BY <1>1, SubmitChanges
  <2>3. \A s \in Requests : Calm(s) /\ IsEvaluated(req'[s])
    BY <1>0, <2>1, <2>2 DEF Calm, IsEvaluated
  <2> QED BY <2>3, PairSeenStays DEF PairsSeen
<1>2. ASSUME NEW r \in Requests, Serve(r) \/ Crash(r), ~EvaluateOne(r)
      PROVE  PairsSeen'
  <2>1. \A s \in Requests \ {r} : req'[s] = req[s]
    BY <1>2, FilingStep
  <2>2. Calm(r) /\ IsEvaluated(req'[r])
    BY <1>2, CalmSteps DEF PairsSeen
  <2>3. \A s \in Requests : Calm(s) /\ IsEvaluated(req'[s])
    BY <1>0, <2>1, <2>2
  <2> QED BY <2>3, PairSeenStays DEF PairsSeen
<1>3. ASSUME NEW r \in Requests, EvaluateOne(r)
      PROVE  PairsSeen'
  <2>1. \A s \in Requests \ {r} : req'[s] = req[s]
    BY <1>3, FilingStep DEF Serve
  <2>2. IsEvaluated(req'[r])
    BY <1>3, CalmSteps DEF PairsSeen, Serve
  <2>3. \A s \in Requests : (s # r => Calm(s)) /\ IsEvaluated(req'[s])
    BY <1>0, <2>1, <2>2
  <2>4. ASSUME NEW s \in Requests PROVE PairSeen(r, s)'
    BY <1>3, <2>3, EvaluationSees DEF PairSeen
  <2>5. ASSUME NEW s \in Requests PROVE PairSeen(s, r)'
    <3> SUFFICES ASSUME Sincere(s)', Sincere(r)',
                        NEW n \in req'[s].seen, NEW m \in req'[r].seen, n # m,
                        StatedTotal(registry'[n]), StatedTotal(registry'[m]),
                        Candidates(registry'[n], registry'[m]),
                        Action(registry'[n], registry'[m]) \in NeedsCase
                 PROVE  Raised(s, n, m)' \/ Raised(r, m, n)'
      BY DEF PairSeen
    <3>1. /\ Candidates(registry'[m], registry'[n])
          /\ Action(registry'[m], registry'[n]) \in NeedsCase
      BY ActionSymmetric DEF Candidates
    <3> QED BY <1>3, <2>3, <3>1, EvaluationSees
  <2>6. ASSUME NEW s \in Requests \ {r}, NEW t \in Requests \ {r} PROVE PairSeen(s, t)'
    BY <2>3, PairSeenStays
  <2> QED BY <2>3, <2>4, <2>5, <2>6 DEF PairsSeen
<1>4. ASSUME UNCHANGED req PROVE PairsSeen'
  <2>1. \A s \in Requests : Calm(s) /\ IsEvaluated(req'[s])
    BY <1>0, <1>4
  <2> QED BY <2>1, PairSeenStays DEF PairsSeen
<1> QED BY <1>1, <1>2, <1>3, <1>4 DEF Next, vars, RecordDecision, CloseCase, CloseFails

(* Of two requests that process the two halves of a duplicate, whenever     *)
(* they run, one raises it.                                                 *)
THEOREM NoDuplicateSlipsThrough == Spec => []OneOfTwoSeesTheOther
<1>1. Init => PairsSeen
  BY DEF Init, PairsSeen, IsEvaluated, PairSeen, Idle
<1>2. PairsSeen => OneOfTwoSeesTheOther
  <2> SUFFICES ASSUME PairsSeen, NEW r \in Requests, NEW s \in Requests,
                      Processed(r), Processed(s),
                      NEW n \in req[r].own, NEW m \in req[s].own, n # m,
                      StatedTotal(registry[n]), StatedTotal(registry[m]),
                      Candidates(registry[n], registry[m]),
                      Action(registry[n], registry[m]) \in NeedsCase
               PROVE  Raised(r, n, m) \/ Raised(s, m, n)
    BY ZenonT(60) DEF OneOfTwoSeesTheOther, Raised
  <2>1. Sincere(r) /\ Sincere(s)
    BY DEF Processed, Answered, Sincere, Real
  <2>2. n \in req[r].seen /\ m \in req[s].seen
    BY DEF PairsSeen, IsEvaluated, Processed, Answered
  <2> QED BY <2>1, <2>2 DEF PairsSeen, PairSeen
<1> QED BY <1>1, <1>2, PairsSeenStep, PlacedHolds, PTL DEF Spec

-----------------------------------------------------------------------------
(* The kinds of Consistency; the duplicate engine has names of its own for  *)
(* the relationships it finds.                                              *)
FindingKinds ==
    {"INTERNAL_INCONSISTENCY", "DUPLICATE", "PO_NOT_FOUND", "PO_MISMATCH", "MISSING_TAX_ID",
     "TAX_ID_CHANGED", "TAX_RATE_DEVIATION", "NUMBER_FORMAT_DEVIATION", "PAYMENT_CONFLICT"}

(* The kinds of relationships are none of the kinds of findings.           *)
LEMMA RelationshipsAreNoFindings ==
    ASSUME NEW a, NEW b PROVE Classify(a, b) \notin FindingKinds
BY DEF Classify, ClassifyFacts, FindingKinds

(* Everything a provider answers is an assertion it holds. *)
LEMMA AnswersAreKnown ==
    ASSUME NEW p, NEW known, known = DOMAIN p.base \cup DOMAIN p.pending
    PROVE  /\ \A query, self : CandidatesFor(p, query, self) \subseteq known
           /\ \A type, ref : ByReference(p, type, ref) \subseteq known
           /\ \A n : History(p, n) \subseteq known
<1>1. ASSUME NEW query, NEW self PROVE CandidatesFor(p, query, self) \subseteq known
  BY DEF CandidatesFor, StoredCandidates
<1>2. \A reg, name, parts : Lookup(reg, name, parts) \subseteq DOMAIN reg
  BY DEF Lookup
<1>3. ASSUME NEW type, NEW ref PROVE ByReference(p, type, ref) \subseteq known
  <2>1. StoredByReference(p.base, type, ref) \subseteq DOMAIN p.base
    BY <1>2 DEF StoredByReference
  <2> QED BY <2>1 DEF ByReference
<1>4. \A S, k : Oldest(S, k) \subseteq S
  BY DEF Oldest
<1>5. ASSUME NEW n PROVE History(p, n) \subseteq known
  <2> DEFINE vendor == Asserted(p, n).vendor
             stored == StoredVendorHistory(p.base, vendor)
  <2>1. stored \subseteq DOMAIN p.base
    BY <1>2, <1>4 DEF StoredVendorHistory
  <2> HIDE DEF vendor, stored
  <2>2. stored \cup {m \in DOMAIN p.pending : p.pending[m].vendor = vendor} \subseteq known
    BY <2>1
  <2>3. VendorHistory(p, vendor) \subseteq known
    BY <1>4, <2>2 DEF VendorHistory, stored
  <2> QED BY <2>3 DEF History, vendor
<1> QED BY <1>1, <1>3, <1>5

(* What a finding rests on are assertions the provider holds. *)
LEMMA FindingsRestOnTheKnown ==
    ASSUME NEW p, NEW known, known = DOMAIN p.base \cup DOMAIN p.pending,
           NEW n \in known, NEW dup, NEW f \in Evaluate(p, n, dup)
    PROVE  f.kind \in FindingKinds /\ f.evidence \subseteq known
<1> DEFINE Good(g) == g.kind \in FindingKinds /\ g.evidence \subseteq known
<1>0. \A kind \in FindingKinds, E \in SUBSET known : \A action : Good(Finding(kind, E, action))
  BY DEF Finding
<1>1. \A S : FirstFew(S) \subseteq S
  BY DEF FirstFew, Oldest
<1> HIDE DEF Good
<1>2. CASE f \in CheckInternal(p, n)
  <2>1. f = Finding("INTERNAL_INCONSISTENCY", {n}, None)
    BY <1>2 DEF CheckInternal
  <2> QED BY <1>0, <2>1 DEF FindingKinds, Good
<1>3. CASE f \in CheckDuplicates(p, n)
  <2>1. PICK m \in known : \E action : f = Finding("DUPLICATE", {m}, action)
    BY <1>3, AnswersAreKnown DEF CheckDuplicates
  <2> QED BY <1>0, <2>1 DEF FindingKinds, Good
<1>4. CASE f \in CheckPO(p, n)
  <2>1. OrdersCited(p, Asserted(p, n).po) \subseteq known
    BY AnswersAreKnown DEF OrdersCited
  <2>2. \/ f = Finding("PO_NOT_FOUND", {n}, None)
        \/ \E m \in known : f = Finding("PO_MISMATCH", {m}, None)
    BY <1>4, <2>1 DEF CheckPO
  <2> QED BY <1>0, <2>2, ZenonT(60) DEF FindingKinds, Good
<1>5. CASE f \in CheckTaxId(p, n)
  <2>1. \E S \in SUBSET known : \/ f = Finding("MISSING_TAX_ID", FirstFew(S), None)
                                \/ f = Finding("TAX_ID_CHANGED", FirstFew(S), None)
    <3> DEFINE S == {m \in History(p, n) : Present(Asserted(p, m).tax_id)}
    <3>1. S \subseteq known
      BY AnswersAreKnown, ZenonT(60)
    <3>2. \/ f = Finding("MISSING_TAX_ID", FirstFew(S), None)
          \/ f = Finding("TAX_ID_CHANGED", FirstFew(S), None)
      BY <1>5 DEF CheckTaxId
    <3> HIDE DEF S
    <3> QED BY <3>1, <3>2
  <2> QED BY <1>0, <1>1, <2>1 DEF FindingKinds, Good
<1>6. CASE f \in CheckTaxRate(p, n)
  <2>1. f = Finding("TAX_RATE_DEVIATION", FirstFew(History(p, n)), None)
    BY <1>6 DEF CheckTaxRate
  <2>2. FirstFew(History(p, n)) \subseteq known
    BY <1>1, AnswersAreKnown
  <2> QED BY <1>0, <2>1, <2>2 DEF FindingKinds, Good
<1>7. CASE f \in CheckNumberFormat(p, n)
  <2> DEFINE S == {m \in History(p, n) : Asserted(p, m).doc_type = "invoice"}
  <2>1. f = Finding("NUMBER_FORMAT_DEVIATION", FirstFew(S), None)
    BY <1>7 DEF CheckNumberFormat
  <2>2. S \subseteq known
    BY AnswersAreKnown, ZenonT(60)
  <2> HIDE DEF S
  <2>3. FirstFew(S) \subseteq known
    BY <1>1, <2>2
  <2> QED BY <1>0, <2>1, <2>3 DEF FindingKinds, Good
<1>8. CASE f \in CheckPayments(p, n)
  <2>1. \E S \in SUBSET known : f = Finding("PAYMENT_CONFLICT", S, None)
    BY <1>8, AnswersAreKnown DEF CheckPayments
  <2> QED BY <1>0, <2>1 DEF FindingKinds, Good
<1> QED BY <1>2, <1>3, <1>4, <1>5, <1>6, <1>7, <1>8 DEF Evaluate, Good

-----------------------------------------------------------------------------
(* A finding, or a case, that shows the very documents its names stand for. *)
Genuine(x) ==
    \E n \in DOMAIN registry, E \in SUBSET DOMAIN registry :
        /\ x.subject = AssertionId(n)
        /\ x.counterparts = {AssertionId(m) : m \in E}
        /\ x.docs = <<registry[n], {registry[m] : m \in E}>>

(* History is append-only, so what was genuine remains so. *)
LEMMA GenuineStays ==
    ASSUME Shape, [Next]_vars, NEW x, Genuine(x)
    PROVE  Genuine(x)'
<1>1. PICK n \in DOMAIN registry, E \in SUBSET DOMAIN registry :
        /\ x.subject = AssertionId(n)
        /\ x.counterparts = {AssertionId(m) : m \in E}
        /\ x.docs = <<registry[n], {registry[m] : m \in E}>>
  BY DEF Genuine
<1>2. /\ DOMAIN registry \subseteq DOMAIN registry'
      /\ \A m \in DOMAIN registry : registry'[m] = registry[m]
  BY RegistryGrows
<1>3. {registry[m] : m \in E} = {registry'[m] : m \in E}
  BY <1>2
<1>4. x.docs = <<registry'[n], {registry'[m] : m \in E}>>
  BY <1>1, <1>2, <1>3
<1> QED BY <1>1, <1>2, <1>4 DEF Genuine

(* The same names stand for the same documents: a finding that find_open    *)
(* answers with a case is about what the case is about.                     *)
LEMMA SameNamesSameMatter ==
    ASSUME NEW x, NEW y, Genuine(x), Genuine(y), SameDispute(x, y)
    PROVE  NewCase(x) = NewCase(y)
<1>1. PICK n \in DOMAIN registry, E \in SUBSET DOMAIN registry :
        /\ x.subject = AssertionId(n)
        /\ x.counterparts = {AssertionId(m) : m \in E}
        /\ x.docs = <<registry[n], {registry[m] : m \in E}>>
  BY DEF Genuine
<1>2. PICK k \in DOMAIN registry, F \in SUBSET DOMAIN registry :
        /\ y.subject = AssertionId(k)
        /\ y.counterparts = {AssertionId(m) : m \in F}
        /\ y.docs = <<registry[k], {registry[m] : m \in F}>>
  BY DEF Genuine
<1>3. AssertionId(n) = AssertionId(k)
  BY <1>1, <1>2 DEF SameDispute
<1>4. {AssertionId(m) : m \in E} = {AssertionId(m) : m \in F}
  BY <1>1, <1>2 DEF SameDispute
<1>5. \A l, m : AssertionId(l) = AssertionId(m) => l = m
  BY SMT DEF AssertionId
<1>6. \A m \in E : AssertionId(m) \in {AssertionId(l) : l \in F}
  BY <1>4
<1>7. \A m \in F : AssertionId(m) \in {AssertionId(l) : l \in E}
  BY <1>4
<1>8. E = F
  BY <1>5, <1>6, <1>7
<1>9. n = k
  BY <1>3, <1>5
<1> QED BY <1>1, <1>2, <1>8, <1>9 DEF NewCase, SameDispute

(* What a request finds in the registry is genuine. *)
LEMMA FindingsAreGenuine ==
    ASSUME Shape, Placed, NEW r \in Requests, ~req[r].dry, NEW n \in Unevaluated(r),
           NEW g \in FindingsOn(r, n)
    PROVE  g[2].kind \in FindingKinds /\ Genuine(g[2])
<1> DEFINE p == ProviderOf(r)
           known == DOMAIN p.base \cup DOMAIN p.pending
<1>1. p.base = registry /\ DOMAIN p.pending = {} /\ n \in DOMAIN registry
  BY DEF ProviderOf, Provider, Placed, IsPlaced, Unevaluated
<1>2. known = DOMAIN registry /\ \A m \in known : Asserted(p, m) = registry[m]
  BY <1>1 DEF Asserted
<1>3. PICK f \in Evaluate(p, n, req[r].endpoint = "process") : g = <<f, FindingDispute(p, n, f)>>
  BY DEF FindingsOn
<1> HIDE DEF p
<1>4. f.kind \in FindingKinds /\ f.evidence \subseteq DOMAIN registry
  BY <1>1, <1>2, <1>3, FindingsRestOnTheKnown
<1>5. /\ g[2].kind = f.kind /\ g[2].subject = AssertionId(n)
      /\ g[2].counterparts = {AssertionId(m) : m \in f.evidence}
      /\ g[2].docs = <<Asserted(p, n), {Asserted(p, m) : m \in f.evidence}>>
  BY <1>3 DEF FindingDispute, Dispute
<1>6. {Asserted(p, m) : m \in f.evidence} = {registry[m] : m \in f.evidence}
  BY <1>2, <1>4
<1>7. g[2].docs = <<registry[n], {registry[m] : m \in f.evidence}>>
  BY <1>1, <1>2, <1>5, <1>6
<1> QED BY <1>1, <1>4, <1>5, <1>7 DEF Genuine

-----------------------------------------------------------------------------
(* The way of a finding into the queue, when no call to file it fails: from *)
(* what the request found to what it has still to file, and from there to   *)
(* a case that shows the documents of the finding.                          *)
InQueue(q) ==
    /\ q.pc \notin {"idle", "lost"} => q.endpoint \in Endpoints
    /\ ~q.dry => \A g \in q.found : g[2].kind \in FindingKinds /\ Genuine(g[2])
    /\ \A d \in q.todo : d.kind \in FindingKinds => Genuine(d)
    /\ q.opening # None => q.opening \in q.todo
    /\ q.pc # "file" => q.todo = {}
    /\ \A entry \in q.filed :
          /\ entry[2] \in DOMAIN cases
          /\ entry[1].kind \in FindingKinds => NewCase(cases[entry[2]]) = NewCase(entry[1])
    /\ ~q.dry /\ q.pc \in {"file", "done"} =>
          \A d \in Disputes(q) : d \in q.todo \/ \E entry \in q.filed : entry[1] = d

CasesGenuine == \A c \in DOMAIN cases : cases[c].kind \in FindingKinds => Genuine(cases[c])

AllQueued == CasesGenuine /\ \A r \in Requests : InQueue(req[r])

(* A case stays, and stays about what it is about; a new one is opened by   *)
(* the request that looked for it.                                          *)
LEMMA CasesKept ==
    ASSUME Shape, Next, "file" \notin Faults
    PROVE  /\ \A c \in DOMAIN cases :
                 c \in DOMAIN cases' /\ NewCase(cases'[c]) = NewCase(cases[c])
           /\ \A c \in DOMAIN cases' \ DOMAIN cases :
                 \E r \in Requests : OpenCase(r) /\ cases'[c] = NewCase(req[r].opening)
<1>1. ASSUME NEW r \in Requests, OpenCase(r)
      PROVE  /\ DOMAIN cases' = DOMAIN cases \cup {Fresh(cases)}
             /\ cases'[Fresh(cases)] = NewCase(req[r].opening)
             /\ \A c \in DOMAIN cases : cases'[c] = cases[c]
  <2> DEFINE v == NewCase(req[r].opening)
  <2>1. cases' = Put(cases, Fresh(cases), v)
    BY <1>1 DEF OpenCase
  <2>2. Numbered(cases)
    BY DEF Shape, CasesOK
  <2> HIDE DEF v
  <2>3. /\ DOMAIN Put(cases, Fresh(cases), v) = DOMAIN cases \cup {Fresh(cases)}
        /\ Put(cases, Fresh(cases), v)[Fresh(cases)] = v
        /\ \A c \in DOMAIN cases : Put(cases, Fresh(cases), v)[c] = cases[c]
    BY <2>2, FreshEntry, Zenon
  <2> QED BY <2>1, <2>3, Zenon DEF v
<1>2. ASSUME NEW v \in Reviewers, CloseCase(v)
      PROVE  /\ DOMAIN cases' = DOMAIN cases
             /\ \A c \in DOMAIN cases : NewCase(cases'[c]) = NewCase(cases[c])
  <2>1. PICK k \in DOMAIN cases : cases' = [cases EXCEPT ![k].status = "resolved"]
    BY <1>2 DEF CloseCase, Shape, ClosingOK
  <2>2. DOMAIN cases' = DOMAIN cases
    BY <2>1
  <2>3. ASSUME NEW c \in DOMAIN cases PROVE NewCase(cases'[c]) = NewCase(cases[c])
    <3>1. IsCase(cases[c])
      BY DEF Shape, CasesOK
    <3>2. /\ cases'[c].kind = cases[c].kind /\ cases'[c].subject = cases[c].subject
          /\ cases'[c].counterparts = cases[c].counterparts /\ cases'[c].docs = cases[c].docs
      BY <2>1, <3>1 DEF IsCase
    <3> QED BY <3>2 DEF NewCase
  <2> QED BY <2>2, <2>3
<1>3. ASSUME NEW r \in Requests, Serve(r) \/ Crash(r), ~OpenCase(r) PROVE UNCHANGED cases
  BY <1>3 DEF Serve, ReadHistory, ReadFails, RecordAssertion, DeclineAssertion, RecordFails,
     EvaluateOne, EvaluateFails, StartFiling, LookForOpenCase, FilingFails, MayFail,
     Respond, Crash
<1>4. ASSUME NEW r \in Requests, NEW e \in Endpoints, NEW dry \in DryRuns, NEW b \in Batches,
             Submit(r, e, dry, b)
      PROVE  UNCHANGED cases
  BY <1>4 DEF Submit
<1>5. ASSUME NEW v \in Reviewers, \/ \E c \in DOMAIN cases : RecordDecision(v, c)
                                 \/ CloseFails(v)
      PROVE  UNCHANGED cases
  BY <1>5 DEF RecordDecision, CloseFails
<1>6. \/ UNCHANGED cases
      \/ \E r \in Requests : OpenCase(r)
      \/ \E v \in Reviewers : CloseCase(v)
  BY <1>3, <1>4, <1>5 DEF Next
<1>7. CASE \E r \in Requests : OpenCase(r)
  <2>1. PICK r \in Requests : OpenCase(r)
    BY <1>7
  <2>2. /\ DOMAIN cases' = DOMAIN cases \cup {Fresh(cases)}
        /\ cases'[Fresh(cases)] = NewCase(req[r].opening)
        /\ \A c \in DOMAIN cases : cases'[c] = cases[c]
    BY <1>1, <2>1
  <2> QED BY <2>1, <2>2
<1> QED BY <1>2, <1>6, <1>7

(* Nothing a step does to the collections takes a request out of InQueue.   *)
LEMMA InQueueStays ==
    ASSUME Shape, [Next]_vars, "file" \notin Faults, NEW q, InQueue(q)
    PROVE  InQueue(q)'
<1>1. \A x : Genuine(x) => Genuine(x)'
  BY GenuineStays
<1>2. \A c \in DOMAIN cases : c \in DOMAIN cases' /\ NewCase(cases'[c]) = NewCase(cases[c])
  BY CasesKept DEF vars
<1>3. ASSUME NEW entry \in q.filed
      PROVE  /\ entry[2] \in DOMAIN cases'
             /\ entry[1].kind \in FindingKinds => NewCase(cases'[entry[2]]) = NewCase(entry[1])
  BY <1>2 DEF InQueue
<1> QED BY <1>1, <1>3 DEF InQueue

(* The disputes of a request depend on what it was sent, read and found.    *)
LEMMA SameDisputes ==
    ASSUME NEW q, NEW w, w.endpoint = q.endpoint, w.batch = q.batch,
           w.priors = q.priors, w.found = q.found
    PROVE  Disputes(w) = Disputes(q)
<1>1. Universe(w) = Universe(q)
  BY DEF Universe
<1>2. Relationships(w) = Relationships(q)
  BY <1>1 DEF Relationships
<1> QED BY <1>2 DEF Disputes

(* A dispute of the kind of a finding is one of the findings made.         *)
LEMMA DisputesAreFound ==
    ASSUME NEW q, NEW d \in Disputes(q), d.kind \in FindingKinds
    PROVE  \E g \in q.found : d = g[2]
<1>1. d \notin Relationships(q)
  <2> SUFFICES ASSUME d \in Relationships(q) PROVE FALSE
    OBVIOUS
  <2>1. \E a, b : d.kind = Classify(a, b)
    BY DEF Relationships, Dispute
  <2> QED BY <2>1, RelationshipsAreNoFindings
<1> QED BY <1>1 DEF Disputes

(* Each step of a request takes its findings a step further.                *)
LEMMA RequestStaysInQueue ==
    ASSUME Shape, Placed, AllQueued, [Next]_vars, "file" \notin Faults,
           NEW r \in Requests, Serve(r) \/ Crash(r)
    PROVE  InQueue(req[r])'
<1> DEFINE Inherits(q, w) ==
              /\ w.found = q.found /\ w.todo = q.todo /\ w.opening = q.opening
              /\ w.filed = q.filed /\ w.endpoint = q.endpoint /\ w.dry = q.dry
<1>0. PICK q, w : q = req[r] /\ w = req'[r]
  OBVIOUS
<1>1. InQueue(q) /\ InQueue(q)'
  BY <1>0, InQueueStays DEF AllQueued
<1>2. SUFFICES InQueue(w)'
  BY <1>0 DEF InQueue
<1>3. CASE ReadHistory(r) \/ ReadFails(r) \/ RecordAssertion(r) \/ DeclineAssertion(r)
             \/ RecordFails(r)
  <2>1. /\ Touches(r, {"priors", "reported", "own", "overlay", "next", "pc"})
        /\ w.pc \in {"read", "record", "evaluate"} /\ q.pc \in {"read", "record"}
    <3>1. CASE ReadHistory(r) \/ ReadFails(r)
      BY <1>0, <3>1, ReadingChanges DEF ReadHistory, ReadFails, Touches, MovesOn
    <3>2. CASE RecordAssertion(r) \/ DeclineAssertion(r) \/ RecordFails(r)
      BY <1>0, <3>2, RecordingChanges DEF RecordAssertion, DeclineAssertion, RecordFails,
         Touches, MovesOn
    <3> QED BY <1>3, <3>1, <3>2
  <2>2. Inherits(q, w)
    BY <1>0, <2>1 DEF Touches, Idle
  <2> QED BY <1>1, <2>1, <2>2 DEF InQueue
<1>4. CASE EvaluateOne(r)
  <2>1. PICK n \in Unevaluated(r) : /\ Touches(r, {"seen", "found"}) /\ q.pc = "evaluate"
                                    /\ w.found = q.found \cup FindingsOn(r, n)
    BY <1>0, <1>4, EvaluationChanges
  <2>2. /\ w.todo = q.todo /\ w.opening = q.opening /\ w.filed = q.filed
        /\ w.endpoint = q.endpoint /\ w.dry = q.dry /\ w.pc = q.pc
    BY <1>0, <2>1 DEF Touches, Idle
  <2>3. ASSUME ~q.dry, NEW g \in FindingsOn(r, n)
        PROVE  g[2].kind \in FindingKinds /\ Genuine(g[2])'
    <3>1. g[2].kind \in FindingKinds /\ Genuine(g[2])
      BY <1>0, <2>3, FindingsAreGenuine
    <3> QED BY <3>1, GenuineStays
  <2>4. ~q.dry => \A g \in w.found : g[2].kind \in FindingKinds /\ Genuine(g[2])'
    BY <1>1, <2>1, <2>3 DEF InQueue
  <2> QED BY <1>1, <2>1, <2>2, <2>4 DEF InQueue
<1>5. CASE EvaluateFails(r)
  <2>1. Touches(r, {"seen", "reported"}) /\ q.pc = "evaluate"
    BY <1>0, <1>5, EvaluationChanges DEF EvaluateFails
  <2>2. Inherits(q, w) /\ w.pc = q.pc
    BY <1>0, <2>1 DEF Touches, Idle
  <2> QED BY <1>1, <2>1, <2>2 DEF InQueue
<1>6. CASE StartFiling(r)
  <2>1. /\ Touches(r, {"pc", "todo"}) /\ q.pc = "evaluate" /\ w.pc = "file"
        /\ w.todo = IF q.dry THEN {} ELSE Disputes(q)
    BY <1>0, <1>6, EvaluationChanges DEF StartFiling
  <2>2. /\ w.found = q.found /\ w.opening = q.opening /\ w.filed = q.filed
        /\ w.endpoint = q.endpoint /\ w.dry = q.dry /\ w.batch = q.batch /\ w.priors = q.priors
    BY <1>0, <2>1 DEF Touches, Idle
  <2>3. Disputes(w) = Disputes(q)
    BY <2>2, SameDisputes
  <2>4. \A d \in w.todo : d.kind \in FindingKinds => Genuine(d)'
    BY <1>1, <2>1, DisputesAreFound DEF InQueue
  <2>5. w.opening = None
    BY <1>1, <2>1, <2>2 DEF InQueue
  <2> QED BY <1>1, <2>1, <2>2, <2>3, <2>4, <2>5 DEF InQueue
<1>7. CASE LookForOpenCase(r)
  <2> DEFINE d == NextDispute(q)
  <2>1. /\ q.pc = "file" /\ q.opening = None /\ d \in q.todo
        /\ UNCHANGED <<registry, cases>>
    BY <1>0, <1>7 DEF LookForOpenCase, NextDispute
  <2> HIDE DEF d
  <2>2. CASE Touches(r, {"opening"}) /\ w.opening = d
    <3>1. /\ w.found = q.found /\ w.todo = q.todo /\ w.filed = q.filed /\ w.pc = q.pc
          /\ w.endpoint = q.endpoint /\ w.dry = q.dry /\ w.batch = q.batch /\ w.priors = q.priors
      BY <1>0, <2>2 DEF Touches, Idle
    <3>2. Disputes(w) = Disputes(q)
      BY <3>1, SameDisputes
    <3> QED BY <1>1, <2>1, <2>2, <3>1, <3>2 DEF InQueue
  <2>3. ASSUME NEW c \in FindOpen(d), Touches(r, {"todo", "filed"}), w.todo = q.todo \ {d},
               w.filed = q.filed \cup {<<d, c>>}
        PROVE  InQueue(w)'
    <3>1. /\ w.found = q.found /\ w.opening = q.opening /\ w.pc = q.pc
          /\ w.endpoint = q.endpoint /\ w.dry = q.dry /\ w.batch = q.batch /\ w.priors = q.priors
      BY <1>0, <2>3 DEF Touches, Idle
    <3>2. Disputes(w) = Disputes(q)
      BY <3>1, SameDisputes
    <3>3. c \in DOMAIN cases /\ SameDispute(cases[c], d)
      BY DEF FindOpen
    <3>4. d.kind \in FindingKinds => NewCase(cases[c]) = NewCase(d)
      <4>1. SUFFICES ASSUME d.kind \in FindingKinds PROVE NewCase(cases[c]) = NewCase(d)
        OBVIOUS
      <4>2. Genuine(d)
        BY <1>1, <2>1, <4>1 DEF InQueue
      <4>3. Genuine(cases[c])
        BY <3>3, <4>1 DEF AllQueued, CasesGenuine, SameDispute
      <4> QED BY <3>3, <4>2, <4>3, SameNamesSameMatter
    <3>5. \A entry \in w.filed :
             /\ entry[2] \in DOMAIN cases'
             /\ entry[1].kind \in FindingKinds => NewCase(cases'[entry[2]]) = NewCase(entry[1])
      BY <1>1, <2>1, <2>3, <3>3, <3>4 DEF InQueue
    <3>6. \A x : x \in q.todo => x \in w.todo \/ \E entry \in w.filed : entry[1] = x
      <4>1. <<d, c>> \in w.filed /\ <<d, c>>[1] = d
        BY <2>3
      <4> QED BY <2>3, <4>1
    <3> QED BY <1>1, <2>1, <2>3, <3>1, <3>2, <3>5, <3>6 DEF InQueue
  <2>4. \/ Touches(r, {"opening"}) /\ w.opening = d
        \/ \E c \in FindOpen(d) : /\ Touches(r, {"todo", "filed"}) /\ w.todo = q.todo \ {d}
                                  /\ w.filed = q.filed \cup {<<d, c>>}
    BY <1>0, <1>7, FilingChanges DEF d
  <2> QED BY <2>2, <2>3, <2>4
<1>8. CASE OpenCase(r)
  <2> DEFINE d == q.opening
             c == Fresh(cases)
  <2>1. /\ Touches(r, {"todo", "opening", "filed"}) /\ w.todo = q.todo \ {d}
        /\ w.opening = None /\ w.filed = q.filed \cup {<<d, c>>}
        /\ q.pc = "file" /\ q.opening # None
    BY <1>0, <1>8, FilingChanges DEF OpenCase
  <2>2. /\ w.found = q.found /\ w.pc = q.pc
        /\ w.endpoint = q.endpoint /\ w.dry = q.dry /\ w.batch = q.batch /\ w.priors = q.priors
    BY <1>0, <2>1 DEF Touches, Idle
  <2>3. Disputes(w) = Disputes(q)
    BY <2>2, SameDisputes
  <2>4. PICK k : k = c /\ k \in DOMAIN cases' /\ cases'[k] = NewCase(d)
    BY <1>0, <1>8 DEF OpenCase, Put
  <2>5. NewCase(cases'[k]) = NewCase(d)
    BY <2>4 DEF NewCase
  <2> HIDE DEF d, c
  <2>6. \A entry \in w.filed :
           /\ entry[2] \in DOMAIN cases'
           /\ entry[1].kind \in FindingKinds => NewCase(cases'[entry[2]]) = NewCase(entry[1])
    BY <1>1, <2>1, <2>4, <2>5 DEF InQueue
  <2>7. \A x : x \in q.todo => x \in w.todo \/ \E entry \in w.filed : entry[1] = x
    <3>1. <<d, c>> \in w.filed /\ <<d, c>>[1] = d
      BY <2>1
    <3> QED BY <2>1, <3>1
  <2> QED BY <1>1, <2>1, <2>2, <2>3, <2>6, <2>7 DEF InQueue
<1>9. CASE Respond(r)
  <2>1. Touches(r, {"pc", "reported"}) /\ w.pc = "done" /\ q.pc = "file" /\ q.todo = {}
    BY <1>0, <1>9, FilingChanges DEF Respond
  <2>2. Inherits(q, w) /\ w.batch = q.batch /\ w.priors = q.priors
    BY <1>0, <2>1 DEF Touches, Idle
  <2>3. Disputes(w) = Disputes(q)
    BY <2>2, SameDisputes
  <2> QED BY <1>1, <2>1, <2>2, <2>3 DEF InQueue
<1>10. CASE Crash(r)
  <2>1. w = [Idle EXCEPT !.pc = "lost"]
    BY <1>0, <1>10, FilingChanges
  <2>2. /\ w.pc = "lost" /\ w.found = {} /\ w.todo = {} /\ w.opening = None /\ w.filed = {}
    BY <2>1 DEF Idle
  <2> QED BY <2>2 DEF InQueue
<1>11. CASE FilingFails(r)
  BY <1>11 DEF FilingFails, MayFail
<1> QED BY <1>3, <1>4, <1>5, <1>6, <1>7, <1>8, <1>9, <1>10, <1>11 DEF Serve

(* Every step keeps the cases of findings genuine.                         *)
LEMMA CasesStayGenuine ==
    ASSUME Shape, AllQueued, Next, "file" \notin Faults
    PROVE  CasesGenuine'
<1>1. ASSUME NEW x, NEW y, Genuine(x), NewCase(y) = NewCase(x) PROVE Genuine(y)'
  <2>1. y.subject = x.subject /\ y.counterparts = x.counterparts /\ y.docs = x.docs
    BY <1>1 DEF NewCase
  <2>2. Genuine(y)
    BY <1>1, <2>1 DEF Genuine
  <2> QED BY <2>2, GenuineStays
<1>2. ASSUME NEW c \in DOMAIN cases', cases'[c].kind \in FindingKinds
      PROVE  Genuine(cases[c])'
  <2>0. PICK y : y = cases'[c]
    OBVIOUS
  <2>1. CASE c \in DOMAIN cases
    <3>1. PICK x : x = cases[c]
      OBVIOUS
    <3>2. NewCase(y) = NewCase(x)
      BY <2>0, <2>1, <3>1, CasesKept
    <3>3. x.kind \in FindingKinds
      BY <1>2, <2>0, <3>2 DEF NewCase
    <3>4. Genuine(x)
      BY <2>1, <3>1, <3>3 DEF AllQueued, CasesGenuine
    <3>5. Genuine(y)'
      BY <1>1, <3>2, <3>4
    <3> QED BY <2>0, <3>5 DEF Genuine
  <2>2. CASE c \notin DOMAIN cases
    <3>1. PICK r \in Requests : OpenCase(r) /\ cases'[c] = NewCase(req[r].opening)
      BY <1>2, <2>2, CasesKept
    <3>2. PICK x : x = req[r].opening
      OBVIOUS
    <3>3. x \in req[r].todo
      BY <3>1, <3>2 DEF OpenCase, AllQueued, InQueue
    <3>4. NewCase(y) = NewCase(x) /\ x.kind \in FindingKinds
      BY <1>2, <2>0, <3>1, <3>2 DEF NewCase
    <3>5. Genuine(x)
      BY <3>3, <3>4 DEF AllQueued, InQueue
    <3>6. Genuine(y)'
      BY <1>1, <3>4, <3>5
    <3> QED BY <2>0, <3>6 DEF Genuine
  <2> QED BY <2>1, <2>2
<1> QED BY <1>2 DEF CasesGenuine

(* Every step leaves a finding where it was or moves it on, when no filing *)
(* fails.                                                                  *)
LEMMA AllQueuedStep ==
    ASSUME "file" \notin Faults
    PROVE  Shape /\ Placed /\ AllQueued /\ [Next]_vars => AllQueued'
<1> SUFFICES ASSUME Shape, Placed, AllQueued, [Next]_vars PROVE AllQueued'
  OBVIOUS
<1>1. CasesGenuine'
  <2>1. CASE Next
    BY <2>1, CasesStayGenuine
  <2>2. CASE UNCHANGED vars
    BY <2>2 DEF vars, AllQueued, CasesGenuine, Genuine
  <2> QED BY <2>1, <2>2
<1>2. ASSUME NEW s \in Requests, req'[s] = req[s] PROVE InQueue(req[s])'
  <2>1. PICK q : q = req[s]
    OBVIOUS
  <2>2. InQueue(q)'
    BY <2>1, InQueueStays DEF AllQueued
  <2> QED BY <1>2, <2>1, <2>2 DEF InQueue
<1>3. ASSUME NEW r \in Requests, NEW e \in Endpoints, NEW dry \in DryRuns,
             NEW b \in Batches, Submit(r, e, dry, b)
      PROVE  AllQueued'
  <2>1. /\ req'[r].endpoint = e /\ req'[r].pc \in {"read", "record"}
        /\ req'[r].found = {} /\ req'[r].todo = {} /\ req'[r].filed = {}
        /\ req'[r].opening = None
        /\ \A s \in Requests \ {r} : req'[s] = req[s]
    BY <1>3, SubmitChanges
  <2>2. InQueue(req[r])'
    BY <2>1 DEF InQueue
  <2> QED BY <1>1, <1>2, <2>1, <2>2 DEF AllQueued
<1>4. ASSUME NEW r \in Requests, Serve(r) \/ Crash(r) PROVE AllQueued'
  <2>1. \A s \in Requests \ {r} : req'[s] = req[s]
    BY <1>4, FilingStep
  <2> QED BY <1>1, <1>2, <1>4, <2>1, RequestStaysInQueue DEF AllQueued
<1>5. ASSUME UNCHANGED req PROVE AllQueued'
  BY <1>1, <1>2, <1>5 DEF AllQueued
<1> QED BY <1>3, <1>4, <1>5 DEF Next, vars, RecordDecision, CloseCase, CloseFails

(* Every finding is queued or filed, in every state, when no filing fails. *)
LEMMA QueueHolds ==
    ASSUME "file" \notin Faults
    PROVE  Spec => [](Shape /\ AllQueued)
<1>1. Init => AllQueued
  BY DEF Init, AllQueued, CasesGenuine, InQueue, Idle, Empty
<1> QED BY <1>1, AllQueuedStep, PlacedHolds, PTL DEF Spec

(* What the engine found wrong with a document is in the queue when the     *)
(* request is answered, in a case about the very documents of the finding:  *)
(* whichever endpoints serve it and its neighbours, as long as the calls    *)
(* that file cases go through.                                              *)
FindingsHaveCases ==
    \A r \in Requests : req[r].pc = "done" /\ ~req[r].dry =>
        \A d \in Disputes(req[r]) : d.kind \in FindingKinds =>
            \E entry \in req[r].filed :
                entry[1] = d /\ [cases[entry[2]] EXCEPT !.status = "open"] = NewCase(d)

(* A request that is done has nothing queued, so its findings have cases.  *)
LEMMA QueuedFindings == Shape /\ AllQueued => FindingsHaveCases
<1> SUFFICES ASSUME Shape, AllQueued, NEW r \in Requests, req[r].pc = "done", ~req[r].dry,
                    NEW d \in Disputes(req[r]), d.kind \in FindingKinds
             PROVE  \E entry \in req[r].filed :
                       entry[1] = d /\ [cases[entry[2]] EXCEPT !.status = "open"] = NewCase(d)
  BY DEF FindingsHaveCases
<1>1. PICK entry \in req[r].filed : entry[1] = d
  BY DEF AllQueued, InQueue
<1>2. entry[2] \in DOMAIN cases /\ NewCase(cases[entry[2]]) = NewCase(d)
  BY <1>1 DEF AllQueued, InQueue
<1>3. [cases[entry[2]] EXCEPT !.status = "open"] = NewCase(cases[entry[2]])
  <2>1. IsCase(cases[entry[2]])
    BY <1>2 DEF Shape, CasesOK
  <2> QED BY <2>1 DEF IsCase, NewCase
<1> QED BY <1>1, <1>2, <1>3

(* Every finding of the consistency engine has a case by the time its      *)
(* request is answered, at either endpoint, when no call that files a case *)
(* fails.                                                                  *)
THEOREM FindingsReachTheQueue ==
    ASSUME "file" \notin Faults
    PROVE  Spec => []FindingsHaveCases
BY QueueHolds, QueuedFindings, PTL

(* A Process request files nothing but findings, so all it has to file is   *)
(* in the queue when it is answered.                                        *)
THEOREM EveryFindingReachesTheQueue ==
    ASSUME "file" \notin Faults, "dedupe" \notin Endpoints
    PROVE  Spec => []EveryFindingHasItsCase
<1>1. Shape /\ AllQueued => EveryFindingHasItsCase
  <2> SUFFICES ASSUME Shape, AllQueued, NEW r \in Requests, req[r].pc = "done", ~req[r].dry,
                      NEW d \in Disputes(req[r])
               PROVE  d.kind \in FindingKinds
    BY QueuedFindings DEF FindingsHaveCases, EveryFindingHasItsCase
  <2>1. req[r].endpoint # "dedupe"
    BY DEF AllQueued, InQueue
  <2>2. \E g \in req[r].found : d = g[2]
    BY <2>1 DEF Disputes
  <2> QED BY <2>2 DEF AllQueued, InQueue
<1> QED BY <1>1, QueueHolds, PTL
=============================================================================
