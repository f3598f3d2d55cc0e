---------------------------- MODULE ReviewQueue ----------------------------
(***************************************************************************)
(* Requests that turn documents into knowledge and findings into cases     *)
(* (api/routes/dedupe.py, api/routes/reconcile.py, cases/), and the        *)
(* reviewers who resolve the cases.  A request runs in a thread of one of  *)
(* several server instances; each Firestore call is a step of its own, and *)
(* between two of them anything may happen to the shared collections.      *)
(*                                                                         *)
(* /dedupe     reads history for every document, then records them, then   *)
(*             evaluates what was recorded, then files relationships and   *)
(*             findings as cases.                                          *)
(* /process    records the documents that carry a usable identity, then    *)
(*             evaluates them, duplicates included, then files.            *)
(***************************************************************************)
EXTENDS Consistency, Sequences

CONSTANTS Requests,       \* each element is one HTTP request
          Contents,       \* the documents that may be submitted
          MaxBatch,       \* bound on the documents of one request
          Endpoints,      \* a subset of {"dedupe", "process"}
          DryRuns,        \* the dry_run flags a request may carry
          Reviewers,      \* people resolving cases
          MaxDecisions,   \* bound on the resolutions recorded
          Faults          \* which calls may fail: see MayFail

ASSUME RequestAssumption ==
    /\ Endpoints \subseteq {"dedupe", "process"}
    /\ DryRuns \subseteq BOOLEAN
    /\ MaxBatch \in Nat /\ MaxDecisions \in Nat
    /\ Faults \subseteq {"read", "write", "evaluate", "file", "close", "crash"}

VARIABLES registry,       \* users/{uid}/registry: number -> document
          minted,         \* assertion ids given out (uuid4 is never repeated)
          cases,          \* users/{uid}/cases: number -> case
          resolutions,    \* users/{uid}/resolutions: number -> case number
          req,            \* the state of every request
          closing         \* reviewer -> case whose status write is pending
vars == <<registry, minted, cases, resolutions, req, closing>>

MayFail(call) == call \in Faults

-----------------------------------------------------------------------------
(* Documents are named in two ways: by the assertion that records them, and *)
(* within a /dedupe request by position and file name ("1·invoice.pdf").    *)
(* faulty variant: the id is derived from what the document says *)
ContentId(n) == <<"doc", registry[n]>>
AssertionId(n) == <<"doc", n>>
BatchId(i, d) == <<"rid", i, d.label>>

Batches == UNION {[1 .. k -> Contents] : k \in 1 .. MaxBatch}

(* the submitted document without its file name *)
Content(d) == [f \in Fields |-> d[f]]

(* known is a history: what the collections held when the request came in *)
Unknown == [registry |-> {}, closed |-> {}, decisions |-> {}]

Idle == [pc |-> "idle", endpoint |-> None, dry |-> FALSE, batch |-> <<>>, next |-> 1,
         priors |-> Empty, overlay |-> Empty, own |-> {}, found |-> {}, seen |-> {},
         todo |-> {}, opening |-> None, filed |-> {}, reported |-> FALSE,
         known |-> Unknown]

Init ==
    /\ registry = Empty /\ minted = 0
    /\ cases = Empty /\ resolutions = Empty
    /\ req = [r \in Requests |-> Idle]
    /\ closing = [v \in Reviewers |-> None]

Put(f, x, v) == [y \in DOMAIN f \cup {x} |-> IF y = x THEN v ELSE f[y]]
Fresh(f) == Cardinality(DOMAIN f) + 1    \* uuid4 again: cases and decisions stay

(* The records a request works on and the assertions it would record. *)
Record(r, i) == IF req[r].endpoint = "dedupe"
                THEN FieldsOnly(Content(req[r].batch[i]))
                ELSE Content(req[r].batch[i])

(* faulty variant: what the registry held when the request came in *)
ProviderOfSnapshot(r) ==
    LET visible == DOMAIN registry \cap (req[r].known.registry \cup req[r].own)
    IN  Provider([n \in visible |-> registry[n]], req[r].overlay)

ProviderOf(r) == Provider(registry, req[r].overlay)

Step(r, changes) == req' = [req EXCEPT ![r] = changes]

-----------------------------------------------------------------------------
Submit(r, endpoint, dry, batch) ==
    /\ req[r].pc = "idle"
    /\ Step(r, [Idle EXCEPT !.endpoint = endpoint, !.dry = dry, !.batch = batch,
                   !.known = [registry  |-> DOMAIN registry,
                              closed    |-> {c \in DOMAIN cases : cases[c].status = "resolved"},
                              decisions |-> DOMAIN resolutions],
                   !.pc = IF endpoint = "dedupe" THEN "read" ELSE "record"])
    /\ UNCHANGED <<registry, minted, cases, resolutions, closing>>

(* registry.candidates_for for the next document of a /dedupe request *)
ReadHistory(r) ==
    LET q == req[r]
        hits == StoredCandidates(registry, Record(r, q.next), 0)
        priors == [n \in DOMAIN q.priors \cup hits |-> registry[n]]
    IN  /\ q.pc = "read"
        /\ Step(r, IF q.next = Len(q.batch)
                   THEN [q EXCEPT !.priors = priors, !.next = 1, !.pc = "record"]
                   ELSE [q EXCEPT !.priors = priors, !.next = @ + 1])
        /\ UNCHANGED <<registry, minted, cases, resolutions, closing>>

(* faulty variant: a failed read is not reported *)
ReadFailsSilently(r) ==
    /\ MayFail("read") /\ req[r].pc = "read"
    /\ Step(r, [req[r] EXCEPT !.priors = Empty, !.next = 1, !.pc = "record"])
    /\ UNCHANGED <<registry, minted, cases, resolutions, closing>>

(* the read failed: batch only, and the reason says so *)
ReadFails(r) ==
    /\ MayFail("read") /\ req[r].pc = "read"
    /\ Step(r, [req[r] EXCEPT !.priors = Empty, !.reported = TRUE,
                   !.next = 1, !.pc = "record"])
    /\ UNCHANGED <<registry, minted, cases, resolutions, closing>>

Advance(q) ==
    IF q.next = Len(q.batch)
    THEN [q EXCEPT !.next = 1, !.pc = "evaluate"]
    ELSE [q EXCEPT !.next = @ + 1]

Recordable(r) == req[r].endpoint = "process" => HasUsableIdentity(Record(r, req[r].next))

(* registry.append of the next document, under a fresh assertion id *)
RecordAssertion(r) ==
    LET q == req[r]
        n == minted + 1
        d == Record(r, q.next)
    IN  /\ q.pc = "record" /\ Recordable(r)
        /\ minted' = n
        /\ registry' = IF q.dry THEN registry ELSE Put(registry, n, d)
        /\ Step(r, Advance([q EXCEPT
                      !.own = @ \cup {n},
                      !.overlay = IF q.dry THEN Put(@, n, d) ELSE @]))
        /\ UNCHANGED <<cases, resolutions, closing>>

(* Process declines to record what could never be matched, and reports it. *)
DeclineAssertion(r) ==
    /\ req[r].pc = "record" /\ ~Recordable(r)
    /\ Step(r, Advance([req[r] EXCEPT !.reported = TRUE]))
    /\ UNCHANGED <<registry, minted, cases, resolutions, closing>>

(* faulty variant: a failed write takes the request's assertions back *)
RecordFailsAndRollsBack(r) ==
    LET q == req[r] IN
    /\ MayFail("write") /\ q.pc = "record" /\ Recordable(r) /\ ~q.dry
    /\ registry' = [n \in DOMAIN registry \ q.own |-> registry[n]]
    /\ Step(r, [q EXCEPT !.own = {}, !.next = 1, !.pc = "evaluate", !.reported = TRUE])
    /\ UNCHANGED <<minted, cases, resolutions, closing>>

(* The write raised, and may nevertheless have reached the collection; the *)
(* remaining documents are not recorded.                                   *)
RecordFails(r) ==
    LET q == req[r]
        n == minted + 1
    IN  /\ MayFail("write") /\ q.pc = "record" /\ Recordable(r) /\ ~q.dry
        /\ minted' = n
        /\ \E landed \in BOOLEAN :
              registry' = IF landed THEN Put(registry, n, Record(r, q.next)) ELSE registry
        /\ Step(r, [q EXCEPT !.next = 1, !.pc = "evaluate", !.reported = TRUE])
        /\ UNCHANGED <<cases, resolutions, closing>>

-----------------------------------------------------------------------------
(* A dispute is a finding with the names find_open compares.  docs is what  *)
(* the finding's snapshot shows the reviewer of each side.                  *)
Dispute(kind, subject, counterparts, docs) ==
    [kind |-> kind, subject |-> subject, counterparts |-> counterparts, docs |-> docs]

FindingDispute(p, n, f) ==
    Dispute(f.kind, AssertionId(n), {AssertionId(m) : m \in f.evidence},
            <<Asserted(p, n), {Asserted(p, m) : m \in f.evidence}>>)

(* The next recorded document is evaluated against everything known now. *)
Unevaluated(r) == {n \in req[r].own : n \notin req[r].seen}

EvaluateOne(r) ==
    LET q == req[r]
        p == ProviderOf(r)
    IN  /\ q.pc = "evaluate"
        /\ \E n \in Unevaluated(r) :
              /\ \A m \in Unevaluated(r) : n <= m
              /\ Step(r, [q EXCEPT
                     !.seen = @ \cup {n},
                     !.found = @ \cup {<<f, FindingDispute(p, n, f)>> :
                                   f \in Evaluate(p, n, q.endpoint = "process")}])
        /\ UNCHANGED <<registry, minted, cases, resolutions, closing>>

(* evaluation raised: reported, and the rest of the batch is not evaluated *)
EvaluateFails(r) ==
    /\ MayFail("evaluate") /\ req[r].pc = "evaluate" /\ Unevaluated(r) # {}
    /\ Step(r, [req[r] EXCEPT !.seen = req[r].own, !.reported = TRUE])
    /\ UNCHANGED <<registry, minted, cases, resolutions, closing>>

(* The universe of a /dedupe request: its own records and the priors. *)
Universe(q) ==
    {<<BatchId(i, q.batch[i]), FieldsOnly(Content(q.batch[i]))>> : i \in DOMAIN q.batch}
        \cup {<<AssertionId(n), Rehydrate(q.priors[n])>> : n \in DOMAIN q.priors}

(* Pairs are ordered by id, and position prefixes sort before file names. *)
Before(x, y) == IF x[1] = y[1] THEN x[2] < y[2] ELSE x[1] = "rid"

Relationships(q) ==
    {Dispute(Classify(p[1][2], p[2][2]), p[1][1], {p[2][1]}, <<p[1][2], {p[2][2]}>>) :
        p \in {u \in Universe(q) \X Universe(q) :
                  /\ Before(u[1][1], u[2][1])
                  /\ Candidates(u[1][2], u[2][2])
                  /\ Action(u[1][2], u[2][2]) \in NeedsCase}}

(* What the request must put in the queue. *)
Disputes(q) ==
    IF q.endpoint = "dedupe"
    THEN Relationships(q) \cup {f[2] : f \in q.found}
    ELSE {f[2] : f \in {g \in q.found : FiledByProcess(g[1])}}

(* faulty variant: the dry_run flag is forgotten *)
StartFilingAlways(r) ==
    /\ req[r].pc = "evaluate" /\ Unevaluated(r) = {}
    /\ Step(r, [req[r] EXCEPT !.pc = "file", !.todo = Disputes(req[r])])
    /\ UNCHANGED <<registry, minted, cases, resolutions, closing>>

(* A dry run files nothing: "a simulation creates no state". *)
StartFiling(r) ==
    /\ req[r].pc = "evaluate" /\ Unevaluated(r) = {}
    /\ Step(r, [req[r] EXCEPT !.pc = "file",
                   !.todo = IF req[r].dry THEN {} ELSE Disputes(req[r])])
    /\ UNCHANGED <<registry, minted, cases, resolutions, closing>>

-----------------------------------------------------------------------------
(* faulty variant: the counterparts are not compared *)
SameSubject(c, d) == c.kind = d.kind /\ c.subject = d.subject
SameDispute(c, d) ==
    c.kind = d.kind /\ c.subject = d.subject /\ c.counterparts = d.counterparts

(* faulty variant: a resolved case is as good as an open one *)
FindAny(d) == {c \in DOMAIN cases : SameDispute(cases[c], d)}

(* FirestoreCaseStore.find_open *)
FindOpen(d) == {c \in DOMAIN cases : cases[c].status = "open" /\ SameDispute(cases[c], d)}

(* the list of disputes has a fixed order *)
NextDispute(q) == CHOOSE d \in q.todo : TRUE

NewCase(d) == [status |-> "open", kind |-> d.kind, subject |-> d.subject,
               counterparts |-> d.counterparts, docs |-> d.docs]

(* open_case_for, first call: an open case for the same dispute is reused *)
LookForOpenCase(r) ==
    LET q == req[r]
        d == NextDispute(q)
    IN  /\ q.pc = "file" /\ q.todo # {} /\ q.opening = None
        /\ \/ /\ FindOpen(d) = {}
              /\ Step(r, [q EXCEPT !.opening = d])
           \/ \E c \in FindOpen(d) :
                 Step(r, [q EXCEPT !.todo = @ \ {d}, !.filed = @ \cup {<<d, c>>}])
        /\ UNCHANGED <<registry, minted, cases, resolutions, closing>>

(* open_case_for, second call: store.open_case under a fresh case id *)
OpenCase(r) ==
    LET q == req[r]
        c == Fresh(cases)
    IN  /\ q.pc = "file" /\ q.opening # None
        /\ cases' = Put(cases, c, NewCase(q.opening))
        /\ Step(r, [q EXCEPT !.todo = @ \ {q.opening}, !.opening = None,
                       !.filed = @ \cup {<<q.opening, c>>}])
        /\ UNCHANGED <<registry, minted, resolutions, closing>>

(* Either call raised: open_case_for returns None and the entry is skipped, *)
(* even if the case did reach the collection.                               *)
FilingFails(r) ==
    LET q == req[r] IN
    /\ MayFail("file") /\ q.pc = "file" /\ q.todo # {}
    /\ Step(r, [q EXCEPT !.todo = @ \ {NextDispute(q)}, !.opening = None])
    /\ \/ UNCHANGED cases
       \/ q.opening # None /\ cases' = Put(cases, Fresh(cases), NewCase(q.opening))
    /\ UNCHANGED <<registry, minted, resolutions, closing>>

(* The reason in the reply to a dry run is always that nothing was added,   *)
(* whatever was to be reported; only documents Process declined are named.  *)
Declined(r) == /\ req[r].endpoint = "process"
               /\ \E i \in DOMAIN req[r].batch : ~HasUsableIdentity(Record(r, i))
Reply(r) == req[r].reported /\ (req[r].dry => Declined(r))

Respond(r) ==
    /\ req[r].pc = "file" /\ req[r].todo = {}
    /\ Step(r, [req[r] EXCEPT !.pc = "done", !.reported = Reply(r)])
    /\ UNCHANGED <<registry, minted, cases, resolutions, closing>>

(* The instance goes away in the middle of a request. *)
Crash(r) ==
    /\ MayFail("crash") /\ req[r].pc \notin {"idle", "done", "lost"}
    /\ Step(r, [Idle EXCEPT !.pc = "lost"])
    /\ UNCHANGED <<registry, minted, cases, resolutions, closing>>

-----------------------------------------------------------------------------
(* faulty variant: the decision does not reach the collection *)
LoseDecision(v, c) ==
    /\ closing[v] = None
    /\ c \in DOMAIN cases
    /\ Cardinality(DOMAIN resolutions) < MaxDecisions
    /\ closing' = [closing EXCEPT ![v] = c]
    /\ UNCHANGED <<registry, minted, cases, resolutions, req>>

(* resolve_case: the case exists (its status is not looked at), and the     *)
(* decision is written first ...                                            *)
RecordDecision(v, c) ==
    /\ closing[v] = None
    /\ c \in DOMAIN cases
    /\ Cardinality(DOMAIN resolutions) < MaxDecisions
    /\ resolutions' = Put(resolutions, Fresh(resolutions), c)
    /\ closing' = [closing EXCEPT ![v] = c]
    /\ UNCHANGED <<registry, minted, cases, req>>

(* ... and the status of the case second. *)
CloseCase(v) ==
    /\ closing[v] # None
    /\ cases' = [cases EXCEPT ![closing[v]].status = "resolved"]
    /\ closing' = [closing EXCEPT ![v] = None]
    /\ UNCHANGED <<registry, minted, resolutions, req>>

(* the second write never happens *)
CloseFails(v) ==
    /\ MayFail("close") /\ closing[v] # None
    /\ closing' = [closing EXCEPT ![v] = None]
    /\ UNCHANGED <<registry, minted, cases, resolutions, req>>

-----------------------------------------------------------------------------
Serve(r) ==
    \/ ReadHistory(r) \/ ReadFails(r)
    \/ RecordAssertion(r) \/ DeclineAssertion(r) \/ RecordFails(r)
    \/ EvaluateOne(r) \/ EvaluateFails(r)
    \/ StartFiling(r) \/ LookForOpenCase(r) \/ OpenCase(r) \/ FilingFails(r)
    \/ Respond(r)

Next ==
    \/ \E r \in Requests :
          \/ \E e \in Endpoints, dry \in DryRuns, b \in Batches : Submit(r, e, dry, b)
          \/ Serve(r)
          \/ Crash(r)
    \/ \E v \in Reviewers :
          \/ \E c \in DOMAIN cases : RecordDecision(v, c)
          \/ CloseCase(v)
          \/ CloseFails(v)

Spec == Init /\ [][Next]_vars

-----------------------------------------------------------------------------
Statuses == {"open", "resolved"}
Stages == {"idle", "read", "record", "evaluate", "file", "done", "lost"}
Documented == {Content(c) : c \in Contents} \cup {FieldsOnly(Content(c)) : c \in Contents}

(* Shapes of the collections and of the requests in flight. *)
TypeOK ==
    /\ minted \in Nat
    /\ registry \in [DOMAIN registry -> Documented]
    /\ DOMAIN registry \subseteq 1 .. minted
    /\ DOMAIN cases = 1 .. Cardinality(DOMAIN cases)
    /\ DOMAIN resolutions = 1 .. Cardinality(DOMAIN resolutions)
    /\ \A c \in DOMAIN cases : cases[c].status \in Statuses
    /\ resolutions \in [DOMAIN resolutions -> DOMAIN cases]
    /\ closing \in [Reviewers -> DOMAIN cases \cup {None}]
    /\ \A r \in Requests : /\ req[r].pc \in Stages
                           /\ req[r].own \subseteq 1 .. minted

(* The collections of the store live up to CaseLifecycle: a request or a    *)
(* reviewer, whatever fails between its calls, opens a case once, never     *)
(* edits its finding or a decision, and closes it only with a decision      *)
(* already recorded (cases/store.py add_resolution writes that one first).  *)
Lifecycle == INSTANCE CaseLifecycle WITH
    finding <- [c \in DOMAIN cases |-> NewCase(cases[c])],
    decided <- resolutions,
    closed  <- {c \in DOMAIN cases : cases[c].status = "resolved"}
ImplementsLifecycle == Lifecycle!Spec

(* Append-only history: an assertion, once recorded, is never changed or    *)
(* removed (registry/record.py, FirestoreRegistry.append).                  *)
AppendOnly ==
    [][\A n \in DOMAIN registry :
          n \in DOMAIN registry' /\ registry'[n] = registry[n]]_vars

(* A request with dry_run leaves no assertion and no case behind, however   *)
(* its steps interleave with those of real requests.                        *)
DryRunLeavesNothing ==
    [][\A r \in Requests :
          req[r].dry /\ req'[r] # req[r] => UNCHANGED <<registry, cases, resolutions>>]_vars

Answered(r) == req[r].pc = "done" /\ ~req[r].reported
Processed(r) == Answered(r) /\ req[r].endpoint = "process" /\ ~req[r].dry

(* Two requests that process the two halves of a duplicate at the same time *)
(* cannot both miss it: each commits before it evaluates, so at least one   *)
(* of the two raises the finding (reconcile.py "Order: commit, THEN         *)
(* evaluate").  Holds for documents whose total was read: a total filled in *)
(* later is in the keys a document is found by and not in those it looks    *)
(* with.                                                                    *)
OneOfTwoSeesTheOther ==
    \A r, s \in Requests : Processed(r) /\ Processed(s) =>
        \A n \in req[r].own, m \in req[s].own :
            n # m /\ StatedTotal(registry[n]) /\ StatedTotal(registry[m])
                  /\ Candidates(registry[n], registry[m])
                  /\ Action(registry[n], registry[m]) \in NeedsCase =>
                \/ \E f \in req[r].found :
                      f[1] = Finding("DUPLICATE", {m}, f[1].action) /\ f[2].subject = AssertionId(n)
                \/ \E f \in req[s].found :
                      f[1] = Finding("DUPLICATE", {n}, f[1].action) /\ f[2].subject = AssertionId(m)

(* A /dedupe request matches its documents against everything that was      *)
(* recorded when it came in, for every document of the batch, and never     *)
(* against its own assertions: history is read before anything is written.  *)
DedupeReadsHistory ==
    \A r \in Requests :
        LET q == req[r] IN
        q.endpoint = "dedupe" /\ q.pc \in {"record", "evaluate", "file"} =>
            /\ DOMAIN q.priors \cap q.own = {}
            /\ ~q.reported =>
                  {n \in q.known.registry : \E i \in DOMAIN q.batch :
                      n \in StoredCandidates(registry, Record(r, i), 0)} \subseteq DOMAIN q.priors

(* dedupe.py "Availability is reported, never assumed ... the caller must   *)
(* be able to tell which one they just received": an answer that reports    *)
(* nothing was compared with everything recorded when its request came in.  *)
SilenceMeansHistoryWasRead ==
    \A r \in Requests :
        req[r].endpoint = "dedupe" /\ Answered(r) =>
            {n \in req[r].known.registry : \E i \in DOMAIN req[r].batch :
                n \in StoredCandidates(registry, Record(r, i), 0)} \subseteq DOMAIN req[r].priors

(* An invoice is never told that its purchase order is unknown while the    *)
(* order is in the same submission, in whichever order the two were listed. *)
SiblingOrderIsFound ==
    \A r \in Requests : ~req[r].reported =>
        \A f \in req[r].found : f[1].kind = "PO_NOT_FOUND" =>
            ~\E i \in DOMAIN req[r].batch :
                /\ req[r].batch[i].doc_type = "purchase_order"
                /\ req[r].batch[i].po = f[2].docs[1].po

(* Every finding that needs a person is in the queue when the request is    *)
(* answered, in a case about the very documents of the finding.             *)
EveryFindingHasItsCase ==
    \A r \in Requests : req[r].pc = "done" /\ ~req[r].dry =>
        \A d \in Disputes(req[r]) :
            \E entry \in req[r].filed :
                entry[1] = d /\ [cases[entry[2]] EXCEPT !.status = "open"] = NewCase(d)

(* At most one open case per dispute (service.py "Idempotent on (kind,      *)
(* subject, counterparts)").                                                *)
OneOpenCasePerDispute ==
    \A b, c \in DOMAIN cases :
        cases[b].status = "open" /\ cases[c].status = "open" /\ SameDispute(cases[b], cases[c])
            => b = c

(* A case closed before the request came in never answers it: the dispute  *)
(* is found again and opened again (cases/store.py "The finding is always  *)
(* raised").                                                               *)
ClosedCasesAreOpenedAnew ==
    \A r \in Requests : \A entry \in req[r].filed :
        entry[2] \notin req[r].known.closed

(* cases/store.py "A resolution is EVIDENCE IN the next finding.  It is     *)
(* never a SUPPRESSOR of it": a finding in the queue is still open, or was  *)
(* decided by someone after the request that raised it came in.             *)
DecisionsNeverSuppress ==
    \A r \in Requests : \A entry \in req[r].filed :
        \/ cases[entry[2]].status = "open"
        \/ \E n \in DOMAIN resolutions \ req[r].known.decisions :
              resolutions[n] = entry[2]
=============================================================================
