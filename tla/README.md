# Qrynt: a verification project

Qrynt is a FastAPI service that reads business documents (invoices, purchase
orders, payments), reconstructs their structure, remembers what they assert in an
append-only registry per user, compares new documents with that history, and puts
what looks wrong in a queue for a person to decide.  It runs on Cloud Run: several
autoscaled instances share Firestore and object storage and nothing else.

This directory holds TLA+ models of the parts of the service that decide
something or keep something, the TLC configurations that check them, and proofs
for TLAPS.

## 1. The system

| component | state it keeps | operations | interacts with |
|---|---|---|---|
| canonical values (`relationship_engine/canonicalize.py`) | none | raw field -> canonical field | everything that compares |
| duplicate engine (`relationship_engine/{identity,candidates,evidence,classify,dedup_policy,dedup_engine}.py`) | none | keys, candidate pairs, facts, typed relationship, action | dedupe endpoint, consistency engine |
| registry (`registry/{record,keys,provider,factory}.py`) | `users/{uid}/registry`, append-only | append, candidates_for, by_reference, vendor_history; dry-run overlay | written and read by every ingestion |
| registry ingestion (`registry/ingest.py`) | none | view -> assertion, total corrected by the role verifier | registry |
| consistency engine (`registry/consistency.py`) | none | seven checks of one assertion against a provider | registry, duplicate engine |
| cases (`cases/{model,store,service}.py`, `api/routes/cases.py`) | `users/{uid}/cases`, `users/{uid}/resolutions` | open_case_for, find_open, resolve_case, precedents | dedupe, process, reviewers |
| dedupe (`api/routes/dedupe.py`) | none | read history, record, evaluate, file | registry, cases |
| process and reconcile (`api/routes/reconcile.py`) | none | record, evaluate, file; reconcile two views | registry, cases, reconciliation |
| document views (`profiles/{resolver,money_tree,role_verifier,invoice}.py`) | none | lines -> money nodes, regions, fields, verified total | process, reconcile, registry ingestion |
| rules (`analysis/rules_engine.py`) | none | evaluate a profile's rules over a view | process, reconcile |
| reconciliation and approval (`relationship_engine/{reconcile,structural,verdict,approval}.py`, `profiles/invoice_po.py`) | none | align lines, five dimensions, gates, recommendation | reconcile endpoints |
| knowledge (`registry/knowledge.py`) | none | read-only aggregation of the registry | registry |
| API keys, accounts (`api/auth/{firestore,keys,router}.py`) | `users`, `api_key_index` | sign up, generate, revoke, last_used, authenticate with backfill, delete | every request |
| usage (`api/auth/limits.py`, `api/middleware/auth.py`) | counters in `users`, `workspaces`, `ip_counters` | check before, consume after | every request |
| workspaces (`api/auth/workspace.py`, `api/auth/router.py`) | `workspaces`, `users`, `pending_invites` | create, invite, join, remove, change role, count the pool | accounts, usage |
| billing (`api/routes/billing.py`, `api/auth/paddle.py`) | `tier` and `paddle` in `users` | checkout, webhook | accounts, Paddle |
| sessions (`api/routes/{ingest,process,document}.py`, `api/session.py`) | bounded stores in process memory, `users/{uid}/sessions` | ingest, resolve (sync, async), process | reconstruction, storage settings |
| file jobs (`api/routes/ingest_file.py`, `api/storage/gcs_results.py`) | `jobs`, objects in a bucket | upload, background run, poll, expire | sessions, usage |
| streaming (`api/streaming.py`) | live clients in process memory | connect, broadcast | sessions |
| reconstruction (`core/engine.py`, `pre_classifier.py`, `analysis/structure_engine/`, `postprocess/`) | none between documents; a pool of threads during one | segment, route, structure, reassemble, package, clean, validate | sessions, file jobs |
| file formats and output (`ingestion/`, `document_partition/`, `preprocess/`, `hints/`, `adapters/`, `api/report.py`) | none | bytes -> text, results -> replies | all endpoints |

What is hard in it: every Firestore call of a request is a separate step, and
requests of other instances run between any two of them (only the workspace pool
is counted in a transaction); several calls swallow exceptions and carry on; an
instance may go away between any two calls and nothing resumes the request; a job
is stored in one system and announced in another; Paddle repeats its events;
threads finish in any order; and the decision rules (classification, baselines,
approval, totals) are order-sensitive.  `PROJECT.json` lists the hazards line by
line with the property that covers each.

What makes the parts correct:

* duplicate engine: BLOCK only on provable identity, independent of the order of
  the pair, no pair lost by keys, relabelling never helps, absence is not evidence;
* registry and consistency: history only grows, a document is never its own
  evidence, a departure from a vendor's practice is held against enough of it,
  duplicates are seen from both sides;
* review queue: every finding has its case, decided cases never swallow a new
  finding, a dry run leaves nothing, concurrent requests do not both miss a duplicate;
* document views: a figure's role is decided by its own neighbourhood, honest
  invoices are confirmed and wrong totals contradicted;
* reconciliation: the alignment is one to one and maximal, no difference of
  quantities passes, approval needs a shared identity, the same items and every risk
  assessed, and never improves with trouble;
* accounts and usage: no more keys than some tier of the account allowed, a key is let
  in or turned away by what it was at one moment, nobody is refused requests that are
  left;
* workspaces: the owner stays, no authority that was not given, the pool is exact;
* jobs and sessions: a job whose task was spawned ends, an announced result is where its
  record says, nothing is kept unasked;
* billing: in the end the tier is the one that is paid;
* reconstruction: no line vanishes but in ways that can be named, the order of the
  threads does not matter, a gross loss is noticed.

## 2. The modules

| module | models | state and actions |
|---|---|---|
| `Documents` | record.py, identity.py, keys.py | operators: a document's canonical fields, its query keys and stored keys |
| `Relations` | evidence.py, classify.py, dedup_policy.py | operators: facts, relationship type and action of a pair |
| `PairMatching` | the engine on one pair | state: two documents; action: one field of one of them reads differently |
| `Registry` | provider.py | operators: the lookups of the stores and of the dry-run overlay |
| `Consistency` | consistency.py | operators: each check, and `Evaluate` |
| `RegistryHistory` | a registry as it grows | state: recorded and pending assertions; actions: `Append`, `AppendToOverlay` |
| `ReviewQueue` | dedupe.py, `_ingest_and_evaluate`, cases/ | state: registry, cases, resolutions, every request and reviewer in flight; one action per Firestore call |
| `CaseLifecycle` | the promise of cases/ | abstract specification `ReviewQueue` implements |
| `MoneyTree` | money_tree.py | operators: lines -> money nodes, regions, verdict on the total |
| `RoleVerifier` | role_verifier.py | operators: the search for an arithmetic identity |
| `Resolver` | resolver.py with the invoice profile | operators: fields by label, competing values, verification, published items |
| `RulesEngine` | rules_engine.py with the shipped rules | operators: status of a rule over a view |
| `DocumentView` | one document through `_text_to_view` and `_process_view` | state: its lines, view and report; actions: `ReadBlock`, `Resolve`, `Validate` |
| `Reconciliation` | structural.py, reconcile.py, verdict.py, approval.py, invoice_po.py | state: two views, the alignment under way, verdict, recommendation; one action per round of the greedy loop, then `Reconcile` and `RecommendApproval` |
| `Accounts` | firestore.py, limits.py, middleware/auth.py, the account endpoints | state: users with their keys, usage and tier, key index, address counters, the calls in flight with the document each has read; one action per Firestore call, `ChangeTier`, `Midnight` |
| `Workspaces` | workspace.py, the signup and workspace endpoints, the pool of firestore.py | state: users, workspaces, pools, invites, the calls in flight; one action per Firestore call |
| `Ingest` | ingest.py, ingest_file.py, process.py, gcs_results.py | state: the memory of one instance and its disk, the stored settings, sessions, jobs and results, the handlers and tasks in flight; one action per await or storage call, plus failures, `Poll`, `Crash`, `Purge`, `Tick` |
| `Billing` | billing.py, paddle.py | state: Paddle's subscriptions and unanswered events, the user's tier and `paddle` field, the event the webhook is at; one action per write |
| `Lines` | the lines the reconstruction reads | operators: a vocabulary of sample lines, by what the code's expressions find in them |
| `Segmentation` | core/engine.py, boundary rules, normalisation | operators: a text -> segments |
| `PreClassifier` | pre_classifier.py | operators: the ratios counted in a segment, the candidates they suggest, its route |
| `Detectors` | kv_detector.py, context_detector.py, hierarchy_detector.py, builder/ | operators: the blocks each proposes |
| `Reconciler` | reconciler.py, classifier.py | operators: which blocks are kept, what the part is called and how surely |
| `Tables` | table_detector.py | operators: four readings of a region, and the one that is the table |
| `StructureEngine` | sub_segmenter.py, region_classifier.py, router.py, line_model.py, orchestrator.py, `_merge_sub_segments` of core/engine.py | operators: one segment from its lines, through its regions, to its result |
| `Postprocess` | formatter.py, cleanup.py, validation.py | operators: package with gaps, prune, validate |
| `Reconstruction` | the pipeline with its pool of threads | state: document, stage, envelopes, output; actions: `RunCore`, `RouteSegments`, `PassBy`, `Submit`, `Finish`, `Fail`, `Gather`, `RunPostprocess` |
| `Absence` | None | operators used by the document modules |
| `MC...` | | instances for TLC |
| `..._proofs` | | theorems about the module of that name; `PairMatching_proofs` is also about `RegistryHistory`, `Reconciliation_proofs` also about `DocumentView` |

`Relations` builds on `Documents`, `Registry` on `Relations`, `Consistency` on
`Registry`; `RegistryHistory` and `ReviewQueue` both extend `Consistency`, so the
protocol runs the very checks the sequential module analyses.  `Resolver` builds on
`MoneyTree` and `RoleVerifier`, `DocumentView` on `Resolver` and `RulesEngine`, and
`Reconciliation` on `RulesEngine`.  `Reconstruction` composes `Segmentation`,
`PreClassifier` and `Postprocess`, which reaches `StructureEngine` and through it the
other modules over `Lines`.  `Accounts`, `Workspaces`, `Ingest` and `Billing` stand
alone: what they share is the user document, of which each models its own fields (the
tier, which `Billing` decides, is to `Accounts` a field that changes at any time);
no code path writes the fields of two of them in one call, except the signup with an
invite, which `Workspaces` has whole, and the deletion of an account, which
`Accounts` has whole and `Ingest` as the two steps that concern it.

Each module carries a few operators marked "faulty variant".  They are not part
of the model: each is what a plausible mistake would turn one definition into,
and `PROJECT.json` says which property notices.

## 3. What a state stands for

**Registry and queue.**  Canonical values are opaque (model values and small tuples)
except where the code looks inside: amounts are cents, dates are day numbers with
months of 30 days, invoice and order numbers are pairs `<<shape, serial>>` because
the number-format check looks at the shape.  Two amounts exactly one cent apart
are equal or not depending on their binary representation; the constant
`RoundsDown` says for which lower amounts they are.  Tax rates are rounded to a
basis point.  Assertion numbers grow with time and stand both for the uuid and for
`asserted_at`.  In `ReviewQueue` each of candidates_for and evaluate, which issue
several queries, is one step (the registry only grows); disputes are filed in some
fixed order; a document identified by position and file name sorts before an
assertion id (true unless a file name begins with a digit).  `/reconcile` and
`/reconcile/files` ingest their two documents with the same function as
`/process`, so a two-document process request stands for them as well.  A request
without a user (no registry, no queue) has no shared state and is not modelled.

**Document views.**  In `MoneyTree` a line is what the regular expressions recognise
in it: the labels it is found under, the money words it holds, its value, and the
kind of text it is (blank, label, prose, priced row, ...).  Amounts there are whole
units, so tolerances of a cent decide nothing.  The action `ReadBlock` stands for the
text a client sends, not for a step of the code: reading is the fold
`ParseMoneyNodes`.  In `Reconciliation` a text is a model value and `NumberIn` its
first number, because that is what the code compares; weights and thresholds are the
profile's, in hundredths.  The context of a recommendation can only be given by a
library caller: `_reconcile_views` passes none, so no request of the service ever
reaches RECOMMEND_APPROVE.

**Accounts and workspaces.**  A call reads documents into `copy` and writes them back;
between two of its Firestore calls any other call, or midnight, may happen, and it may
end after any of them (`Abort`).  The key list is a function from the hashes ever
generated to their status, since hashes do not repeat.  `issued`, `charged`, `had`,
`seen`, `appointed` and `granted` are history variables that no code reads; the
properties compare the stored state with them.  `charged` counts up to the highest
limit, more decides nothing.  The tier of an account may change between any two calls
(`ChangeTier`): the webhook writes it on payment and sets it back on cancellation
(`billing.py:332`), and joining a workspace writes it too, none of them touching the
keys.  A call decides by the tier in the document it has read.  So `KeyLimit` compares
with the tiers an account has had, and not with the one it has (`KeysWithinTier`,
section 6).  Left out are the tier without limits, of which nothing can be exceeded,
and, in `Accounts`, the pool of a workspace, which is in `Workspaces`.

**Ingest.**  One instance: results and jobs outlive it, sessions do not.  A step of an
`async def` handler runs up to its next await; `await asyncio.to_thread` and the calls
of Firestore and the bucket are where others get in.  A call of storage may fail
before it took effect (`Fault`, `UploadFault`) or after (`Raise` in the action itself,
the other half of `UploadFault`).  `Far` stands for a result that is never deleted.
While the client of the bucket cannot be built (`client` is false), `store_result` and
a poll each choose the disk or the bucket for themselves (`UseLocal`,
`gcs_results.py:46-55`), and a result on the disk goes with the instance or stays
(`Crash`): `disk` holds the files there are, `wiped` remembers those that went.

**Billing.**  Paddle is modelled from how the webhook uses it: every change of a
subscription is an event with the subscription as it was then, and an event is sent
again until it is answered 200.  Its field `custom` is the tier of the checkout.

**Reconstruction.**  A line is a sample (`Lines.tla` lists them) and an indentation.
What the expressions of each stage find in a sample (tokens with their columns,
kinds, marks, key and value) was obtained by evaluating the code's own expressions on
it; everything the stages then do with those findings is modelled.  A place in a
segment stands for a line's text, so that it can be said which line survived.  A line
counts as packaged if any one of its words of three letters or digits is found in the
packaged JSON, names of fields included (`formatter.py`, `_line_represented`);
`LongerWords` gives the words of a sample, `NamesIn` the names that are one of them, and
`Written` what is in a segment's JSON.  The samples `audit` and `trail` share a word,
and one of `value` is the name of a field.  No word of one sample is part of another's,
so that the code's search for substrings is a comparison of words.  What
`NoLineVanishes` and `GrossLossIsSeen` except is how the code is: a line without a
longer word or with one that is written counts as represented, and a mixed segment is
credited with every line between the first and the last of a block (`validation.py:93`),
so that the separators and single lines in between never count as lost.
`detectors/outdated` is imported by nothing.

## 4. The runs

| run | asks | bounds, and why they are enough |
|---|---|---|
| `pair_matching` | what a verdict may rest on and how edits move it | all pairs within four edits of two originals; every branch of the classifier needs at most three disagreements |
| `registry` | what the consistency engine says of every document | two recorded and two pending documents of twelve kinds; baselines lowered to 2 and history to 3 so that limits are reached |
| `queue_process` | two concurrent `/process` requests, an order, its invoice and a scan without identity, dry or real; writes and evaluations fail, requests crash | two requests of two documents: the race of commit and evaluate is between two |
| `queue_dedupe` | three `/dedupe` requests with a reviewer; reads, filing and closing fail; refinement of `CaseLifecycle` | one invoice submitted three times: the first is disputed by the second, decided, and disputed again by the third |
| `document_view` | what the money tree, verifier, resolver and rules make of a document | up to four of 23 blocks: a plain invoice with rows, subtotal, one adjustment and total is four blocks, and so are two competing documents in one file |
| `reconciliation` | alignment, verdict and recommendation | up to two lines against up to three of six kinds (a repeated item with a third line to choose from), every header against every header, seven contexts |
| `accounts` | key limit, lookup, refusals | two calls at a time, three hashes and two tiers, of one key and request and of two, so that a change of tier moves an account past its limit either way and a key more means a revocation in between; a midnight; five mixes of traffic because all kinds at once are too many |
| `workspaces` | ownership, authority, the pool | two people, two workspaces, two calls at a time, requests of one or two units on a pool of two, a midnight; four mixes |
| `ingest` | jobs, results, consent, answers | two handlers or tasks, two texts, room for one session, so that every ingestion of another text evicts; results that expire at once or after one tick; the bucket reachable from some moment on, the disk until then |
| `billing` | agreement with Paddle | up to seven events of two subscriptions (one at a time in the orderly mixes) and two handlers that die |
| `reconstruction` | lines, order, loss | every document of up to four lines over five kinds of lines, and of two or three paragraphs over seven kinds, two with a segment that loses lines as well, beside others or for a word they share; one thread fails |
| `queue_race` | one claim of a comment, which the code does not keep | the finding, see section 6 |

`reconciliation` checks for deadlock: the loop of the alignment always ends.  The
other runs switch deadlock checking off: histories stop at their bounds, and requests,
jobs and documents end.  Requests, calls, hashes and workspaces are symmetric where the
configuration says so; no run with a temporal property of its own uses symmetry
except the action and refinement properties of the queue, whose formulas are
symmetric themselves.  Failures are enabled by the constant `Faults` in `ReviewQueue`,
because a run that has all of them at once is too large, and are always on in
`Accounts`, `Workspaces` and `Ingest`.

## 5. Fairness

`Ingest` assumes weak fairness of each handler's own steps, and nothing of clients,
clocks, expiry or crashes: the service is deployed with `--no-cpu-throttling`
(`ingest_file.py:238`), so that a background task goes on after the reply.  Fairness is
of the whole of `Work(c)`, in which failing is one of the things a step may do, so it
never forces a success.  Under it `JobsAreSettled` and `AsyncIsAnswered` hold; a crash
is answered for by `lost` in the first and by the session's disappearance in the second.
The first is about jobs whose task was spawned: an upload that failed at `create_job`
has none, and may leave a record behind (`EveryJobIsSettled`, section 6).

`Billing` assumes weak fairness of the webhook: Paddle repeats an event until it is
answered, and at most `MaxCrashes` handlers die.  `InTheEndAgreed` is about the mixes
called `Orderly`; the others are where section 6 says the code and its comments differ.

The remaining specifications state no fairness: their properties are safety
properties.

## 6. Documented, and not so

One run ends in a counterexample: two concurrent uploads open a case for the same
dispute twice (`queue_race`, `service.py:77` against lines 84 and 90).

The following are definitions marked "Documented, and not so" in their modules.  To
see a counterexample, name the definition as INVARIANT or PROPERTY in the
configuration given, with the change in brackets.

| definition | configuration | what happens |
|---|---|---|
| `EveryFindingHasItsCase` | `queue_race` [`Contents <- SameName`] | uploads of other documents under the same file names share a case (`dedupe.py:96`) |
| `DecisionsNeverSuppress` | `queue_dedupe` | a finding raised between the two writes of `add_resolution` is attached to the case that the decision closes (`service.py:86`, against `store.py:22`) |
| `SilenceMeansHistoryWasRead` | `queue_dedupe` [`DryRuns = {TRUE, FALSE}`] | a dry run whose reading of history failed says that history was evaluated (`dedupe.py:245`, against line 239) |
| `ChangeKeepsBeingRaised` | `registry` [`Contents <- TaxIds`, `MaxStored = 4`, `MaxPending = 0`] | a changed tax id, once recorded often enough, silences its own check (`store.py:23`) |
| `MissingTaxIdIsEarned` | `registry` | one earlier document with a tax id is enough to call a missing one anomalous (`consistency.py:285`, against lines 75-76 and 276) |
| `DryRunIdentical` | `registry` | the overlay's `by_reference` returns bearers and citers, the store falls back to citers only (`provider.py:112`, against line 71) |
| `CompetingValuesStayUnresolved` | `document_view` | `resolver.py:971` fills in a total although two were competing |
| `ComputedTotalIsMarked` | `document_view` | a total the role verifier filled in is not marked as computed (`resolver.py:973`) |
| `TreeNeverRegresses` | `document_view` | two subtotals and their sum are a CONFLICT to the tree and a CONFIRM to the role verifier, which is no longer asked (`resolver.py:952`) |
| `KeystoneIsExact` | `reconciliation` | two different order references with the same first number link an invoice to an order |
| `SplitsAreReported` | `reconciliation` [`Submissions <- MCCounted`] | an item billed twice and ordered once passes as a split |
| `ReorderedRowsAlign` | `reconciliation` | rows of one item and price but other quantities, listed in another order, fail the business dimension (`structural.py:16`) |
| `ApprovalRestsOnTotals` | `reconciliation` | without a total on either side the rule is skipped, the dimension passes and approval is recommended (`approval.py:16`, `verdict.py:21`) |
| `KeysWithinTier` | `accounts` | an account that goes back to a lower tier keeps its keys (`billing.py:332`, against `firestore.py:197`) |
| `RevokedStaysRevoked` | `accounts` [`Mixes <- Rotation`] | `update_key_last_used` read the list before the revocation and writes it back after it (`firestore.py:285`, against line 234) |
| `FreeRefusedMeansUsedUp` | `accounts` [`Mixes <- FreeTier`] | a count from before midnight is written over the reset record of the new day (`firestore.py:586`, against lines 561-565) |
| `PoolIsBounded` | `workspaces` | two stragglers that asked for the date before midnight reset the record of the new day (`firestore.py:392`) |
| `MembersWithinLimit` | `workspaces` [`Uids = {o1, m1, n1}`, `Tokens = {t1, t2}`, `Wids = {w1}`, `Mixes <- Joins`] | open invites are not counted, and joining does not check the limit again (`workspace.py:159`) |
| `JoinedMeansMember` | the same | of two joins that read the list at the same time one is lost |
| `RoleCountsWhereGiven` | `workspaces` | the role is a field of the user and not of the membership: given in one workspace it counts in the next |
| `EveryJobIsSettled` | `ingest` | a job whose instance dies is processing for ever, and so is one whose `create_job` took effect and then raised (`ingest_file.py:278`) |
| `AnnouncedIsServed` | `ingest` | a result put on the disk is not found once the client of the bucket can be built or the instance is gone; where it was put is recorded (`firestore.py:800`) and never read (`ingest_file.py:234`) |
| `CompleteIsFinal` | `ingest` | a lost answer of `set_job_complete` turns a delivered job into a failed one |
| `ResolvedReadsResolved` | `ingest` | a second resolution of a resolved session sets its status back |
| `PlanChangeLasts` | `billing` | the next payment brings the tier of the checkout back (`billing.py:213`) |
| `AlwaysAgreed` | `billing` | a late event puts an earlier one back; the subscription an upgrade left behind takes the tier with it when it is canceled |
| `NothingIsDropped` | `reconstruction` | a payload that is JSON is pruned, a stranded line reaches no sub-segment (against `_merge_sub_segments`, `core/engine.py:104`) |
| `DroppedIsNotCovered` | `reconstruction` | a dropped line is no gap if one of its words is written, be it in another line or as the name of a field: "Best value" vanishes beside "Total: 77" (`formatter.py:187`, against lines 178-182) |
| `GapsAreShown` | `reconstruction` | the gaps of a segment of fields, a table or a tree are in its metadata only, not in the text a human is shown |

With a failing case store (`Faults` with "file") a finding is left out of the queue
without a word in the reply (`service.py:92`); `EveryFindingHasItsCase` is therefore
checked where the case store answers.

**Other divergences met while modelling.**  `service.py:77-79` promises that
re-uploading spawns no second case, but process findings are keyed by fresh assertion
ids, so a re-upload is always a new dispute; `provider.py:264` calls a repeated append
idempotent, but ids are minted per submission; the forecast at `reconcile.py:526` counts
PO_NOT_FOUND, which the real run does not file; `_has_usable_identity`
(`reconcile.py:344`) accepts a vendor with an amount, which without currency and date
forms no key; the checksum key (`record.py:168`) is indexed and never queried;
`consistency.py:170` adds a discount and a shipping amount that no canonicalisation ever
sets; `resolver.py`'s `_type_ok` speaks of moving on to the next alias, but the first
alias with any value is the only one looked at; a positive discount without currency
marks is a CONFLICT to the role verifier; a label "Tax ID: 99" above a bare "$30" makes
it a tax; `verify_total_tree` cannot confirm a derived total although its verdict has a
branch for it; of two sections without a grand subtotal the derived total takes the last
only; the payment profile's rule has the unknown type `comparison` (`payment.py:177`)
and fails for every payment; a financial dimension whose rules were all skipped is PASS,
although `verdict.py:21` has NOT_CHECKED "never silently PASS" (`ApprovalRestsOnTotals`
above); compliance is among what approval needs (`approval.py:18`), but no gate asks for
it; near misses and splits without a matched line cannot occur, the greedy alignment
being maximal (`UnmatchedIsAbsent`).  `check_request_limit` answers an invalid or
revoked key with 429; what `consume_request` returns is ignored; `/process` charges one
unit whatever its size (`dependencies.py:46` says otherwise); deleting an account leaves
the results in the bucket; a result on the disk outlives its expiry, the file beside it
that says when is never read and `delete_result` never called; a failing synchronous
resolution leaves its session at "processing"; sessions are evicted in order of creation
where `ingest.py:25` says least recently used.  A JSON payload disappears from the
result: it is named a block of fields, packaged as text, and pruned for having no fields
(`formatter.py:450-453`); a single line before the last boundary of a segment is lost;
`matrix_uniformity` can never fail; the second try of token types in `detect_table` is
unreachable; "$4,000.00" three times reads as a CSV table of two columns; the check for
prose inside a table is never true for a block that is not empty.

## 7. The proofs

Every theorem is about any values of the constants.  What it assumes of them is the
`ASSUME` of its modules, which TLC evaluates in the runs, unless its statement says
more.

**Pairs and histories.**  `PairMatching_proofs` proves for any two documents that
BLOCK rests on number, vendor, currency and total without contradiction
(`BlockNeedsIdentity`), that the verdict is symmetric (`OrderDoesNotMatter`, from
the symmetry of every fact), that keys lose no relationship (`NothingIsLost`:
everything above LOW_CONFIDENCE that needs a person shares a number or an order), and
that an edit that relabels a document never weakens the verdict (`RelabellingIsSafe`:
losing a conflict of instruments never does).  The one assumption is that the absent
value is not the name of a kind of document.

About `RegistryHistory` the same module proves, for every history of any documents, what
the run checks on small ones.  The inductive invariant is that assertions are `Numbered`
as they were made, those of a dry run after the recorded ones; the rest is about the
lookups: what the answer to a query may contain, that a key written is a key found
(`CandidatesMeet`), and what each of the seven checks puts into a finding
(`RestsOnOthers`).  `EvidenceIsOfOthers`, `MissingOrdersAreMissing` and
`BaselinesAreWellFounded` follow.  The last is about the three findings that say a
document departs from what its vendor does (tax id, tax rate, number format): each is
held against at least `MinBaseline` other documents that agree with one another and not
with it.  The fourth finding about a vendor, MISSING_TAX_ID, is not among them, because
it is raised against one document (`MissingTaxIdIsEarned`, section 6).
`DuplicatesAreMutual` also needs that both totals are as they were read (`StatedTotal`):
a corrected total is stored, but the pair is compared with the total that was read.  It
assumes that contents are documents, that the limits of the stores are numbers, and that
a baseline takes at least one document.

**Review queue.**  `ReviewQueue_proofs` is about any number of requests, reviewers,
documents and any set of faults.  The invariant `Shape` strengthens `TypeOK` with what
each stage of a request says about its own records (its assertions are minted and,
once recorded, in the registry or the overlay; what it files exists); it is needed
because the record step only preserves the collections if fresh numbers really are
fresh.  From it follow `TypeCorrect`, `HistoryIsAppendOnly`, `DryRunsLeaveNothing`,
`DisputesAreReopened` and, step by step, `QueueImplementsLifecycle`: every step of
the queue is an Open, Decide or Close of `CaseLifecycle`, or a stutter.  The
properties that relate several requests rest on one more invariant each:

* `HistoryRead`: what a `/dedupe` request has read so far covers the documents it has
  passed, and none of it is its own; as history only grows, what was there when the
  request came in is there still.  It gives `DedupeSeesHistory`.
* `Placed` (whose assertions are in the overlay and whose in the registry) and
  `OrdersSeen`: all documents of a submission are recorded before the first is
  evaluated, unless the reply will say that something failed.  They give
  `SiblingsAreSeen`.
* `PairsSeen`: of two documents that both have been evaluated, the one evaluated last
  was evaluated when the other was in the registry, so it was compared with it.  It
  gives `NoDuplicateSlipsThrough`, for any interleaving of two real `/process`
  requests.  Like `DuplicatesAreMutual` it is about totals as they were read.
* `AllQueued`: a finding is, from the moment it is made, in the request's `found`,
  then in its `todo`, then in a case that shows the finding's own documents.  It gives
  `FindingsReachTheQueue` and `EveryFindingReachesTheQueue`, which say what they need:
  no call that files a case fails (`"file" \notin Faults`), because a failing one is
  dropped without a word (`service.py:92`); and for the second, which is the property
  of the run, no `/dedupe` is served, because its own disputes are named by position
  and file name and do share cases (section 6).  The first holds of both endpoints,
  for the findings of the consistency engine, which are named by assertions.

**Reconciliation.**  `Reconciliation_proofs` is about any two documents, any contexts
and any reading of numbers, and assumes nothing of them.  Its invariant `IInv` adds to
`TypeOK` and `OneToOne` that the matching is maximal as far as the loop has come
(`Maximal`: a candidate that has been looked at has one of its lines in the matching)
and that verdict and recommendation are what the functions give (`Derived`).  `Maximal`
is what makes `UnmatchedIsAbsent` true: without it nothing relates a leftover line to
the lines of the other document.  `ApprovalNeedsEvidence` follows the recommendation
back through the gates and the dimensions to the fields and lines: a shared identity
that agrees, the same items, every risk assessed and absent.  Of the totals it can only
say that, where both are stated, no more is billed than was ordered; that they are
stated is no condition of approval (`ApprovalRestsOnTotals`, section 6).
`QuantitiesAreCompared` uses that an item that stands once on each side can only be
matched with itself; `RecommendationIsMonotone` is a fact about `Recommend` alone.

**Document views.**  The second half of the same module is about documents of any
number of any lines; it assumes that blocks are sequences of lines, that the figure of
a money line is an integer, and that the absent value is none.  The state invariant
(`ViewInv`: the view is that of the lines, the report that of the view) is simple; the
work is an induction over the lines of a document and over the rows of a table.

* `ReadingIsLocal`: after a figure the reader has nothing pending and no hint, so what
  it makes of the lines that follow is the same whatever stood before (`ShiftedRead`,
  then `AfterFigure` by induction).
* `OverrulingIsExplained`: a rule is superseded only under a confirmed verdict; with a
  subtotal, such a verdict is the tree's and the total is its base or its base with tax
  (`ConfirmedTree`); without a deduction or shipping the base is the subtotal.
* `WrongTotalsAreSeen`: of a plain invoice the reader takes exactly the stated amounts
  (`PlainReadings`: after n lines every summary node is one of the first n lines, and
  the text pending has no word about money), so the roll-up is the sum of the stated
  parts (`PlainRollUp`).
* `HonestInvoicesPass`: besides, the nodes of the rows, the items the tree publishes
  and the first table all add up to the rows (`PlainRows`, `PlainTable`), every section
  is all the rows (`HonestSections`), and a field found by its label is the stated
  amount (`HonestField`).  The sums of the model are folds; `SumIsUnique` shows that
  such a fold does not depend on the order of its elements' choice, and `SumOfMore`
  what one element more adds.

Attempting these proofs showed four of the statements to be wrong where no bounded
document reached: shipping may be negative, and its magnitude counts; a subtotal
without a currency symbol is a subtotal to the rule and none to the tree, so the rule
may be overruled for that alone; a credit among the rows is left out of the published
items; and a figure registered under a label its text does not show can be the field's
value.  The definitions say so now (`IsPlainInvoice`, `IsClearlyLabelled`,
`SupersededIsExplained`), and blocks were added to the run.

**Accounts.**  `Accounts_proofs` is about any number of calls, users, hashes, addresses
and days; it assumes that the hashes are finitely many and that users, hashes and
addresses are told apart from one another and from the absent value.  `TypeInv` adds to
`TypeOK` what a call holds at each step (`CallOK`: which of its arguments are given
and which kind of document its copy is), without which no write preserves a type.
On it rest three invariants, each of which says of the copies what it says of the
stored documents, since a copy is what a later step stores:

* `KeyInv`: a copy about to be written holds no more active keys than some tier the
  account has had allows, the copy of a call that adds one holds fewer, and the tier in
  any copy is one of those (`TiersHad`).  `KeysAreLimited` follows; that the limit
  survives lost updates is because a list is only ever replaced by a list that was
  within it, and that it survives changes of the tier because what fits into some of
  the tiers fits into more of them (`FitsMore`).  It is not the limit of the tier the
  account has now (`KeysWithinTier`, section 6).
* `IssueInv`: lists, index, copies and arguments agree on whom a hash was generated
  for.  So the owner an index entry names is the only one who can hold the key, which
  makes the answer of `LookupOwner` the answer for all users
  (`LookupsAreLinearizable`).
* `ChargedInv`: a counter claims no more units of its day than were charged on that
  day, and a copy about to be written at most one more.  So a refusal means that the
  limit of some tier was charged on that day (`RefusalIsEarned`).

**Workspaces.**  `Workspaces_proofs` is about any number of calls, people, workspaces,
invites and days, people and calls finite because they are summed over.  `TypeInv` adds
that what is referred to exists.  `OwnerInv` adds to `OwnerStays` that a member list
about to be written back lists the owner (`OwnerNeverLost`: as with keys, a list is
replaced only by a list of which this held).  `AuthorityInv` says of a call about to
make somebody owner or admin that it may (`AuthorityNeverMadeUp`).  `PoolInv` counts
what a call has been granted and has yet to add to the breakdown (`PoolAlwaysExact`);
it is an invariant about sums of functions, each step changing one of their values.

**Jobs and sessions.**  `Ingest_proofs` is about any number of calls, texts, users and
jobs.  `JobInv` says that no two calls share a job, that a job's record is there before
its call goes on and says "processing" until its result is stored, and that what is
announced, or is about to be, is `Covered`: stored in the bucket for long enough, or
over, or on the disk, or gone with its instance.  It gives `ResultsDoNotGoMissing`:
until it expires, an announced result is where the job's record says, except for files
that went with their instance.  Whether a poll looks there is another matter
(`AnnouncedIsServed`, section 6).  `ConsentInv` says that a call about to keep something
has had consent, and gives `NothingIsKeptUnasked`; that consent is remembered although
the settings change is what the two readings of the settings need.  `StoresStayBounded`
states what no run checks: the session store and the document cache never outgrow
`MaxSessions` and `MaxCache`, hold each key once, and the store has a value for exactly
the keys its order lists.  Its invariant `StoreInv` adds that a call on its way to the
engine has a text, since its result is written back and cached under that text.  The
work is in the lemmas about the orders (`MovedKeys`, `CacheBounded`, `EvictedKeys`):
what adding, moving and evicting do to a sequence without repetitions.

**Billing.**  `Billing_proofs` is about any subscriptions and any number of events and
crashes.  The invariant `InOrder`, of the orderly mixes, is about the queue of events
not yet answered: the first can be handled from where the user is (`Ready`), each leads
to where the next can be handled from (`Follows`), and the last to where Paddle is
(`UpToDate`).  Handling an event twice leads to the same place, which is why a handler
may die anywhere.  With an empty queue the user is `InStep`, which is
`WebhookBringsAgreement`.

**Reconstruction.**  `Reconstruction_proofs` is about any texts, any number of segments
and any threads that fail.  `PipelineInv` says that every envelope stands at the place
of its segment and, once settled, holds what the segment comes to on its own; gathering
in order of place then gives `OutOfOrderIsSafe`, whatever the engine makes of a segment.

`GrossLossFailsTheCheck` opens the engine, for documents of any length.  The check
compares the number of lines the output accounts for with the number the segments had;
the theorem says that what is counted and what is lost are different lines.  Each
stage is shown to hand on places of the lines it was handed, in order and each at most
once: `SubSegment` cuts a segment into regions with different places, a block's items
and headers are places of its region, the sweep and the merging keep blocks of one
source apart, and a gap is outside every block.  So a packaged segment counts no more
lines than it holds or spans (`CountedIn`), the segments' lines are different lines of
the document, and the sums over segments are bounded by cardinalities of unions.  The
assumption on the texts has one clause the code's callers provide: a text neither
begins nor ends with an empty line (`ingestion/normalizer.py` strips it and
`core/engine.py:325` rejects one with nothing left); without it a segment may be
counted one line longer than it is.

`NothingElseVanishes` follows the stages the other way: what a stage was handed and does
not hand on is no word, or is JSON, stranded, or taken to be represented.
* `Normalize`, cutting and stripping keep the lines with a letter or digit `InStep`:
  places in one text are mapped in order onto places in the next, with the same words.
  So the segments joined say what the document says (`SegmentingKeepsWords`).
* A segment is `Tight`: it neither begins nor ends with an empty line and has no two in
  a row.  From that, no region of it is empty lines only (`PartsSaySomething`), so no
  engine packs a block without items (`PartBlocksHold`), and the cleanup, which drops
  what is empty under its type's name, drops none but JSON (`StructureKeepsWords`).
* A line of a region is a gap, unless it has no longer word or a block of the region is
  written with one of them (`GapOrRepresented`); a line in a block is the plainest case.
  The words written of a region are among those written of its segment
  (`WrittenOfModel`).  A line in no region lies behind the last boundary at
  which a run was emitted, and such a line has no open neighbour (`PairIsTaken`): it is
  `Stranded`.

Attempting to prove these two properties showed both to be wrong, as they then stood,
beyond the documents of the run: a line without a longer word vanishes beside others
(total, JSON, audit, header, notes), and a mixed segment hides a loss its blocks span
over.  The definitions say so now, and `LossyKinds` puts such segments into the run,
with others whose lines are lost for one word they share.

**Only model-checked.**  Every invariant and action property of the passing runs is a
theorem.  What is left is liveness (`JobsAreSettled`, `AsyncIsAnswered`,
`InTheEndAgreed`), which is beyond the provers used.  `OneOpenCasePerDispute` is
violated.  The library's induction theorems, which take an operator as a parameter,
cannot be used with these provers either; the inductions above are over sets instead (a
nonempty set of naturals has a least element, finite sets are well-founded by inclusion).

## 8. Not modelled, and the plan

Not modelled, because no decision or shared state depends on it: the knowledge view
(it reads what `vendor_history` reads), streaming (delivery after the fact; its one
hazard is listed), reports and adapters (formatting), health, listing, export and
preview endpoints (they only read), the limits on the size of a submission, the web
pages and scripts.  Not modelled, because it is text or files: extractors, OCR,
document partition, the regular expressions themselves, markup.  Not modelled, because
nothing calls it: `auth/stripe.py`, `invite_member`, `delete_workspace`,
`increment_workspace_usage`, `check_workspace_limit`, `get_workspace_by_owner`,
`delete_result`, `broadcast_coc`, `detectors/outdated`.  The ledger profile and the
planner for relationships of many documents are reached by no endpoint's result.

What could be added next, in this order: the purchase-order and payment profiles in
`DocumentView`; the ledger profile in `Reconciliation`.
