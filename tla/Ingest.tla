------------------------------- MODULE Ingest -------------------------------
(* Text sessions, file jobs and what is kept of them (src/api/routes         *)
(* ingest.py, ingest_file.py, process.py and document.py, storage            *)
(* gcs_results.py, the sessions and jobs of auth/firestore.py).              *)
(*                                                                           *)
(* One instance of the service, which may crash and come back with empty     *)
(* memory; the job documents, the results in the bucket and the stored       *)
(* sessions outlive it, the results on its disk need not.  A handler gives   *)
(* way where it awaits, and the rest of the world where it calls Firestore   *)
(* or the bucket: those are the steps.  Any such call may fail, after it     *)
(* took effect too.  A document is its text, an envelope its source_id, time *)
(* a counter.                                                                *)
EXTENDS Integers, Sequences, SequencesExt, FiniteSets

CONSTANTS
    Calls,        \* handlers and background tasks at the same time
    Texts,        \* source texts, named by their source_id
    Users,        \* signed-in users; None is a free client
    Jobs,         \* job ids uuid4 can come up with
    Mixes,        \* the mixes of traffic: sets of kinds of calls that arrive
    MaxSessions,  \* MAX_SESSIONS
    MaxCache,     \* MAX_CACHE
    Transient,    \* TRANSIENT_RETENTION_HOURS
    Retention,    \* retention_days
    MaxTime,      \* bound on the time that passes
    None

Settings == [enabled : BOOLEAN, auto_delete : BOOLEAN]
Job == [status : {"processing", "complete", "failed"}, until : Nat,
        path : {"bucket", "disk"} \cup {None}]
Session == [resolved : BOOLEAN, status : {"ingested", "processing", "resolved", "failed"}]

ASSUME IngestAssumption ==
    /\ MaxSessions \in Nat \ {0}
    /\ MaxCache \in Nat \ {0}
    /\ Transient \in Nat /\ Retention \in Nat /\ MaxTime \in Nat
    /\ Transient < Retention
    /\ None \notin Users \cup Texts \cup Jobs \cup Nat \cup Settings \cup Job \cup Session

VARIABLES
    mix,       \* the traffic of this behaviour
    order,     \* the keys of _session_store, oldest first
    session,   \* their values, or None
    cache,     \* the keys of _document_cache, oldest first
    account,   \* storage_settings of each user, or None
    kept,      \* users/{uid}/sessions/{source_id}
    jobs,      \* jobs/{job_id}, or None
    objects,   \* the results in the bucket: until when, or None
    client,    \* the instance has built its client of the bucket
    disk,      \* jobs whose result is a file of the instance
    wiped,     \* history: jobs whose file went with the instance
    now,       \* the clock
    at,        \* the step each call is about to take
    arg,       \* what the call is about
    consent,   \* history: the call's user had storage on at some moment of it
    unasked,   \* history: something was kept without that
    lost       \* history: jobs whose instance died or whose failure could
               \* not be recorded

memory == <<order, session, cache>>
results == <<objects, client, disk, wiped>>
database == <<account, kept, jobs, results>>
history == <<unasked, lost>>
vars == <<mix, memory, database, now, at, arg, consent, history>>

NoArg == [kind |-> None, text |-> None, user |-> None, job |-> None, settings |-> None,
          until |-> 0, path |-> None]
Far == MaxTime + Retention + 1

Init ==
    /\ mix \in Mixes
    /\ order = <<>> /\ cache = <<>>
    /\ session = [t \in Texts |-> None]
    /\ account \in [Users -> Settings]
    /\ kept = [u \in Users |-> {}]
    /\ jobs = [j \in Jobs |-> None]
    /\ objects = [j \in Jobs |-> None]
    /\ client = FALSE /\ disk = {} /\ wiped = {}
    /\ now = 0
    /\ at = [c \in Calls |-> "idle"]
    /\ arg = [c \in Calls |-> NoArg]
    /\ consent = [c \in Calls |-> FALSE]
    /\ unasked = FALSE
    /\ lost = {}

-----------------------------------------------------------------------------
(* The two caches of the instance *)

(* _evict_if_needed leaves room for one. *)
Evicted(keys) ==
    SubSeq(keys, IF Len(keys) >= MaxSessions THEN Len(keys) - MaxSessions + 2 ELSE 1, Len(keys))

(* The store after an assignment under key t: a key that is still there      *)
(* keeps its place.                                                          *)
Assigned(keys, t) == IF Contains(keys, t) THEN keys ELSE Append(keys, t)

StoreSession(t, entry) ==
    LET keys == Assigned(Evicted(order), t) IN
    /\ order' = keys
    /\ session' = [s \in Texts |-> IF s = t THEN entry
                                   ELSE IF Contains(keys, s) THEN session[s] ELSE None]

(* A dictionary has a key once. *)
MovedToEnd(keys, t) == Append(RemoveFirst(keys, t), t)

store_coc(t) ==
    LET keys == MovedToEnd(cache, t) IN
    cache' = IF Len(keys) > MaxCache THEN Tail(keys) ELSE keys

-----------------------------------------------------------------------------
(* Bookkeeping of a call *)

Enabled(settings, u) == u # None /\ settings[u] # None /\ settings[u].enabled

Step(c, from, to) == at[c] = from /\ at' = [at EXCEPT ![c] = to]
End(c, from) == Step(c, from, "idle") /\ arg' = [arg EXCEPT ![c] = NoArg]

Begin(c, to, a) ==
    /\ a.kind \in mix
    /\ Step(c, "idle", to)
    /\ arg' = [arg EXCEPT ![c] = a]

(* faulty variant: an asynchronous failure is not recorded. *)
RaiseSilently(c) ==
    /\ \/ arg[c].kind = "file" /\ at' = [at EXCEPT ![c] = "fail"] /\ UNCHANGED arg
       \/ arg[c].kind # "file" /\ End(c, at[c])
    /\ UNCHANGED memory

(* A handler with an exception: a file job goes on to record its failure, an *)
(* asynchronous resolution records it in the session if that is still there, *)
(* everything else ends with a 500.                                          *)
Raise(c) ==
    /\ \/ /\ arg[c].kind = "file"
          /\ at' = [at EXCEPT ![c] = "fail"]
          /\ UNCHANGED <<arg, session>>
       \/ /\ arg[c].kind # "file"
          /\ End(c, at[c])
          /\ session' = IF arg[c].kind = "async" /\ session[arg[c].text] # None
                        THEN [session EXCEPT ![arg[c].text].status = "failed"] ELSE session
    /\ UNCHANGED <<order, cache>>

-----------------------------------------------------------------------------
(* POST /ingest, /resolve and /process *)

IngestText(c) ==
    \E t \in Texts :
        /\ "ingest" \in mix /\ at[c] = "idle"
        /\ IF session[t] # None
           THEN order' = MovedToEnd(order, t) /\ UNCHANGED session
           ELSE StoreSession(t, [resolved |-> FALSE, status |-> "ingested"])
        /\ UNCHANGED <<cache, database, now, at, arg, history>>

Processing(t) == session' = [session EXCEPT ![t].status = "processing"]

(* An unknown session is answered 404, a resolved one from the cache.  The   *)
(* synchronous kind runs on to the engine without giving way, the            *)
(* asynchronous one leaves a task behind.                                    *)
Resolve(c) ==
    \E t \in Texts, u \in Users \cup {None}, kind \in {"sync", "async"} :
        /\ Begin(c, IF kind = "sync" THEN "engine" ELSE "run",
                 [NoArg EXCEPT !.kind = kind, !.text = t, !.user = u])
        /\ session[t] # None /\ ~session[t].resolved
        /\ Processing(t)
        /\ UNCHANGED <<order, cache, database, now, history>>

(* The task begins, and dies when the session has been evicted meanwhile.    *)
RunPipeline(c) ==
    LET t == arg[c].text IN
    \/ /\ Step(c, "run", "engine")
       /\ session[t] # None
       /\ Processing(t)
       /\ UNCHANGED <<order, cache, database, now, arg, history>>
    \/ /\ End(c, "run")
       /\ session[t] = None
       /\ UNCHANGED <<memory, database, now, history>>

Process(c) ==
    \E t \in Texts :
        /\ Begin(c, "engine", [NoArg EXCEPT !.kind = "process", !.text = t])
        /\ UNCHANGED <<memory, database, now, history>>

AfterEngine(c) == IF arg[c].kind # "process" /\ arg[c].user # None THEN "persist" ELSE "charge"

Resolved == [resolved |-> TRUE, status |-> "resolved"]

(* The engine answers: the session is resolved where it stands.  It raises   *)
(* when the session is gone.                                                 *)
EngineText(c) ==
    LET t == arg[c].text IN
    /\ at[c] = "engine" /\ arg[c].kind \in {"sync", "async"}
    /\ \/ /\ session[t] # None
          /\ Step(c, "engine", AfterEngine(c))
          /\ session' = [session EXCEPT ![t] = Resolved]
          /\ store_coc(t)
          /\ UNCHANGED <<order, arg>>
       \/ session[t] = None /\ Raise(c)
    /\ UNCHANGED <<database, now, history>>

EngineProcess(c) ==
    /\ arg[c].kind = "process"
    /\ Step(c, "engine", AfterEngine(c))
    /\ store_coc(arg[c].text)
    /\ UNCHANGED <<order, session, database, now, arg, history>>

-----------------------------------------------------------------------------
(* POST /ingest/file: the upload, and the background job *)

Upload(c) ==
    \E u \in Users \cup {None}, j \in Jobs :
        /\ jobs[j] = None /\ \A d \in Calls : arg[d].job # j
        /\ Begin(c, "create", [NoArg EXCEPT !.kind = "file", !.user = u, !.job = j])
        /\ UNCHANGED <<memory, database, now, history>>

Created(j) ==
    [jobs EXCEPT ![j] = [status |-> "processing", until |-> 0, path |-> None]]

(* The job is recorded before its task is spawned and its id handed out.     *)
create_job(c) ==
    /\ Step(c, "create", "extract")
    /\ jobs' = Created(arg[c].job)
    /\ UNCHANGED <<memory, account, kept, results, now, arg, history>>

(* Extraction and partition; what cannot be read is answered 422 (Fault). *)
Extract(c) ==
    \E t \in Texts :
        /\ Step(c, "extract", "engine")
        /\ arg' = [arg EXCEPT ![c].text = t]
        /\ UNCHANGED <<memory, database, now, history>>

(* The session of a file is stored resolved; an older one may be evicted     *)
(* even if the text has its session already.                                 *)
EngineFile(c) ==
    /\ arg[c].kind = "file"
    /\ Step(c, "engine", AfterEngine(c))
    /\ store_coc(arg[c].text)
    /\ StoreSession(arg[c].text, Resolved)
    /\ UNCHANGED <<database, now, arg, history>>

-----------------------------------------------------------------------------
(* What is kept: store_session, the charge, the result and its job *)

(* faulty variant: whoever has an account has storage. *)
StorageAnyway(settings) == settings # None

StorageOn(settings) == settings # None /\ settings.enabled

StoreSessionRead(c) ==
    /\ Step(c, "persist",
            IF StorageOn(account[arg[c].user]) THEN "persist_write" ELSE "charge")
    /\ UNCHANGED <<memory, database, now, arg, history>>

StoreSessionWrite(c) ==
    LET u == arg[c].user IN
    /\ at[c] = "persist_write"
    /\ kept' = [kept EXCEPT ![u] = @ \cup {arg[c].text}]
    /\ unasked' = (unasked \/ ~consent[c])
    /\ \/ Step(c, "persist_write", "charge") /\ UNCHANGED <<memory, arg>>
       \/ Raise(c)
    /\ UNCHANGED <<account, jobs, results, now, lost>>

(* consume_request answers whatever happens; then a text is done, and a file *)
(* asks for the settings its result is to be kept by.                        *)
Charge(c) ==
    /\ \/ End(c, "charge") /\ arg[c].kind # "file"
       \/ /\ Step(c, "charge", "store")
          /\ arg[c].kind = "file"
          /\ \E read \in BOOLEAN :
                arg' = [arg EXCEPT ![c].settings =
                    IF read /\ arg[c].user # None THEN account[arg[c].user] ELSE None]
    /\ UNCHANGED <<memory, database, now, history>>

compute_expiry(settings) ==
    IF ~StorageOn(settings) THEN now + Transient
    ELSE IF settings.auto_delete THEN now + Retention ELSE Far

(* _use_local: whether a result goes to, or is looked for on, the disk.  The  *)
(* client is built once; while that fails, the disk stands in.               *)
UseLocal == IF client THEN {FALSE} ELSE BOOLEAN

StoreResult(c) ==
    LET until == compute_expiry(arg[c].settings) IN
    /\ at[c] = "store"
    /\ \E local \in UseLocal :
          /\ client' = ~local
          /\ disk' = IF local THEN disk \cup {arg[c].job} ELSE disk
          /\ objects' = IF local THEN objects ELSE [objects EXCEPT ![arg[c].job] = until]
          /\ \/ /\ Step(c, "store", "complete")
                /\ arg' = [arg EXCEPT ![c].until = until,
                                      ![c].path = IF local THEN "disk" ELSE "bucket"]
                /\ UNCHANGED memory
             \/ Raise(c)
    /\ unasked' = (unasked \/ (until > now + Transient /\ ~consent[c]))
    /\ UNCHANGED <<account, kept, jobs, wiped, now, lost>>

set_job_complete(c) ==
    /\ at[c] = "complete"
    /\ jobs' = [jobs EXCEPT ![arg[c].job] =
                   [status |-> "complete", until |-> arg[c].until, path |-> arg[c].path]]
    /\ \/ End(c, "complete") /\ UNCHANGED memory
       \/ Raise(c)
    /\ UNCHANGED <<account, kept, results, now, history>>

(* It may fail as well, and nobody is told. *)
set_job_failed(c) ==
    LET j == arg[c].job IN
    /\ End(c, "fail")
    /\ \/ jobs' = [jobs EXCEPT ![j].status = "failed"] /\ UNCHANGED lost
       \/ lost' = lost \cup {j} /\ UNCHANGED jobs
    /\ UNCHANGED <<memory, account, kept, results, now, unasked>>

(* faulty variant: only what happens up to the engine is guarded. *)
FaultUnguarded(c) ==
    /\ at[c] \in {"extract", "engine", "persist", "persist_write", "store", "complete"}
    /\ IF at[c] \in {"store", "complete"} THEN End(c, at[c]) /\ UNCHANGED memory ELSE Raise(c)
    /\ UNCHANGED <<database, now, history>>

(* faulty variant: a failing upload of the result does not stop the job. *)
FaultSwallowed(c) ==
    /\ at[c] \in {"extract", "engine", "persist", "persist_write", "store", "complete"}
    /\ IF at[c] = "store"
       THEN /\ Step(c, "store", "complete") /\ UNCHANGED memory
            /\ arg' = [arg EXCEPT ![c].until = now + Transient, ![c].path = "bucket"]
       ELSE Raise(c)
    /\ UNCHANGED <<database, now, history>>

(* A step that fails before it takes effect, but for the client it may have  *)
(* built.                                                                    *)
Fault(c) ==
    /\ at[c] \in {"extract", "engine", "persist", "persist_write", "store", "complete"}
    /\ Raise(c)
    /\ client' \in {client, client \/ at[c] = "store"}
    /\ UNCHANGED <<account, kept, jobs, objects, disk, wiped, now, history>>

(* create_job raises, before or after the job was recorded: nothing is        *)
(* spawned and nothing handed out.                                           *)
UploadFault(c) ==
    /\ End(c, "create")
    /\ jobs' \in {jobs, Created(arg[c].job)}
    /\ UNCHANGED <<memory, account, kept, results, now, history>>

-----------------------------------------------------------------------------
(* GET /ingest/file/job/{job_id}: what a poll is answered, where the result  *)
(* is looked for on the disk or in the bucket.                               *)
Standing(j) ==
    IF jobs[j] = None THEN "unknown"
    ELSE IF jobs[j].status # "complete" THEN jobs[j].status
    ELSE IF now > jobs[j].until THEN "expired" ELSE "complete"

Found(j, local) == IF local THEN j \in disk ELSE objects[j] # None

poll(j, local) ==
    IF Standing(j) # "complete" THEN Standing(j)
    ELSE IF Found(j, local) THEN "result" ELSE "gone"

(* A poll of a finished job builds the client if it can. *)
Poll ==
    /\ ~client
    /\ \E j \in Jobs : Standing(j) = "complete"
    /\ client' = TRUE
    /\ UNCHANGED <<memory, account, kept, jobs, objects, disk, wiped, now, at, arg, history>>

-----------------------------------------------------------------------------
(* The world around *)

(* update_storage_settings; the bucket's lifecycle removes what has expired. *)
ChangeSettings ==
    \E u \in Users, s \in Settings :
        /\ "settings" \in mix
        /\ account[u] # None /\ account[u] # s
        /\ account' = [account EXCEPT ![u] = s]
        /\ UNCHANGED <<memory, kept, jobs, results, now, at, arg, history>>

DeleteSessions ==
    \E u \in Users :
        /\ "delete" \in mix
        /\ kept[u] # {}
        /\ kept' = [kept EXCEPT ![u] = {}]
        /\ UNCHANGED <<memory, account, jobs, results, now, at, arg, history>>

(* The last step of delete_account; the sessions have been deleted before.   *)
DeleteAccount ==
    \E u \in Users :
        /\ "delete" \in mix
        /\ account[u] # None
        /\ account' = [account EXCEPT ![u] = None]
        /\ UNCHANGED <<memory, kept, jobs, results, now, at, arg, history>>

Purge ==
    \E j \in Jobs :
        /\ objects[j] # None
        /\ now > objects[j]
        /\ objects' = [objects EXCEPT ![j] = None]
        /\ UNCHANGED <<memory, account, kept, jobs, client, disk, wiped, now, at, arg, history>>

Tick ==
    /\ "time" \in mix
    /\ now < MaxTime
    /\ now' = now + 1
    /\ UNCHANGED <<memory, database, at, arg, history>>

(* An instance goes away, at work or idle, with its files or without. *)
Crash ==
    /\ order' = <<>> /\ cache' = <<>>
    /\ session' = [t \in Texts |-> None]
    /\ at' = [c \in Calls |-> "idle"]
    /\ arg' = [c \in Calls |-> NoArg]
    /\ client' = FALSE
    /\ \E left \in {disk, {}} : disk' = left /\ wiped' = wiped \cup (disk \ left)
    /\ lost' = lost \cup {j \in Jobs : jobs[j] # None /\ \E c \in Calls : arg[c].job = j}
    /\ UNCHANGED <<account, kept, jobs, objects, now, unasked>>

(* Whether the user of each call has had storage on while it ran. *)
Watch ==
    consent' = [c \in Calls |->
        LET u == arg'[c].user IN
        at'[c] # "idle" /\ (consent[c] \/ Enabled(account, u) \/ Enabled(account', u))]

Arrive(c) == IngestText(c) \/ Resolve(c) \/ Process(c) \/ Upload(c)

Work(c) ==
    \/ RunPipeline(c) \/ EngineText(c) \/ EngineProcess(c)
    \/ create_job(c) \/ Extract(c) \/ EngineFile(c)
    \/ StoreSessionRead(c) \/ StoreSessionWrite(c) \/ Charge(c)
    \/ StoreResult(c) \/ set_job_complete(c) \/ set_job_failed(c)
    \/ Fault(c) \/ UploadFault(c)

World == Poll \/ ChangeSettings \/ DeleteSessions \/ DeleteAccount \/ Purge \/ Tick \/ Crash

Next ==
    /\ \/ \E c \in Calls : Arrive(c) \/ Work(c)
       \/ World
    /\ Watch
    /\ UNCHANGED mix

(* A handler or a task that has begun goes on: the CPU stays allocated after *)
(* the reply ("--no-cpu-throttling", ingest_file.py:238).                    *)
Progress(c) == Work(c) /\ Watch /\ UNCHANGED mix

Spec == Init /\ [][Next]_vars /\ \A c \in Calls : WF_vars(Progress(c))

-----------------------------------------------------------------------------
(* Every variable keeps its type. *)
TypeOK ==
    /\ mix \in Mixes
    /\ order \in Seq(Texts) /\ cache \in Seq(Texts)
    /\ session \in [Texts -> {None} \cup Session]
    /\ account \in [Users -> {None} \cup Settings]
    /\ kept \in [Users -> SUBSET Texts]
    /\ jobs \in [Jobs -> {None} \cup Job]
    /\ objects \in [Jobs -> {None} \cup Nat]
    /\ client \in BOOLEAN
    /\ disk \subseteq Jobs /\ wiped \subseteq Jobs
    /\ now \in 0 .. MaxTime
    /\ at \in [Calls -> STRING]
    /\ consent \in [Calls -> BOOLEAN]
    /\ unasked \in BOOLEAN
    /\ lost \subseteq Jobs

(* A result that is announced is, until it expires, where the record of its  *)
(* job says it was put, after whatever failures and crashes; only a file     *)
(* goes with its instance.  Whether a poll looks there is another matter     *)
(* (AnnouncedIsServed).                                                      *)
(* (set_job_complete, store_result, get_result_stream)                       *)
NoResultGoesMissing ==
    \A j \in Jobs :
        jobs[j] # None /\ j \notin wiped => poll(j, jobs[j].path = "disk") # "gone"

(* Nothing of a document is put away to be kept longer than its delivery     *)
(* takes, unless its owner had storage on while it was processed.  The       *)
(* settings are read twice and may change in between (store_session,         *)
(* store_result).                                                            *)
NothingKeptUnasked == ~unasked

Settled(j) == Standing(j) \notin {"unknown", "processing"}
Pending(t) == session[t] # None /\ session[t].status = "processing"

(* Every job whose task was spawned is settled, unless its instance crashed  *)
(* or its failure could not be recorded either.  A job whose upload failed   *)
(* is not among them: its record may stay, with no task (UploadFault).       *)
(* (_background_process)                                                     *)
Spawned(j) == \E c \in Calls : at[c] = "extract" /\ arg[c].job = j
JobsAreSettled ==
    \A j \in Jobs : Spawned(j) ~> Settled(j) \/ j \in lost

(* A client that polls an asynchronous resolution gets past "processing",    *)
(* although the session may be evicted and ingested again, resolved twice at *)
(* a time, or lost.  Synchronous requests leave it there when they fail.     *)
AsyncIsAnswered ==
    "sync" \notin mix =>
        \A t \in Texts : Pending(t) ~> ~Pending(t)

-----------------------------------------------------------------------------
(* Documented, and not so *)

(* "any failure is recorded as a failed job" (ingest_file.py:278): a job      *)
(* whose instance dies is processing for ever, and so is one whose create_job *)
(* took effect and then raised.                                              *)
EveryJobIsSettled ==
    \A j \in Jobs : jobs[j] # None ~> Settled(j)

(* "any autoscaled instance can serve the poll" (ingest_file.py:234), and     *)
(* "record where its result is stored" (firestore.py:800): nothing reads the *)
(* record.  A poll decides on its own where to look, and what was put on the *)
(* disk is not found once the client can be built, or the instance is gone.  *)
AnnouncedIsServed == \A j \in Jobs, local \in UseLocal : poll(j, local) # "gone"

(* A job that is complete does not fail any more: it does when the answer to *)
(* set_job_complete is lost, after a client has had its result.              *)
CompleteIsFinal ==
    [][\A j \in Jobs : jobs[j] # None /\ jobs[j].status = "complete"
            => jobs'[j].status # "failed"]_vars

(* A session that is resolved never reads "processing" or "failed" again. *)
ResolvedReadsResolved ==
    \A t \in Texts :
        session[t] # None /\ session[t].resolved => session[t].status = "resolved"
=============================================================================
