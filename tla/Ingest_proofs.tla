---------------------------- MODULE Ingest_proofs ----------------------------
(* Proofs about Ingest, for any number of calls, texts, users and jobs: no   *)
(* announced result is missing, nothing is kept that its owner did not ask   *)
(* to have kept, and the session store and the document cache stay within    *)
(* their bounds, with the keys of the one in step with its values.           *)
EXTENDS Ingest, SequenceTheorems, TLAPS

-----------------------------------------------------------------------------
Steps == {"idle", "run", "engine", "create", "extract", "persist", "persist_write", "charge",
          "store", "complete", "fail"}
Kinds == {"sync", "async", "process", "file"}
Args == [kind : Kinds \cup {None}, text : Texts \cup {None}, user : Users \cup {None},
         job : Jobs \cup {None}, settings : Settings \cup {None}, until : Nat,
         path : {"bucket", "disk"} \cup {None}]

TypeInv ==
    /\ account \in [Users -> {None} \cup Settings]
    /\ jobs \in [Jobs -> {None} \cup Job]
    /\ objects \in [Jobs -> {None} \cup Nat]
    /\ now \in Nat
    /\ at \in [Calls -> Steps]
    /\ arg \in [Calls -> Args]

(* The result of job j is where it was put until t at least, or t is over;   *)
(* a file, unless its instance is gone.                                      *)
Covered(j, path, t) ==
    IF path = "disk" THEN j \in disk \cup wiped
    ELSE IF objects[j] = None THEN now > t ELSE objects[j] >= t

Undone == {"extract", "engine", "persist", "persist_write", "charge", "store", "complete"}

(* A call of a job has recorded it before it goes on, and its record says    *)
(* "processing" until the result is there.                                   *)
JobCall(c) ==
    /\ at[c] = "idle" => arg[c].job = None
    /\ at[c] \in {"create", "extract", "store", "complete", "fail"} => arg[c].kind = "file"
    /\ at[c] = "run" => arg[c].kind = "async"
    /\ at[c] # "idle" => (arg[c].job # None <=> arg[c].kind = "file")
    /\ arg[c].job # None /\ at[c] # "create" => jobs[arg[c].job] # None
    /\ arg[c].job # None /\ at[c] \in Undone => jobs[arg[c].job].status = "processing"
    /\ at[c] = "complete" => Covered(arg[c].job, arg[c].path, arg[c].until)

(* No two calls work on one job. *)
Distinct == \A c, d \in Calls : c # d /\ arg[c].job # None => arg[c].job # arg[d].job

Announced ==
    \A j \in Jobs : jobs[j] # None /\ jobs[j].status = "complete" => Covered(j, jobs[j].path, jobs[j].until)

JobInv == Distinct /\ Announced /\ \A c \in Calls : JobCall(c)

(* A call about to keep something has had its user's consent. *)
Consented(c) ==
    /\ at[c] \in {"persist", "persist_write"} => arg[c].user # None
    /\ at[c] = "persist_write" => consent[c]
    /\ at[c] = "store" /\ StorageOn(arg[c].settings) => consent[c]

ConsentInv == ~unasked /\ \A c \in Calls : Consented(c)

(* A call goes from one step to the next, and the others stand where they    *)
(* stood.                                                                    *)
LEMMA OthersStand ==
    ASSUME TypeInv, NEW c \in Calls, Arrive(c) \/ Work(c)
    PROVE  \A d \in Calls \ {c} : at'[d] = at[d] /\ arg'[d] = arg[d]
<1> USE DEF TypeInv, Step, End, memory, database, results, history
<1>1. CASE IngestText(c)
  BY <1>1 DEF IngestText
<1>2. CASE Resolve(c)
  BY <1>2 DEF Resolve, Begin, Processing
<1>3. CASE Process(c)
  BY <1>3 DEF Process, Begin
<1>4. CASE Upload(c)
  BY <1>4 DEF Upload, Begin
<1>5. CASE RunPipeline(c)
  BY <1>5 DEF RunPipeline, Processing
<1>6. CASE EngineText(c)
  BY <1>6 DEF EngineText, AfterEngine, Raise
<1>7. CASE EngineProcess(c)
  BY <1>7 DEF EngineProcess, AfterEngine
<1>8. CASE create_job(c)
  BY <1>8 DEF create_job
<1>9. CASE Extract(c)
  BY <1>9 DEF Extract
<1>10. CASE EngineFile(c)
  BY <1>10 DEF EngineFile, AfterEngine
<1>11. CASE StoreSessionRead(c)
  BY <1>11 DEF StoreSessionRead
<1>12. CASE StoreSessionWrite(c)
  BY <1>12 DEF StoreSessionWrite, Raise
<1>13. CASE Charge(c)
  BY <1>13 DEF Charge
<1>14. CASE StoreResult(c)
  BY <1>14 DEF StoreResult, Raise
<1>15. CASE set_job_complete(c)
  BY <1>15 DEF set_job_complete, Raise
<1>16. CASE set_job_failed(c)
  BY <1>16 DEF set_job_failed
<1>17. CASE Fault(c)
  BY <1>17 DEF Fault, Raise
<1>18. CASE UploadFault(c)
  BY <1>18 DEF UploadFault
<1> QED
  BY <1>1, <1>2, <1>3, <1>4, <1>5, <1>6, <1>7, <1>8, <1>9, <1>10, <1>11, <1>12, <1>13,
     <1>14, <1>15, <1>16, <1>17, <1>18 DEF Arrive, Work

(* The arguments of a call stay arguments when one of them is changed. *)
LEMMA ArgsUpdated ==
    /\ NoArg \in Args
    /\ \A a \in Args :
          /\ \A t \in Texts : [a EXCEPT !.text = t] \in Args
          /\ \A s \in Settings \cup {None} : [a EXCEPT !.settings = s] \in Args
          /\ \A n \in Nat, p \in {"bucket", "disk"} : [a EXCEPT !.until = n, !.path = p] \in Args
    /\ \A k \in Kinds, t \in Texts, u \in Users \cup {None} :
          /\ [NoArg EXCEPT !.kind = k, !.text = t, !.user = u] \in Args
          /\ [NoArg EXCEPT !.kind = k, !.text = t] \in Args
    /\ \A u \in Users \cup {None}, j \in Jobs :
          [NoArg EXCEPT !.kind = "file", !.user = u, !.job = j] \in Args
BY ZenonT(60) DEF Args, NoArg, Kinds

(* The time a result is kept is a number, whatever the settings say.       *)
LEMMA Expiry ==
    ASSUME TypeInv, NEW settings
    PROVE  compute_expiry(settings) \in Nat
BY IngestAssumption DEF TypeInv, compute_expiry, Far

(* What a call stores and holds keeps its type. *)
LEMMA TypesKept ==
    ASSUME TypeInv, JobInv, NEW c \in Calls, Arrive(c) \/ Work(c)
    PROVE  TypeInv'
<1> USE DEF TypeInv, JobInv, Steps, Step, End, memory, database, results, history
<1>1. CASE IngestText(c)
  <2>1. /\ UNCHANGED <<account, jobs, objects, disk, wiped, now>> /\ at' \in [Calls -> Steps]
        /\ arg' = arg \/ arg' = [arg EXCEPT ![c] = NoArg]
    BY <1>1 DEF IngestText
  <2> QED BY <2>1, ArgsUpdated
<1>2. CASE Resolve(c)
  <2>1. PICK t \in Texts, u \in Users \cup {None}, kind \in {"sync", "async"} :
          Begin(c, IF kind = "sync" THEN "engine" ELSE "run",
                [NoArg EXCEPT !.kind = kind, !.text = t, !.user = u])
    BY <1>2 DEF Resolve
  <2>2. [NoArg EXCEPT !.kind = kind, !.text = t, !.user = u] \in Args
    BY ArgsUpdated DEF Kinds
  <2>3. UNCHANGED <<account, jobs, objects, disk, wiped, now>>
    BY <1>2 DEF Resolve
  <2> QED BY <2>1, <2>2, <2>3 DEF Begin
<1>3. CASE Process(c)
  <2>1. PICK t \in Texts : Begin(c, "engine", [NoArg EXCEPT !.kind = "process", !.text = t])
    BY <1>3 DEF Process
  <2>2. [NoArg EXCEPT !.kind = "process", !.text = t] \in Args
    BY ArgsUpdated DEF Kinds
  <2>3. UNCHANGED <<account, jobs, objects, disk, wiped, now>>
    BY <1>3 DEF Process
  <2> QED BY <2>1, <2>2, <2>3 DEF Begin
<1>4. CASE Upload(c)
  <2>1. PICK u \in Users \cup {None}, j \in Jobs :
          Begin(c, "create", [NoArg EXCEPT !.kind = "file", !.user = u, !.job = j])
    BY <1>4 DEF Upload
  <2>2. [NoArg EXCEPT !.kind = "file", !.user = u, !.job = j] \in Args
    BY ArgsUpdated
  <2>3. UNCHANGED <<account, jobs, objects, disk, wiped, now>>
    BY <1>4 DEF Upload
  <2> QED BY <2>1, <2>2, <2>3 DEF Begin
<1>5. CASE RunPipeline(c)
  <2>1. /\ UNCHANGED <<account, jobs, objects, disk, wiped, now>> /\ at' \in [Calls -> Steps]
        /\ arg' = arg \/ arg' = [arg EXCEPT ![c] = NoArg]
    BY <1>5 DEF RunPipeline, Processing
  <2> QED BY <2>1, ArgsUpdated
<1>6. CASE EngineText(c)
  <2>1. /\ UNCHANGED <<account, jobs, objects, disk, wiped, now>> /\ at' \in [Calls -> Steps]
        /\ arg' = arg \/ arg' = [arg EXCEPT ![c] = NoArg]
    BY <1>6 DEF EngineText, AfterEngine, Raise
  <2> QED BY <2>1, ArgsUpdated
<1>7. CASE EngineProcess(c)
  <2>1. /\ UNCHANGED <<account, jobs, objects, disk, wiped, now>> /\ at' \in [Calls -> Steps]
        /\ arg' = arg \/ arg' = [arg EXCEPT ![c] = NoArg]
    BY <1>7 DEF EngineProcess, AfterEngine
  <2> QED BY <2>1, ArgsUpdated
<1>8. CASE create_job(c)
  <2> DEFINE new == [status |-> "processing", until |-> 0, path |-> None]
  <2>1. new \in Job
    BY DEF Job
  <2>2. jobs' = [jobs EXCEPT ![arg[c].job] = new]
    BY <1>8 DEF create_job, Created
  <2>3. UNCHANGED <<account, objects, disk, wiped, now, arg>> /\ at' = [at EXCEPT ![c] = "extract"]
    BY <1>8 DEF create_job
  <2> HIDE DEF new
  <2> QED BY <2>1, <2>2, <2>3
<1>9. CASE Extract(c)
  <2>1. PICK t \in Texts : arg' = [arg EXCEPT ![c].text = t] /\ Step(c, "extract", "engine")
    BY <1>9 DEF Extract
  <2>2. arg[c] \in Args /\ [arg[c] EXCEPT !.text = t] \in Args
    BY ArgsUpdated
  <2>3. UNCHANGED <<account, jobs, objects, disk, wiped, now>>
    BY <1>9 DEF Extract
  <2> QED BY <2>1, <2>2, <2>3
<1>10. CASE EngineFile(c)
  <2>1. /\ UNCHANGED <<account, jobs, objects, disk, wiped, now>> /\ at' \in [Calls -> Steps]
        /\ arg' = arg \/ arg' = [arg EXCEPT ![c] = NoArg]
    BY <1>10 DEF EngineFile, AfterEngine
  <2> QED BY <2>1, ArgsUpdated
<1>11. CASE StoreSessionRead(c)
  <2>1. /\ UNCHANGED <<account, jobs, objects, disk, wiped, now>> /\ at' \in [Calls -> Steps]
        /\ arg' = arg \/ arg' = [arg EXCEPT ![c] = NoArg]
    BY <1>11 DEF StoreSessionRead
  <2> QED BY <2>1, ArgsUpdated
<1>12. CASE StoreSessionWrite(c)
  <2>1. /\ UNCHANGED <<account, jobs, objects, disk, wiped, now>> /\ at' \in [Calls -> Steps]
        /\ arg' = arg \/ arg' = [arg EXCEPT ![c] = NoArg]
    BY <1>12 DEF StoreSessionWrite, Raise
  <2> QED BY <2>1, ArgsUpdated
<1>13. CASE Charge(c)
  <2>1. UNCHANGED <<account, jobs, objects, disk, wiped, now>>
    BY <1>13 DEF Charge
  <2>2. CASE End(c, "charge")
    BY <2>1, <2>2, ArgsUpdated
  <2>3. CASE ~End(c, "charge")
    <3>1. Step(c, "charge", "store")
      BY <1>13, <2>3 DEF Charge
    <3>2. PICK read \in BOOLEAN : arg' = [arg EXCEPT ![c].settings =
              IF read /\ arg[c].user # None THEN account[arg[c].user] ELSE None]
      BY <1>13, <2>3 DEF Charge
    <3>3. arg[c] \in Args /\ (arg[c].user \in Users \/ arg[c].user = None)
      BY DEF Args
    <3>4. PICK s \in Settings \cup {None} : arg' = [arg EXCEPT ![c].settings = s]
      BY <3>2, <3>3
    <3>5. [arg[c] EXCEPT !.settings = s] \in Args
      BY <3>3, ArgsUpdated
    <3> QED BY <2>1, <3>1, <3>4, <3>5
  <2> QED BY <2>2, <2>3
<1>14. CASE StoreResult(c)
  <2> DEFINE until == compute_expiry(arg[c].settings)
  <2>1. /\ until \in Nat /\ NoArg \in Args /\ arg[c] \in Args
        /\ \A place \in {"bucket", "disk"} : [arg[c] EXCEPT !.until = until, !.path = place] \in Args
    BY Expiry, ArgsUpdated
  <2>2. /\ objects' = objects \/ objects' = [objects EXCEPT ![arg[c].job] = until]
        /\ UNCHANGED <<account, jobs, now>>
    BY <1>14 DEF StoreResult
  <2>3. \/ /\ at' = [at EXCEPT ![c] = "complete"]
           /\ \E place \in {"bucket", "disk"} :
                 arg' = [arg EXCEPT ![c].until = until, ![c].path = place]
        \/ at' = [at EXCEPT ![c] = "fail"] /\ UNCHANGED arg
        \/ at' = [at EXCEPT ![c] = "idle"] /\ arg' = [arg EXCEPT ![c] = NoArg]
    BY <1>14 DEF StoreResult, Raise
  <2> HIDE DEF until
  <2>4. account' \in [Users -> {None} \cup Settings] /\ jobs' \in [Jobs -> {None} \cup Job] /\ now' \in Nat
    BY <2>2
  <2>5. objects' \in [Jobs -> {None} \cup Nat]
    BY <2>1, <2>2
  <2>6. at' \in [Calls -> Steps] /\ arg' \in [Calls -> Args]
    <3>1. ASSUME NEW place \in {"bucket", "disk"},
                 arg' = [arg EXCEPT ![c].until = until, ![c].path = place]
          PROVE  arg' \in [Calls -> Args]
      <4>1. arg' = [arg EXCEPT ![c] = [arg[c] EXCEPT !.until = until, !.path = place]]
        BY <3>1
      <4> QED BY <2>1, <4>1
    <3> QED BY <2>1, <2>3, <3>1
  <2> QED BY <2>4, <2>5, <2>6
<1>15. CASE set_job_complete(c)
  <2> DEFINE new == [status |-> "complete", until |-> arg[c].until, path |-> arg[c].path]
  <2>1. new \in Job
    BY DEF Job, Args
  <2>2. jobs' = [jobs EXCEPT ![arg[c].job] = new] /\ UNCHANGED <<account, objects, disk, wiped, now>>
    BY <1>15 DEF set_job_complete
  <2>3. \/ at' = [at EXCEPT ![c] = "fail"] /\ UNCHANGED arg
        \/ at' = [at EXCEPT ![c] = "idle"] /\ arg' = [arg EXCEPT ![c] = NoArg]
    BY <1>15 DEF set_job_complete, Raise
  <2>4. at' \in [Calls -> Steps] /\ arg' \in [Calls -> Args]
    BY <2>3, ArgsUpdated
  <2> HIDE DEF new
  <2> QED BY <2>1, <2>2, <2>4
<1>16. CASE set_job_failed(c)
  <2> DEFINE j == arg[c].job
             new == [jobs[j] EXCEPT !.status = "failed"]
  <2>1. UNCHANGED <<account, objects, disk, wiped, now>> /\ at' = [at EXCEPT ![c] = "idle"]
        /\ arg' = [arg EXCEPT ![c] = NoArg]
    BY <1>16 DEF set_job_failed
  <2>2. jobs' = jobs \/ jobs' = [jobs EXCEPT ![j] = new]
    BY <1>16 DEF set_job_failed
  <2>3. at[c] = "fail" /\ arg[c].kind = "file" /\ j \in Jobs \cup {None}
    BY <1>16 DEF set_job_failed, JobCall, Args
  <2>4. j \in Jobs => jobs[j] \in Job
    BY <2>3, IngestAssumption DEF JobCall
  <2>5. j \in Jobs => new \in Job
    BY <2>4 DEF Job
  <2>6. jobs' \in [Jobs -> {None} \cup Job]
    <3> HIDE DEF new
    <3> QED BY <2>2, <2>3, <2>5
  <2> QED BY <2>1, <2>6, ArgsUpdated
<1>17. CASE Fault(c)
  <2>1. /\ UNCHANGED <<account, jobs, objects, disk, wiped, now>> /\ at' \in [Calls -> Steps]
        /\ arg' = arg \/ arg' = [arg EXCEPT ![c] = NoArg]
    BY <1>17 DEF Fault, Raise
  <2> QED BY <2>1, ArgsUpdated
<1>18. CASE UploadFault(c)
  <2> DEFINE new == [status |-> "processing", until |-> 0, path |-> None]
  <2>1. new \in Job
    BY DEF Job
  <2>2. jobs' = jobs \/ jobs' = [jobs EXCEPT ![arg[c].job] = new]
    BY <1>18 DEF UploadFault, Created
  <2>3. /\ UNCHANGED <<account, objects, now>> /\ at' = [at EXCEPT ![c] = "idle"]
        /\ arg' = [arg EXCEPT ![c] = NoArg]
    BY <1>18 DEF UploadFault
  <2> HIDE DEF new
  <2> QED BY <2>1, <2>2, <2>3, ArgsUpdated
<1> QED
  BY <1>1, <1>2, <1>3, <1>4, <1>5, <1>6, <1>7, <1>8, <1>9, <1>10, <1>11, <1>12, <1>13,
     <1>14, <1>15, <1>16, <1>17, <1>18 DEF Arrive, Work

-----------------------------------------------------------------------------
(* A call touches no job but its own. *)
LEMMA OtherJobsStand ==
    ASSUME TypeInv, NEW c \in Calls, Arrive(c) \/ Work(c)
    PROVE  /\ now' = now
           /\ wiped' = wiped
           /\ \A j \in Jobs \ {arg[c].job} :
                 jobs'[j] = jobs[j] /\ objects'[j] = objects[j] /\ (j \in disk' <=> j \in disk)
<1> USE DEF TypeInv, Step, End, memory, database, results, history
<1>1. CASE IngestText(c)
  <2>1. UNCHANGED <<jobs, objects, disk, wiped, now>>
    BY <1>1 DEF IngestText
  <2> QED BY <2>1
<1>2. CASE Resolve(c)
  <2>1. UNCHANGED <<jobs, objects, disk, wiped, now>>
    BY <1>2 DEF Resolve, Begin, Processing
  <2> QED BY <2>1
<1>3. CASE Process(c)
  <2>1. UNCHANGED <<jobs, objects, disk, wiped, now>>
    BY <1>3 DEF Process, Begin
  <2> QED BY <2>1
<1>4. CASE Upload(c)
  <2>1. UNCHANGED <<jobs, objects, disk, wiped, now>>
    BY <1>4 DEF Upload, Begin
  <2> QED BY <2>1
<1>5. CASE RunPipeline(c)
  <2>1. UNCHANGED <<jobs, objects, disk, wiped, now>>
    BY <1>5 DEF RunPipeline, Processing
  <2> QED BY <2>1
<1>6. CASE EngineText(c)
  <2>1. UNCHANGED <<jobs, objects, disk, wiped, now>>
    BY <1>6 DEF EngineText, AfterEngine, Raise
  <2> QED BY <2>1
<1>7. CASE EngineProcess(c)
  <2>1. UNCHANGED <<jobs, objects, disk, wiped, now>>
    BY <1>7 DEF EngineProcess, AfterEngine
  <2> QED BY <2>1
<1>8. CASE create_job(c)
  <2>1. UNCHANGED <<objects, disk, wiped, now>> /\ \A j \in Jobs \ {arg[c].job} : jobs'[j] = jobs[j]
    BY <1>8 DEF create_job, Created
  <2> QED BY <2>1
<1>9. CASE Extract(c)
  <2>1. UNCHANGED <<jobs, objects, disk, wiped, now>>
    BY <1>9 DEF Extract
  <2> QED BY <2>1
<1>10. CASE EngineFile(c)
  <2>1. UNCHANGED <<jobs, objects, disk, wiped, now>>
    BY <1>10 DEF EngineFile, AfterEngine
  <2> QED BY <2>1
<1>11. CASE StoreSessionRead(c)
  <2>1. UNCHANGED <<jobs, objects, disk, wiped, now>>
    BY <1>11 DEF StoreSessionRead
  <2> QED BY <2>1
<1>12. CASE StoreSessionWrite(c)
  <2>1. UNCHANGED <<jobs, objects, disk, wiped, now>>
    BY <1>12 DEF StoreSessionWrite, Raise
  <2> QED BY <2>1
<1>13. CASE Charge(c)
  <2>1. UNCHANGED <<jobs, objects, disk, wiped, now>>
    BY <1>13 DEF Charge
  <2> QED BY <2>1
<1>14. CASE StoreResult(c)
  <2>1. /\ UNCHANGED <<jobs, wiped, now>> /\ disk \subseteq disk' /\ disk' \subseteq disk \cup {arg[c].job}
        /\ \A j \in Jobs \ {arg[c].job} : objects'[j] = objects[j]
    BY <1>14 DEF StoreResult
  <2> QED BY <2>1
<1>15. CASE set_job_complete(c)
  <2>1. UNCHANGED <<objects, disk, wiped, now>> /\ \A j \in Jobs \ {arg[c].job} : jobs'[j] = jobs[j]
    BY <1>15 DEF set_job_complete, Raise
  <2> QED BY <2>1
<1>16. CASE set_job_failed(c)
  <2>1. UNCHANGED <<objects, disk, wiped, now>> /\ \A j \in Jobs \ {arg[c].job} : jobs'[j] = jobs[j]
    BY <1>16 DEF set_job_failed
  <2> QED BY <2>1
<1>17. CASE Fault(c)
  <2>1. UNCHANGED <<jobs, objects, disk, wiped, now>>
    BY <1>17 DEF Fault, Raise
  <2> QED BY <2>1
<1>18. CASE UploadFault(c)
  <2>1. /\ UNCHANGED <<objects, disk, wiped, now>>
        /\ \A j \in Jobs \ {arg[c].job} : jobs'[j] = jobs[j]
    BY <1>18 DEF UploadFault, Created
  <2> QED BY <2>1
<1> QED
  BY <1>1, <1>2, <1>3, <1>4, <1>5, <1>6, <1>7, <1>8, <1>9, <1>10, <1>11, <1>12, <1>13,
     <1>14, <1>15, <1>16, <1>17, <1>18 DEF Arrive, Work

(* The job of a call is its own from the upload to the end. *)
LEMMA JobsOfCalls ==
    ASSUME TypeInv, NEW c \in Calls, Arrive(c) \/ Work(c)
    PROVE  arg'[c].job \in {arg[c].job, None} \/ \A d \in Calls : arg[d].job # arg'[c].job
<1> USE DEF TypeInv, Step, End
<1>1. CASE IngestText(c)
  <2>1. arg' = arg
    BY <1>1 DEF IngestText
  <2> QED BY <2>1
<1>2. CASE Resolve(c)
  <2>1. arg'[c].job = None
    BY <1>2 DEF Resolve, Begin, NoArg
  <2> QED BY <2>1
<1>3. CASE Process(c)
  <2>1. arg'[c].job = None
    BY <1>3 DEF Process, Begin, NoArg
  <2> QED BY <2>1
<1>4. CASE Upload(c)
  <2>1. PICK u \in Users \cup {None}, j \in Jobs :
          /\ \A d \in Calls : arg[d].job # j
          /\ arg' = [arg EXCEPT ![c] = [NoArg EXCEPT !.kind = "file", !.user = u, !.job = j]]
    BY <1>4 DEF Upload, Begin
  <2>2. arg'[c].job = j
    BY <2>1 DEF NoArg
  <2> QED BY <2>1, <2>2
<1>5. CASE RunPipeline(c)
  <2>1. arg' = arg \/ arg' = [arg EXCEPT ![c] = NoArg]
    BY <1>5 DEF RunPipeline, Processing
  <2> QED BY <2>1 DEF NoArg
<1>6. CASE EngineText(c)
  <2>1. arg' = arg \/ arg' = [arg EXCEPT ![c] = NoArg]
    BY <1>6 DEF EngineText, AfterEngine, Raise
  <2> QED BY <2>1 DEF NoArg
<1>7. CASE EngineProcess(c)
  <2>1. arg' = arg \/ arg' = [arg EXCEPT ![c] = NoArg]
    BY <1>7 DEF EngineProcess, AfterEngine
  <2> QED BY <2>1 DEF NoArg
<1>8. CASE create_job(c)
  <2>1. arg' = arg \/ arg' = [arg EXCEPT ![c] = NoArg]
    BY <1>8 DEF create_job
  <2> QED BY <2>1 DEF NoArg
<1>9. CASE Extract(c)
  <2>1. \/ arg' = [arg EXCEPT ![c] = NoArg] \/ arg' = arg
        \/ \E v : \/ arg' = [arg EXCEPT ![c].text = v]
                 \/ arg' = [arg EXCEPT ![c].settings = v]
                 \/ arg' = [arg EXCEPT ![c].until = v]
    BY <1>9 DEF Extract
  <2> QED BY <2>1 DEF NoArg, Args
<1>10. CASE EngineFile(c)
  <2>1. arg' = arg \/ arg' = [arg EXCEPT ![c] = NoArg]
    BY <1>10 DEF EngineFile, AfterEngine
  <2> QED BY <2>1 DEF NoArg
<1>11. CASE StoreSessionRead(c)
  <2>1. arg' = arg \/ arg' = [arg EXCEPT ![c] = NoArg]
    BY <1>11 DEF StoreSessionRead
  <2> QED BY <2>1 DEF NoArg
<1>12. CASE StoreSessionWrite(c)
  <2>1. arg' = arg \/ arg' = [arg EXCEPT ![c] = NoArg]
    BY <1>12 DEF StoreSessionWrite, Raise
  <2> QED BY <2>1 DEF NoArg
<1>13. CASE Charge(c)
  <2>1. \/ arg' = [arg EXCEPT ![c] = NoArg] \/ arg' = arg
        \/ \E v : \/ arg' = [arg EXCEPT ![c].text = v]
                 \/ arg' = [arg EXCEPT ![c].settings = v]
                 \/ arg' = [arg EXCEPT ![c].until = v]
    BY <1>13 DEF Charge
  <2> QED BY <2>1 DEF NoArg, Args
<1>14. CASE StoreResult(c)
  <2>1. \/ arg' = [arg EXCEPT ![c] = NoArg] \/ arg' = arg
        \/ \E t, place : arg' = [arg EXCEPT ![c].until = t, ![c].path = place]
    BY <1>14 DEF StoreResult, Raise
  <2>2. CASE arg' = [arg EXCEPT ![c] = NoArg] \/ arg' = arg
    BY <2>2 DEF NoArg
  <2>3. CASE \E t, place : arg' = [arg EXCEPT ![c].until = t, ![c].path = place]
    <3>1. PICK t, place : arg' = [arg EXCEPT ![c].until = t, ![c].path = place]
      BY <2>3
    <3>2. arg'[c] = [arg[c] EXCEPT !.until = t, !.path = place]
      BY <3>1
    <3>3. arg[c] \in Args
      OBVIOUS
    <3>4. arg'[c].job = arg[c].job
      BY <3>2, <3>3 DEF Args
    <3> QED BY <3>4
  <2> QED BY <2>1, <2>2, <2>3
<1>15. CASE set_job_complete(c)
  <2>1. arg' = arg \/ arg' = [arg EXCEPT ![c] = NoArg]
    BY <1>15 DEF set_job_complete, Raise
  <2> QED BY <2>1 DEF NoArg
<1>16. CASE set_job_failed(c)
  <2>1. arg' = arg \/ arg' = [arg EXCEPT ![c] = NoArg]
    BY <1>16 DEF set_job_failed
  <2> QED BY <2>1 DEF NoArg
<1>17. CASE Fault(c)
  <2>1. arg' = arg \/ arg' = [arg EXCEPT ![c] = NoArg]
    BY <1>17 DEF Fault, Raise
  <2> QED BY <2>1 DEF NoArg
<1>18. CASE UploadFault(c)
  <2>1. arg' = arg \/ arg' = [arg EXCEPT ![c] = NoArg]
    BY <1>18 DEF UploadFault
  <2> QED BY <2>1 DEF NoArg
<1> QED
  BY <1>1, <1>2, <1>3, <1>4, <1>5, <1>6, <1>7, <1>8, <1>9, <1>10, <1>11, <1>12, <1>13,
     <1>14, <1>15, <1>16, <1>17, <1>18 DEF Arrive, Work

(* The call that moves keeps its job in order. *)
LEMMA OwnJobKept ==
    ASSUME TypeInv, JobInv, NEW c \in Calls, Arrive(c) \/ Work(c)
    PROVE  /\ JobCall(c)'
           /\ \A j \in Jobs : j = arg[c].job /\ jobs'[j] # None /\ jobs'[j].status = "complete" =>
                  (Covered(j, jobs[j].path, jobs[j].until))'
<1> USE IngestAssumption DEF TypeInv, JobInv, JobCall, Step, End, memory, database, results, history
<1> DEFINE OwnAnnounced == \A j \in Jobs : j = arg[c].job /\ jobs[j] # None /\ jobs[j].status = "complete"
               => Covered(j, jobs[j].path, jobs[j].until)
<1>own. OwnAnnounced
  BY DEF Announced
<1>1. CASE IngestText(c)
  <2>1. UNCHANGED <<jobs, objects, disk, wiped, now, at, arg>>
    BY <1>1 DEF IngestText
  <2> QED BY <1>own, <2>1 DEF Covered
<1>2. CASE Resolve(c)
  <2>1. UNCHANGED <<jobs, objects, disk, wiped, now>> /\ at'[c] \in {"engine", "run"} /\ arg'[c].job = None
        /\ arg'[c].kind \in {"sync", "async"} /\ (at'[c] = "run" => arg'[c].kind = "async")
    BY <1>2 DEF Resolve, Begin, NoArg
  <2> QED BY <1>own, <2>1 DEF Covered
<1>3. CASE Process(c)
  <2>1. UNCHANGED <<jobs, objects, disk, wiped, now>> /\ at'[c] = "engine" /\ arg'[c].job = None
        /\ arg'[c].kind = "process"
    BY <1>3 DEF Process, Begin, NoArg
  <2> QED BY <1>own, <2>1 DEF Covered
<1>4. CASE Upload(c)
  <2>1. UNCHANGED <<jobs, objects, disk, wiped, now>> /\ at'[c] = "create" /\ arg'[c].job \in Jobs
        /\ arg'[c].kind = "file"
    BY <1>4 DEF Upload, Begin, NoArg
  <2> QED BY <1>own, <2>1 DEF Covered, Undone
<1>5. CASE RunPipeline(c)
  <2>1. UNCHANGED <<jobs, objects, disk, wiped, now>>
    BY <1>5 DEF RunPipeline, Processing
  <2>2. \/ at'[c] \in {"engine"} /\ arg'[c] = arg[c]
        \/ at'[c] = "idle" /\ arg'[c] = NoArg
    BY <1>5 DEF RunPipeline, Processing
  <2>3. at[c] = "run" /\ arg[c].kind # "file"
    BY <1>5 DEF RunPipeline, Processing
  <2> QED BY <1>own, <2>1, <2>2, <2>3 DEF Covered, Undone, NoArg
<1>6. CASE EngineText(c)
  <2>1. UNCHANGED <<jobs, objects, disk, wiped, now>>
    BY <1>6 DEF EngineText, AfterEngine, Raise
  <2>2. \/ at'[c] \in {"persist", "charge"} /\ arg'[c] = arg[c]
        \/ at'[c] = "idle" /\ arg'[c] = NoArg
    BY <1>6 DEF EngineText, AfterEngine, Raise
  <2>3. at[c] = "engine" /\ arg[c].kind # "file"
    BY <1>6 DEF EngineText, AfterEngine, Raise
  <2> QED BY <1>own, <2>1, <2>2, <2>3 DEF Covered, Undone, NoArg
<1>7. CASE EngineProcess(c)
  <2>1. UNCHANGED <<jobs, objects, disk, wiped, now>>
    BY <1>7 DEF EngineProcess, AfterEngine
  <2>2. \/ at'[c] \in {"charge"} /\ arg'[c] = arg[c]
        \/ at'[c] = "idle" /\ arg'[c] = NoArg
    BY <1>7 DEF EngineProcess, AfterEngine
  <2>3. at[c] = "engine" /\ arg[c].kind # "file"
    BY <1>7 DEF EngineProcess, AfterEngine
  <2> QED BY <1>own, <2>1, <2>2, <2>3 DEF Covered, Undone, NoArg
<1>8. CASE create_job(c)
  <2> DEFINE j == arg[c].job
             new == [status |-> "processing", until |-> 0, path |-> None]
  <2>1. at[c] = "create" /\ at'[c] = "extract" /\ arg' = arg /\ j \in Jobs
    BY <1>8 DEF create_job, Args
  <2>2. jobs' = [jobs EXCEPT ![j] = new] /\ UNCHANGED <<objects, disk, wiped, now>>
    BY <1>8 DEF create_job, Created
  <2>3. new.status = "processing" /\ new # None
    BY DEF Job
  <2>4. jobs'[j] = new
    BY <2>1, <2>2
  <2> HIDE DEF new
  <2> QED BY <2>1, <2>3, <2>4 DEF Undone
<1>9. CASE Extract(c)
  <2>1. UNCHANGED <<jobs, objects, disk, wiped, now>> /\ at[c] = "extract" /\ at'[c] = "engine"
    BY <1>9 DEF Extract
  <2>2. arg'[c].job = arg[c].job /\ arg'[c].kind = arg[c].kind
    BY <1>9 DEF Extract, Args
  <2> QED BY <1>own, <2>1, <2>2 DEF Covered, Undone
<1>10. CASE EngineFile(c)
  <2>1. UNCHANGED <<jobs, objects, disk, wiped, now>>
    BY <1>10 DEF EngineFile, AfterEngine
  <2>2. \/ at'[c] \in {"persist", "charge"} /\ arg'[c] = arg[c]
        \/ at'[c] = "idle" /\ arg'[c] = NoArg
    BY <1>10 DEF EngineFile, AfterEngine
  <2>3. at[c] = "engine" /\ arg[c].kind = "file"
    BY <1>10 DEF EngineFile, AfterEngine
  <2> QED BY <1>own, <2>1, <2>2, <2>3 DEF Covered, Undone, NoArg
<1>11. CASE StoreSessionRead(c)
  <2>1. UNCHANGED <<jobs, objects, disk, wiped, now>>
    BY <1>11 DEF StoreSessionRead
  <2>2. \/ at'[c] \in {"persist_write", "charge"} /\ arg'[c] = arg[c]
        \/ at'[c] = "idle" /\ arg'[c] = NoArg
    BY <1>11 DEF StoreSessionRead
  <2>3. at[c] = "persist"
    BY <1>11 DEF StoreSessionRead
  <2> QED BY <1>own, <2>1, <2>2, <2>3 DEF Covered, Undone, NoArg
<1>12. CASE StoreSessionWrite(c)
  <2>1. UNCHANGED <<jobs, objects, disk, wiped, now>>
    BY <1>12 DEF StoreSessionWrite, Raise
  <2>2. \/ at'[c] \in {"charge", "fail"} /\ arg'[c] = arg[c]
        \/ at'[c] = "idle" /\ arg'[c] = NoArg
    BY <1>12 DEF StoreSessionWrite, Raise
  <2>3. at[c] = "persist_write" /\ (at'[c] = "fail" => arg[c].kind = "file")
    BY <1>12 DEF StoreSessionWrite, Raise
  <2> QED BY <1>own, <2>1, <2>2, <2>3 DEF Covered, Undone, NoArg
<1>13. CASE Charge(c)
  <2>1. UNCHANGED <<jobs, objects, disk, wiped, now>> /\ at[c] = "charge"
    BY <1>13 DEF Charge
  <2>2. \/ at'[c] = "idle" /\ arg'[c] = NoArg
        \/ /\ at'[c] = "store" /\ arg[c].kind = "file"
           /\ arg'[c].job = arg[c].job /\ arg'[c].kind = arg[c].kind
    BY <1>13 DEF Charge, Args
  <2> QED BY <1>own, <2>1, <2>2 DEF Covered, Undone, NoArg
<1>14. CASE StoreResult(c)
  <2>1. at[c] = "store" /\ arg[c].kind = "file"
    BY <1>14 DEF StoreResult
  <2>2. PICK j \in Jobs : j = arg[c].job
    BY <2>1 DEF Args
  <2>3. PICK until \in Nat : until = compute_expiry(arg[c].settings)
    BY Expiry
  <2>4. PICK local \in BOOLEAN :
          /\ UNCHANGED <<jobs, now>>
          /\ disk' = IF local THEN disk \cup {j} ELSE disk
          /\ objects' = IF local THEN objects ELSE [objects EXCEPT ![j] = until]
          /\ \/ /\ at' = [at EXCEPT ![c] = "complete"]
                /\ arg' = [arg EXCEPT ![c].until = until,
                                      ![c].path = IF local THEN "disk" ELSE "bucket"]
             \/ at' = [at EXCEPT ![c] = "fail"] /\ arg' = arg
    <3>1. PICK local \in UseLocal :
            /\ disk' = IF local THEN disk \cup {j} ELSE disk
            /\ objects' = IF local THEN objects ELSE [objects EXCEPT ![j] = until]
            /\ \/ /\ at' = [at EXCEPT ![c] = "complete"]
                  /\ arg' = [arg EXCEPT ![c].until = until,
                                        ![c].path = IF local THEN "disk" ELSE "bucket"]
               \/ Raise(c)
      BY <1>14, <2>2, <2>3 DEF StoreResult
    <3>2. Raise(c) => at' = [at EXCEPT ![c] = "fail"] /\ arg' = arg
      BY <2>1 DEF Raise
    <3>3. local \in BOOLEAN /\ UNCHANGED <<jobs, now>>
      BY <1>14 DEF StoreResult, UseLocal
    <3> QED BY <3>1, <3>2, <3>3
  <2>5. jobs[j] # None /\ jobs[j].status = "processing"
    BY <2>1, <2>2 DEF Undone
  <2>6. CASE at' = [at EXCEPT ![c] = "fail"] /\ arg' = arg
    BY <2>1, <2>2, <2>4, <2>5, <2>6 DEF Undone
  <2>7. CASE /\ at' = [at EXCEPT ![c] = "complete"]
             /\ arg' = [arg EXCEPT ![c].until = until,
                                   ![c].path = IF local THEN "disk" ELSE "bucket"]
    <3> DEFINE place == IF local THEN "disk" ELSE "bucket"
    <3>1. arg'[c] = [arg[c] EXCEPT !.until = until, !.path = place] /\ arg[c] \in Args
      BY <2>7
    <3>2. arg'[c].job = j /\ arg'[c].kind = "file" /\ arg'[c].until = until /\ arg'[c].path = place
      BY <2>1, <2>2, <3>1 DEF Args
    <3>3. IF local THEN j \in disk' ELSE objects'[j] = until
      BY <2>4
    <3>4. (Covered(arg[c].job, arg[c].path, arg[c].until))'
      BY <3>2, <3>3 DEF Covered
    <3> QED BY <2>1, <2>2, <2>4, <2>5, <2>7, <3>2, <3>4 DEF Undone
  <2> QED BY <2>4, <2>6, <2>7
<1>15. CASE set_job_complete(c)
  <2>1. at[c] = "complete" /\ arg[c].kind = "file"
    BY <1>15 DEF set_job_complete
  <2>2. PICK j \in Jobs : j = arg[c].job
    BY <2>1 DEF Args
  <2>3. PICK new \in Job : new = [status |-> "complete", until |-> arg[c].until, path |-> arg[c].path]
    BY DEF Job, Args
  <2>4. UNCHANGED <<objects, disk, wiped, now>> /\ jobs'[j] = new
    BY <1>15, <2>2, <2>3 DEF set_job_complete
  <2>5. new # None /\ new.until = arg[c].until /\ Covered(j, new.path, new.until)
    BY <2>1, <2>2, <2>3
  <2>6. (Covered(j, jobs[j].path, jobs[j].until))'
    BY <2>4, <2>5 DEF Covered
  <2>7. \/ at'[c] = "fail" /\ arg' = arg
        \/ at'[c] = "idle" /\ arg'[c] = NoArg
    BY <1>15 DEF set_job_complete, Raise
  <2> QED BY <2>1, <2>2, <2>4, <2>5, <2>6, <2>7 DEF Undone, NoArg
<1>16. CASE set_job_failed(c)
  <2> DEFINE j == arg[c].job
             new == [jobs[j] EXCEPT !.status = "failed"]
  <2>1. at[c] = "fail" /\ j \in Jobs /\ UNCHANGED <<objects, disk, wiped, now>> /\ at'[c] = "idle" /\ arg'[c] = NoArg
    BY <1>16 DEF set_job_failed, Args
  <2>2. jobs'[j] = jobs[j] \/ jobs'[j] = new
    BY <1>16, <2>1 DEF set_job_failed
  <2>3. jobs[j] \in Job /\ new.status = "failed"
    BY <2>1 DEF Job
  <2>4. CASE jobs'[j] = jobs[j]
    BY <1>own, <2>1, <2>4 DEF Covered, NoArg
  <2>5. CASE jobs'[j] = new
    <3> HIDE DEF new
    <3> QED BY <2>1, <2>3, <2>5 DEF NoArg
  <2> QED BY <2>2, <2>4, <2>5
<1>17. CASE Fault(c)
  <2>1. UNCHANGED <<jobs, objects, disk, wiped, now>>
    BY <1>17 DEF Fault, Raise
  <2>2. \/ at'[c] \in {"fail"} /\ arg'[c] = arg[c]
        \/ at'[c] = "idle" /\ arg'[c] = NoArg
    BY <1>17 DEF Fault, Raise
  <2>3. at[c] \in Undone /\ (at'[c] = "fail" => arg[c].kind = "file")
    BY <1>17 DEF Fault, Raise, Undone
  <2> QED BY <1>own, <2>1, <2>2, <2>3 DEF Covered, Undone, NoArg
<1>18. CASE UploadFault(c)
  <2> DEFINE new == [status |-> "processing", until |-> 0, path |-> None]
  <2>1. UNCHANGED <<objects, disk, wiped, now>> /\ at'[c] = "idle" /\ arg'[c] = NoArg
    BY <1>18 DEF UploadFault
  <2>2. jobs' = jobs \/ jobs' = [jobs EXCEPT ![arg[c].job] = new]
    BY <1>18 DEF UploadFault, Created
  <2>3. new.status = "processing"
    OBVIOUS
  <2>4. CASE jobs' = jobs
    BY <1>own, <2>1, <2>4 DEF Covered, NoArg
  <2>5. CASE jobs' = [jobs EXCEPT ![arg[c].job] = new]
    <3> HIDE DEF new
    <3> QED BY <2>1, <2>3, <2>5 DEF NoArg
  <2> QED BY <2>2, <2>4, <2>5
<1> QED
  BY <1>1, <1>2, <1>3, <1>4, <1>5, <1>6, <1>7, <1>8, <1>9, <1>10, <1>11, <1>12, <1>13,
     <1>14, <1>15, <1>16, <1>17, <1>18 DEF Arrive, Work

(* A step of one call keeps the jobs in order. *)
LEMMA JobsKept ==
    ASSUME TypeInv, JobInv, NEW c \in Calls, Arrive(c) \/ Work(c)
    PROVE  JobInv'
<1>1. /\ \A d \in Calls \ {c} : at'[d] = at[d] /\ arg'[d] = arg[d]
      /\ now' = now
      /\ wiped' = wiped
      /\ \A j \in Jobs \ {arg[c].job} :
            jobs'[j] = jobs[j] /\ objects'[j] = objects[j] /\ (j \in disk' <=> j \in disk)
  BY OthersStand, OtherJobsStand
<1>2. Distinct'
  BY <1>1, JobsOfCalls DEF JobInv, Distinct
<1>3. Announced'
  BY <1>1, OwnJobKept DEF JobInv, Announced, Covered
<1>4. ASSUME NEW d \in Calls \ {c}
      PROVE  JobCall(d)'
  <2>1. JobCall(d) /\ (arg[d].job # None => arg[d].job # arg[c].job)
    BY DEF JobInv, Distinct
  <2>2. arg[d].job # None => arg[d].job \in Jobs
    BY DEF TypeInv, Args
  <2>3. at[d] = "complete" => arg[d].job # None
    BY <2>1 DEF JobCall
  <2> QED BY <1>1, <2>1, <2>2, <2>3 DEF JobCall, Covered
<1>5. JobCall(c)'
  BY OwnJobKept
<1> QED BY <1>2, <1>3, <1>4, <1>5 DEF JobInv

(* The world around keeps them in order, too: a result is purged only after  *)
(* it has expired, and a crash ends every call.                              *)
LEMMA WorldKeepsJobs ==
    ASSUME TypeInv, JobInv, World
    PROVE  TypeInv' /\ JobInv'
<1> USE DEF TypeInv, JobInv, Distinct, Announced, JobCall, Covered, memory, database, results, history
<1>1. CASE ChangeSettings
  BY <1>1 DEF ChangeSettings
<1>2. CASE DeleteSessions
  BY <1>2 DEF DeleteSessions
<1>3. CASE DeleteAccount
  BY <1>3 DEF DeleteAccount
<1>4. CASE Purge
  <2>1. PICK j \in Jobs : objects[j] # None /\ now > objects[j] /\ objects' = [objects EXCEPT ![j] = None]
    BY <1>4 DEF Purge
  <2>2. UNCHANGED <<account, jobs, disk, wiped, now, at, arg>>
    BY <1>4 DEF Purge
  <2>3. TypeInv'
    BY <2>1, <2>2
  <2>4. ASSUME NEW i \in Jobs, NEW path, NEW t \in Nat, Covered(i, path, t)
        PROVE  IF path = "disk" THEN i \in disk' \cup wiped'
               ELSE IF objects'[i] = None THEN now' > t ELSE objects'[i] >= t
    BY <2>1, <2>2, <2>4
  <2>5. \A c \in Calls : at[c] = "complete" => arg[c].job \in Jobs /\ arg[c].until \in Nat
    BY DEF Args
  <2>6. \A i \in Jobs : jobs[i] # None => jobs[i].until \in Nat
    BY DEF Job
  <2>7. Announced'
    BY <2>2, <2>4, <2>6
  <2>8. \A c \in Calls : JobCall(c)'
    BY <2>2, <2>4, <2>5
  <2> QED BY <2>2, <2>3, <2>7, <2>8
<1>5. CASE Tick
  <2>1. now' = now + 1 /\ UNCHANGED <<account, jobs, objects, disk, wiped, at, arg>>
    BY <1>5 DEF Tick
  <2>2. TypeInv'
    BY <2>1
  <2>3. ASSUME NEW i \in Jobs, NEW path, NEW t \in Nat, Covered(i, path, t)
        PROVE  IF path = "disk" THEN i \in disk' \cup wiped'
               ELSE IF objects'[i] = None THEN now' > t ELSE objects'[i] >= t
    BY <2>1, <2>3
  <2>5. \A c \in Calls : at[c] = "complete" => arg[c].job \in Jobs /\ arg[c].until \in Nat
    BY DEF Args
  <2>6. \A i \in Jobs : jobs[i] # None => jobs[i].until \in Nat
    BY DEF Job
  <2>7. Announced'
    BY <2>1, <2>3, <2>6
  <2>8. \A c \in Calls : JobCall(c)'
    BY <2>1, <2>3, <2>5
  <2> QED BY <2>1, <2>2, <2>7, <2>8
<1>6. CASE Crash
  <2>1. /\ UNCHANGED <<account, jobs, objects, now>>
        /\ at' = [c \in Calls |-> "idle"] /\ arg' = [c \in Calls |-> NoArg]
    BY <1>6 DEF Crash
  <2>2. NoArg \in Args /\ NoArg.job = None /\ "idle" \in Steps
    BY ArgsUpdated DEF NoArg, Steps
  <2>3. TypeInv'
    BY <2>1, <2>2
  <2>4. \A c \in Calls : at'[c] = "idle" /\ arg'[c].job = None
    BY <2>1, <2>2
  <2>5. disk' \cup wiped' = disk \cup wiped
    BY <1>6 DEF Crash
  <2>6. Announced'
    BY <2>1, <2>5
  <2> HIDE DEF TypeInv
  <2> QED BY <2>1, <2>3, <2>4, <2>6
<1>7. CASE Poll
  BY <1>7 DEF Poll
<1> QED BY <1>1, <1>2, <1>3, <1>4, <1>5, <1>6, <1>7 DEF World

(* JobInv, with the types, is inductive. *)
LEMMA InitialJobs == Init => TypeInv /\ JobInv
<1> SUFFICES ASSUME Init  PROVE TypeInv /\ JobInv
  OBVIOUS
<1>1. NoArg \in Args /\ NoArg.job = None
  BY ArgsUpdated DEF NoArg
<1> QED BY <1>1 DEF Init, TypeInv, JobInv, Distinct, Announced, JobCall, Steps

(* The steps keep the types and what is said of jobs.                      *)
LEMMA JobsAlways == TypeInv /\ JobInv /\ [Next]_vars => TypeInv' /\ JobInv'
<1> SUFFICES ASSUME TypeInv, JobInv, [Next]_vars  PROVE TypeInv' /\ JobInv'
  OBVIOUS
<1>1. ASSUME NEW c \in Calls, Arrive(c) \/ Work(c)  PROVE TypeInv' /\ JobInv'
  BY <1>1, TypesKept, JobsKept
<1>2. CASE World
  BY <1>2, WorldKeepsJobs
<1>3. CASE UNCHANGED vars
  BY <1>3 DEF vars, memory, database, results, history, TypeInv, JobInv, Distinct, Announced, JobCall, Covered
<1> QED BY <1>1, <1>2, <1>3 DEF Next

(* NoResultGoesMissing: a result that was announced is where its record says *)
(* until it expires or its instance is gone, after whatever failures,        *)
(* crashes and changed settings.                                             *)
THEOREM ResultsDoNotGoMissing == Spec => []NoResultGoesMissing
<1> DEFINE IInv == TypeInv /\ JobInv
<1>1. Init => IInv
  BY InitialJobs
<1>2. IInv /\ [Next]_vars => IInv'
  BY JobsAlways
<1>3. IInv => NoResultGoesMissing
  <2> SUFFICES ASSUME IInv, NEW j \in Jobs, jobs[j] # None, j \notin wiped
               PROVE  poll(j, jobs[j].path = "disk") # "gone"
    BY DEF NoResultGoesMissing
  <2>1. CASE Standing(j) # "complete"
    BY <2>1 DEF poll, Standing, TypeInv, Job
  <2>2. CASE Standing(j) = "complete"
    <3>1. jobs[j].status = "complete" /\ ~(now > jobs[j].until)
      BY <2>2 DEF Standing
    <3>2. Covered(j, jobs[j].path, jobs[j].until)
      BY <3>1 DEF JobInv, Announced
    <3>3. Found(j, jobs[j].path = "disk")
      BY <3>1, <3>2 DEF Covered, Found
    <3> QED BY <2>2, <3>3 DEF poll
  <2> QED BY <2>1, <2>2
<1> QED BY <1>1, <1>2, <1>3, PTL DEF Spec

-----------------------------------------------------------------------------
(* A call that is about to keep something has consent, and has it still when *)
(* the settings change under it.                                             *)
LEMMA ConsentKept ==
    ASSUME TypeInv, ConsentInv, Watch, NEW c \in Calls, Arrive(c) \/ Work(c)
    PROVE  ~unasked' /\ Consented(c)'
<1> USE DEF TypeInv, ConsentInv, Consented, Step, End, memory, database, results, history
<1>1. CASE IngestText(c)
  <2>1. UNCHANGED <<at, arg, unasked>> /\ at[c] = "idle"
    BY <1>1 DEF IngestText
  <2> QED BY <2>1
<1>2. CASE Resolve(c)
  <2>1. at'[c] \in {"engine", "run"} /\ unasked' = unasked
    BY <1>2 DEF Resolve, Begin
  <2> QED BY <2>1
<1>3. CASE Process(c)
  <2>1. at'[c] \in {"engine"} /\ unasked' = unasked
    BY <1>3 DEF Process, Begin
  <2> QED BY <2>1
<1>4. CASE Upload(c)
  <2>1. at'[c] \in {"create"} /\ unasked' = unasked
    BY <1>4 DEF Upload, Begin
  <2> QED BY <2>1
<1>5. CASE RunPipeline(c)
  <2>1. at'[c] \in {"engine", "idle"} /\ unasked' = unasked
    BY <1>5 DEF RunPipeline, Processing
  <2> QED BY <2>1
<1>6. CASE EngineText(c)
  <2>1. \/ at'[c] \in {"charge", "idle", "fail"} /\ unasked' = unasked
        \/ at'[c] = "persist" /\ arg'[c].user # None /\ unasked' = unasked
    BY <1>6 DEF EngineText, AfterEngine, Raise
  <2> QED BY <2>1
<1>7. CASE EngineProcess(c)
  <2>1. at'[c] = "charge" /\ unasked' = unasked
    BY <1>7 DEF EngineProcess, AfterEngine
  <2> QED BY <2>1
<1>8. CASE create_job(c)
  <2>1. at'[c] \in {"extract"} /\ unasked' = unasked
    BY <1>8 DEF create_job
  <2> QED BY <2>1
<1>9. CASE Extract(c)
  <2>1. at'[c] \in {"engine"} /\ unasked' = unasked
    BY <1>9 DEF Extract
  <2> QED BY <2>1
<1>10. CASE EngineFile(c)
  <2>1. \/ at'[c] \in {"charge", "idle", "fail"} /\ unasked' = unasked
        \/ at'[c] = "persist" /\ arg'[c].user # None /\ unasked' = unasked
    BY <1>10 DEF EngineFile, AfterEngine
  <2> QED BY <2>1
<1>11. CASE StoreSessionRead(c)
  <2>1. at[c] = "persist" /\ arg' = arg /\ account' = account /\ unasked' = unasked
    BY <1>11 DEF StoreSessionRead
  <2>2. \/ at'[c] = "charge"
        \/ at'[c] = "persist_write" /\ StorageOn(account[arg[c].user])
    BY <1>11 DEF StoreSessionRead
  <2>3. at'[c] = "persist_write" => Enabled(account, arg'[c].user)
    BY <2>1, <2>2 DEF Enabled, StorageOn
  <2>4. at'[c] = "persist_write" => consent'[c]
    BY <2>3 DEF Watch
  <2> QED BY <2>1, <2>2, <2>4
<1>12. CASE StoreSessionWrite(c)
  <2>1. at[c] = "persist_write" /\ unasked' = (unasked \/ ~consent[c])
    BY <1>12 DEF StoreSessionWrite
  <2>2. at'[c] \in {"charge", "idle", "fail"}
    BY <1>12 DEF StoreSessionWrite, Raise
  <2> QED BY <2>1, <2>2
<1>13. CASE Charge(c)
  <2>1. account' = account /\ unasked' = unasked
    BY <1>13 DEF Charge
  <2>2. \/ at'[c] = "idle"
        \/ /\ at'[c] = "store" /\ arg'[c].user = arg[c].user
           /\ \/ arg'[c].settings = None
              \/ arg[c].user # None /\ arg'[c].settings = account[arg[c].user]
    BY <1>13 DEF Charge, Args
  <2>3. at'[c] = "store" /\ StorageOn(arg'[c].settings) => Enabled(account, arg'[c].user)
    BY <2>2 DEF StorageOn, Enabled
  <2>4. at'[c] = "store" /\ StorageOn(arg'[c].settings) => consent'[c]
    BY <2>3 DEF Watch
  <2> QED BY <2>1, <2>2, <2>4 DEF StorageOn
<1>14. CASE StoreResult(c)
  <2>1. at[c] = "store" /\ at'[c] \in {"complete", "idle", "fail"}
    BY <1>14 DEF StoreResult, Raise
  <2>2. unasked' = (unasked \/ (compute_expiry(arg[c].settings) > now + Transient /\ ~consent[c]))
    BY <1>14 DEF StoreResult
  <2>3. CASE StorageOn(arg[c].settings)
    BY <2>1, <2>2, <2>3
  <2>4. CASE ~StorageOn(arg[c].settings)
    <3>1. compute_expiry(arg[c].settings) = now + Transient
      BY <2>4 DEF compute_expiry
    <3>2. ~(now + Transient > now + Transient)
      BY IngestAssumption DEF TypeInv
    <3> QED BY <2>1, <2>2, <3>1, <3>2
  <2> QED BY <2>3, <2>4
<1>15. CASE set_job_complete(c)
  <2>1. at'[c] \in {"idle", "fail"} /\ unasked' = unasked
    BY <1>15 DEF set_job_complete, Raise
  <2> QED BY <2>1
<1>16. CASE set_job_failed(c)
  <2>1. at'[c] \in {"idle"} /\ unasked' = unasked
    BY <1>16 DEF set_job_failed
  <2> QED BY <2>1
<1>17. CASE Fault(c)
  <2>1. at'[c] \in {"idle", "fail"} /\ unasked' = unasked
    BY <1>17 DEF Fault, Raise
  <2> QED BY <2>1
<1>18. CASE UploadFault(c)
  <2>1. at'[c] \in {"idle"} /\ unasked' = unasked
    BY <1>18 DEF UploadFault
  <2> QED BY <2>1
<1> QED
  BY <1>1, <1>2, <1>3, <1>4, <1>5, <1>6, <1>7, <1>8, <1>9, <1>10, <1>11, <1>12, <1>13,
     <1>14, <1>15, <1>16, <1>17, <1>18 DEF Arrive, Work

(* What a call that goes on has seen of its user's settings, it remembers. *)
LEMMA ConsentStays ==
    ASSUME Watch, NEW c \in Calls, at'[c] # "idle", consent[c]
    PROVE  consent'[c]
BY DEF Watch

(* NothingKeptUnasked: nothing of a document is put away for longer than its  *)
(* delivery takes unless its owner had storage on while it was processed.    *)
THEOREM NothingIsKeptUnasked == Spec => []NothingKeptUnasked
<1> DEFINE IInv == TypeInv /\ JobInv
<1>1. Init => ConsentInv
  BY DEF Init, ConsentInv, Consented
<1>2. TypeInv /\ ConsentInv /\ [Next]_vars => ConsentInv'
  <2>1. ASSUME TypeInv, ConsentInv, Watch, NEW c \in Calls, Arrive(c) \/ Work(c)
        PROVE  ConsentInv'
    <3>1. ASSUME NEW d \in Calls \ {c}
          PROVE  Consented(d)'
      <4>1. at'[d] = at[d] /\ arg'[d] = arg[d] /\ (at[d] # "idle" /\ consent[d] => consent'[d])
        BY <2>1, OthersStand, ConsentStays
      <4> QED BY <2>1, <4>1 DEF ConsentInv, Consented, StorageOn
    <3> QED BY <2>1, <3>1, ConsentKept DEF ConsentInv
  <2>2. ASSUME TypeInv, ConsentInv, Watch, World
        PROVE  ConsentInv'
    <3>1. CASE Crash
      BY <2>2, <3>1 DEF Crash, ConsentInv, Consented
    <3>2. CASE UNCHANGED <<at, arg, unasked>>
      <4>1. \A d \in Calls : at[d] # "idle" /\ consent[d] => consent'[d]
        BY <2>2, <3>2, ConsentStays
      <4> QED BY <2>2, <3>2, <4>1 DEF ConsentInv, Consented, StorageOn
    <3> QED BY <2>2, <3>1, <3>2 DEF World, Poll, ChangeSettings, DeleteSessions, DeleteAccount, Purge, Tick, history
  <2>3. ASSUME ConsentInv, UNCHANGED vars  PROVE ConsentInv'
    BY <2>3 DEF vars, history, ConsentInv, Consented, StorageOn
  <2> QED BY <2>1, <2>2, <2>3 DEF Next
<1>3. ConsentInv => NothingKeptUnasked
  BY DEF ConsentInv, NothingKeptUnasked
<1>4. Init => IInv
  BY InitialJobs
<1>5. IInv /\ [Next]_vars => IInv'
  BY JobsAlways
<1> QED BY <1>1, <1>2, <1>3, <1>4, <1>5, PTL DEF Spec

-----------------------------------------------------------------------------
(* The keys of a dictionary, in order: each of them once. *)
KeysOnce(keys) == \A i, j \in DOMAIN keys : keys[i] = keys[j] => i = j
AreKeys(keys)  == keys \in Seq(Texts) /\ KeysOnce(keys)

(* The keys of one are those of the other that are in the set. *)
HasKeys(keys, others, S) == \A u \in Texts : Contains(keys, u) <=> u \in S \/ Contains(others, u)

(* A sequence of keys has as many places as it is long. *)
LEMMA KeysAre ==
    ASSUME NEW keys, AreKeys(keys)
    PROVE  /\ Len(keys) \in Nat /\ DOMAIN keys = 1 .. Len(keys)
           /\ \A i \in 1 .. Len(keys) : keys[i] \in Texts
           /\ \A i, j \in 1 .. Len(keys) : keys[i] = keys[j] => i = j
BY LenProperties, ElementOfSeq DEF AreKeys, KeysOnce

(* Appending a key that is not there makes keys of keys. *)
LEMMA AppendedKeys ==
    ASSUME NEW keys, AreKeys(keys), NEW t \in Texts, ~Contains(keys, t)
    PROVE  /\ AreKeys(Append(keys, t)) /\ Len(Append(keys, t)) = Len(keys) + 1
           /\ HasKeys(Append(keys, t), keys, {t})
<1> DEFINE n == Len(keys)
           new == Append(keys, t)
<1>1. /\ n \in Nat /\ DOMAIN keys = 1 .. n /\ \A i \in 1 .. n : keys[i] \in Texts
      /\ \A i, j \in 1 .. n : keys[i] = keys[j] => i = j
  BY KeysAre
<1>2. /\ new \in Seq(Texts) /\ Len(new) = n + 1
      /\ (\A i \in 1 .. n : new[i] = keys[i]) /\ new[n + 1] = t
  BY AppendProperties DEF AreKeys
<1>3. \A i \in 1 .. n : keys[i] # t
  BY DEF Contains
<1>4. Contains(new, t) /\ \A u : Contains(keys, u) <=> \E i \in 1 .. n : keys[i] = u
  BY <1>1, <1>2 DEF Contains
<1>5. DOMAIN new = 1 .. n + 1
  BY <1>2
<1> HIDE DEF n, new
<1>6. KeysOnce(new)
  BY <1>1, <1>2, <1>3, <1>5 DEF KeysOnce
<1>7. \A u : Contains(new, u) <=> u = t \/ Contains(keys, u)
  <2> SUFFICES ASSUME NEW u PROVE Contains(new, u) <=> u = t \/ Contains(keys, u)
    OBVIOUS
  <2>1. Contains(new, u) <=> \E i \in 1 .. n + 1 : new[i] = u
    BY <1>2 DEF Contains
  <2>2. \A i \in 1 .. n + 1 : i \in 1 .. n \/ i = n + 1
    BY <1>1
  <2>3. \A i \in 1 .. n : i \in 1 .. n + 1
    BY <1>1
  <2> QED BY <1>2, <1>4, <2>1, <2>2, <2>3
<1> QED BY <1>2, <1>6, <1>7 DEF AreKeys, HasKeys, n, new

(* Of keys from the second on, or all of them, each is there once. *)
LEMMA LaterKeys ==
    ASSUME NEW keys, AreKeys(keys), Len(keys) > 0
    PROVE  /\ AreKeys(SubSeq(keys, 2, Len(keys))) /\ Len(SubSeq(keys, 2, Len(keys))) = Len(keys) - 1
           /\ SubSeq(keys, 1, Len(keys)) = keys
           /\ Tail(keys) = SubSeq(keys, 2, Len(keys))
<1> DEFINE n == Len(keys)
           new == SubSeq(keys, 2, n)
<1>1. /\ n \in Nat /\ n > 0 /\ DOMAIN keys = 1 .. n /\ \A i \in 1 .. n : keys[i] \in Texts
      /\ \A i, j \in 1 .. n : keys[i] = keys[j] => i = j
  BY KeysAre
<1>2. keys \in Seq(Texts) /\ keys # <<>>
  BY DEF AreKeys
<1>3. Tail(keys) = new /\ SubSeq(keys, 1, n) = keys
  BY <1>2, TailIsSubSeq, SubSeqFull
<1>4. /\ Tail(keys) \in Seq(Texts) /\ Len(Tail(keys)) = n - 1
      /\ \A i \in 1 .. n - 1 : Tail(keys)[i] = keys[i + 1]
  BY <1>2, HeadTailProperties
<1> HIDE DEF n, new
<1>5. DOMAIN new = 1 .. n - 1
  BY <1>3, <1>4
<1>6. KeysOnce(new)
  <2> SUFFICES ASSUME NEW i \in 1 .. n - 1, NEW j \in 1 .. n - 1, new[i] = new[j] PROVE i = j
    BY <1>5 DEF KeysOnce
  <2>1. i + 1 \in 1 .. n /\ j + 1 \in 1 .. n
    BY <1>1
  <2>2. keys[i + 1] = keys[j + 1]
    BY <1>3, <1>4
  <2>3. i + 1 = j + 1
    BY <1>1, <2>1, <2>2
  <2> QED BY <1>1, <2>3
<1> QED BY <1>3, <1>4, <1>6 DEF AreKeys, n, new

(* A key that is there is taken out, and no other. *)
LEMMA RemovedKey ==
    ASSUME NEW keys, AreKeys(keys), NEW t \in Texts, Contains(keys, t)
    PROVE  /\ AreKeys(RemoveFirst(keys, t)) /\ Len(RemoveFirst(keys, t)) = Len(keys) - 1
           /\ ~Contains(RemoveFirst(keys, t), t) /\ HasKeys(keys, RemoveFirst(keys, t), {t})
<1> DEFINE n == Len(keys)
           I == {i \in 1 .. Len(keys) : keys[i] = t}
           new == RemoveFirst(keys, t)
<1>1. /\ n \in Nat /\ DOMAIN keys = 1 .. n /\ \A i \in 1 .. n : keys[i] \in Texts
      /\ \A i, j \in 1 .. n : keys[i] = keys[j] => i = j
  BY KeysAre
<1>2. PICK p \in 1 .. n : keys[p] = t
  BY DEF Contains
<1>3. I = {p}
  BY <1>1, <1>2
<1>4. Min(I) = p
  <2> HIDE DEF I
  <2> QED BY <1>1, <1>2, <1>3 DEF Min
<1>5. SelectInSeq(keys, LAMBDA v : v = t) = p
  BY <1>3, <1>4 DEF SelectInSeq
<1>6. new = SubSeq(keys, 1, p - 1) \o SubSeq(keys, p + 1, n)
  BY <1>2, <1>5 DEF RemoveFirst, RemoveAt
<1> DEFINE a == SubSeq(keys, 1, p - 1)
           b == SubSeq(keys, p + 1, n)
<1> HIDE DEF n, I, new
<1>7. a \in Seq(Texts) /\ Len(a) = p - 1 /\ \A i \in 1 .. p - 1 : a[i] = keys[i]
  <2>1. \A i \in 1 .. p - 1 : keys[i] \in Texts
    BY <1>1
  <2>2. 1 \in Int /\ p - 1 \in Int /\ p >= 1
    BY <1>1
  <2>3. /\ a \in Seq(Texts) /\ Len(a) = IF 1 <= p - 1 THEN (p - 1) - 1 + 1 ELSE 0
        /\ \A i \in 1 .. (p - 1) - 1 + 1 : a[i] = keys[1 + i - 1]
    BY <2>1, <2>2, SubSeqProperties
  <2> QED BY <2>2, <2>3
<1>8. b \in Seq(Texts) /\ Len(b) = n - p /\ \A i \in 1 .. n - p : b[i] = keys[p + i]
  <2>1. \A i \in p + 1 .. n : keys[i] \in Texts
    BY <1>1
  <2>2. p + 1 \in Int /\ n \in Int /\ p <= n
    BY <1>1
  <2>3. /\ b \in Seq(Texts) /\ Len(b) = IF p + 1 <= n THEN n - (p + 1) + 1 ELSE 0
        /\ \A i \in 1 .. n - (p + 1) + 1 : b[i] = keys[(p + 1) + i - 1]
    BY <2>1, <2>2, SubSeqProperties
  <2> QED BY <2>2, <2>3
<1>9. /\ new \in Seq(Texts) /\ Len(new) = Len(a) + Len(b)
      /\ \A i \in 1 .. Len(a) + Len(b) : new[i] = IF i <= Len(a) THEN a[i] ELSE b[i - Len(a)]
  <2> HIDE DEF a, b
  <2> QED BY <1>6, <1>7, <1>8, ConcatProperties DEF a, b
<1> HIDE DEF a, b
<1>10. /\ Len(new) = n - 1
       /\ \A i \in 1 .. n - 1 : new[i] = IF i < p THEN keys[i] ELSE keys[i + 1]
  <2>1. Len(new) = n - 1
    BY <1>1, <1>7, <1>8, <1>9
  <2>2. ASSUME NEW i \in 1 .. n - 1 PROVE new[i] = IF i < p THEN keys[i] ELSE keys[i + 1]
    <3>1. CASE i < p
      <4>1. i \in 1 .. p - 1 /\ i <= Len(a) /\ i \in 1 .. Len(a) + Len(b)
        BY <1>1, <1>7, <1>8, <3>1
      <4> QED BY <1>7, <1>9, <3>1, <4>1
    <3>2. CASE ~ i < p
      <4>1. /\ ~ i <= Len(a) /\ i \in 1 .. Len(a) + Len(b) /\ i - Len(a) \in 1 .. n - p
            /\ p + (i - Len(a)) = i + 1
        BY <1>1, <1>7, <1>8, <3>2
      <4> QED BY <1>8, <1>9, <3>2, <4>1
    <3> QED BY <3>1, <3>2
  <2> QED BY <2>1, <2>2
<1>11. DOMAIN new = 1 .. n - 1
  BY <1>9, <1>10
<1> DEFINE at1(i) == IF i < p THEN i ELSE i + 1
<1>12. \A i \in 1 .. n - 1 : at1(i) \in 1 .. n /\ at1(i) # p /\ new[i] = keys[at1(i)]
  BY <1>1, <1>10
<1>13. \A i, j \in 1 .. n - 1 : at1(i) = at1(j) => i = j
  BY <1>1
<1>14. \A q \in 1 .. n : q # p => \E i \in 1 .. n - 1 : at1(i) = q
  <2> SUFFICES ASSUME NEW q \in 1 .. n, q # p PROVE \E i \in 1 .. n - 1 : at1(i) = q
    OBVIOUS
  <2>1. CASE q < p
    <3>1. q \in 1 .. n - 1 /\ at1(q) = q
      BY <1>1, <2>1
    <3> QED BY <3>1
  <2>2. CASE ~ q < p
    <3>1. q - 1 \in 1 .. n - 1 /\ at1(q - 1) = q
      BY <1>1, <2>2
    <3> QED BY <3>1
  <2> QED BY <2>1, <2>2
<1> HIDE DEF at1
<1>15. KeysOnce(new)
  BY <1>1, <1>11, <1>12, <1>13 DEF KeysOnce
<1>16. \A u : Contains(new, u) <=> \E i \in 1 .. n - 1 : new[i] = u
  BY <1>10 DEF Contains
<1>17. \A u : Contains(keys, u) <=> \E i \in 1 .. n : keys[i] = u
  BY DEF Contains, n
<1>18. ~Contains(new, t)
  BY <1>1, <1>2, <1>12, <1>16
<1>19. \A u : Contains(keys, u) <=> u = t \/ Contains(new, u)
  <2> SUFFICES ASSUME NEW u PROVE Contains(keys, u) <=> u = t \/ Contains(new, u)
    OBVIOUS
  <2>1. ASSUME Contains(new, u) PROVE Contains(keys, u)
    BY <1>12, <1>16, <1>17, <2>1
  <2>2. ASSUME Contains(keys, u), u # t PROVE Contains(new, u)
    <3>1. PICK q \in 1 .. n : keys[q] = u
      BY <1>17, <2>2
    <3>2. PICK i \in 1 .. n - 1 : at1(i) = q
      BY <1>2, <1>14, <2>2, <3>1
    <3> QED BY <1>12, <1>16, <3>1, <3>2
  <2>3. Contains(keys, t)
    OBVIOUS
  <2> QED BY <2>1, <2>2, <2>3
<1> QED BY <1>9, <1>10, <1>15, <1>18, <1>19 DEF AreKeys, HasKeys, new, n

(* A key moved to the end is there once, and with it the others. *)
LEMMA MovedKeys ==
    ASSUME NEW keys, AreKeys(keys), NEW t \in Texts
    PROVE  /\ AreKeys(MovedToEnd(keys, t)) /\ HasKeys(MovedToEnd(keys, t), keys, {t})
           /\ Len(MovedToEnd(keys, t)) = IF Contains(keys, t) THEN Len(keys) ELSE Len(keys) + 1
<1> DEFINE rest == RemoveFirst(keys, t)
<1>1. MovedToEnd(keys, t) = Append(rest, t)
  BY DEF MovedToEnd
<1>2. Len(keys) \in Nat
  BY KeysAre
<1>3. CASE Contains(keys, t)
  <2>1. /\ AreKeys(rest) /\ Len(rest) = Len(keys) - 1
        /\ ~Contains(rest, t) /\ HasKeys(keys, rest, {t})
    BY <1>3, RemovedKey
  <2> HIDE DEF rest
  <2>2. /\ AreKeys(Append(rest, t)) /\ Len(Append(rest, t)) = Len(rest) + 1
        /\ HasKeys(Append(rest, t), rest, {t})
    BY <2>1, AppendedKeys
  <2>3. HasKeys(Append(rest, t), keys, {t})
    BY <2>1, <2>2 DEF HasKeys
  <2> QED BY <1>1, <1>2, <1>3, <2>1, <2>2, <2>3
<1>4. CASE ~Contains(keys, t)
  <2>1. rest = keys
    BY <1>4 DEF RemoveFirst, Contains
  <2> HIDE DEF rest
  <2> QED BY <1>1, <1>4, <2>1, AppendedKeys
<1> QED BY <1>3, <1>4

(* The cache is within its bound after an answer is stored in it. *)
LEMMA CacheBounded ==
    ASSUME NEW t \in Texts, AreKeys(cache), Len(cache) <= MaxCache, store_coc(t)
    PROVE  AreKeys(cache') /\ Len(cache') <= MaxCache
<1> DEFINE moved == MovedToEnd(cache, t)
<1>1. cache' = IF Len(moved) > MaxCache THEN Tail(moved) ELSE moved
  BY DEF store_coc
<1>2. AreKeys(moved) /\ Len(moved) = IF Contains(cache, t) THEN Len(cache) ELSE Len(cache) + 1
  BY MovedKeys
<1>3. Len(cache) \in Nat /\ MaxCache \in Nat \ {0}
  BY KeysAre, IngestAssumption
<1> HIDE DEF moved
<1>4. Len(moved) \in Nat /\ Len(moved) <= MaxCache + 1
  BY <1>2, <1>3
<1>5. CASE Len(moved) > MaxCache
  <2>1. Len(moved) > 0
    BY <1>3, <1>4, <1>5
  <2>2. AreKeys(Tail(moved)) /\ Len(Tail(moved)) = Len(moved) - 1
    BY <1>2, <2>1, LaterKeys
  <2> QED BY <1>1, <1>3, <1>4, <1>5, <2>2
<1>6. CASE ~ Len(moved) > MaxCache
  BY <1>1, <1>2, <1>3, <1>4, <1>6
<1> QED BY <1>5, <1>6

(* What is left after the eviction has room for one more key. *)
LEMMA EvictedKeys ==
    ASSUME NEW keys, AreKeys(keys), Len(keys) <= MaxSessions
    PROVE  AreKeys(Evicted(keys)) /\ Len(Evicted(keys)) + 1 <= MaxSessions
<1>1. Len(keys) \in Nat /\ MaxSessions \in Nat \ {0}
  BY KeysAre, IngestAssumption
<1>2. CASE Len(keys) = MaxSessions
  <2>1. Evicted(keys) = SubSeq(keys, 2, Len(keys))
    <3>1. Len(keys) >= MaxSessions /\ Len(keys) - MaxSessions + 2 = 2
      BY <1>1, <1>2
    <3> QED BY <3>1 DEF Evicted
  <2>2. AreKeys(SubSeq(keys, 2, Len(keys))) /\ Len(SubSeq(keys, 2, Len(keys))) = Len(keys) - 1
    BY <1>1, <1>2, LaterKeys
  <2> QED BY <1>1, <1>2, <2>1, <2>2
<1>3. CASE Len(keys) < MaxSessions
  <2>1. Evicted(keys) = SubSeq(keys, 1, Len(keys))
    <3>1. ~ Len(keys) >= MaxSessions
      BY <1>1, <1>3
    <3> QED BY <3>1 DEF Evicted
  <2>2. SubSeq(keys, 1, Len(keys)) = keys
    BY SubSeqFull DEF AreKeys
  <2>3. Len(keys) + 1 <= MaxSessions
    BY <1>1, <1>3
  <2> QED BY <2>1, <2>2, <2>3
<1> QED BY <1>1, <1>2, <1>3

(* The keys of the sessions are those of the order, and both of the stores *)
(* are within their bounds.                                                *)
StoresAreBounded ==
    /\ AreKeys(order) /\ Len(order) <= MaxSessions
    /\ AreKeys(cache) /\ Len(cache) <= MaxCache
    /\ \A t \in Texts : session[t] # None <=> Contains(order, t)

SessionsOK ==
    /\ session \in [Texts -> {None} \cup Session]
    /\ AreKeys(order) /\ Len(order) <= MaxSessions
    /\ \A t \in Texts : session[t] # None <=> Contains(order, t)

(* A session is stored within the bound, and those evicted are gone. *)
LEMMA SessionStored ==
    ASSUME SessionsOK, NEW t \in Texts, NEW e \in Session, StoreSession(t, e)
    PROVE  SessionsOK'
<1> DEFINE left == Evicted(order)
           keys == Assigned(left, t)
<1>1. AreKeys(left) /\ Len(left) + 1 <= MaxSessions
  BY EvictedKeys DEF SessionsOK
<1>2. Len(left) \in Nat /\ MaxSessions \in Nat
  BY <1>1, KeysAre, IngestAssumption
<1>3. /\ order' = keys
      /\ session' = [s \in Texts |-> IF s = t THEN e
                                     ELSE IF Contains(keys, s) THEN session[s] ELSE None]
  BY DEF StoreSession
<1>4. e # None /\ None \notin Session
  BY IngestAssumption
<1>5. \A s \in Texts : Contains(left, s) => Contains(order, s)
  <2>1. CASE Len(order) >= MaxSessions
    <3>1. left = SubSeq(order, Len(order) - MaxSessions + 2, Len(order))
      BY <2>1 DEF Evicted
    <3>2. Len(order) = MaxSessions /\ Len(order) \in Nat /\ Len(order) > 0
      BY <1>2, <2>1, KeysAre, IngestAssumption DEF SessionsOK
    <3>3. left = Tail(order)
      BY <3>1, <3>2, LaterKeys DEF SessionsOK
    <3>4. order \in Seq(Texts) /\ order # <<>>
      BY <3>2 DEF SessionsOK, AreKeys
    <3>5. Len(Tail(order)) = Len(order) - 1 /\ \A i \in 1 .. Len(order) - 1 : Tail(order)[i] = order[i + 1]
      BY <3>4, HeadTailProperties
    <3>6. \A i \in 1 .. Len(order) - 1 : i + 1 \in 1 .. Len(order)
      BY <3>2
    <3> HIDE DEF left
    <3> QED BY <3>3, <3>5, <3>6 DEF Contains
  <2>2. CASE ~ Len(order) >= MaxSessions
    <3>1. left = SubSeq(order, 1, Len(order))
      BY <2>2 DEF Evicted
    <3>2. left = order
      BY <3>1, SubSeqFull DEF SessionsOK, AreKeys
    <3> QED BY <3>2
  <2> QED BY <2>1, <2>2
<1> HIDE DEF left
<1>6. /\ AreKeys(keys) /\ Len(keys) <= MaxSessions
      /\ Contains(keys, t)
      /\ \A s \in Texts : s # t => (Contains(keys, s) <=> Contains(left, s))
  <2>1. CASE Contains(left, t)
    <3>1. keys = left
      BY <2>1 DEF Assigned
    <3> HIDE DEF keys
    <3> QED BY <1>1, <1>2, <2>1, <3>1
  <2>2. CASE ~Contains(left, t)
    <3>1. keys = Append(left, t)
      BY <2>2 DEF Assigned
    <3>2. /\ AreKeys(Append(left, t)) /\ Len(Append(left, t)) = Len(left) + 1
          /\ HasKeys(Append(left, t), left, {t})
      BY <1>1, <2>2, AppendedKeys
    <3> HIDE DEF keys
    <3> QED BY <1>1, <1>2, <3>1, <3>2 DEF HasKeys
  <2> QED BY <2>1, <2>2
<1> HIDE DEF keys
<1>7. \A s \in Texts : session'[s] # None <=> Contains(keys, s)
  BY <1>3, <1>4, <1>5, <1>6 DEF SessionsOK
<1>8. session' \in [Texts -> {None} \cup Session]
  BY <1>3 DEF SessionsOK
<1> QED BY <1>3, <1>6, <1>7, <1>8 DEF SessionsOK

(* A session that is there keeps its place when it is written to.          *)
LEMMA SessionWritten ==
    ASSUME SessionsOK, order' = order, NEW t, NEW e \in Session, session[t] # None,
           session' = [session EXCEPT ![t] = e]
    PROVE  SessionsOK'
<1>1. e # None
  BY IngestAssumption
<1>2. session' \in [Texts -> {None} \cup Session]
  BY DEF SessionsOK
<1>3. \A s \in Texts : session'[s] # None <=> session[s] # None
  BY <1>1 DEF SessionsOK
<1> QED BY <1>2, <1>3 DEF SessionsOK

(* One that is used again moves to the end. *)
LEMMA SessionMoved ==
    ASSUME SessionsOK, NEW t \in Texts, session[t] # None, order' = MovedToEnd(order, t),
           session' = session
    PROVE  SessionsOK'
<1>1. Contains(order, t) /\ AreKeys(order)
  BY DEF SessionsOK
<1>2. /\ AreKeys(MovedToEnd(order, t)) /\ HasKeys(MovedToEnd(order, t), order, {t})
      /\ Len(MovedToEnd(order, t)) = Len(order)
  BY <1>1, MovedKeys
<1> QED BY <1>1, <1>2 DEF SessionsOK, HasKeys

CacheOK == AreKeys(cache) /\ Len(cache) <= MaxCache

(* A call that goes to the engine has a text. *)
HasText(c) == at[c] \in {"run", "engine"} => arg[c].text \in Texts

StoreInv == SessionsOK /\ CacheOK /\ \A c \in Calls : HasText(c)

(* An exception leaves the stores as they are, but for a status. *)
LEMMA RaisedStores ==
    ASSUME SessionsOK, NEW c \in Calls, Raise(c)
    PROVE  SessionsOK' /\ cache' = cache
<1> DEFINE t == arg[c].text
           e == [session[t] EXCEPT !.status = "failed"]
<1>1. UNCHANGED <<order, cache>>
  BY DEF Raise
<1>2. CASE session' = session
  BY <1>1, <1>2 DEF SessionsOK
<1>3. CASE session' # session
  <2>1. session[t] # None /\ session' = [session EXCEPT ![t].status = "failed"]
    BY <1>3 DEF Raise
  <2>2. session' = [session EXCEPT ![t] = e]
    BY <2>1
  <2>3. t \in Texts
    BY <1>3, <2>2 DEF SessionsOK
  <2>4. session[t] \in Session
    BY <2>1, <2>3 DEF SessionsOK
  <2>5. e \in Session
    BY <2>4 DEF Session
  <2> HIDE DEF e, t
  <2> QED BY <1>1, <2>1, <2>2, <2>5, SessionWritten
<1> QED BY <1>1, <1>2, <1>3

(* What stays as it is stays well. *)
LEMMA StoresStand ==
    ASSUME SessionsOK, CacheOK, UNCHANGED memory
    PROVE  SessionsOK' /\ CacheOK'
BY DEF memory, SessionsOK, CacheOK

(* Each call keeps the stores within their bounds. *)
LEMMA StoresKept ==
    ASSUME TypeInv, SessionsOK, CacheOK, NEW c \in Calls, HasText(c), Arrive(c) \/ Work(c)
    PROVE  SessionsOK' /\ CacheOK' /\ HasText(c)'
<1> USE DEF TypeInv, Step, End
<1>1. CASE IngestText(c)
  <2>1. PICK t \in Texts :
          IF session[t] # None THEN order' = MovedToEnd(order, t) /\ UNCHANGED session
          ELSE StoreSession(t, [resolved |-> FALSE, status |-> "ingested"])
    BY <1>1 DEF IngestText
  <2>2. cache' = cache /\ UNCHANGED <<at, arg>>
    BY <1>1 DEF IngestText
  <2>3. SessionsOK'
    <3>1. CASE session[t] # None
      BY <2>1, <3>1, SessionMoved
    <3>2. CASE session[t] = None
      <4> DEFINE e == [resolved |-> FALSE, status |-> "ingested"]
      <4>1. e \in Session /\ StoreSession(t, e)
        BY <2>1, <3>2 DEF Session
      <4> HIDE DEF e
      <4> QED BY <4>1, SessionStored
    <3> QED BY <3>1, <3>2
  <2> QED BY <2>2, <2>3 DEF CacheOK, HasText
<1>2. CASE Resolve(c)
  <2>1. PICK t \in Texts, u \in Users \cup {None}, kind \in {"sync", "async"} :
          /\ Begin(c, IF kind = "sync" THEN "engine" ELSE "run",
                   [NoArg EXCEPT !.kind = kind, !.text = t, !.user = u])
          /\ session[t] # None /\ Processing(t) /\ UNCHANGED <<order, cache>>
    BY <1>2 DEF Resolve
  <2>2. arg'[c].text = t
    BY <2>1 DEF Begin, NoArg
  <2> DEFINE e == [session[t] EXCEPT !.status = "processing"]
  <2>3. e \in Session
    <3>1. session[t] \in Session
      BY <2>1 DEF SessionsOK
    <3> QED BY <3>1 DEF Session
  <2>4. session' = [session EXCEPT ![t] = e]
    BY <2>1 DEF Processing
  <2> HIDE DEF e
  <2>5. SessionsOK'
    BY <2>1, <2>3, <2>4, SessionWritten
  <2> QED BY <2>1, <2>2, <2>5 DEF CacheOK, HasText
<1>3. CASE Process(c)
  <2>1. PICK t \in Texts : Begin(c, "engine", [NoArg EXCEPT !.kind = "process", !.text = t])
    BY <1>3 DEF Process
  <2>2. arg'[c].text = t
    BY <2>1 DEF Begin, NoArg
  <2>3. UNCHANGED memory
    BY <1>3 DEF Process
  <2> QED BY <2>2, <2>3, StoresStand DEF HasText
<1>4. CASE Upload(c)
  <2>1. at'[c] = "create" /\ UNCHANGED memory
    BY <1>4 DEF Upload, Begin
  <2> QED BY <2>1, StoresStand DEF HasText
<1>5. CASE RunPipeline(c)
  <2> DEFINE t == arg[c].text
             e == [session[t] EXCEPT !.status = "processing"]
  <2>1. CASE at'[c] = "engine" /\ session[t] # None /\ Processing(t) /\ UNCHANGED <<order, cache, arg>> /\ at[c] = "run"
    <3>1. t \in Texts
      BY <2>1 DEF HasText
    <3>2. session[t] \in Session
      BY <2>1, <3>1 DEF SessionsOK
    <3>3. e \in Session /\ session' = [session EXCEPT ![t] = e]
      BY <2>1, <3>2 DEF Session, Processing
    <3> HIDE DEF e
    <3>4. SessionsOK'
      BY <2>1, <3>3, SessionWritten
    <3> QED BY <2>1, <3>1, <3>4 DEF CacheOK, HasText
  <2>2. CASE at'[c] = "idle" /\ UNCHANGED memory
    BY <2>2, StoresStand DEF HasText
  <2> QED BY <1>5, <2>1, <2>2 DEF RunPipeline
<1>6. CASE EngineText(c)
  <2> DEFINE t == arg[c].text
  <2>0. t \in Texts /\ at[c] = "engine"
    BY <1>6 DEF EngineText, HasText
  <2>1. CASE session[t] # None
    <3>1. /\ at'[c] \in {"persist", "charge"} /\ session' = [session EXCEPT ![t] = Resolved]
          /\ store_coc(t) /\ order' = order
      BY <1>6, <2>1 DEF EngineText, AfterEngine
    <3>2. Resolved \in Session
      BY DEF Resolved, Session
    <3>3. SessionsOK'
      BY <2>1, <3>1, <3>2, SessionWritten
    <3>4. CacheOK'
      BY <2>0, <3>1, CacheBounded DEF CacheOK
    <3> QED BY <3>1, <3>3, <3>4 DEF HasText
  <2>2. CASE session[t] = None
    <3>1. Raise(c)
      BY <1>6, <2>2 DEF EngineText
    <3>2. at'[c] \in {"fail", "idle"}
      BY <3>1 DEF Raise
    <3> QED BY <3>1, <3>2, RaisedStores DEF CacheOK, HasText
  <2> QED BY <2>1, <2>2
<1>7. CASE EngineProcess(c)
  <2>1. /\ arg[c].text \in Texts /\ store_coc(arg[c].text) /\ UNCHANGED <<order, session>>
        /\ at'[c] \in {"persist", "charge"}
    BY <1>7 DEF EngineProcess, AfterEngine, HasText
  <2>2. CacheOK'
    BY <2>1, CacheBounded DEF CacheOK
  <2>3. SessionsOK'
    BY <2>1 DEF SessionsOK
  <2> QED BY <2>1, <2>2, <2>3 DEF HasText
<1>8. CASE create_job(c)
  <2>1. at'[c] = "extract" /\ UNCHANGED memory
    BY <1>8 DEF create_job
  <2> QED BY <2>1, StoresStand DEF HasText
<1>9. CASE Extract(c)
  <2>1. PICK t \in Texts : arg' = [arg EXCEPT ![c].text = t]
    BY <1>9 DEF Extract
  <2>2. arg'[c].text = t
    BY <2>1 DEF Args
  <2>3. UNCHANGED memory
    BY <1>9 DEF Extract
  <2> QED BY <2>2, <2>3, StoresStand DEF HasText
<1>10. CASE EngineFile(c)
  <2>1. /\ arg[c].text \in Texts /\ store_coc(arg[c].text) /\ StoreSession(arg[c].text, Resolved)
        /\ at'[c] \in {"persist", "charge"}
    BY <1>10 DEF EngineFile, AfterEngine, HasText
  <2>2. CacheOK'
    BY <2>1, CacheBounded DEF CacheOK
  <2>3. Resolved \in Session
    BY DEF Resolved, Session
  <2>4. SessionsOK'
    BY <2>1, <2>3, SessionStored
  <2> QED BY <2>1, <2>2, <2>4 DEF HasText
<1>11. CASE StoreSessionRead(c)
  <2>1. at'[c] \in {"persist_write", "charge"} /\ UNCHANGED memory
    BY <1>11 DEF StoreSessionRead
  <2> QED BY <2>1, StoresStand DEF HasText
<1>12. CASE StoreSessionWrite(c)
  <2>1. at'[c] \in {"charge", "fail", "idle"} /\ (UNCHANGED memory \/ Raise(c))
    BY <1>12 DEF StoreSessionWrite, Raise
  <2> QED BY <2>1, StoresStand, RaisedStores DEF CacheOK, HasText
<1>13. CASE Charge(c)
  <2>1. at'[c] \in {"idle", "store"} /\ UNCHANGED memory
    BY <1>13 DEF Charge
  <2> QED BY <2>1, StoresStand DEF HasText
<1>14. CASE StoreResult(c)
  <2>1. at'[c] \in {"complete", "fail", "idle"} /\ (UNCHANGED memory \/ Raise(c))
    BY <1>14 DEF StoreResult, Raise
  <2> QED BY <2>1, StoresStand, RaisedStores DEF CacheOK, HasText
<1>15. CASE set_job_complete(c)
  <2>1. at'[c] \in {"fail", "idle"} /\ (UNCHANGED memory \/ Raise(c))
    BY <1>15 DEF set_job_complete, Raise
  <2> QED BY <2>1, StoresStand, RaisedStores DEF CacheOK, HasText
<1>16. CASE set_job_failed(c)
  <2>1. at'[c] = "idle" /\ UNCHANGED memory
    BY <1>16 DEF set_job_failed
  <2> QED BY <2>1, StoresStand DEF HasText
<1>17. CASE Fault(c)
  <2>1. at'[c] \in {"fail", "idle"} /\ Raise(c)
    BY <1>17 DEF Fault, Raise
  <2> QED BY <2>1, RaisedStores DEF CacheOK, HasText
<1>18. CASE UploadFault(c)
  <2>1. at'[c] = "idle" /\ UNCHANGED memory
    BY <1>18 DEF UploadFault
  <2> QED BY <2>1, StoresStand DEF HasText
<1> QED
  BY <1>1, <1>2, <1>3, <1>4, <1>5, <1>6, <1>7, <1>8, <1>9, <1>10, <1>11, <1>12, <1>13,
     <1>14, <1>15, <1>16, <1>17, <1>18 DEF Arrive, Work

(* The stores stay within their bounds, whatever arrives, is evicted or    *)
(* dies.                                                                   *)
THEOREM StoresStayBounded == Spec => []StoresAreBounded
<1> DEFINE IInv == TypeInv /\ JobInv
<1>1. Init => StoreInv
  <2> SUFFICES ASSUME Init PROVE StoreInv
    OBVIOUS
  <2>1. AreKeys(<<>>) /\ Len(<<>>) = 0 /\ MaxSessions \in Nat /\ MaxCache \in Nat
    BY IngestAssumption DEF AreKeys, KeysOnce
  <2>2. \A t : ~Contains(<<>>, t)
    BY DEF Contains
  <2> QED BY <2>1, <2>2 DEF Init, StoreInv, SessionsOK, CacheOK, HasText
<1>2. TypeInv /\ StoreInv /\ [Next]_vars => StoreInv'
  <2>1. ASSUME TypeInv, StoreInv, NEW c \in Calls, Arrive(c) \/ Work(c)
        PROVE  StoreInv'
    <3>1. \A d \in Calls \ {c} : HasText(d)'
      BY <2>1, OthersStand DEF StoreInv, HasText
    <3>2. SessionsOK' /\ CacheOK' /\ HasText(c)'
      BY <2>1, StoresKept DEF StoreInv
    <3> QED BY <3>1, <3>2 DEF StoreInv
  <2>2. ASSUME TypeInv, StoreInv, World
        PROVE  StoreInv'
    <3>1. CASE Crash
      <4>1. /\ order' = <<>> /\ cache' = <<>> /\ session' = [t \in Texts |-> None]
            /\ at' = [c \in Calls |-> "idle"]
        BY <3>1 DEF Crash
      <4>2. AreKeys(<<>>) /\ Len(<<>>) = 0 /\ MaxSessions \in Nat /\ MaxCache \in Nat
        BY IngestAssumption DEF AreKeys, KeysOnce
      <4>3. \A t : ~Contains(<<>>, t)
        BY DEF Contains
      <4> QED BY <4>1, <4>2, <4>3 DEF StoreInv, SessionsOK, CacheOK, HasText
    <3>2. CASE UNCHANGED <<memory, at, arg>>
      BY <2>2, <3>2, StoresStand DEF StoreInv, HasText
    <3> QED BY <2>2, <3>1, <3>2 DEF World, Poll, ChangeSettings, DeleteSessions, DeleteAccount, Purge, Tick
  <2>3. ASSUME StoreInv, UNCHANGED vars  PROVE StoreInv'
    BY <2>3, StoresStand DEF vars, StoreInv, HasText
  <2> QED BY <2>1, <2>2, <2>3 DEF Next
<1>3. StoreInv => StoresAreBounded
  BY DEF StoreInv, SessionsOK, CacheOK, StoresAreBounded
<1>4. Init => IInv
  BY InitialJobs
<1>5. IInv /\ [Next]_vars => IInv'
  BY JobsAlways
<1> QED BY <1>1, <1>2, <1>3, <1>4, <1>5, PTL DEF Spec
=============================================================================
