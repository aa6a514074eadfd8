----------------------------- MODULE ImportJobs -----------------------------
(***************************************************************************)
(* List imports (internal/imports/service.go, apply.go, task.go,           *)
(* queries/imports.sql): an API request creates a job and queues its task, *)
(* a worker fetches and matches it, and a later request commits the        *)
(* preview into the user's list.  The status column is the only thing the  *)
(* three share; a unique index keeps one job per user active.              *)
(*                                                                         *)
(* The task queue is asynq, external to the code: a task runs again after  *)
(* an error or after its worker died, up to MaxRetry times; then it is     *)
(* archived and never runs again.                                          *)
(***************************************************************************)
EXTENDS Naturals, FiniteSets

CONSTANTS
    Jobs, Users, Owner,
    Workers, Requests,
    MaxRetry,       \* taskMaxRetry (5)
    MaxDeaths,      \* bound: worker processes that die in a run
    Crashes,        \* an API process may die inside a request
    DbErrors        \* a worker's read or claim of the job's row may fail

ASSUME ImportAssumption ==
    /\ Owner \in [Jobs -> Users]
    /\ MaxRetry \in Nat /\ MaxDeaths \in Nat
    /\ Crashes \in BOOLEAN /\ DbErrors \in BOOLEAN

VARIABLES
    status,     \* import_jobs.status ("none": no row yet)
    applied,    \* applied[j]: how often j's rows were written to the list
    create,     \* create[j]: the request creating j
    task,       \* task[j]: j's asynq task and how often it was retried
    run,        \* run[w]: the task worker w is processing
    commit,     \* commit[q]: the commit request q
    deaths      \* worker deaths so far

importVars == <<status, applied, create, task, run, commit, deaths>>

NoCreate == [at |-> "none", mine |-> {}]
NoRun == [at |-> "idle"]
NoCommit == [at |-> "none"]

ImportInit ==
    /\ status = [j \in Jobs |-> "none"]
    /\ applied = [j \in Jobs |-> 0]
    /\ create = [j \in Jobs |-> NoCreate]
    /\ task = [j \in Jobs |-> [state |-> "none", retried |-> 0]]
    /\ run = [w \in Workers |-> NoRun]
    /\ commit = [q \in Requests |-> NoCommit]
    /\ deaths = 0

Set(j, s) == status' = [status EXCEPT ![j] = s]

(* Faults the properties must notice: an index that leaves out the jobs    *)
(* being committed.                                                        *)
ActiveButCommitting(j) == status[j] \in {"pending", "processing"}

(* import_jobs_one_active_idx.                                             *)
Active(j) == status[j] \in {"pending", "processing", "committing"}

OthersActive(j) == \E k \in Jobs \ {j} : Owner[k] = Owner[j] /\ Active(k)

(* A row the creating transaction has superseded and not committed.        *)
Locked(j) == \E k \in Jobs : j \in create[k].mine

----------------------------------------------------------------------------
(* createJob: supersede the previews, insert the job, commit; then queue.  *)
CreateSupersede(j) ==
    /\ status[j] = "none" /\ create[j] = NoCreate
    /\ \A k \in Jobs : Owner[k] = Owner[j] => ~Locked(k)
    /\ create' = [create EXCEPT ![j] =
          [at |-> "insert", mine |-> {k \in Jobs : Owner[k] = Owner[j] /\ status[k] = "ready"}]]
    /\ UNCHANGED <<status, applied, task, run, commit, deaths>>

CreateInsert(j) ==
    /\ create[j].at = "insert"
    /\ ~OthersActive(j)
    /\ status' = [k \in Jobs |-> IF k = j THEN "pending"
                                 ELSE IF k \in create[j].mine THEN "superseded" ELSE status[k]]
    /\ create' = [create EXCEPT ![j] = [at |-> "enqueue", mine |-> {}]]
    /\ UNCHANGED <<applied, task, run, commit, deaths>>

(* ErrActiveImport, another error, or the request's end: all rolled back.  *)
CreateRollback(j) ==
    /\ create[j].at = "insert"
    /\ create' = [create EXCEPT ![j] = NoCreate]
    /\ UNCHANGED <<status, applied, task, run, commit, deaths>>

Enqueue(j) ==
    /\ create[j].at = "enqueue"
    /\ create' = [create EXCEPT ![j] = [at |-> "done", mine |-> {}]]
    /\ task' = [task EXCEPT ![j].state = "queued"]
    /\ UNCHANGED <<status, applied, run, commit, deaths>>

(* The job is failed, if the request's context still allows it.            *)
EnqueueFails(j) ==
    /\ create[j].at = "enqueue"
    /\ create' = [create EXCEPT ![j] = [at |-> "done", mine |-> {}]]
    /\ Set(j, "failed") \/ UNCHANGED status
    /\ UNCHANGED <<applied, task, run, commit, deaths>>

CreateDies(j) ==
    /\ Crashes
    /\ create[j].at = "enqueue"
    /\ create' = [create EXCEPT ![j] = [at |-> "done", mine |-> {}]]
    /\ UNCHANGED <<status, applied, task, run, commit, deaths>>

----------------------------------------------------------------------------
Dequeue(w, j) ==
    /\ run[w] = NoRun
    /\ task[j].state = "queued"
    /\ run' = [run EXCEPT ![w] = [at |-> "claim", job |-> j]]
    /\ task' = [task EXCEPT ![j].state = "active"]
    /\ UNCHANGED <<status, applied, create, commit, deaths>>

EndRun(w, j) ==
    /\ run' = [run EXCEPT ![w] = NoRun]
    /\ task' = [task EXCEPT ![j].state = "done"]

(* A fault JobsAreProcessed must notice: a claim that takes a job left     *)
(* 'processing' by a dead run for one that moved on.                       *)
ClaimPendingOnly(w) ==
    LET j == run[w].job
    IN  /\ run[w].at = "claim"
        /\ IF status[j] = "pending"
           THEN /\ Set(j, "processing")
                /\ run' = [run EXCEPT ![w].at = "work"]
                /\ UNCHANGED task
           ELSE EndRun(w, j) /\ UNCHANGED status
        /\ UNCHANGED <<applied, create, commit, deaths>>

(* MarkImportJobProcessing, an idempotent claim; otherwise the task is     *)
(* stale and dropped.                                                      *)
Claim(w) ==
    LET j == run[w].job
    IN  /\ run[w].at = "claim"
        /\ IF status[j] \in {"pending", "processing"}
           THEN /\ Set(j, "processing")
                /\ run' = [run EXCEPT ![w].at = "work"]
                /\ UNCHANGED task
           ELSE EndRun(w, j) /\ UNCHANGED status
        /\ UNCHANGED <<applied, create, commit, deaths>>

(* Rows fetched and matched (FinishImportJobProcessing), or a permanent    *)
(* failure (failJob).                                                      *)
Finish(w) ==
    /\ run[w].at = "work"
    /\ Set(run[w].job, "ready") \/ Set(run[w].job, "failed")
    /\ run' = [run EXCEPT ![w].at = "ack"]
    /\ UNCHANGED <<applied, create, task, commit, deaths>>

Ack(w) ==
    /\ run[w].at = "ack"
    /\ EndRun(w, run[w].job)
    /\ UNCHANGED <<status, applied, create, commit, deaths>>

Redeliver(j) == task' = [task EXCEPT ![j] = [state |-> "queued", retried |-> @.retried + 1]]

(* A fault ImportTypeOK must notice: retries without a limit.                    *)
RedeliverAlways(j) == Redeliver(j)

(* asynq after a failed attempt.                                           *)
RedeliverOrArchive(j) ==
    IF task[j].retried < MaxRetry THEN Redeliver(j)
    ELSE task' = [task EXCEPT ![j].state = "archived"]

(* A transient error, or the end of taskTimeout.  On the last retry        *)
(* handleImportProcess marks the job failed, with the attempt's context:   *)
(* that fails when the attempt timed out.                                  *)
Retry(w) ==
    LET j == run[w].job
    IN  /\ run[w].at \in IF DbErrors THEN {"claim", "work"} ELSE {"work"}
        /\ run' = [run EXCEPT ![w] = NoRun]
        /\ RedeliverOrArchive(j)
        /\ \/ UNCHANGED status
           \/ task[j].retried >= MaxRetry /\ Set(j, "failed")
        /\ UNCHANGED <<applied, create, commit, deaths>>

(* The worker process dies; asynq finds the lease of its task expired.     *)
WorkerDies(w) ==
    /\ deaths < MaxDeaths
    /\ run[w] # NoRun
    /\ run' = [run EXCEPT ![w] = NoRun]
    /\ RedeliverOrArchive(run[w].job)
    /\ deaths' = deaths + 1
    /\ UNCHANGED <<status, applied, create, commit>>

----------------------------------------------------------------------------
(* Commit reads the job and checks it before claiming it.  ctx is the      *)
(* request's context: it ends when the client hangs up.                    *)
CommitRead(q, j) ==
    /\ commit[q] = NoCommit
    /\ status[j] = "ready"
    /\ commit' = [commit EXCEPT ![q] = [at |-> "claim", job |-> j, ctx |-> TRUE]]
    /\ UNCHANGED <<status, applied, create, task, run, deaths>>

EndCommit(q) == commit' = [commit EXCEPT ![q] = NoCommit]

ClientGone(q) ==
    /\ commit[q] # NoCommit /\ commit[q].ctx
    /\ commit' = [commit EXCEPT ![q].ctx = FALSE]
    /\ UNCHANGED <<status, applied, create, task, run, deaths>>

(* A fault AppliedOnce must notice: the claim trusts the status read       *)
(* before.                                                                 *)
CommitClaimBlindly(q) ==
    LET j == commit[q].job
    IN  /\ commit[q].at = "claim" /\ ~Locked(j)
        /\ commit[q].ctx /\ ~OthersActive(j)
        /\ Set(j, "committing")
        /\ commit' = [commit EXCEPT ![q].at = "apply"]
        /\ UNCHANGED <<applied, create, task, run, deaths>>

(* MarkImportJobCommitting waits for a Create that holds the row.  It      *)
(* fails on a job no longer ready, a dead context, and the unique index.   *)
CommitClaim(q) ==
    LET j == commit[q].job
    IN  /\ commit[q].at = "claim" /\ ~Locked(j)
        /\ IF status[j] = "ready" /\ commit[q].ctx /\ ~OthersActive(j)
           THEN Set(j, "committing") /\ commit' = [commit EXCEPT ![q].at = "apply"]
           ELSE EndCommit(q) /\ UNCHANGED status
        /\ UNCHANGED <<applied, create, task, run, deaths>>

(* apply: one transaction.                                                 *)
Apply(q) ==
    /\ commit[q].at = "apply" /\ commit[q].ctx
    /\ applied' = [applied EXCEPT ![commit[q].job] = @ + 1]
    /\ commit' = [commit EXCEPT ![q].at = "complete"]
    /\ UNCHANGED <<status, create, task, run, deaths>>

ApplyFails(q) ==
    /\ commit[q].at = "apply"
    /\ commit' = [commit EXCEPT ![q].at = "reopen"]
    /\ UNCHANGED <<status, applied, create, task, run, deaths>>

(* ReopenImportJob and CompleteImportJob run under the request's context;  *)
(* when they fail the status stays as it is.                               *)
Reopen(q) ==
    /\ commit[q].at = "reopen"
    /\ IF commit[q].ctx THEN Set(commit[q].job, "ready") ELSE UNCHANGED status
    /\ EndCommit(q)
    /\ UNCHANGED <<applied, create, task, run, deaths>>

(* A fault ImportOutcomes must notice: a failed CompleteImportJob reopens. *)
CompleteOrReopen(q) ==
    /\ commit[q].at = "complete"
    /\ Set(commit[q].job, IF commit[q].ctx THEN "done" ELSE "ready")
    /\ EndCommit(q)
    /\ UNCHANGED <<applied, create, task, run, deaths>>

Complete(q) ==
    /\ commit[q].at = "complete"
    /\ IF commit[q].ctx THEN Set(commit[q].job, "done") ELSE UNCHANGED status
    /\ EndCommit(q)
    /\ UNCHANGED <<applied, create, task, run, deaths>>

CommitDies(q) ==
    /\ Crashes
    /\ commit[q] # NoCommit
    /\ EndCommit(q)
    /\ UNCHANGED <<status, applied, create, task, run, deaths>>

----------------------------------------------------------------------------
Create(j) ==
    \/ CreateSupersede(j) \/ CreateInsert(j) \/ CreateRollback(j)
    \/ Enqueue(j) \/ EnqueueFails(j) \/ CreateDies(j)

Process(w) == Claim(w) \/ Finish(w) \/ Ack(w) \/ Retry(w)

CommitStep(q) ==
    \/ CommitClaim(q) \/ Apply(q) \/ ApplyFails(q) \/ Reopen(q) \/ Complete(q)
    \/ ClientGone(q) \/ CommitDies(q)

ImportNext ==
    \/ \E j \in Jobs : Create(j)
    \/ \E w \in Workers, j \in Jobs : Dequeue(w, j)
    \/ \E w \in Workers : Process(w) \/ WorkerDies(w)
    \/ \E q \in Requests, j \in Jobs : CommitRead(q, j)
    \/ \E q \in Requests : CommitStep(q)

ImportSpec == ImportInit /\ [][ImportNext]_importVars

(* Workers poll the queue and finish what they dequeue.                    *)
Fairness ==
    /\ \A j \in Jobs : WF_importVars(\E w \in Workers : Dequeue(w, j))
    /\ \A w \in Workers : WF_importVars(Process(w))

FairSpec == ImportSpec /\ Fairness

----------------------------------------------------------------------------
ImportTypeOK ==
    /\ status \in [Jobs -> {"none", "pending", "processing", "ready", "committing",
                            "done", "failed", "superseded"}]
    /\ applied \in [Jobs -> Nat]
    /\ create \in [Jobs -> [at : {"none", "insert", "enqueue", "done"}, mine : SUBSET Jobs]]
    /\ task \in [Jobs -> [state : {"none", "queued", "active", "done", "archived"},
                       retried : 0..MaxRetry]]
    /\ run \in [Workers -> {NoRun} \cup [at : {"claim", "work", "ack"}, job : Jobs]]
    /\ commit \in [Requests -> {NoCommit} \cup
          [at : {"claim", "apply", "complete", "reopen"}, job : Jobs, ctx : BOOLEAN]]
    /\ deaths \in 0..MaxDeaths

(* One live import per user: at no point are two jobs of a user queued,    *)
(* matching or being written to the list, and only one request writes.     *)
OneLiveImport ==
    /\ \A j, k \in Jobs : Active(j) /\ Active(k) /\ Owner[j] = Owner[k] => j = k
    /\ \A q, p \in Requests :
          /\ commit[q].at \in {"apply", "complete", "reopen"}
          /\ commit[p].at \in {"apply", "complete", "reopen"}
          /\ Owner[commit[q].job] = Owner[commit[p].job]
          => q = p

(* A preview's rows reach the list at most once, and 'ready' never offers  *)
(* rows that are already there.                                            *)
AppliedOnce ==
    \A j \in Jobs : /\ applied[j] <= 1
                    /\ status[j] \in {"pending", "processing", "ready"} => applied[j] = 0
                    /\ status[j] = "done" => applied[j] = 1

(* One import of a user at a time, written to the list at most once.       *)
ImportsExclusive == OneLiveImport /\ AppliedOnce

(* A queued job is processed in the end, whatever sequence of errors,      *)
(* retries and worker deaths its task goes through: it leaves 'pending'    *)
(* and 'processing', where it blocks the user's next import, unless every  *)
(* attempt failed.                                                         *)
JobsAreProcessed ==
    \A j \in Jobs : task[j].state = "queued" ~>
        status[j] \notin {"pending", "processing"} \/ task[j].state = "archived"

(* service.go:227-228: "A failed apply rolls back and reopens the job as   *)
(* ready ... so commit can be retried": no job whose rows were not written *)
(* stays 'committing' once the request that claimed it is over.            *)
FailedApplyReopens ==
    \A j \in Jobs : status[j] = "committing" /\ applied[j] = 0 =>
        \E q \in Requests : commit[q] # NoCommit /\ commit[q].job = j

(* What a user sees of each job.                                           *)
outcome == [j \in Jobs |->
    IF applied[j] > 1 THEN "twice"
    ELSE IF applied[j] = 1 THEN "applied"
    ELSE IF status[j] \in {"failed", "superseded"} THEN "dropped" ELSE "open"]

(* Every preview is applied once or dropped, for good: the workers,        *)
(* retries, racing commits and new imports together implement              *)
(* ImportOutcome.                                                          *)
Outcomes == INSTANCE ImportOutcome WITH Jobs <- Jobs, outcome <- outcome
ImportOutcomes == Outcomes!Spec
=============================================================================
