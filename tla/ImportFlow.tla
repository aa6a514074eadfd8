----------------------------- MODULE ImportFlow -----------------------------
(***************************************************************************)
(* The importer's page (app/settings/import/import-client.tsx, the start   *)
(* form in import-start.tsx, lib/hooks/use-import.ts): the id of the job   *)
(* in hand is in the browser's storage, shared by its tabs; the page shows *)
(* what it last read of that job, and reads it again while it is active.   *)
(***************************************************************************)
EXTENDS Naturals, Sequences

CONSTANTS
    MaxJobs,    \* jobs created (bound)
    MaxLost     \* calls that fail, pages left, other tabs' steps (bound)

(* What is assumed of them.                                                *)
FlowAssumption == MaxJobs \in Nat /\ MaxLost \in Nat

VARIABLES
    jobs,       \* import_jobs: the status of each job created
    slot,       \* the stored job id, NoJob when there is none
    on,         \* the tab shows the page
    read,       \* the tab's query of each job: its data, its error, its
                \* fetch and whether it was invalidated
    starting,   \* the start in flight: at "no", "sent", "served" (with the
                \* job) or "refused"; left: the form went away meanwhile
    applying,   \* the apply in flight, of a job: "sent", "served", "refused"
    mine,       \* history: jobs this tab was given and did not lose by a
                \* cause below
    lost        \* such steps so far

flowVars == <<jobs, slot, on, read, starting, applying, mine, lost>>

NoJob == 0
Job == DOMAIN jobs
Statuses == {"pending", "processing", "ready", "committing", "done", "failed", "superseded", "gone"}

Unread == [data |-> "none", error |-> FALSE, fetch |-> "none", stale |-> FALSE]
Shown == read[slot]
NotStarting == [at |-> "no", job |-> NoJob, left |-> FALSE]
NotApplying == [at |-> "no", job |-> NoJob]

Init ==
    /\ jobs = <<>> /\ slot = NoJob /\ on = TRUE
    /\ read = [j \in 1 .. MaxJobs |-> Unread]
    /\ starting = NotStarting /\ applying = NotApplying /\ mine = {} /\ lost = 0

(* The statuses the page keeps polling through.                            *)
(* A fault SpinnersEnd must notice: an apply is not followed.              *)
IsActiveForgetsApply(s) == s \in {"pending", "processing"}
IsActive(s) == s \in {"pending", "processing", "committing"}

(* What the page shows of the stored job.                                  *)
Screen ==
    IF slot = NoJob THEN "start"
    ELSE IF Shown.error THEN "error"
    ELSE CASE Shown.data \in {"none", "gone"} -> "skeleton"
           [] Shown.data \in {"pending", "processing", "committing"} -> "spinner"
           [] Shown.data = "ready" -> "preview"
           [] OTHER -> "outcome"    \* done, failed, superseded: each ends in a reset

(* The API opens a job unless one is running, superseding a preview left   *)
(* behind.                                                                 *)
Running == {"pending", "processing", "committing"}
NextJob == Len(jobs) + 1
Create ==
    /\ Len(jobs) < MaxJobs /\ \A j \in Job : jobs[j] \notin Running
    /\ jobs' = Append([j \in Job |-> IF jobs[j] = "ready" THEN "superseded" ELSE jobs[j]],
                      "pending")

-----------------------------------------------------------------------------
(* Starting an import: both buttons are dead while either call is in       *)
(* flight.                                                                 *)
Start ==
    /\ on /\ Screen = "start" /\ starting.at = "no"
    /\ starting' = [NotStarting EXCEPT !.at = "sent"]
    /\ UNCHANGED <<jobs, slot, on, read, applying, mine, lost>>

ServeStart ==
    /\ starting.at = "sent"
    /\ \/ Create /\ starting' = [starting EXCEPT !.at = "served", !.job = NextJob]
       \/ (\E j \in Job : jobs[j] \in Running) /\ UNCHANGED jobs
          /\ starting' = [starting EXCEPT !.at = "refused"]
    /\ UNCHANGED <<slot, on, read, applying, mine, lost>>

(* The answer is written to the job's query.  Storing its id is left to    *)
(* the form, which does not hear of it once it is gone.                    *)
StartArrives ==
    /\ starting.at = "served" /\ starting' = NotStarting
    /\ read' = [read EXCEPT ![starting.job].data = "pending"]
    /\ slot' = IF starting.left THEN slot ELSE starting.job
    /\ mine' = IF starting.left THEN mine ELSE mine \cup {starting.job}
    /\ UNCHANGED <<jobs, on, applying, lost>>

StartFails ==
    /\ starting.at # "no" /\ starting' = NotStarting
    /\ \/ starting.at = "refused" /\ UNCHANGED lost
       \/ lost < MaxLost /\ lost' = lost + 1
    /\ UNCHANGED <<jobs, slot, on, read, applying, mine>>

-----------------------------------------------------------------------------
(* The stored job is read when nothing was, every two seconds while it is  *)
(* active, and by Retry.                                                   *)
IsDue == Shown.data = "none" \/ Shown.error \/ IsActive(Shown.data)

Ask ==
    /\ on /\ slot # NoJob /\ Shown.fetch = "none" /\ IsDue
    /\ read' = [read EXCEPT ![slot].fetch = "asked"]
    /\ UNCHANGED <<jobs, slot, on, starting, applying, mine, lost>>

ServeJob(j) ==
    /\ read[j].fetch = "asked" /\ read' = [read EXCEPT ![j].fetch = jobs[j]]
    /\ UNCHANGED <<jobs, slot, on, starting, applying, mine, lost>>

(* An answer.  A job that no longer exists empties the storage, whichever  *)
(* job is stored by then.                                                  *)
JobArrives(j) ==
    /\ read[j].fetch \in Statuses
    /\ read' = [read EXCEPT ![j] = [Unread EXCEPT !.data = read[j].fetch]]
    /\ slot' = IF read[j].fetch = "gone" THEN NoJob ELSE slot
    /\ mine' = IF read[j].fetch = "gone" THEN {} ELSE mine
    /\ UNCHANGED <<jobs, on, starting, applying, lost>>

(* A fault NothingStranded must notice: any failure empties the storage.   *)
JobFailsClears(j) ==
    /\ read[j].fetch # "none" /\ lost < MaxLost /\ lost' = lost + 1
    /\ read' = [read EXCEPT ![j].fetch = "none", ![j].error = TRUE]
    /\ slot' = NoJob
    /\ UNCHANGED <<jobs, on, starting, applying, mine>>
JobFails(j) ==
    /\ read[j].fetch # "none" /\ lost < MaxLost /\ lost' = lost + 1
    /\ read' = [read EXCEPT ![j].fetch = "none", ![j].error = TRUE]
    /\ UNCHANGED <<jobs, slot, on, starting, applying, mine>>

-----------------------------------------------------------------------------
(* The preview's Apply, dead while one is in flight.                       *)
Apply ==
    /\ on /\ Screen = "preview" /\ applying.at = "no"
    /\ applying' = [at |-> "sent", job |-> slot]
    /\ UNCHANGED <<jobs, slot, on, read, starting, mine, lost>>

(* The API applies a ready job while the caller waits; an apply that fails *)
(* reopens it, and one that dies on the way leaves it committing.          *)
ServeApply ==
    /\ applying.at = "sent"
    /\ \/ jobs[applying.job] = "ready"
          /\ \/ jobs' = [jobs EXCEPT ![applying.job] = "done"]
                /\ applying' = [applying EXCEPT !.at = "served"]
             \/ jobs' = [jobs EXCEPT ![applying.job] = "committing"]
                /\ applying' = [applying EXCEPT !.at = "refused"]
             \/ UNCHANGED jobs /\ applying' = [applying EXCEPT !.at = "refused"]
       \/ jobs[applying.job] # "ready" /\ UNCHANGED jobs
          /\ applying' = [applying EXCEPT !.at = "refused"]
    /\ UNCHANGED <<slot, on, read, starting, mine, lost>>

(* The answer is the job itself; a failure has it read again, anew, if it  *)
(* is on screen, and otherwise when it next is.                            *)
ApplyArrives ==
    /\ applying.at = "served" /\ applying' = NotApplying
    /\ read' = [read EXCEPT ![applying.job].data = "done", ![applying.job].error = FALSE]
    /\ UNCHANGED <<jobs, slot, on, starting, mine, lost>>

ApplyFails ==
    /\ applying.at # "no" /\ applying' = NotApplying
    /\ \/ applying.at = "refused" /\ UNCHANGED lost
       \/ lost < MaxLost /\ lost' = lost + 1
    /\ read' = [read EXCEPT ![applying.job] =
                  IF on /\ slot = applying.job THEN [@ EXCEPT !.fetch = "asked", !.stale = TRUE]
                  ELSE [@ EXCEPT !.stale = TRUE]]
    /\ UNCHANGED <<jobs, slot, on, starting, mine>>

(* "Discard preview", "Start over", "Import another".                      *)
Reset ==
    /\ on /\ Screen \in {"error", "preview", "outcome"}
    /\ slot' = NoJob /\ mine' = mine \ {slot}
    /\ UNCHANGED <<jobs, on, read, starting, applying, lost>>

-----------------------------------------------------------------------------
(* The form goes away with the page, and when another tab stores a job.    *)
FormGone == starting' = [starting EXCEPT !.left = @ \/ starting.at # "no"]

Leave ==
    /\ on /\ lost < MaxLost /\ lost' = lost + 1 /\ on' = FALSE /\ FormGone
    /\ UNCHANGED <<jobs, slot, read, applying, mine>>

(* Coming back, the stored job is read again if it is old or was           *)
(* invalidated.  A reload forgets every query and hears no answer; the     *)
(* stored id stays.                                                        *)
Return ==
    /\ ~on /\ on' = TRUE
    /\ \/ \E old \in BOOLEAN :
             read' = [j \in 1 .. MaxJobs |->
                        IF j = slot /\ read[j].fetch = "none" /\ (old \/ read[j].stale)
                        THEN [read[j] EXCEPT !.fetch = "asked"] ELSE read[j]]
          /\ UNCHANGED <<starting, applying>>
       \/ read' = [j \in 1 .. MaxJobs |-> Unread]
          /\ starting' = NotStarting /\ applying' = NotApplying
    /\ UNCHANGED <<jobs, slot, mine, lost>>

(* Another tab starts an import, or lets the stored one go.                *)
OtherTab ==
    /\ \/ slot = NoJob /\ Create /\ slot' = NextJob /\ FormGone
       \/ slot # NoJob /\ slot' = NoJob /\ UNCHANGED <<jobs, starting>>
    /\ mine' = {} /\ lost < MaxLost /\ lost' = lost + 1
    /\ UNCHANGED <<on, read, applying>>

(* The worker, the reaper and the pruning of old jobs.                     *)
JobMoves(j) ==
    /\ \E s \in Statuses :
         /\ \/ jobs[j] = "pending" /\ s = "processing"
            \/ jobs[j] = "processing" /\ s = "ready"
            \/ jobs[j] \in Running /\ s = "failed"
            \/ jobs[j] \in {"done", "failed", "superseded"} /\ s = "gone"
         /\ jobs' = [jobs EXCEPT ![j] = s]
    /\ UNCHANGED <<slot, on, read, starting, applying, mine, lost>>

Next ==
    \/ Start \/ ServeStart \/ StartArrives \/ StartFails \/ Ask \/ Apply \/ ServeApply
    \/ ApplyArrives \/ ApplyFails \/ Reset \/ Leave \/ Return \/ OtherTab
    \/ \E j \in Job : \/ ServeJob(j) \/ JobArrives(j) \/ JobFails(j) \/ JobMoves(j)

Spec == Init /\ [][Next]_flowVars

-----------------------------------------------------------------------------
(* Every variable has its type.                                            *)
TypeOK ==
    /\ \A j \in Job : jobs[j] \in Statuses
    /\ slot \in {NoJob} \cup Job /\ mine \subseteq Job
    /\ \A j \in DOMAIN read : read[j].data \in {"none"} \cup Statuses
    /\ starting.at \in {"no", "sent", "served", "refused"}
    /\ applying.at \in {"no", "sent", "served", "refused"}

(* A spinner or a skeleton the viewer can only wait at is one the page is  *)
(* about to read again; every other screen has a way out.                  *)
SpinnersEnd ==
    on /\ Screen \in {"skeleton", "spinner"} => Shown.fetch # "none" \/ IsDue

(* A live import the tab was given is the stored one, reachable across a   *)
(* reload, until the viewer lets it go, another tab takes the storage, or  *)
(* a read answers that some job is gone.                                   *)
NothingStranded ==
    \A j \in mine : jobs[j] \in Running \cup {"ready"} => slot = j

-----------------------------------------------------------------------------
(* What every step keeps: what is stored, read, started and applied are    *)
(* jobs that were created, only the last of them is live, a start that     *)
(* answers its own form answers with that one, and no stored job is one    *)
(* the page knows to be gone.                                              *)
Answer == {"none"} \cup Statuses
AnyRead == [data : Answer, error : BOOLEAN, fetch : Answer \cup {"asked"}, stale : BOOLEAN]
Ats == {"no", "sent", "served", "refused"}

FlowTypes ==
    /\ jobs \in Seq(Statuses) /\ Len(jobs) <= MaxJobs
    /\ slot \in 0 .. Len(jobs)
    /\ read \in [1 .. MaxJobs -> AnyRead]
    /\ starting \in [at : Ats, job : 0 .. Len(jobs), left : BOOLEAN]
    /\ applying \in [at : Ats, job : 0 .. Len(jobs)]
    /\ mine \subseteq 1 .. Len(jobs)

AnswersNameJobs ==
    /\ starting.at = "served" => starting.job # NoJob
    /\ applying.at # "no" => applying.job # NoJob
OnlyJobsAreRead == \A j \in 1 .. MaxJobs : j > Len(jobs) => read[j].data # "gone"
StoredIsThere == slot # NoJob => read[slot].data # "gone"

Live == Running \cup {"ready"}
LastIsLive == \A j \in 1 .. Len(jobs) : jobs[j] \in Live => j = Len(jobs)
StartIsLast == starting.at = "served" /\ ~starting.left => starting.job = Len(jobs)

FlowInv ==
    /\ FlowTypes /\ AnswersNameJobs /\ OnlyJobsAreRead /\ StoredIsThere
    /\ LastIsLive /\ StartIsLast /\ NothingStranded
=============================================================================
