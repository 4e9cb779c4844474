----------------------------- MODULE BatchImage ------------------------------
(***************************************************************************)
(* A batch image job from submission to settlement, with the four actors    *)
(* that work on it at the same time: the submitting request (public.go,    *)
(* Submit), cancelling requests (Cancel), the queue worker (pipeline.go,   *)
(* processor.go, settlement.go) and the recovery of stale submissions      *)
(* (recovery.go).  Every actor is a sequence of calls, each of them one    *)
(* transaction of the job table or of the settlement store (TaskFunds), or *)
(* one call of the upstream platform; pc names the call an actor is about  *)
(* to make, and the actors interleave between calls.                       *)
(*                                                                         *)
(* A worker holds the job's lock while it works (worker.go), so a job has  *)
(* one.  A job of TaskFunds is a task here; the tasks in Legacy only hold  *)
(* money that these jobs must not touch.                                   *)
(***************************************************************************)
EXTENDS TaskFunds

CONSTANTS
  ActualOfJob,   \* what the settlement of each job charges
  MaxRetries,    \* BatchImageSettlementMaxRetries
  MaxFaults,     \* bound: faults of one behaviour
  CrashAt,       \* calls an actor may crash before
  FailAt,        \* calls that may fail without effect
  LoseAt,        \* calls that may take effect and still report an error
  Schedules      \* further schedules a run admits, see Admits

Jobs == Tasks \ Legacy
Actors == {"submit", "cancel", "worker", "recovery"}
Statuses == {"none", "created", "uploading", "submitted", "running", "indexing",
             "settling", "completed", "failed", "cancelled", "output_deleted"}
Terminal == {"completed", "failed", "cancelled", "output_deleted"}
UpstreamStates == {"none", "running", "succeeded", "failed", "cancelled"}
Calls == {"idle",
          "reserve", "items", "upload", "platform", "save", "enqueue",
          "compensate", "giveBack", "record", "hide", "recordRetry", "retry",
          "cancelTransition", "cancelRelease", "cancelProvider",
          "poll", "index", "terminalRelease", "capture", "mark", "exhaust",
          "exhaustFail", "failStale", "staleRelease"}

ASSUME JobAssumption ==
  /\ ActualOfJob \in [Jobs -> Nat]
  /\ \A t \in Jobs : ActualOfJob[t] <= Estimate[t]
  /\ MaxRetries \in Nat \ {0}
  /\ MaxFaults \in Nat
  /\ CrashAt \cup FailAt \cup LoseAt \subseteq Calls
  /\ Schedules \subseteq {"cancel-before-reserve", "bind-during-cancel",
                          "delete-record"}

VARIABLES
  status,     \* batch_image_jobs.status, "none" before the row exists
  bound,      \* provider_job_name is saved
  upstream,   \* the platform's job
  queued,     \* the job is in the worker's queue
  hidden,     \* user_deleted_at is set: the owner no longer finds the job
  left,       \* history: the last to work on the job left it, queued nowhere
  retries,    \* retry_count, up to MaxRetries
  pc,         \* the call each actor is about to make
  seen,       \* the funding columns a cancelling request has read
  faults      \* faults so far

upVars == <<bound, upstream>>
ownerVars == <<hidden, left>>
actorVars == <<pc, seen>>
jobVars == <<status, upVars, queued, ownerVars, retries, actorVars, faults>>
bvars == <<vars, jobVars>>

-----------------------------------------------------------------------------
(* The pieces every call is made of                                         *)

At(t, a, call) == pc[t][a] = call
Goto(t, a, call) == pc' = [pc EXCEPT ![t][a] = call]
Becomes(t, s) == status' = [status EXCEPT ![t] = s]

Fault(call, calls) == call \in calls /\ faults < MaxFaults /\ faults' = faults + 1
NoFault == UNCHANGED faults

\* The calls nobody else makes for a job that is not queued.
LastCalls == {"enqueue", "retry", "cancelRelease", "staleRelease"}

\* An actor stops short of what it owes the job, and nobody but its owner comes back
\* to it unless it is in the queue; whoever queues it takes it up again.
Leave(t) == left' = [left EXCEPT ![t] = @ \/ ~queued[t]]
Enqueue(t) == queued' = [queued EXCEPT ![t] = TRUE] /\ left' = [left EXCEPT ![t] = FALSE]

\* CanTransitionBatchImageJob
NonterminalEdges ==
  [created |-> {"uploading", "submitted", "cancelled"},
   uploading |-> {"submitted", "cancelled"},
   submitted |-> {"running", "indexing", "cancelled"},
   running |-> {"running", "indexing", "cancelled"},
   indexing |-> {"settling"},
   settling |-> {"completed"}]
CanReopen(from, to) ==  \* mutant: the terminal check is missing
  \/ from = "cancelled" /\ to \in {"uploading", "submitted"}
  \/ from \in DOMAIN NonterminalEdges /\ (to = "failed" \/ to \in NonterminalEdges[from])
CanTransition(from, to) ==
  \/ from \in Terminal \ {"output_deleted"} /\ to = "output_deleted"
  \/ from \in DOMAIN NonterminalEdges /\ (to = "failed" \/ to \in NonterminalEdges[from])

\* The payer's wallet, window and key admit the job's reservation.
Affordable(t) ==
  LET rest == Estimate[t] - SubShare(t, Estimate[t])
  IN  /\ CoversHold(PayerOf[t], rest)
      /\ ModeOf[t] = "subscription" => rest = 0
      /\ KeyAdmits(KeyOf[t], Estimate[t])

\* A release that was claimed before, whatever its fingerprint, is no error and has
\* no effect (Funding.Release).
ReleaseOnce(t, s) ==
  IF Fresh(ReleaseClaim(t))
  THEN /\ ReleaseFunds(t, s)
       /\ Take(ReleaseClaim(t), Plain)
       /\ UNCHANGED <<createdDay, phase, day, charged>>
  ELSE UNCHANGED vars

FrozenShort(t, s) == frozen[PayerOf[t]] < WalletHold(s)

\* Funding.Release from the columns s: succeed, fail, or fail after the commit.
ReleaseSucceeds(t, s) == ReleaseOnce(t, s) /\ NoFault
ReleaseFailsAfterClaim(t, s, call) ==  \* mutant: the claim outlives the rollback
  /\ Fault(call, FailAt) /\ Fresh(ReleaseClaim(t))
  /\ Take(ReleaseClaim(t), Plain)
  /\ UNCHANGED <<wallet, window, keyVars, taskVars, day, charged, issueOf>>
ReleaseFails(t, s, call) ==
  \/ Fault(call, LoseAt) /\ ReleaseOnce(t, s)
  \/ Fault(call, FailAt) /\ UNCHANGED vars
  \/ /\ Fresh(ReleaseClaim(t)) /\ Claimed(HoldClaim(t)) /\ FrozenShort(t, s)
     /\ NoFault /\ UNCHANGED vars

\* Settlement captures a fixed amount, so a second capture is a replay.
CaptureOnce(t) ==
  IF Fresh(CaptureClaim(t))
  THEN /\ CaptureFunds(t, row[t], ActualOfJob[t])
       /\ Take(CaptureClaim(t), ActualOfJob[t])
       /\ UNCHANGED <<createdDay, phase, day, charged>>
  ELSE UNCHANGED vars
CaptureFails(t) ==
  \/ Fault("capture", LoseAt) /\ CaptureOnce(t)
  \/ Fault("capture", FailAt) /\ UNCHANGED vars
  \/ Fresh(CaptureClaim(t)) /\ FrozenShort(t, row[t]) /\ NoFault /\ UNCHANGED vars

-----------------------------------------------------------------------------
(* Submit                                                                    *)

SubmitCreate(t) ==
  /\ status[t] = "none"
  /\ CreateTask(t)
  /\ Becomes(t, "created")
  /\ Goto(t, "submit", "reserve")
  /\ UNCHANGED <<upVars, queued, ownerVars, retries, seen, faults>>

\* A reservation that reports an error is recorded and hidden, and never released.
SubmitReserve(t) ==
  /\ At(t, "submit", "reserve")
  /\ \/ Reserve(t) /\ NoFault /\ Goto(t, "submit", "items") /\ UNCHANGED left
     \/ Reserve(t) /\ Fault("reserve", LoseAt) /\ Goto(t, "submit", "record") /\ Leave(t)
     \/ /\ Fault("reserve", FailAt) \/ (~Affordable(t) /\ NoFault)
        /\ UNCHANGED <<vars, left>>
        /\ Goto(t, "submit", "record")
  /\ UNCHANGED <<status, upVars, queued, hidden, retries, seen>>

SubmitItems(t) ==
  /\ At(t, "submit", "items")
  /\ \/ NoFault /\ Goto(t, "submit", "upload")
     \/ Fault("items", FailAt) /\ Goto(t, "submit", "compensate")
  /\ UNCHANGED <<vars, status, upVars, queued, ownerVars, retries, seen>>

\* A rejected transition means another actor decided: give back, record nothing.  A
\* transition that committed without an answer is taken for one that failed.
SubmitUpload(t) ==
  /\ At(t, "submit", "upload")
  /\ \/ /\ CanTransition(status[t], "uploading")
        /\ Becomes(t, "uploading") /\ NoFault /\ Goto(t, "submit", "platform")
     \/ /\ ~CanTransition(status[t], "uploading")
        /\ UNCHANGED status /\ NoFault /\ Goto(t, "submit", "giveBack")
     \/ /\ \/ Fault("upload", FailAt) /\ UNCHANGED status
           \/ /\ Fault("upload", LoseAt)
              /\ CanTransition(status[t], "uploading") /\ Becomes(t, "uploading")
        /\ Goto(t, "submit", "compensate")
  /\ UNCHANGED <<vars, upVars, queued, ownerVars, retries, seen>>

SubmitPlatform(t) ==
  /\ At(t, "submit", "platform")
  /\ \/ /\ upstream' = [upstream EXCEPT ![t] = "running"]
        /\ NoFault /\ Goto(t, "submit", "save")
     \/ /\ Fault("platform", FailAt)
        /\ UNCHANGED upstream /\ Goto(t, "submit", "compensate")
  /\ UNCHANGED <<vars, status, bound, queued, ownerVars, retries, seen>>

\* AbortOrphanProviderJob: cancel the platform's job as far as the platform lets it;
\* errors are only logged.
AbortOrphan(t) ==
  \E s \in {upstream[t], "cancelled"} : upstream' = [upstream EXCEPT ![t] = s]

\* UpdateBatchImageJobProviderSubmit; when it is rejected, fails, or commits without
\* an answer, the platform's job is taken for an orphan and the job is not queued.
Save(t) ==
  /\ CanTransition(status[t], "submitted")
  /\ Becomes(t, "submitted")
  /\ bound' = [bound EXCEPT ![t] = TRUE]
SubmitSave(t) ==
  /\ At(t, "submit", "save")
  /\ "bind-during-cancel" \notin Schedules => ~At(t, "cancel", "cancelTransition")
  /\ \/ /\ Save(t) /\ NoFault
        /\ Goto(t, "submit", "enqueue") /\ UNCHANGED <<upstream, left>>
     \/ /\ Save(t) /\ Fault("save", LoseAt)
        /\ AbortOrphan(t) /\ Goto(t, "submit", "idle") /\ Leave(t)
     \/ /\ \/ ~CanTransition(status[t], "submitted") /\ NoFault
           \/ Fault("save", FailAt)
        /\ AbortOrphan(t) /\ Goto(t, "submit", "idle")
        /\ UNCHANGED <<status, bound, left>>
  /\ UNCHANGED <<vars, queued, hidden, retries, seen>>

\* A failed enqueue leaves the status: submitting again with the same idempotency
\* key enqueues the job (Resubmit).
SubmitEnqueue(t) ==
  /\ At(t, "submit", "enqueue")
  /\ \/ Enqueue(t) /\ NoFault
     \/ Fault("enqueue", FailAt) /\ Leave(t) /\ UNCHANGED queued
  /\ Goto(t, "submit", "idle")
  /\ UNCHANGED <<vars, status, upVars, hidden, retries, seen>>

Resubmit(t) ==
  /\ At(t, "submit", "idle") /\ status[t] = "submitted"
  /\ Enqueue(t)
  /\ UNCHANGED <<vars, status, upVars, hidden, retries, actorVars, faults>>

\* ReleaseFailedSubmitHold, from compensateFailedSubmit or after a rejection.
SubmitReleaseUnchecked(t) ==  \* mutant: a failed release is treated like a done one
  /\ At(t, "submit", "compensate")
  /\ ReleaseSucceeds(t, row[t]) \/ ReleaseFails(t, row[t], "compensate")
  /\ Goto(t, "submit", "record")
  /\ UNCHANGED <<status, upVars, queued, ownerVars, retries, seen>>
SubmitRelease(t) ==
  \E call \in {"compensate", "giveBack"} :
    /\ At(t, "submit", call)
    /\ \/ /\ ReleaseSucceeds(t, row[t])
          /\ Goto(t, "submit", IF call = "compensate" THEN "record" ELSE "idle")
       \/ ReleaseFails(t, row[t], call) /\ Goto(t, "submit", "recordRetry")
    /\ UNCHANGED <<status, upVars, queued, ownerVars, retries, seen>>

\* RecordBatchImageJobSubmitFailure writes 'failed' whatever the status is; its
\* own failure is ignored.
SubmitRecord(t) ==
  /\ \/ At(t, "submit", "record") /\ Goto(t, "submit", "hide")
     \/ At(t, "submit", "recordRetry") /\ Goto(t, "submit", "retry")
  /\ \/ Becomes(t, "failed") /\ NoFault
     \/ Fault("record", FailAt) /\ UNCHANGED status
  /\ UNCHANGED <<vars, upVars, queued, ownerVars, retries, seen>>

SubmitHide(t) ==
  /\ At(t, "submit", "hide")
  /\ hidden' = [hidden EXCEPT ![t] = @ \/ status[t] \in Terminal]
  /\ Goto(t, "submit", "idle")
  /\ UNCHANGED <<vars, status, upVars, queued, left, retries, seen, faults>>

Submit(t) ==
  \/ SubmitReserve(t) \/ SubmitItems(t) \/ SubmitUpload(t) \/ SubmitPlatform(t)
  \/ SubmitSave(t) \/ SubmitEnqueue(t)
  \/ SubmitRelease(t) \/ SubmitRecord(t) \/ SubmitHide(t)

\* EnqueueBillingRetry and EnqueueReleaseRetry: the error is only logged.
Retry(t) ==
  \E a \in {"submit", "cancel", "recovery"} :
    /\ At(t, a, "retry")
    /\ \/ Enqueue(t) /\ NoFault
       \/ Fault("retry", FailAt) /\ Leave(t) /\ UNCHANGED queued
    /\ Goto(t, a, "idle")
    /\ UNCHANGED <<vars, status, upVars, hidden, retries, seen>>

-----------------------------------------------------------------------------
(* Cancel                                                                    *)

\* Reads the job; a settling or settled one is left alone.
CancelRead(t) ==
  /\ At(t, "cancel", "idle") /\ status[t] # "none" /\ ~hidden[t]
  /\ "cancel-before-reserve" \notin Schedules => ~At(t, "submit", "reserve")
  /\ \/ status[t] \in {"failed", "cancelled"} /\ Goto(t, "cancel", "cancelRelease")
     \/ /\ status[t] \notin Terminal \cup {"settling"}
        /\ Goto(t, "cancel", IF bound[t] THEN "cancelProvider" ELSE "cancelTransition")
  /\ seen' = [seen EXCEPT ![t] = row[t]]
  /\ UNCHANGED <<vars, status, upVars, queued, ownerVars, retries, faults>>

\* An error ends the request before its release, also when the transition committed.
CancelTransition(t) ==
  /\ At(t, "cancel", "cancelTransition")
  /\ \/ /\ CanTransition(status[t], "cancelled") /\ Becomes(t, "cancelled")
        /\ \/ NoFault /\ Goto(t, "cancel", "cancelRelease") /\ UNCHANGED left
           \/ Fault("cancelTransition", LoseAt) /\ Goto(t, "cancel", "idle") /\ Leave(t)
     \/ /\ \/ ~CanTransition(status[t], "cancelled") /\ NoFault
           \/ Fault("cancelTransition", FailAt)
        /\ UNCHANGED <<status, left>> /\ Goto(t, "cancel", "idle")
  /\ UNCHANGED <<vars, upVars, queued, hidden, retries, seen>>

\* The release uses the funding columns as the request read them.
CancelRelease(t) ==
  /\ At(t, "cancel", "cancelRelease")
  /\ \/ ReleaseSucceeds(t, seen[t]) /\ Goto(t, "cancel", "idle")
     \/ ReleaseFails(t, seen[t], "cancelRelease") /\ Goto(t, "cancel", "retry")
  /\ UNCHANGED <<status, upVars, queued, ownerVars, retries, seen>>

\* The platform may honour the request, or have finished, or finish later.
CancelProvider(t) ==
  /\ At(t, "cancel", "cancelProvider")
  /\ \/ /\ \E s \in IF upstream[t] = "running" THEN {"running", "cancelled"}
                    ELSE {upstream[t]} :
             upstream' = [upstream EXCEPT ![t] = s]
        /\ NoFault /\ Goto(t, "cancel", "retry")
     \/ Fault("cancelProvider", FailAt) /\ UNCHANGED upstream /\ Goto(t, "cancel", "idle")
  /\ UNCHANGED <<vars, status, bound, queued, ownerVars, retries, seen>>

Cancel(t) ==
  \/ CancelRead(t) \/ CancelTransition(t) \/ CancelRelease(t) \/ CancelProvider(t)

-----------------------------------------------------------------------------
(* Worker                                                                    *)

\* Ack removes the job from the queue; every other end of the worker's turn leaves
\* it there for a later turn.
Drop(t) ==  \* mutant: a failed turn removes the job from the queue
  queued' = [queued EXCEPT ![t] = FALSE] /\ Goto(t, "worker", "idle")
Ack(t) == queued' = [queued EXCEPT ![t] = FALSE] /\ Goto(t, "worker", "idle")
Requeue(t) == Goto(t, "worker", "idle") /\ UNCHANGED queued

Exhausted(t) == retries[t] >= MaxRetries

\* What a turn starts with, by the job's status; an unbound job that is not
\* finished is an error, and stays queued.
WorkerTake(t) ==
  /\ At(t, "worker", "idle") /\ queued[t]
  /\ \/ /\ status[t] \in {"completed", "output_deleted"}
        /\ Ack(t)
     \/ /\ status[t] \in {"failed", "cancelled"}
        /\ Goto(t, "worker", "terminalRelease") /\ UNCHANGED queued
     \/ /\ status[t] = "settling"
        /\ Goto(t, "worker", IF Exhausted(t) THEN "exhaust" ELSE "capture")
        /\ UNCHANGED queued
     \/ /\ status[t] \notin Terminal \cup {"settling"} /\ bound[t]
        /\ Goto(t, "worker", IF status[t] = "indexing" THEN "index" ELSE "poll")
        /\ UNCHANGED queued
  /\ UNCHANGED <<vars, status, upVars, ownerVars, retries, seen, faults>>

\* platform.Get and the transition its answer asks for; a turn that is not told of its
\* transition ends there, and a later one goes on from the new status.
StatusFor(s) ==
  [running |-> "running", succeeded |-> "indexing", failed |-> "failed",
   cancelled |-> "cancelled"][s]
AfterPoll(s) ==
  [running |-> "idle", succeeded |-> "index", failed |-> "terminalRelease",
   cancelled |-> "terminalRelease"][s]
WorkerPoll(t) ==
  LET to == StatusFor(upstream[t])
  IN  /\ At(t, "worker", "poll")
      /\ \/ /\ CanTransition(status[t], to) /\ Becomes(t, to)
            /\ \/ NoFault /\ Goto(t, "worker", AfterPoll(upstream[t]))
               \/ Fault("poll", LoseAt) /\ Goto(t, "worker", "idle")
         \/ /\ ~CanTransition(status[t], to)
            /\ UNCHANGED status /\ NoFault /\ Goto(t, "worker", "idle")
         \/ Fault("poll", FailAt) /\ UNCHANGED status /\ Goto(t, "worker", "idle")
      /\ UNCHANGED <<vars, upVars, queued, ownerVars, retries, seen>>

\* Index: the result is indexed, or cannot be parsed, or is not there yet.
WorkerIndex(t) ==
  /\ At(t, "worker", "index")
  /\ \/ /\ CanTransition(status[t], "settling")
        /\ Becomes(t, "settling") /\ NoFault /\ Goto(t, "worker", "idle")
     \/ /\ CanTransition(status[t], "failed") /\ Becomes(t, "failed")
        /\ \/ NoFault /\ Goto(t, "worker", "terminalRelease")
           \/ Fault("index", LoseAt) /\ Goto(t, "worker", "idle")
     \/ /\ status[t] # "indexing" /\ UNCHANGED status /\ NoFault
        /\ Goto(t, "worker", "idle")
     \/ Fault("index", FailAt) /\ UNCHANGED status /\ Goto(t, "worker", "idle")
  /\ UNCHANGED <<vars, upVars, queued, ownerVars, retries, seen>>

WorkerRelease(t) ==
  /\ At(t, "worker", "terminalRelease")
  /\ \/ ReleaseSucceeds(t, row[t]) /\ Ack(t)
     \/ ReleaseFails(t, row[t], "terminalRelease") /\ Requeue(t)
  /\ UNCHANGED <<status, upVars, ownerVars, retries, seen>>

\* Settle: a failed capture is counted (RecordSettlementFailure); a count that
\* cannot be written is not, and the last one gives the hold back in this turn.
Count(t) == retries' = [retries EXCEPT ![t] = @ + 1]
WorkerCapture(t) ==
  /\ At(t, "worker", "capture")
  /\ \/ /\ CaptureOnce(t) /\ NoFault
        /\ Goto(t, "worker", "mark") /\ UNCHANGED retries
     \/ /\ CaptureFails(t)
        /\ Count(t) \/ UNCHANGED retries
        /\ Goto(t, "worker", IF retries'[t] # retries[t] /\ retries'[t] >= MaxRetries
                             THEN "exhaust" ELSE "idle")
  /\ UNCHANGED <<status, upVars, queued, ownerVars, seen>>

\* MarkBatchImageJobSettled
WorkerMark(t) ==
  /\ At(t, "worker", "mark")
  /\ \/ /\ status[t] = "settling" /\ Becomes(t, "completed")
        /\ (NoFault /\ Ack(t)) \/ (Fault("mark", LoseAt) /\ Requeue(t))
     \/ /\ (status[t] # "settling" /\ NoFault) \/ Fault("mark", FailAt)
        /\ UNCHANGED status /\ Requeue(t)
  /\ UNCHANGED <<vars, upVars, ownerVars, retries, seen>>

\* FailExhaustedSettlement: release the hold, then fail the job.
WorkerExhaust(t) ==
  /\ At(t, "worker", "exhaust")
  /\ \/ ReleaseSucceeds(t, row[t]) /\ Goto(t, "worker", "exhaustFail")
     \/ ReleaseFails(t, row[t], "exhaust") /\ Goto(t, "worker", "idle")
  /\ UNCHANGED <<status, upVars, queued, ownerVars, retries, seen>>

WorkerExhaustFail(t) ==
  /\ At(t, "worker", "exhaustFail")
  /\ \/ /\ CanTransition(status[t], "failed") /\ Becomes(t, "failed")
        /\ (NoFault /\ Ack(t)) \/ (Fault("exhaustFail", LoseAt) /\ Requeue(t))
     \/ /\ \/ ~CanTransition(status[t], "failed") /\ NoFault
           \/ Fault("exhaustFail", FailAt)
        /\ UNCHANGED status /\ Requeue(t)
  /\ UNCHANGED <<vars, upVars, ownerVars, retries, seen>>

Worker(t) ==
  \/ WorkerTake(t) \/ WorkerPoll(t) \/ WorkerIndex(t) \/ WorkerRelease(t)
  \/ WorkerCapture(t) \/ WorkerMark(t) \/ WorkerExhaust(t) \/ WorkerExhaustFail(t)

-----------------------------------------------------------------------------
(* Recovery, the platform and the owner                                      *)

\* FailStaleUnsubmittedBatchImageJob: a submission may look stale while its request
\* is still at work, whenever its heartbeat does not reach the row; not while it
\* reserves, which it does within seconds of creating the row.  Without an answer the
\* row counts as not failed by this pass, and the pass goes on to the next job.
StillAtWork(t) == status[t] \notin Terminal \cup {"none"}  \* mutant
NotFinished(t) == status[t] \in {"created", "uploading", "submitted"}  \* mutant
Unsubmitted(t) == status[t] \in {"created", "uploading"} /\ ~bound[t]
FailStale(t) ==
  /\ At(t, "recovery", "idle")
  /\ Unsubmitted(t)
  /\ ~At(t, "submit", "reserve")
  /\ Becomes(t, "failed")
  /\ \/ NoFault /\ Goto(t, "recovery", "staleRelease") /\ UNCHANGED left
     \/ Fault("failStale", LoseAt) /\ Leave(t) /\ UNCHANGED pc
  /\ UNCHANGED <<vars, upVars, queued, hidden, retries, seen>>

StaleRelease(t) ==
  /\ At(t, "recovery", "staleRelease")
  /\ \/ ReleaseSucceeds(t, row[t]) /\ Goto(t, "recovery", "idle")
     \/ ReleaseFails(t, row[t], "staleRelease") /\ Goto(t, "recovery", "retry")
  /\ UNCHANGED <<status, upVars, queued, ownerVars, retries, seen>>

Recovery(t) == FailStale(t) \/ StaleRelease(t)

UpstreamEnds(t) ==
  /\ upstream[t] = "running"
  /\ \E s \in {"succeeded", "failed", "cancelled"} :
       upstream' = [upstream EXCEPT ![t] = s]
  /\ UNCHANGED <<vars, status, bound, queued, ownerVars, retries, actorVars, faults>>

\* MarkBatchImageOutputDeleted
CleanOutput(t) ==
  /\ status[t] = "completed"
  /\ Becomes(t, "output_deleted")
  /\ UNCHANGED <<vars, upVars, queued, ownerVars, retries, actorVars, faults>>

DeleteRecord(t) ==
  /\ "delete-record" \in Schedules
  /\ status[t] \in Terminal /\ ~hidden[t]
  /\ hidden' = [hidden EXCEPT ![t] = TRUE]
  /\ UNCHANGED <<vars, status, upVars, queued, left, retries, actorVars, faults>>

\* The process of an actor stops before its next call; what was queued stays so.
Crash(t) ==
  \E a \in Actors :
    /\ ~At(t, a, "idle") /\ Fault(pc[t][a], CrashAt)
    /\ IF pc[t][a] \in LastCalls THEN Leave(t) ELSE UNCHANGED left
    /\ Goto(t, a, "idle")
    /\ UNCHANGED <<vars, status, upVars, queued, hidden, retries, seen>>

BInit ==
  /\ Init
  /\ status = [t \in Jobs |-> "none"]
  /\ bound = [t \in Jobs |-> FALSE]
  /\ upstream = [t \in Jobs |-> "none"]
  /\ queued = [t \in Jobs |-> FALSE]
  /\ hidden = [t \in Jobs |-> FALSE]
  /\ left = [t \in Jobs |-> FALSE]
  /\ retries = [t \in Jobs |-> 0]
  /\ pc = [t \in Jobs |-> [a \in Actors |-> "idle"]]
  /\ seen = [t \in Jobs |-> NoFunds]
  /\ faults = 0

\* Nothing more has to happen once every job is in a terminal status.
Ended ==
  /\ \A t \in Jobs : status[t] \in Terminal /\ \A a \in Actors : At(t, a, "idle")
  /\ UNCHANGED bvars

JobStep(t) ==
  \/ SubmitCreate(t) \/ Submit(t) \/ Resubmit(t) \/ Retry(t)
  \/ Cancel(t) \/ Worker(t) \/ Recovery(t)
  \/ UpstreamEnds(t) \/ CleanOutput(t) \/ DeleteRecord(t) \/ Crash(t)

BNext == (\E t \in Jobs : JobStep(t)) \/ Ended

BSpec == BInit /\ [][BNext]_bvars

\* A running request, the worker loop, the recovery loop and the platform go on by
\* themselves; nobody has to cancel, submit again or delete.
FairSpec ==
  /\ BSpec
  /\ \A t \in Jobs : /\ WF_bvars(Submit(t)) /\ WF_bvars(Retry(t))
                     /\ WF_bvars(Worker(t)) /\ WF_bvars(Recovery(t))
                     /\ WF_bvars(CancelTransition(t) \/ CancelRelease(t)
                                                     \/ CancelProvider(t))
                     /\ WF_bvars(UpstreamEnds(t))

-----------------------------------------------------------------------------
(* Properties                                                                *)

\* No job's release or capture ever takes what another task still holds: the frozen
\* balance covers every unresolved hold (releaseUsageBillingTaskFrozenBalance trusts
\* the amounts its caller read).
NoHoldStolen == \A u \in Users : frozen[u] >= Total(Outstanding, TasksOf(u))

\* A job is charged exactly when it delivers: a completed job was captured and not
\* released, and a captured job never ends as failed or cancelled (Settle,
\* FailExhaustedSettlement, RecordBatchImageJobSubmitFailure).
ChargedIffDelivered ==
  \A t \in Jobs :
    /\ status[t] \in {"completed", "output_deleted"} =>
         Captured(t) /\ ~Claimed(ReleaseClaim(t))
    /\ Captured(t) => status[t] \in {"settling", "completed", "output_deleted"}

\* A job whose platform name is saved is not refunded while the platform still
\* works on it (Cancel, ReleaseStaleUnsubmittedOnce).
RefundedIsStopped ==
  \A t \in Jobs : Claimed(ReleaseClaim(t)) /\ bound[t] => upstream[t] # "running"

\* A hold always has somebody who can still close it: the worker's queue, the recovery
\* of unsubmitted jobs, or an actor about to release or queue it.  Only where such an
\* actor stopped, or was not told of its own success, it is left to its owner, and
\* then the owner can find the job to cancel or submit it again.
HoldHasACloser ==
  \A t \in Jobs : Held(t) =>
    \/ queued[t]
    \/ Unsubmitted(t)
    \/ \E a \in Actors : pc[t][a] \in LastCalls
    \/ left[t] /\ ~hidden[t]

\* Every hold is closed in the end by the request, the worker and the recovery alone,
\* unless one of them was stopped, or was not told of its success, at a call nobody
\* else repeats: the reservation, the saving of the platform's name, the transition of
\* a cancellation or of the recovery, a release after them, or queueing the job.  Then
\* it is left to the owner, until somebody queues the job.
EveryHoldCloses == \A t \in Jobs : Held(t) ~> Resolved(t) \/ left[t]

\* A finished job never goes back to work and never turns from charged to refunded
\* or back: late transitions of a submission or of the worker are rejected.
FinishedStaysFinished ==
  [][\A t \in Jobs : status[t] \in Terminal =>
       /\ status'[t] \in Terminal
       /\ status[t] \in {"failed", "cancelled"} <=> status'[t] \in {"failed", "cancelled"}]_bvars

===============================================================================
