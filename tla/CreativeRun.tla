----------------------------- MODULE CreativeRun -----------------------------
(***************************************************************************)
(* One run of the creative studio: a request inserts the row with its      *)
(* outputs and its first event, reserves money, saves the input in Redis   *)
(* and queues the run; workers execute it and record, save                 *)
(* and settle the result; a dispatcher replays the events of the outbox.   *)
(* A step is one database statement, one Redis script or one transaction,  *)
(* so everybody else may act between a read of the run and the write that  *)
(* compares its version.  The money of the run is kept as what its three   *)
(* claims did: the settlement store behind them is the module TaskFunds.   *)
(* No code moves a run to "cancelled", so that status is left out.         *)
(***************************************************************************)
EXTENDS Integers, FiniteSets

CONSTANTS Creator,      \* the request that creates the run
          Dispatchers,  \* passes of the outbox reconciler
          Workers,
          MaxAttempts,  \* max_execute_attempts
          MaxFaults,    \* bound: crashes, failed or lost calls, stalls, expiries
          FailAt        \* the stages at which a call may fail

ASSUME CreativeAssumption ==
  /\ MaxAttempts \in Nat \ {0} /\ MaxFaults \in Nat
  /\ IsFiniteSet(Dispatchers \cup Workers)
  /\ Creator \notin Dispatchers \cup Workers /\ Dispatchers \cap Workers = {}

Procs == {Creator} \cup Dispatchers \cup Workers
Nobody == "nobody"

Statuses == {"queued", "running", "provider_succeeded", "settlement_pending",
             "release_pending", "succeeded", "failed", "result_lost"}
Ended == {"succeeded", "failed", "result_lost"}
Settling == {"provider_succeeded", "settlement_pending"}
Phases == {"created", "hold_reserved", "transient_saved", "enqueued", "complete"}
Events == {"provision", "settle", "release"}

VARIABLES
  run,      \* the row: status, version, target of the release, phase, whether
            \* the provider's result is recorded, whether the hold is written
  funds,    \* the claims: reserved, captured amount, release, and the refund
  output,   \* the output row: "none", "made" or "acked", and delivery known lost
  kept,     \* what Redis keeps: the input and the image
  outbox,   \* of each event: its status and who leases it
  queue,    \* ready entries, the active entry, the in-flight marker, the job lock
  pc, saw,  \* of each process: its stage and the row it read
  on,       \* of each dispatcher: the event it claimed
  attempts, \* retryable failures so far
  faults

work == <<pc, saw, on>>
store == <<run, funds, output, outbox>>
redis == <<kept, queue>>
vars == <<store, redis, work, attempts, faults>>

Uncaptured == -1
NoRow == [status |-> "queued", version |-> 0, target |-> "failed",
          phase |-> "created", result |-> FALSE, split |-> FALSE]
Init ==
  /\ run = NoRow
  /\ funds = [held |-> FALSE, captured |-> Uncaptured, released |-> FALSE,
              refund |-> "none"]
  /\ output = [status |-> "none", lost |-> FALSE]
  /\ kept = [input |-> FALSE, image |-> FALSE]
  /\ outbox = [e \in Events |-> [owner |-> Nobody,
                   status |-> IF e = "provision" THEN "pending" ELSE "none"]]
  /\ queue = [ready |-> 0, active |-> FALSE, marker |-> Nobody, lock |-> Nobody]
  /\ pc = [p \in Procs |-> IF p = Creator THEN "ensureProvision" ELSE "idle"]
  /\ saw = [p \in Procs |-> NoRow]
  /\ on = [d \in Dispatchers |-> "provision"]
  /\ attempts = 0 /\ faults = 0

Sees(p, r) == saw' = [saw EXCEPT ![p] = r]
Goes(p, stage) == pc' = [pc EXCEPT ![p] = stage]
Keeps(p, stage) == Goes(p, stage) /\ UNCHANGED <<saw, on>>
Continues(p, stage) == Goes(p, stage) /\ Sees(p, NoRow) /\ UNCHANGED on
Reads(p) == Sees(p, run) /\ UNCHANGED on
Budget == faults < MaxFaults
Spends == faults' = faults + 1
NoFault == UNCHANGED faults

\* What a process does when a function it called returned, with or without an
\* error: a worker acknowledges or requeues, a dispatcher completes or retries.
Returned(p) == IF p \in Workers THEN "ack" ELSE "complete"
AcksErrors(p) == IF p \in Workers THEN "ack" ELSE "retry"  \* mutant: an error ends the turn
Errored(p) == CASE p \in Workers -> "requeue"
                [] p \in Dispatchers -> "retry"
                [] OTHER -> "abort"

\* The call had its effect; its answer arrives or is lost.
Replies(p, stage) ==
  \/ Continues(p, stage) /\ NoFault
  \/ Continues(p, Errored(p)) /\ Budget /\ Spends

-----------------------------------------------------------------------------
(* The row                                                                  *)

CanTransition(from, to) ==
  \/ from = "succeeded" /\ to = "result_lost"
  \/ from \notin Ended /\ to = "failed"
  \/ from = "queued" /\ to \in {"running", "result_lost", "release_pending"}
  \/ from = "running" /\ to \in Settling \cup Ended \cup {"release_pending"}
  \/ from = "provider_succeeded"
       /\ to \in {"settlement_pending", "succeeded", "result_lost"}
  \/ from \in {"settlement_pending", "release_pending"} /\ to = "result_lost"
  \/ from = "settlement_pending" /\ to = "succeeded"

\* An update of the row that p read applies only to the version it read.
AnyVersion(p) == TRUE  \* mutant: the version is not compared
SameVersion(p) == run.version = saw[p].version
Moves(p, to) == SameVersion(p) /\ CanTransition(saw[p].status, to)
MoveTo(to) == run' = [run EXCEPT !.status = to, !.version = @ + 1]
ReleaseTo(to) == run' = [run EXCEPT !.status = "release_pending", !.target = to,
                                    !.version = @ + 1]

\* Such an update reads the row on its own, after its caller did.
ReadToMove(p, stage, next) ==
  /\ pc[p] = stage /\ Goes(p, next) /\ Reads(p)
  /\ UNCHANGED <<store, redis, attempts>> /\ NoFault

(* The outbox: an event is created once and leased to one process at a time.*)
Ensures(e) ==
  outbox' = IF outbox[e].status = "none"
            THEN [outbox EXCEPT ![e].status = "pending"] ELSE outbox

(* The queue.  Delayed entries count as ready; the marker blocks admission. *)
Enqueues ==
  queue' = IF queue.marker = Nobody
           THEN [queue EXCEPT !.ready = @ + 1, !.marker = "queued"] ELSE queue
Holds(w) == queue.active /\ queue.marker = w
Unlocked(w, q) == IF q.lock = w THEN [q EXCEPT !.lock = Nobody] ELSE q

(* The money: a claim acts once, a release without a hold refunds nothing,  *)
(* and one that read the row before the reservation refunds blindly.        *)
Open == funds.held /\ funds.captured = Uncaptured /\ funds.refund = "none"

-----------------------------------------------------------------------------
(* CreateRun: the steps of the request after the transaction that inserts   *)
(* the row, its outputs and its first event                                 *)

EnsureProvision ==
  /\ pc[Creator] = "ensureProvision" /\ Continues(Creator, "reserve")
  /\ Ensures("provision")
  /\ UNCHANGED <<run, funds, output, redis, attempts>> /\ NoFault

Reserve ==
  /\ pc[Creator] = "reserve" /\ Replies(Creator, "phaseReserved")
  /\ funds' = [funds EXCEPT !.held = TRUE]
  /\ run' = [run EXCEPT !.split = TRUE]
  /\ UNCHANGED <<output, outbox, redis, attempts>>

SetPhase(stage, phase, next) ==
  /\ pc[Creator] = stage /\ Continues(Creator, next)
  /\ run' = [run EXCEPT !.phase = phase]
  /\ UNCHANGED <<funds, output, outbox, redis, attempts>> /\ NoFault

SaveTransient ==
  /\ pc[Creator] = "saveInput" /\ Continues(Creator, "phaseSaved")
  /\ kept' = [kept EXCEPT !.input = TRUE]
  /\ UNCHANGED <<store, queue, attempts>> /\ NoFault

Enqueue ==
  /\ pc[Creator] = "enqueue" /\ Continues(Creator, "phaseEnqueued")
  /\ Enqueues
  /\ UNCHANGED <<store, kept, attempts>> /\ NoFault

\* FailRunAfterCreateError: read, move to release_pending, create the event; what
\* fails on the way is logged.  The first write of the outbox has no such handler.
AbortWrite ==
  /\ pc[Creator] = "abortWrite" /\ Continues(Creator, "abortEnsure")
  /\ IF Moves(Creator, "release_pending") THEN ReleaseTo("failed") ELSE UNCHANGED run
  /\ UNCHANGED <<funds, output, outbox, redis, attempts>> /\ NoFault

AbortEnsure ==
  /\ pc[Creator] = "abortEnsure" /\ Continues(Creator, "end")
  /\ Ensures("release")
  /\ UNCHANGED <<run, funds, output, redis, attempts>> /\ NoFault

Create ==
  \/ EnsureProvision \/ Reserve \/ SaveTransient \/ Enqueue
  \/ SetPhase("phaseReserved", "hold_reserved", "saveInput")
  \/ SetPhase("phaseSaved", "transient_saved", "enqueue")
  \/ SetPhase("phaseEnqueued", "enqueued", "end")
  \/ ReadToMove(Creator, "abort", "abortWrite") \/ AbortWrite \/ AbortEnsure

-----------------------------------------------------------------------------
(* What workers and the dispatcher both call                                *)

\* FailRun and MarkResultLost: a run that ended is left alone, another one moves to
\* release_pending if its row did not change, and is released in any case.  Only
\* MarkResultLost gives up when the row does not move.
FailRead(p, stage, next) ==
  /\ pc[p] = stage
  /\ Continues(p, CASE run.status \in Ended -> Returned(p)
               [] run.status = "release_pending" /\ stage = "fail" -> "release"
               [] OTHER -> next)
  /\ UNCHANGED <<store, redis, attempts>> /\ NoFault

FailWrite(p) ==
  /\ pc[p] = "failWrite" /\ Continues(p, "ensure")
  /\ IF Moves(p, "release_pending") THEN ReleaseTo("failed") ELSE UNCHANGED run
  /\ UNCHANGED <<funds, output, outbox, redis, attempts>> /\ NoFault

LostWrite(p) ==
  /\ pc[p] = "lostWrite"
  /\ IF Moves(p, "release_pending")
     THEN ReleaseTo("result_lost") /\ Continues(p, "ensure")
     ELSE UNCHANGED run /\ Continues(p, Errored(p))
  /\ UNCHANGED <<funds, output, outbox, redis, attempts>> /\ NoFault

EnsureRelease(p) ==
  /\ pc[p] = "ensure" /\ Continues(p, "release")
  /\ Ensures("release")
  /\ UNCHANGED <<run, funds, output, redis, attempts>> /\ NoFault

\* ReleaseRun: read, refund, move to the target, delete what Redis keeps.
ReleaseRead(p) ==
  /\ pc[p] = "release" /\ Reads(p)
  /\ Goes(p, IF run.status = "release_pending" THEN "refund" ELSE Returned(p))
  /\ UNCHANGED <<store, redis, attempts>> /\ NoFault

Refund(p) ==
  /\ pc[p] = "refund"
  /\ \/ Keeps(p, "finish") /\ NoFault
     \/ Continues(p, Errored(p)) /\ Budget /\ Spends
  /\ funds' = IF funds.released THEN funds
              ELSE [funds EXCEPT !.released = TRUE,
                      !.refund = CASE ~funds.held -> "none"
                                   [] saw[p].split -> "own"
                                   [] OTHER -> "blind"]
  /\ UNCHANGED <<run, output, outbox, redis, attempts>>

Finish(p) ==
  /\ pc[p] = "finish" /\ Continues(p, "delete")
  /\ IF CanTransition(run.status, saw[p].target)
     THEN MoveTo(saw[p].target) ELSE UNCHANGED run
  /\ UNCHANGED <<funds, output, outbox, redis, attempts>> /\ NoFault

Delete(p) ==
  /\ pc[p] = "delete" /\ Continues(p, Returned(p))
  /\ kept' = [input |-> FALSE, image |-> FALSE]
  /\ UNCHANGED <<store, queue, attempts>> /\ NoFault

Release(p) ==
  \/ FailRead(p, "fail", "failMove") \/ ReadToMove(p, "failMove", "failWrite")
  \/ FailRead(p, "lose", "lostMove") \/ ReadToMove(p, "lostMove", "lostWrite")
  \/ FailWrite(p) \/ LostWrite(p) \/ EnsureRelease(p)
  \/ ReleaseRead(p) \/ Refund(p) \/ Finish(p) \/ Delete(p)

-----------------------------------------------------------------------------
(* The dispatcher                                                           *)

\* A lease runs out when its owner is gone, or under an owner that is very slow.
Expires(e) ==
  /\ outbox[e].status = "leased"
  /\ IF pc[outbox[e].owner] = "idle" \/ on[outbox[e].owner] # e
     THEN NoFault ELSE Budget /\ Spends

\* Claim leases an event that is pending or whose lease has run out.
Claim(d, e) ==
  /\ pc[d] = "idle"
  /\ \/ outbox[e].status = "pending" /\ NoFault
     \/ Expires(e)
  /\ outbox' = [outbox EXCEPT ![e] = [status |-> "leased", owner |-> d]]
  /\ on' = [on EXCEPT ![d] = e]
  /\ Goes(d, IF e = "provision" THEN "provision" ELSE "event") /\ UNCHANGED saw
  /\ UNCHANGED <<run, funds, output, redis, attempts>>

\* ReconcileCreativeProvision: what is done depends on how far the request came.
Provision(d) ==
  /\ pc[d] = "provision"
  /\ Continues(d, CASE run.phase \in {"enqueued", "complete"} -> "enqueueDone"
               [] run.phase # "transient_saved" -> "fail"
               [] kept.input -> "enqueueSaved"
               [] OTHER -> "lose")
  /\ UNCHANGED <<store, redis, attempts>> /\ NoFault

\* The events of a settlement and of a release queue a run that has not ended.
Event(d) ==
  /\ pc[d] = "event"
  /\ Continues(d, IF run.status \in Ended THEN "complete" ELSE "wake")
  /\ UNCHANGED <<store, redis, attempts>> /\ NoFault

DispatchEnqueue(d, stage, next) ==
  /\ pc[d] = stage /\ Continues(d, next)
  /\ Enqueues
  /\ UNCHANGED <<store, kept, attempts>> /\ NoFault

DispatchPhase(d, stage, phase) ==
  /\ pc[d] = stage /\ Continues(d, "complete")
  /\ run' = [run EXCEPT !.phase = phase]
  /\ UNCHANGED <<funds, output, outbox, redis, attempts>> /\ NoFault

\* Complete and Retry change the event only for the lease they were given.
Leases(d) == outbox[on[d]] = [status |-> "leased", owner |-> d]
Closes(d, stage, status) ==
  /\ pc[d] = stage /\ Continues(d, "idle")
  /\ outbox' = IF Leases(d)
               THEN [outbox EXCEPT ![on[d]] = [status |-> status, owner |-> Nobody]]
               ELSE outbox
  /\ UNCHANGED <<run, funds, output, redis, attempts>> /\ NoFault

Dispatch(d) ==
  \/ \E e \in Events : Claim(d, e)
  \/ Provision(d) \/ Event(d)
  \/ DispatchEnqueue(d, "enqueueDone", "phaseComplete")
  \/ DispatchEnqueue(d, "enqueueSaved", "phaseAgain")
  \/ DispatchEnqueue(d, "wake", "complete")
  \/ DispatchPhase(d, "phaseComplete", "complete")
  \/ DispatchPhase(d, "phaseAgain", "enqueued")
  \/ Closes(d, "complete", "done") \/ Closes(d, "retry", "pending")
  \/ Release(d)

-----------------------------------------------------------------------------
(* The worker                                                               *)

HasWork == queue.ready > 0
Take(w) ==
  /\ pc[w] = "idle" /\ HasWork /\ Continues(w, "lock")
  /\ queue' = [queue EXCEPT !.ready = @ - 1, !.active = TRUE, !.marker = w]
  /\ UNCHANGED <<store, kept, attempts>> /\ NoFault

Lock(w) ==
  /\ pc[w] = "lock"
  /\ IF queue.lock = Nobody
     THEN queue' = [queue EXCEPT !.lock = w] /\ Continues(w, "look")
     ELSE UNCHANGED queue /\ Continues(w, "requeue")
  /\ UNCHANGED <<store, kept, attempts>> /\ NoFault

\* Process: a run that ended is acknowledged, one to release or to settle is not
\* executed again.
Look(w) ==
  /\ pc[w] = "look"
  /\ Continues(w, CASE run.status \in Ended -> "ack"
               [] run.status = "release_pending" -> "release"
               [] run.status \in Settling -> "settle"
               [] OTHER -> "load")
  /\ UNCHANGED <<store, redis, attempts>> /\ NoFault

Load(w) ==
  /\ pc[w] = "load" /\ Continues(w, IF kept.input THEN "admit" ELSE "lose")
  /\ UNCHANGED <<store, redis, attempts>> /\ NoFault

\* Both slots and a provider, or back to the queue; then MarkRunning.
Admit(w) ==
  /\ pc[w] = "admit"
  /\ \/ /\ Continues(w, CASE run.status = "queued" -> "mark"
                       [] run.status \in {"running"} \cup Ended -> "execute"
                       [] OTHER -> "requeue")
        /\ NoFault
     \/ Budget /\ Spends /\ Continues(w, "requeue")
  /\ UNCHANGED <<store, redis, attempts>>

Mark(w) ==
  /\ pc[w] = "markWrite"
  /\ IF Moves(w, "running") THEN MoveTo("running") ELSE UNCHANGED run
  /\ Continues(w, IF saw[w].status = "running" \/ Moves(w, "running")
                  THEN "execute" ELSE "requeue")
  /\ UNCHANGED <<funds, output, outbox, redis, attempts>> /\ NoFault

\* The row is read again, but only a run that ended is left alone.  The provider
\* answers, refuses, or fails in a way that is tried again.
Execute(w) ==
  /\ pc[w] = "execute"
  /\ \/ run.status \in Ended /\ Continues(w, "ack") /\ UNCHANGED attempts
     \/ /\ run.status \notin Ended
        /\ \/ \E stage \in {"record", "fail"} : Continues(w, stage) /\ UNCHANGED attempts
           \/ /\ attempts' = attempts + 1
              /\ Continues(w, IF attempts + 1 < MaxAttempts THEN "requeue" ELSE "fail")
  /\ UNCHANGED <<store, redis>> /\ NoFault

\* SucceedRun: a run that ended is left to the settlement, a recorded result is
\* saved again, a running one is recorded.  In any other status the worker keeps
\* the image in memory and tries again, for as long as it has its lease.
RecordRead(w) ==
  /\ pc[w] = "record" /\ Reads(w)
  /\ run.status = "running" \/ run.result \/ run.status \in Ended
  /\ Goes(w, CASE run.status \in Ended -> "settle"
               [] run.result -> "save"
               [] OTHER -> "recordWrite")
  /\ UNCHANGED <<store, redis, attempts>> /\ NoFault

\* RecordProviderOutcome: the result, the output and the event in one transaction.
RecordWrite(w) ==
  /\ pc[w] = "recordWrite"
  /\ IF SameVersion(w)
     THEN /\ run' = [run EXCEPT !.status = "provider_succeeded", !.result = TRUE,
                                !.version = @ + 1]
          /\ output' = [output EXCEPT !.status = "made"]
          /\ Ensures("settle")
          /\ Replies(w, "save")
     ELSE /\ Continues(w, IF run.result THEN "requeue" ELSE "record") /\ NoFault
          /\ UNCHANGED <<run, output, outbox>>
  /\ UNCHANGED <<funds, redis, attempts>>

\* Three attempts to save the image, then the output says whether it was saved.
Save(w) ==
  /\ pc[w] = "save" /\ Continues(w, "settle")
  /\ \/ kept' = [kept EXCEPT !.image = TRUE] /\ UNCHANGED output /\ NoFault
     \/ UNCHANGED kept /\ output' = [output EXCEPT !.lost = TRUE] /\ Budget /\ Spends
  /\ UNCHANGED <<run, funds, outbox, queue, attempts>>

\* SettleRun
SettleRead(w) ==
  /\ pc[w] = "settle"
  /\ Continues(w, CASE run.status = "provider_succeeded" -> "move"
               [] run.status = "settlement_pending" -> "capture"
               [] OTHER -> "ack")
  /\ UNCHANGED <<store, redis, attempts>> /\ NoFault

Move(w) ==
  /\ pc[w] = "move" /\ Continues(w, "capture")
  /\ IF CanTransition(run.status, "settlement_pending")
     THEN MoveTo("settlement_pending") ELSE UNCHANGED run
  /\ UNCHANGED <<funds, output, outbox, redis, attempts>> /\ NoFault

\* One claim for the images the client has not acknowledged; another amount under
\* the same claim is a conflict.
Capture(w) ==
  LET n == IF output.status = "made" THEN 1 ELSE 0
  IN  /\ pc[w] = "capture"
      /\ IF funds.captured \in {Uncaptured, n}
         THEN funds' = [funds EXCEPT !.captured = n] /\ Replies(w, "check")
         ELSE UNCHANGED funds /\ Continues(w, "requeue") /\ NoFault
      /\ UNCHANGED <<run, output, outbox, redis, attempts>>

Check(w) ==
  /\ pc[w] = "check"
  /\ Continues(w, IF output.status = "made" /\ (output.lost \/ ~kept.image)
                  THEN "completeLost" ELSE "completeKept")
  /\ UNCHANGED <<store, redis, attempts>> /\ NoFault

\* CompleteProviderOutcome
Complete(w, stage, status) ==
  /\ pc[w] = stage /\ Continues(w, "ack")
  /\ IF run.result /\ run.status \notin {"succeeded", "result_lost"}
     THEN MoveTo(status) ELSE UNCHANGED run
  /\ UNCHANGED <<funds, output, outbox, redis, attempts>> /\ NoFault

\* Ack and RequeueAfter compare the lease; the lock is given up in any case.
Leave(w) ==
  /\ pc[w] \in {"ack", "requeue"} /\ Continues(w, "idle")
  /\ queue' = Unlocked(w, CASE ~Holds(w) -> queue
                            [] pc[w] = "ack" ->
                               [queue EXCEPT !.active = FALSE, !.marker = Nobody]
                            [] OTHER ->
                               [queue EXCEPT !.active = FALSE, !.ready = @ + 1])
  /\ UNCHANGED <<store, kept, attempts>> /\ NoFault

\* The heartbeat finds the lease or the lock gone and cancels the work.
Abandon(w) ==
  /\ pc[w] \notin {"idle", "lock", "ack", "requeue"}
  /\ ~Holds(w) \/ queue.lock # w
  /\ Continues(w, "idle")
  /\ queue' = Unlocked(w, queue)
  /\ UNCHANGED <<store, kept, attempts>> /\ NoFault

Work(w) ==
  \/ Take(w) \/ Lock(w) \/ Look(w) \/ Load(w) \/ Admit(w)
  \/ ReadToMove(w, "mark", "markWrite") \/ Mark(w) \/ Execute(w) \/ RecordRead(w)
  \/ RecordWrite(w) \/ Save(w) \/ SettleRead(w)
  \/ Move(w) \/ Capture(w) \/ Check(w)
  \/ Complete(w, "completeKept", "succeeded") \/ Complete(w, "completeLost", "result_lost")
  \/ Leave(w) \/ Abandon(w) \/ Release(w)

-----------------------------------------------------------------------------
(* The client, the clock and what goes wrong                                *)

\* AckOutput: the image was received and may be deleted; deleting it may fail.
OfAnyRun == TRUE  \* mutant: the run need not have ended
OfEndedRun == run.status \in Ended
AckOutput ==
  /\ OfEndedRun /\ output.status = "made"
  /\ output' = [output EXCEPT !.status = "acked"]
  /\ \E k \in {FALSE, kept.image} : kept' = [kept EXCEPT !.image = k]
  /\ UNCHANGED <<run, funds, outbox, queue, work, attempts>> /\ NoFault

\* GetOutputContent: the image of a finished run is no longer there.
FindLost ==
  /\ run.status = "succeeded" /\ output.status = "made" /\ ~kept.image
  /\ MoveTo("result_lost")
  /\ UNCHANGED <<funds, output, outbox, redis, work, attempts>> /\ NoFault

\* ReconcileCreativeTransientOnce
Cleanup ==
  /\ run.status \in Ended
  /\ kept' = [input |-> FALSE, image |-> FALSE]
  /\ UNCHANGED <<store, queue, work, attempts>> /\ NoFault

Expire ==
  /\ Budget /\ Spends
  /\ \E part \in {"input", "image"} :
       kept[part] /\ kept' = [kept EXCEPT ![part] = FALSE]
  /\ UNCHANGED <<store, queue, work, attempts>>

\* RecoverStaleActive and the expiry of the job lock, when the worker is gone or,
\* at the price of a fault, when it hangs.
Gone(w) == IF w \in Workers /\ pc[w] # "idle" THEN Budget /\ Spends ELSE NoFault
Recover ==
  /\ queue.active /\ Gone(queue.marker)
  /\ queue' = [queue EXCEPT !.active = FALSE, !.ready = @ + 1, !.marker = Nobody]
  /\ UNCHANGED <<store, kept, work, attempts>>

LockExpires ==
  /\ queue.lock # Nobody /\ Gone(queue.lock)
  /\ queue' = [queue EXCEPT !.lock = Nobody]
  /\ UNCHANGED <<store, kept, work, attempts>>

\* A failed call has no effect and is handled like any error.  The request gives up
\* silently when it ensures its first event and while it marks the reservation.
StepFails(p) ==
  /\ Budget /\ Spends /\ pc[p] \in FailAt
  /\ Continues(p, CASE pc[p] = "abortWrite" -> "abortEnsure"
                    [] pc[p] \in {"ensureProvision", "abortEnsure"} -> "end"
                    [] OTHER -> Errored(p))
  /\ UNCHANGED <<store, redis, attempts>>

MarkFails ==
  /\ Budget /\ Spends /\ pc[Creator] = "phaseReserved" /\ Continues(Creator, "end")
  /\ UNCHANGED <<store, redis, attempts>>

Crash(p) ==
  /\ Budget /\ Spends /\ pc[p] \notin {"idle", "end"}
  /\ Continues(p, IF p = Creator THEN "end" ELSE "idle")
  /\ UNCHANGED <<store, redis, attempts>>

Next ==
  \/ Create
  \/ \E d \in Dispatchers : Dispatch(d)
  \/ \E w \in Workers : Work(w)
  \/ AckOutput \/ FindLost \/ Cleanup \/ Expire \/ Recover \/ LockExpires
  \/ MarkFails \/ \E p \in Procs : StepFails(p) \/ Crash(p)

Spec == Init /\ [][Next]_vars

\* Pollers and loops run until shutdown, and what a finished worker left behind is
\* recovered; a pass of the dispatcher claims every event that is due.  Nothing
\* forces the client, the clock or a fault.
FairSpec ==
  /\ Spec
  /\ WF_vars(Create)
  /\ \A d \in Dispatchers : WF_vars(Dispatch(d))
  /\ \A e \in Events : SF_vars(\E d \in Dispatchers : Claim(d, e))
  /\ \A w \in Workers : WF_vars(Work(w))
  /\ WF_vars(Recover) /\ WF_vars(LockExpires)

-----------------------------------------------------------------------------
(* Properties                                                               *)

CreativeTypeOK ==
  /\ run \in [status : Statuses, version : Nat, target : {"failed", "result_lost"},
              phase : Phases, result : BOOLEAN, split : BOOLEAN]
  /\ funds \in [held : BOOLEAN, captured : Uncaptured..1, released : BOOLEAN,
                refund : {"none", "own", "blind"}]
  /\ output \in [status : {"none", "made", "acked"}, lost : BOOLEAN]
  /\ kept \in [input : BOOLEAN, image : BOOLEAN]
  /\ outbox \in [Events -> [status : {"none", "pending", "leased", "done"},
                            owner : Dispatchers \cup {Nobody}]]
  /\ queue \in [ready : Nat, active : BOOLEAN,
                marker : Workers \cup {Nobody, "queued"}, lock : Workers \cup {Nobody}]
  /\ attempts \in Nat /\ faults \in 0..MaxFaults

\* A run whose result the provider delivered is paid and never refunded, one that is
\* refunded was never paid, whichever worker or dispatcher is late (results.go:497,
\* 551; the version of the row decides).
PaidOrRefunded ==
  /\ run.result => funds.refund = "none"
  /\ funds.captured # Uncaptured => run.result
  /\ run.status = "release_pending" => ~run.result

\* A run ends only when its money is settled: a failed one has no open hold and was
\* not charged, a finished one was charged for its image, a lost one exactly when
\* the provider had delivered (results.go:497-525 and 551-585).  The exception is
\* the hold made after the run was released: a pass of the dispatcher that meets the
\* request half way fails the run (results.go:295), Reserve does not look at its
\* status, and the one release claim is spent, so that hold stays.
EndedIsSettled ==
  run.status \in Ended =>
    /\ Open => funds.released /\ ~run.result
    /\ run.status = "succeeded" => funds.captured = 1
    /\ run.status = "failed" => funds.captured = Uncaptured
    /\ run.status = "result_lost" => (run.result <=> funds.captured = 1)

\* Every run ends, and with it its hold, whatever was done twice, lost or retired
\* early; or a worker that kept its lease tries for ever to record the result of a
\* run that was moved to release_pending meanwhile (worker.go:604-640, outcome.go:51).
RecordsInVain == run.status = "release_pending" /\ \E w \in Workers : pc[w] = "record"
EveryRunEnds == <>(run.status \in Ended) \/ <>[]RecordsInVain
==============================================================================
