----------------------------- MODULE BatchQueue ------------------------------
(***************************************************************************)
(* The Redis queue of batch image jobs and the workers that take jobs off  *)
(* it.  A job is recorded in the ready list, the delayed set or the active *)
(* set; an expiring marker keeps it from being admitted twice; an expiring *)
(* lock with a token of its holder keeps two workers from one job.  Every  *)
(* Lua script of the queue is one step, and between two scripts of a       *)
(* worker anything may happen.                                             *)
(*                                                                         *)
(* What a visit does to the job is the subject of BatchImage; here a job   *)
(* wants a number of visits, and a visit is terminal when none is left.    *)
(***************************************************************************)
EXTENDS Integers, Sequences, FiniteSets

CONSTANTS Jobs, Workers,
          Free,        \* no one's: the lock of a job nobody holds
          Orphan,      \* the token of an acquisition nobody answers for
          MaxVisits,   \* bound: visits a job may want
          MaxAdmits,   \* bound: successful admissions of one job
          MaxFaults    \* bound: crashes, lost replies, pauses, expired markers

ASSUME QueueAssumption ==
  /\ Free \notin Workers \cup {Orphan}
  /\ Free \notin Jobs
  /\ Orphan \notin Workers
  /\ MaxVisits \in Nat /\ MaxAdmits \in Nat /\ MaxFaults \in Nat

VARIABLES
  ready,     \* the list of ready jobs, the next one to be reserved first
  delayed,   \* jobs that wait for their due time
  active,    \* jobs reserved at some time and neither requeued nor retired
  inflight,  \* jobs whose admission marker is set
  lock,      \* the token in the lock of each job: its worker, Orphan or Free
  pc,        \* where RunOnce of each worker stands
  job,       \* the job it reserved
  expired,   \* history: the lock of the current turn has expired under it
  needs,     \* visits the persisted job still wants
  admits,    \* history: successful admissions
  faults     \* faults so far

records == <<ready, delayed, active>>
turn == <<pc, job, expired>>
vars == <<ready, delayed, active, inflight, lock, pc, job, expired, needs, admits, faults>>

Stages == {"idle", "reserved", "conflict", "working", "ack", "requeue", "releasing"}

Listed(j) == \E i \in DOMAIN ready : ready[i] = j
(* A record from which some worker will take the job up again. *)
Recorded(j) == Listed(j) \/ j \in delayed \/ j \in active

Fault == faults < MaxFaults /\ faults' = faults + 1
NoFault == UNCHANGED faults

(* The worker goes to a stage of its current turn. *)
Goes(w, stage) == pc' = [pc EXCEPT ![w] = stage] /\ UNCHANGED <<job, expired>>
(* RunOnce returns. *)
Returns(w) ==
  /\ pc' = [pc EXCEPT ![w] = "idle"]
  /\ job' = [job EXCEPT ![w] = Free]
  /\ expired' = [expired EXCEPT ![w] = FALSE]

InTurn(w) == pc[w] \in {"working", "ack", "requeue"}
(* The worker processes the job and the lock still has its token. *)
Owns(w, j) == InTurn(w) /\ job[w] = j /\ lock[j] = w

Init ==
  /\ ready = <<>> /\ delayed = {} /\ active = {} /\ inflight = {}
  /\ lock = [j \in Jobs |-> Free]
  /\ pc = [w \in Workers |-> "idle"]
  /\ job = [w \in Workers |-> Free]
  /\ expired = [w \in Workers |-> FALSE]
  /\ needs \in [Jobs -> 1..MaxVisits]
  /\ admits = [j \in Jobs |-> 0]
  /\ faults = 0
-----------------------------------------------------------------------------
(* Admission.  A set marker answers "already queued" and changes nothing;  *)
(* its callers take that for success.                                      *)
Enqueue(j) ==
  /\ j \notin inflight
  /\ admits[j] < MaxAdmits
  /\ admits' = [admits EXCEPT ![j] = @ + 1]
  /\ inflight' = inflight \cup {j}
  /\ ready' = Append(ready, j)
  /\ UNCHANGED <<delayed, active, lock, turn, needs, faults>>

(* Mutant: the script pops the job and records it nowhere. *)
ReserveUnrecorded(w) ==
  /\ pc[w] = "idle"
  /\ ready # <<>>
  /\ ready' = Tail(ready)
  /\ NoFault
  /\ pc' = [pc EXCEPT ![w] = "reserved"]
  /\ job' = [job EXCEPT ![w] = Head(ready)]
  /\ UNCHANGED <<delayed, active, inflight, lock, expired, needs, admits>>

(* The oldest ready job moves to active.  When the reply is lost, or the   *)
(* client repeats the script, the job is active and no worker has it.      *)
Reserve(w) ==
  /\ pc[w] = "idle"
  /\ ready # <<>>
  /\ ready' = Tail(ready)
  /\ active' = active \cup {Head(ready)}
  /\ \/ /\ NoFault
        /\ pc' = [pc EXCEPT ![w] = "reserved"]
        /\ job' = [job EXCEPT ![w] = Head(ready)]
        /\ UNCHANGED expired
     \/ Fault /\ UNCHANGED turn
  /\ UNCHANGED <<delayed, inflight, lock, needs, admits>>

(* SETNX with a new token.  An attempt that is repeated after a lost reply *)
(* meets its own lock, whose token nobody keeps.                           *)
TryLock(w) ==
  LET j == job[w]
  IN /\ pc[w] = "reserved"
     /\ \/ /\ lock[j] = Free
           /\ \/ NoFault /\ lock' = [lock EXCEPT ![j] = w] /\ Goes(w, "working")
              \/ Fault /\ lock' = [lock EXCEPT ![j] = Orphan] /\ Goes(w, "conflict")
        \/ /\ lock[j] # Free
           /\ NoFault /\ UNCHANGED lock /\ Goes(w, "conflict")
     /\ UNCHANGED <<records, inflight, needs, admits>>

(* Mutant: a worker without the lock drops the reservation. *)
ConflictDropsReservation(w) ==
  LET j == job[w]
  IN /\ pc[w] = "conflict"
     /\ active' = active \ {j}
     /\ Returns(w)
     /\ UNCHANGED <<ready, delayed, inflight, lock, needs, admits, faults>>

(* Without the lock the worker asks for a later visit, which the queue     *)
(* grants only while nobody holds the lock.                                *)
Conflict(w) ==
  LET j == job[w]
  IN /\ pc[w] = "conflict"
     /\ \/ /\ lock[j] = Free
           /\ active' = active \ {j}
           /\ delayed' = delayed \cup {j}
        \/ lock[j] # Free /\ UNCHANGED <<active, delayed>>
     /\ Returns(w)
     /\ UNCHANGED <<ready, inflight, lock, needs, admits, faults>>

(* The processor advances the persisted job by one visit, or fails. *)
Visit(w) ==
  LET j == job[w]
      left == IF needs[j] = 0 THEN 0 ELSE needs[j] - 1
  IN /\ pc[w] = "working"
     /\ \/ /\ NoFault
           /\ needs' = [needs EXCEPT ![j] = left]
           /\ Goes(w, IF left = 0 THEN "ack" ELSE "requeue")
        \/ Fault /\ UNCHANGED needs /\ Goes(w, "requeue")
     /\ UNCHANGED <<records, inflight, lock, admits>>

(* Mutant: a turn that is cancelled returns without its deferred release. *)
LeaseLostUnreleased(w) ==
  /\ InTurn(w)
  /\ IF lock[job[w]] = w THEN Fault ELSE NoFault
  /\ Returns(w)
  /\ UNCHANGED <<records, inflight, lock, needs, admits>>

(* The heartbeat finds another token or cannot confirm its own: the        *)
(* processing is cancelled and the queue is left to the successor.         *)
LeaseLost(w) ==
  /\ InTurn(w)
  /\ IF lock[job[w]] = w THEN Fault ELSE NoFault
  /\ Goes(w, "releasing")
  /\ UNCHANGED <<records, inflight, lock, needs, admits>>

(* Mutant: the outcome is written whoever holds the lock. *)
PublishUnchecked(w) ==
  LET j == job[w]
  IN /\ pc[w] \in {"ack", "requeue"}
     /\ active' = active \ {j}
     /\ delayed' = IF pc[w] = "ack" THEN delayed \ {j} ELSE delayed \cup {j}
     /\ inflight' = IF pc[w] = "ack" THEN inflight \ {j} ELSE inflight
     /\ Goes(w, "releasing")
     /\ UNCHANGED <<ready, lock, needs, admits, faults>>

(* The outcome of the visit, with the token of the worker. *)
Publish(w) ==
  LET j == job[w]
  IN /\ pc[w] \in {"ack", "requeue"}
     /\ \/ /\ lock[j] = w
           /\ active' = active \ {j}
           /\ delayed' = IF pc[w] = "ack" THEN delayed \ {j} ELSE delayed \cup {j}
           /\ inflight' = IF pc[w] = "ack" THEN inflight \ {j} ELSE inflight
        \/ lock[j] # w /\ UNCHANGED <<delayed, active, inflight>>
     /\ Goes(w, "releasing")
     /\ UNCHANGED <<ready, lock, needs, admits, faults>>

(* Mutant: the release deletes whatever token it finds. *)
ReleaseUnchecked(w) ==
  /\ pc[w] = "releasing"
  /\ NoFault
  /\ lock' = [lock EXCEPT ![job[w]] = Free]
  /\ Returns(w)
  /\ UNCHANGED <<records, inflight, needs, admits>>

(* The deferred release, which removes the worker's own token only and may *)
(* not reach Redis.                                                        *)
Release(w) ==
  LET j == job[w]
  IN /\ pc[w] = "releasing"
     /\ \/ NoFault /\ lock' = IF lock[j] = w THEN [lock EXCEPT ![j] = Free] ELSE lock
        \/ lock[j] = w /\ Fault /\ lock' = [lock EXCEPT ![j] = Orphan]
     /\ Returns(w)
     /\ UNCHANGED <<records, inflight, needs, admits>>
-----------------------------------------------------------------------------
(* The maintenance loops. *)
MoveDue(j) ==
  /\ j \in delayed
  /\ delayed' = delayed \ {j}
  /\ ready' = Append(ready, j)
  /\ UNCHANGED <<active, inflight, lock, turn, needs, admits, faults>>

(* A job whose active timestamp is old returns to ready, whoever has it.   *)
(* The heartbeat keeps the timestamp of a job in work young, so a job some *)
(* worker has grows old only when that worker is held up.                  *)
Unattended(j) == \A w \in Workers : job[w] # j

RecoverStale(j) ==
  /\ j \in active
  /\ IF Unattended(j) THEN NoFault ELSE Fault
  /\ active' = active \ {j}
  /\ ready' = Append(ready, j)
  /\ UNCHANGED <<delayed, inflight, lock, turn, needs, admits>>
-----------------------------------------------------------------------------
(* Time and failures.  Redis removes a lock after its TTL, under a live    *)
(* holder only when it is held up, and the marker after seven days.        *)
LeaseExpires(j) ==
  /\ lock[j] # Free
  /\ IF lock[j] = Orphan THEN NoFault /\ UNCHANGED expired
     ELSE Fault /\ expired' = [expired EXCEPT ![lock[j]] = TRUE]
  /\ lock' = [lock EXCEPT ![j] = Free]
  /\ UNCHANGED <<records, inflight, pc, job, needs, admits>>

MarkerExpires(j) ==
  /\ j \in inflight
  /\ Fault
  /\ inflight' = inflight \ {j}
  /\ UNCHANGED <<records, lock, turn, needs, admits>>

(* The process of a worker stops; its lock stays until it expires. *)
Crash(w) ==
  LET j == job[w]
  IN /\ pc[w] # "idle"
     /\ Fault
     /\ lock' = IF lock[j] = w THEN [lock EXCEPT ![j] = Orphan] ELSE lock
     /\ Returns(w)
     /\ UNCHANGED <<records, inflight, needs, admits>>
-----------------------------------------------------------------------------
RunOnce(w) ==
  \/ Reserve(w) \/ TryLock(w) \/ Conflict(w) \/ Visit(w)
  \/ LeaseLost(w) \/ Publish(w) \/ Release(w)

Next ==
  \/ \E w \in Workers : RunOnce(w) \/ Crash(w)
  \/ \E j \in Jobs : \/ Enqueue(j) \/ MoveDue(j) \/ RecoverStale(j)
                     \/ LeaseExpires(j) \/ MarkerExpires(j)

Spec == Init /\ [][Next]_vars

(* The worker loops and the two maintenance loops go on, and the TTL of a  *)
(* lock nobody answers for runs out.  Nobody has to admit a job.           *)
Fairness ==
  /\ \A w \in Workers : WF_vars(RunOnce(w))
  /\ \A j \in Jobs : WF_vars(MoveDue(j)) /\ WF_vars(RecoverStale(j))
                     /\ WF_vars(LeaseExpires(j))

FairSpec == Spec /\ Fairness
-----------------------------------------------------------------------------
RecordShapes ==
  ready \in Seq(Jobs) /\ delayed \subseteq Jobs /\ active \subseteq Jobs /\ inflight \subseteq Jobs
LockShape == lock \in [Jobs -> Workers \cup {Free, Orphan}]
TurnShapes ==
  /\ pc \in [Workers -> Stages]
  /\ job \in [Workers -> Jobs \cup {Free}]
  /\ expired \in [Workers -> BOOLEAN]
CountShapes ==
  /\ needs \in [Jobs -> 0..MaxVisits]
  /\ admits \in [Jobs -> 0..MaxAdmits]
  /\ faults \in 0..MaxFaults
Shapes == RecordShapes /\ LockShape /\ TurnShapes /\ CountShapes

IdleHasNoJob == \A w \in Workers : pc[w] = "idle" <=> job[w] = Free

TokenIsAnsweredFor ==
  \A j \in Jobs : \A w \in Workers : lock[j] = w =>
     job[w] = j /\ pc[w] \in {"working", "ack", "requeue", "releasing"}

(* The shapes of the variables; exactly the idle workers have no job, and  *)
(* a worker's token is in a lock only during the turn that will release it *)
(* (worker.go:196-203 defers the release as soon as the lock is taken).    *)
QueueTypeOK == Shapes /\ IdleHasNoJob /\ TokenIsAnsweredFor

(* A job that was admitted and still wants visits has a record from which  *)
(* it will be taken up, whoever crashed and whichever reply was lost, and  *)
(* no marker turns admissions of a job away that nothing will ever visit.  *)
(* queue.go:20-22 promises that an interrupted client does not consume     *)
(* work without a recovery record, and callers take "already queued" to    *)
(* mean that a visit will come (public.go:757).                            *)
AdmittedIsRecorded == \A j \in Jobs : admits[j] > 0 /\ needs[j] > 0 => Recorded(j)
NoMarkerWithoutWork == \A j \in inflight : Recorded(j)
NoWorkLost == AdmittedIsRecorded /\ NoMarkerWithoutWork

(* A worker in its turn is without the lock only when the lock expired     *)
(* under it: no release, requeue or acknowledgement of another worker      *)
(* takes it, so two workers are at one job only after an expiry.           *)
OnlyExpiryTakesALock ==
  \A w \in Workers : InTurn(w) /\ ~expired[w] => lock[job[w]] = w

(* The last record of a job somebody processes with a valid lock goes only *)
(* when that worker publishes its own outcome: a predecessor that lost its *)
(* lock and finishes late retires nothing (queue.go:119-122).              *)
HolderAloneRetires ==
  [][\A j \in Jobs : Recorded(j) /\ ~Recorded(j)' =>
        \A w \in Workers : Owns(w, j) => pc'[w] = "releasing"]_vars

(* With finitely many faults every admitted job gets all the visits it     *)
(* wants, and its marker goes away.                                        *)
AdmittedIsFinished ==
  \A j \in Jobs : j \in inflight ~> (j \notin inflight /\ needs[j] = 0)
==============================================================================
