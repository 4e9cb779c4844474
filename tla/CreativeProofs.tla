--------------------------- MODULE CreativeProofs ----------------------------
(***************************************************************************)
(* The safety properties of CreativeRun, for any dispatchers, workers and  *)
(* bounds.  Processes act between each other's reads and writes, so what a *)
(* process knows at its stage must be of a kind that the others cannot     *)
(* take back: a result stays recorded, a capture stays captured, a run     *)
(* that may be refunded never gets a result.                               *)
(***************************************************************************)
EXTENDS CreativeRun, TLAPS

Rows == [status : Statuses, version : Nat, target : {"failed", "result_lost"},
         phase : Phases, result : BOOLEAN, split : BOOLEAN]

Shapes ==
  /\ run \in Rows
  /\ funds \in [held : BOOLEAN, captured : Uncaptured..1, released : BOOLEAN,
                refund : {"none", "own", "blind"}]
  /\ output \in [status : {"none", "made", "acked"}, lost : BOOLEAN]
  /\ DOMAIN pc = Procs
  /\ saw \in [Procs -> Rows]

\* The provider delivered nothing and nothing can be recorded any more.
Refundable == ~run.result /\ run.status \in {"release_pending", "failed", "result_lost"}

\* How row, money and output hang together between any two steps.
RowAndMoney ==
  /\ run.version = 0 => run.status = "queued"
  /\ run.result <=> \/ run.status \in Settling \cup {"succeeded"}
                    \/ run.status = "result_lost" /\ funds.captured = 1
  /\ funds.captured \in {Uncaptured, 1}
  /\ funds.captured = 1 => run.result
  /\ run.status = "succeeded" => funds.captured = 1
  /\ run.result <=> output.status # "none"
  /\ output.status = "acked" => funds.captured = 1
  /\ funds.released => Refundable
  /\ funds.refund # "none" => funds.released
  /\ run.status \in Ended /\ ~run.result => funds.released

\* The stages that are reached only with knowledge about the run.
Informed == {"refund", "finish", "recordWrite", "save", "move", "capture", "check",
             "completeKept", "completeLost"}

\* A read is of this row or of an earlier version of it.
ReadIsPast(p) ==
  /\ saw[p].version <= run.version
  /\ saw[p].version = run.version => saw[p].status = run.status

Knows(p) ==
  /\ pc[p] \in {"refund", "finish"} => Refundable
  /\ pc[p] = "finish" => funds.released
  /\ pc[p] = "recordWrite" => saw[p].status = "running"
  /\ pc[p] \in {"save", "move", "capture", "check", "completeKept", "completeLost"}
       => run.result
  /\ pc[p] \in {"check", "completeKept", "completeLost"} => funds.captured = 1

Processes == \A p \in Procs : ReadIsPast(p) /\ Knows(p)

RunInv == Shapes /\ RowAndMoney /\ Processes

\* What no step takes back.
Advances ==
  /\ run.version <= run'.version
  /\ run.version = run'.version => run.status = run'.status
  /\ run.result => run'.result
  /\ Refundable => Refundable'
  /\ funds.released => funds'.released
  /\ funds.captured = 1 => funds'.captured = 1

\* One process moves: the others keep their stage and what they read.
Only(p) == \A q \in Procs \ {p} : pc'[q] = pc[q] /\ saw'[q] = saw[q]

(* The invariant holds at the start. *)
LEMMA RunStarts == Init => RunInv
<1> SUFFICES ASSUME Init PROVE RunInv
  OBVIOUS
<1>1. Shapes
  BY DEF Init, Shapes, Rows, NoRow, Statuses, Phases, Uncaptured
<1>2. RowAndMoney
  BY DEF Init, RowAndMoney, NoRow, Settling, Ended, Uncaptured, Refundable
<1>3. Processes
  BY DEF Init, Processes, ReadIsPast, Knows, NoRow
<1> QED BY <1>1, <1>2, <1>3 DEF RunInv

(* What a process knows survives the steps of the others. *)
LEMMA OthersKnow ==
  ASSUME RunInv, Shapes', RowAndMoney', Advances, NEW p \in Procs, Only(p),
         ReadIsPast(p)', Knows(p)'
  PROVE  RunInv'
<1>1. ASSUME NEW q \in Procs \ {p} PROVE ReadIsPast(q)' /\ Knows(q)'
  <2>1. pc'[q] = pc[q] /\ saw'[q] = saw[q] /\ ReadIsPast(q) /\ Knows(q)
    BY <1>1 DEF Only, RunInv, Processes
  <2>2. saw[q].version \in Nat /\ run.version \in Nat /\ run'.version \in Nat
    BY <1>1 DEF RunInv, Shapes, Rows
  <2>3. ReadIsPast(q)'
    BY <2>1, <2>2 DEF ReadIsPast, Advances
  <2>4. Knows(q)'
    BY <2>1 DEF Knows, Advances
  <2> QED BY <2>3, <2>4
<1> QED BY <1>1 DEF RunInv, Processes

(* A process that goes on at a stage that asks for no knowledge.            *)
LEMMA GoesOn ==
  ASSUME RunInv, Shapes', RowAndMoney', Advances, NEW p \in Procs,
         NEW s, s \notin Informed, Continues(p, s)
  PROVE  RunInv'
<1>1. Only(p) /\ pc'[p] = s /\ saw'[p] = NoRow
  BY DEF RunInv, Shapes, Only, Continues, Goes, Sees
<1>2. Knows(p)'
  BY <1>1 DEF Knows, Informed
<1>3. ReadIsPast(p)'
  BY <1>1 DEF ReadIsPast, NoRow, RowAndMoney, Shapes, Rows
<1> QED BY <1>1, <1>2, <1>3, OthersKnow

(* The invariant does not look at the rest of the state.                   *)
LEMMA Quiet ==
  ASSUME RunInv, UNCHANGED <<run, funds, output>>, DOMAIN pc' = Procs,
         saw' \in [Procs -> Rows]
  PROVE  Shapes' /\ RowAndMoney' /\ Advances
<1>1. Shapes'
  BY DEF RunInv, Shapes
<1>2. RowAndMoney'
  BY DEF RunInv, RowAndMoney, Refundable
<1>3. Advances
  BY DEF RunInv, Shapes, Rows, Advances, Refundable
<1> QED BY <1>1, <1>2, <1>3

(* A step of a process that changes neither row nor money nor output.      *)
LEMMA QuietlyGoesOn ==
  ASSUME RunInv, UNCHANGED <<run, funds, output>>, NEW p \in Procs,
         NEW s, s \notin Informed, Continues(p, s)
  PROVE  RunInv'
<1>1. DOMAIN pc' = Procs /\ saw' \in [Procs -> Rows]
  BY DEF RunInv, Shapes, Continues, Goes, Sees, NoRow, Rows, Statuses, Phases
<1> QED BY <1>1, Quiet, GoesOn

(* Where a process goes when a call returned or failed.                    *)
LEMMA ReturnsUninformed ==
  ASSUME NEW p
  PROVE  Returned(p) \notin Informed /\ Errored(p) \notin Informed
  BY DEF Returned, Errored, Informed

(* A step that leaves everything here alone.                               *)
LEMMA Aside ==
  ASSUME RunInv, UNCHANGED <<run, funds, output, pc, saw>> PROVE RunInv'
BY DEF RunInv, Shapes, RowAndMoney, Refundable, Processes, ReadIsPast, Knows
-----------------------------------------------------------------------------
(* A read before a move sees the row as it is. *)
LEMMA ReadsToMove ==
  ASSUME RunInv, NEW p \in Procs, NEW s, NEW t,
         t \in {"abortWrite", "failWrite", "lostWrite", "markWrite"}, ReadToMove(p, s, t)
  PROVE  RunInv'
<1>1. UNCHANGED <<run, funds, output>>
  BY DEF ReadToMove, store
<1>2. DOMAIN pc' = Procs /\ saw' \in [Procs -> Rows]
  BY DEF RunInv, Shapes, ReadToMove, Goes, Reads, Sees
<1>3. Shapes' /\ RowAndMoney' /\ Advances
  BY <1>1, <1>2, Quiet
<1>4. Only(p) /\ pc'[p] = t /\ saw'[p] = run
  BY DEF RunInv, Shapes, Only, ReadToMove, Goes, Reads, Sees
<1>5. Knows(p)' /\ ReadIsPast(p)'
  BY <1>1, <1>4 DEF Knows, ReadIsPast, RunInv, Shapes, Rows
<1> QED BY <1>3, <1>4, <1>5, OthersKnow

(* A phase of the provision says nothing about the money. *)
LEMMA PhaseKept ==
  ASSUME RunInv, NEW p \in Procs, NEW s, s \notin Informed, Continues(p, s),
         NEW phase \in Phases, run' = [run EXCEPT !.phase = phase],
         UNCHANGED <<funds, output>>
  PROVE  RunInv'
<1>1. Shapes'
  BY DEF RunInv, Shapes, Rows, Continues, Goes, Sees, NoRow, Statuses, Phases
<1>2. /\ run'.version = run.version /\ run'.status = run.status
      /\ run'.result = run.result /\ run'.version \in Nat
  BY DEF RunInv, Shapes, Rows
<1>3. RowAndMoney'
  BY <1>2 DEF RunInv, RowAndMoney, Refundable
<1>4. Advances
  BY <1>2 DEF Advances, Refundable
<1> QED BY <1>1, <1>3, <1>4, GoesOn

(* A run that is moved to its release had no result yet. *)
LEMMA ReleaseStarts ==
  ASSUME RunInv, NEW p \in Procs, NEW s, s \notin Informed, Continues(p, s),
         NEW target \in {"failed", "result_lost"},
         Moves(p, "release_pending"), ReleaseTo(target), UNCHANGED <<funds, output>>
  PROVE  RunInv'
<1>1. saw[p].version = run.version /\ saw[p].status = run.status
  BY DEF Moves, SameVersion, RunInv, Processes, ReadIsPast
<1>2. run.status \in {"queued", "running"}
  BY <1>1 DEF Moves, CanTransition, Settling, Ended
<1>3. /\ run'.status = "release_pending" /\ run'.version = run.version + 1
      /\ run'.result = run.result /\ run.version \in Nat /\ run' \in Rows
  <2>1. run \in Rows /\ run.version + 1 \in Nat /\ "release_pending" \in Statuses
    BY DEF RunInv, Shapes, Rows, Statuses
  <2> QED BY <2>1 DEF ReleaseTo, Rows
<1>4. Shapes'
  BY <1>3 DEF RunInv, Shapes, Rows, Continues, Goes, Sees, NoRow, Statuses, Phases
<1>5. RowAndMoney'
  BY <1>2, <1>3 DEF RunInv, RowAndMoney, Refundable, Settling, Ended
<1>6. Advances
  BY <1>2, <1>3 DEF Advances, Refundable
<1> QED BY <1>4, <1>5, <1>6, GoesOn

(* The steps of the request keep the invariant. *)
LEMMA CreateKeeps == RunInv /\ Create => RunInv'
<1> SUFFICES ASSUME RunInv, Create PROVE RunInv'
  OBVIOUS
<1> Creator \in Procs
  BY DEF Procs
<1> USE DEF Informed
<1>1. CASE EnsureProvision
  BY <1>1, QuietlyGoesOn DEF EnsureProvision
<1>2. CASE Reserve
  <2>1. PICK s : s \notin Informed /\ Continues(Creator, s)
    BY <1>2, ReturnsUninformed DEF Reserve, Replies
  <2>2. /\ run'.version = run.version /\ run'.status = run.status
        /\ run'.result = run.result /\ run' \in Rows /\ run.version \in Nat
        /\ funds'.captured = funds.captured /\ funds'.released = funds.released
        /\ funds'.refund = funds.refund
    BY <1>2 DEF Reserve, RunInv, Shapes, Rows
  <2>3. Shapes'
    BY <1>2, <2>1, <2>2
    DEF Reserve, RunInv, Shapes, Rows, Continues, Goes, Sees, NoRow, Statuses, Phases
  <2>4. RowAndMoney'
    BY <1>2, <2>2 DEF Reserve, RunInv, RowAndMoney, Refundable
  <2>5. Advances
    BY <2>2 DEF Advances, Refundable
  <2> QED BY <2>1, <2>3, <2>4, <2>5, GoesOn
<1>3. CASE SaveTransient
  BY <1>3, QuietlyGoesOn DEF SaveTransient, store
<1>4. CASE Enqueue
  BY <1>4, QuietlyGoesOn DEF Enqueue, store
<1>5. CASE SetPhase("phaseReserved", "hold_reserved", "saveInput")
  BY <1>5, PhaseKept DEF SetPhase, Phases
<1>6. CASE SetPhase("phaseSaved", "transient_saved", "enqueue")
  BY <1>6, PhaseKept DEF SetPhase, Phases
<1>7. CASE SetPhase("phaseEnqueued", "enqueued", "end")
  BY <1>7, PhaseKept DEF SetPhase, Phases
<1>8. CASE ReadToMove(Creator, "abort", "abortWrite")
  BY <1>8, ReadsToMove
<1>9. CASE AbortWrite
  <2>1. CASE Moves(Creator, "release_pending")
    BY <1>9, <2>1, ReleaseStarts DEF AbortWrite
  <2>2. CASE ~Moves(Creator, "release_pending")
    BY <1>9, <2>2, QuietlyGoesOn DEF AbortWrite
  <2> QED BY <2>1, <2>2
<1>10. CASE AbortEnsure
  BY <1>10, QuietlyGoesOn DEF AbortEnsure
<1> QED BY <1>1, <1>2, <1>3, <1>4, <1>5, <1>6, <1>7, <1>8, <1>9, <1>10 DEF Create
(* The steps that release a run keep the invariant. *)
LEMMA ReleaseKeeps ==
  ASSUME RunInv, NEW p \in Procs, Release(p) PROVE RunInv'
<1> USE DEF Informed
<1>1. ASSUME NEW stage, NEW next, next \in {"failMove", "lostMove"}, FailRead(p, stage, next)
      PROVE  RunInv'
  <2>1. PICK s : s \notin Informed /\ Continues(p, s)
    BY <1>1, ReturnsUninformed DEF FailRead
  <2> QED BY <1>1, <2>1, QuietlyGoesOn DEF FailRead, store
<1>2. CASE FailWrite(p)
  <2>1. CASE Moves(p, "release_pending")
    BY <1>2, <2>1, ReleaseStarts DEF FailWrite
  <2>2. CASE ~Moves(p, "release_pending")
    BY <1>2, <2>2, QuietlyGoesOn DEF FailWrite
  <2> QED BY <2>1, <2>2
<1>3. CASE LostWrite(p)
  <2>1. CASE Moves(p, "release_pending")
    BY <1>3, <2>1, ReleaseStarts DEF LostWrite
  <2>2. CASE ~Moves(p, "release_pending")
    BY <1>3, <2>2, ReturnsUninformed, QuietlyGoesOn DEF LostWrite
  <2> QED BY <2>1, <2>2
<1>4. CASE EnsureRelease(p)
  BY <1>4, QuietlyGoesOn DEF EnsureRelease
<1>5. CASE ReleaseRead(p)
  <2>1. UNCHANGED <<run, funds, output>>
    BY <1>5 DEF ReleaseRead, store
  <2>2. DOMAIN pc' = Procs /\ saw' \in [Procs -> Rows]
    BY <1>5 DEF RunInv, Shapes, ReleaseRead, Goes, Reads, Sees
  <2>3. Shapes' /\ RowAndMoney' /\ Advances
    BY <2>1, <2>2, Quiet
  <2>4. /\ Only(p) /\ saw'[p] = run
        /\ pc'[p] = IF run.status = "release_pending" THEN "refund" ELSE Returned(p)
    BY <1>5 DEF RunInv, Shapes, Only, ReleaseRead, Goes, Reads, Sees
  <2>5. ~run.result \/ run.status # "release_pending"
    BY DEF RunInv, RowAndMoney, Settling
  <2>6. Knows(p)' /\ ReadIsPast(p)'
    BY <2>1, <2>4, <2>5
    DEF Knows, Refundable, Returned, ReadIsPast, RunInv, Shapes, Rows
  <2> QED BY <2>3, <2>4, <2>6, OthersKnow
<1>6. CASE Refund(p)
  <2>1. Refundable
    BY <1>6 DEF Refund, RunInv, Processes, Knows
  <2>2. /\ funds'.released /\ funds'.captured = funds.captured
        /\ funds'.held = funds.held
        /\ funds' \in [held : BOOLEAN, captured : Uncaptured..1, released : BOOLEAN,
                       refund : {"none", "own", "blind"}]
    BY <1>6 DEF Refund, RunInv, Shapes
  <2>3. DOMAIN pc' = Procs /\ saw' \in [Procs -> Rows]
    <3>1. NoRow \in Rows
      BY DEF NoRow, Rows, Statuses, Phases
    <3> QED BY <1>6, <3>1 DEF RunInv, Shapes, Refund, Keeps, Continues, Goes, Sees
  <2>4. Shapes'
    BY <1>6, <2>2, <2>3 DEF Refund, RunInv, Shapes
  <2>5. RowAndMoney'
    BY <1>6, <2>1, <2>2 DEF Refund, RunInv, RowAndMoney, Refundable
  <2>6. Advances
    BY <1>6, <2>2 DEF Refund, Advances, Refundable, RunInv, Shapes, Rows
  <2>7. CASE Keeps(p, "finish")
    <3>1. Only(p) /\ pc'[p] = "finish" /\ saw'[p] = saw[p]
      BY <2>7 DEF RunInv, Shapes, Only, Keeps, Goes
    <3>2. UNCHANGED run /\ ReadIsPast(p)
      BY <1>6 DEF Refund, RunInv, Processes
    <3>3. Knows(p)' /\ ReadIsPast(p)'
      BY <2>1, <2>2, <3>1, <3>2 DEF Knows, Refundable, ReadIsPast
    <3> QED BY <2>4, <2>5, <2>6, <3>1, <3>3, OthersKnow
  <2>8. CASE Continues(p, Errored(p))
    BY <2>4, <2>5, <2>6, <2>8, ReturnsUninformed, GoesOn
  <2> QED BY <1>6, <2>7, <2>8 DEF Refund
<1>7. CASE Finish(p)
  <2>1. Refundable /\ funds.released /\ saw[p].target \in {"failed", "result_lost"}
    BY <1>7 DEF Finish, RunInv, Processes, Knows, Shapes, Rows
  <2>2. CASE CanTransition(run.status, saw[p].target)
    <3>1. /\ run'.status = saw[p].target /\ run'.version = run.version + 1
          /\ run'.result = run.result /\ run.version \in Nat /\ run' \in Rows
      <4>1. run \in Rows /\ run.version + 1 \in Nat /\ saw[p].target \in Statuses
        BY <2>1 DEF RunInv, Shapes, Rows, Statuses
      <4> QED BY <1>7, <2>2, <4>1 DEF Finish, MoveTo, Rows
    <3>2. Shapes'
      BY <1>7, <3>1 DEF Finish, RunInv, Shapes, Rows, Continues, Goes, Sees, NoRow, Statuses, Phases
    <3>3. RowAndMoney'
      BY <1>7, <2>1, <3>1 DEF Finish, RunInv, RowAndMoney, Refundable, Settling, Ended
    <3>4. Advances
      BY <1>7, <2>1, <3>1 DEF Finish, Advances, Refundable
    <3> QED BY <1>7, <3>2, <3>3, <3>4, GoesOn DEF Finish
  <2>3. CASE ~CanTransition(run.status, saw[p].target)
    BY <1>7, <2>3, QuietlyGoesOn DEF Finish
  <2> QED BY <2>2, <2>3
<1>8. CASE Delete(p)
  BY <1>8, ReturnsUninformed, QuietlyGoesOn DEF Delete, store
<1>9. ASSUME NEW stage, NEW next, next \in {"failWrite", "lostWrite"}, ReadToMove(p, stage, next)
      PROVE  RunInv'
  BY <1>9, ReadsToMove
<1> QED BY <1>1, <1>2, <1>3, <1>4, <1>5, <1>6, <1>7, <1>8, <1>9 DEF Release

(* The steps of the dispatcher keep the invariant. *)
LEMMA DispatchKeeps ==
  ASSUME RunInv, NEW d \in Dispatchers, Dispatch(d) PROVE RunInv'
<1> d \in Procs
  BY DEF Procs
<1> USE DEF Informed
<1>1. ASSUME NEW e \in Events, Claim(d, e) PROVE RunInv'
  <2>1. UNCHANGED <<run, funds, output>>
    BY <1>1 DEF Claim
  <2>2. DOMAIN pc' = Procs /\ saw' \in [Procs -> Rows]
    BY <1>1 DEF RunInv, Shapes, Claim, Goes
  <2>3. Only(d) /\ pc'[d] \in {"provision", "event"} /\ saw'[d] = saw[d]
    BY <1>1 DEF RunInv, Shapes, Only, Claim, Goes
  <2>4. Knows(d)' /\ ReadIsPast(d)'
    BY <2>1, <2>3 DEF Knows, ReadIsPast, RunInv, Processes
  <2> QED BY <2>1, <2>2, <2>3, <2>4, Quiet, OthersKnow
<1>2. CASE Provision(d)
  <2>1. PICK s : s \notin Informed /\ Continues(d, s)
    BY <1>2 DEF Provision
  <2> QED BY <1>2, <2>1, QuietlyGoesOn DEF Provision, store
<1>3. CASE Event(d)
  BY <1>3, QuietlyGoesOn DEF Event, store
<1>4. ASSUME NEW stage, NEW next, next \in {"phaseComplete", "phaseAgain", "complete"},
             DispatchEnqueue(d, stage, next)
      PROVE  RunInv'
  BY <1>4, QuietlyGoesOn DEF DispatchEnqueue, store
<1>5. ASSUME NEW stage, NEW phase \in Phases, DispatchPhase(d, stage, phase) PROVE RunInv'
  BY <1>5, PhaseKept DEF DispatchPhase
<1>6. ASSUME NEW stage, NEW status, Closes(d, stage, status) PROVE RunInv'
  BY <1>6, QuietlyGoesOn DEF Closes
<1>7. CASE Release(d)
  BY <1>7, ReleaseKeeps
<1>8. "complete" \in Phases /\ "enqueued" \in Phases
  BY DEF Phases
<1> QED BY <1>1, <1>2, <1>3, <1>4, <1>5, <1>6, <1>7, <1>8 DEF Dispatch
(* The steps of a worker keep the invariant. *)
LEMMA WorkKeeps ==
  ASSUME RunInv, NEW w \in Workers, Work(w) PROVE RunInv'
<1> w \in Procs
  BY DEF Procs
<1> USE DEF Informed
<1>0. NoRow \in Rows /\ saw \in [Procs -> Rows] /\ DOMAIN pc = Procs
  BY DEF NoRow, Rows, Statuses, Phases, RunInv, Shapes
<1>1. CASE Take(w)
  BY <1>1, QuietlyGoesOn DEF Take, store
<1>2. CASE Lock(w)
  BY <1>2, QuietlyGoesOn DEF Lock, store
<1>3. CASE Look(w)
  <2>1. PICK s : s \notin Informed /\ Continues(w, s)
    BY <1>3 DEF Look
  <2> QED BY <1>3, <2>1, QuietlyGoesOn DEF Look, store
<1>4. CASE Load(w)
  BY <1>4, QuietlyGoesOn DEF Load, store
<1>5. CASE Admit(w)
  <2>1. PICK s : s \notin Informed /\ Continues(w, s)
    BY <1>5 DEF Admit
  <2> QED BY <1>5, <2>1, QuietlyGoesOn DEF Admit, store
<1>6. CASE ReadToMove(w, "mark", "markWrite")
  BY <1>6, ReadsToMove
<1>7. CASE Mark(w)
  <2>1. PICK s : s \notin Informed /\ Continues(w, s)
    BY <1>7 DEF Mark
  <2>2. CASE Moves(w, "running")
    <3>1. saw[w].version = run.version /\ saw[w].status = run.status
      BY <2>2 DEF Moves, SameVersion, RunInv, Processes, ReadIsPast
    <3>2. run.status = "queued"
      BY <2>2, <3>1 DEF Moves, CanTransition, Settling, Ended
    <3>3. /\ run'.status = "running" /\ run'.version = run.version + 1
          /\ run'.result = run.result /\ run.version \in Nat /\ run' \in Rows
      <4>1. run \in Rows /\ run.version + 1 \in Nat /\ "running" \in Statuses
        BY DEF RunInv, Shapes, Rows, Statuses
      <4> QED BY <1>7, <2>2, <4>1 DEF Mark, MoveTo, Rows
    <3>4. Shapes'
      BY <1>0, <1>7, <2>1, <3>3 DEF Mark, RunInv, Shapes, Continues, Goes, Sees
    <3>5. RowAndMoney'
      BY <1>7, <3>2, <3>3 DEF Mark, RunInv, RowAndMoney, Refundable, Settling, Ended
    <3>6. Advances
      BY <1>7, <3>2, <3>3 DEF Mark, Advances, Refundable
    <3> QED BY <2>1, <3>4, <3>5, <3>6, GoesOn
  <2>3. CASE ~Moves(w, "running")
    BY <1>7, <2>1, <2>3, QuietlyGoesOn DEF Mark
  <2> QED BY <2>2, <2>3
<1>8. CASE Execute(w)
  <2>1. PICK s : s \notin Informed /\ Continues(w, s)
    BY <1>8 DEF Execute
  <2> QED BY <1>8, <2>1, QuietlyGoesOn DEF Execute, store
<1>9. CASE RecordRead(w)
  <2>1. UNCHANGED <<run, funds, output>>
    BY <1>9 DEF RecordRead, store
  <2>2. DOMAIN pc' = Procs /\ saw' \in [Procs -> Rows]
    BY <1>9 DEF RunInv, Shapes, RecordRead, Goes, Reads, Sees
  <2>3. Shapes' /\ RowAndMoney' /\ Advances
    BY <2>1, <2>2, Quiet
  <2>4. /\ Only(w) /\ saw'[w] = run
        /\ \/ pc'[w] = "settle"
           \/ pc'[w] = "save" /\ run.result
           \/ pc'[w] = "recordWrite" /\ run.status = "running"
    BY <1>0, <1>9 DEF Only, RecordRead, Goes, Reads, Sees
  <2>5. Knows(w)' /\ ReadIsPast(w)'
    BY <2>1, <2>4 DEF Knows, ReadIsPast, RunInv, Shapes, Rows
  <2> QED BY <2>3, <2>4, <2>5, OthersKnow
<1>10. CASE RecordWrite(w)
  <2>1. CASE SameVersion(w)
    <3>1. run.status = "running"
      BY <1>10, <2>1 DEF RecordWrite, SameVersion, RunInv, Processes, ReadIsPast, Knows
    <3>2. ~run.result /\ funds.captured # 1 /\ ~funds.released /\ funds.refund = "none"
      BY <3>1 DEF RunInv, RowAndMoney, Settling, Refundable
    <3>3. /\ run'.status = "provider_succeeded" /\ run'.version = run.version + 1
          /\ run'.result /\ run.version \in Nat /\ run' \in Rows
      <4>1. run \in Rows /\ run.version + 1 \in Nat /\ "provider_succeeded" \in Statuses
        BY DEF RunInv, Shapes, Rows, Statuses
      <4> QED BY <1>10, <2>1, <4>1 DEF RecordWrite, Rows
    <3>4. output'.status = "made"
          /\ output' \in [status : {"none", "made", "acked"}, lost : BOOLEAN]
      BY <1>10, <2>1 DEF RecordWrite, RunInv, Shapes
    <3>5. UNCHANGED funds
      BY <1>10 DEF RecordWrite
    <3>6. DOMAIN pc' = Procs /\ saw' \in [Procs -> Rows]
      BY <1>0, <1>10, <2>1 DEF RecordWrite, Replies, Continues, Goes, Sees
    <3>7. Shapes'
      BY <3>3, <3>4, <3>5, <3>6 DEF RunInv, Shapes
    <3>8. RowAndMoney'
      BY <3>2, <3>3, <3>4, <3>5
      DEF RunInv, RowAndMoney, Refundable, Settling, Ended
    <3>9. Advances
      BY <3>1, <3>3, <3>5 DEF Advances, Refundable
    <3>10. CASE Continues(w, "save")
      <4>1. Only(w) /\ pc'[w] = "save" /\ saw'[w] = NoRow
        BY <1>0, <3>10 DEF Only, Continues, Goes, Sees
      <4>2. Knows(w)' /\ ReadIsPast(w)'
        BY <3>3, <4>1 DEF Knows, ReadIsPast, NoRow
      <4> QED BY <3>7, <3>8, <3>9, <4>1, <4>2, OthersKnow
    <3>11. CASE Continues(w, Errored(w))
      BY <3>7, <3>8, <3>9, <3>11, ReturnsUninformed, GoesOn
    <3> QED BY <1>10, <2>1, <3>10, <3>11 DEF RecordWrite, Replies
  <2>2. CASE ~SameVersion(w)
    BY <1>10, <2>2, QuietlyGoesOn DEF RecordWrite
  <2> QED BY <2>1, <2>2
<1>11. CASE Save(w)
  <2>1. /\ output'.status = output.status
        /\ output' \in [status : {"none", "made", "acked"}, lost : BOOLEAN]
    BY <1>11 DEF Save, RunInv, Shapes
  <2>2. UNCHANGED <<run, funds>> /\ Continues(w, "settle")
    BY <1>11 DEF Save
  <2>3. Shapes'
    BY <1>0, <2>1, <2>2 DEF RunInv, Shapes, Continues, Goes, Sees
  <2>4. RowAndMoney'
    BY <2>1, <2>2 DEF RunInv, RowAndMoney, Refundable
  <2>5. Advances
    BY <2>2 DEF Advances, Refundable, RunInv, Shapes, Rows
  <2> QED BY <2>2, <2>3, <2>4, <2>5, GoesOn
<1>12. CASE SettleRead(w)
  <2>1. UNCHANGED <<run, funds, output>>
    BY <1>12 DEF SettleRead, store
  <2>2. DOMAIN pc' = Procs /\ saw' \in [Procs -> Rows]
    BY <1>0, <1>12 DEF SettleRead, Continues, Goes, Sees
  <2>3. Shapes' /\ RowAndMoney' /\ Advances
    BY <2>1, <2>2, Quiet
  <2>4. /\ Only(w) /\ saw'[w] = NoRow
        /\ \/ pc'[w] = "ack"
           \/ pc'[w] \in {"move", "capture"} /\ run.status \in Settling
    BY <1>0, <1>12 DEF Only, SettleRead, Continues, Goes, Sees, Settling
  <2>5. Knows(w)' /\ ReadIsPast(w)'
    BY <2>1, <2>4 DEF Knows, ReadIsPast, RunInv, Shapes, Rows, RowAndMoney, NoRow
  <2> QED BY <2>3, <2>4, <2>5, OthersKnow
<1>13. CASE Move(w)
  <2>1. run.result /\ Only(w) /\ pc'[w] = "capture" /\ saw'[w] = NoRow
    BY <1>0, <1>13 DEF Move, RunInv, Processes, Knows, Only, Continues, Goes, Sees
  <2>2. Shapes' /\ RowAndMoney' /\ Advances /\ run'.result
    <3>1. CASE CanTransition(run.status, "settlement_pending")
      <4>1. run.status = "provider_succeeded"
        BY <2>1, <3>1 DEF CanTransition, Settling, Ended, RunInv, RowAndMoney
      <4>2. /\ run'.status = "settlement_pending" /\ run'.version = run.version + 1
            /\ run'.result = run.result /\ run.version \in Nat /\ run' \in Rows
        <5>1. run \in Rows /\ run.version + 1 \in Nat /\ "settlement_pending" \in Statuses
          BY DEF RunInv, Shapes, Rows, Statuses
        <5> QED BY <1>13, <3>1, <5>1 DEF Move, MoveTo, Rows
      <4>3. Shapes'
        BY <1>0, <1>13, <4>2 DEF Move, RunInv, Shapes, Continues, Goes, Sees
      <4>4. RowAndMoney'
        BY <1>13, <2>1, <4>1, <4>2 DEF Move, RunInv, RowAndMoney, Refundable, Settling, Ended
      <4>5. Advances
        BY <1>13, <4>1, <4>2 DEF Move, Advances, Refundable
      <4> QED BY <2>1, <4>2, <4>3, <4>4, <4>5
    <3>2. CASE ~CanTransition(run.status, "settlement_pending")
      <4>1. UNCHANGED <<run, funds, output>>
        BY <1>13, <3>2 DEF Move
      <4>2. DOMAIN pc' = Procs /\ saw' \in [Procs -> Rows]
        BY <1>0, <1>13 DEF Move, Continues, Goes, Sees
      <4> QED BY <2>1, <4>1, <4>2, Quiet
    <3> QED BY <3>1, <3>2
  <2>3. Knows(w)' /\ ReadIsPast(w)'
    BY <2>1, <2>2 DEF Knows, ReadIsPast, NoRow, Shapes, Rows, RowAndMoney
  <2> QED BY <2>1, <2>2, <2>3, OthersKnow
<1>14. CASE Capture(w)
  <2>1. run.result /\ output.status # "none" /\ ~funds.released
    BY <1>14 DEF Capture, RunInv, Processes, Knows, RowAndMoney, Refundable
  <2>2. CASE funds' = [funds EXCEPT !.captured = 1] /\ Replies(w, "check")
    <3>1. /\ funds'.captured = 1 /\ funds'.released = funds.released
          /\ funds'.refund = funds.refund
          /\ funds' \in [held : BOOLEAN, captured : Uncaptured..1, released : BOOLEAN,
                         refund : {"none", "own", "blind"}]
      BY <2>2 DEF RunInv, Shapes, Uncaptured
    <3>2. UNCHANGED <<run, output>>
      BY <1>14 DEF Capture
    <3>3. DOMAIN pc' = Procs /\ saw' \in [Procs -> Rows]
      BY <1>0, <2>2 DEF Replies, Continues, Goes, Sees
    <3>4. Shapes'
      BY <3>1, <3>2, <3>3 DEF RunInv, Shapes
    <3>5. RowAndMoney'
      BY <2>1, <3>1, <3>2 DEF RunInv, RowAndMoney, Refundable, Settling, Ended
    <3>6. Advances
      BY <3>1, <3>2 DEF Advances, Refundable, RunInv, Shapes, Rows
    <3>7. CASE Continues(w, "check")
      <4>1. Only(w) /\ pc'[w] = "check" /\ saw'[w] = NoRow
        BY <1>0, <3>7 DEF Only, Continues, Goes, Sees
      <4>2. Knows(w)' /\ ReadIsPast(w)'
        BY <2>1, <3>1, <3>2, <3>4, <3>5, <4>1
        DEF Knows, ReadIsPast, NoRow, Shapes, Rows, RowAndMoney
      <4> QED BY <3>4, <3>5, <3>6, <4>1, <4>2, OthersKnow
    <3>8. CASE Continues(w, Errored(w))
      BY <3>4, <3>5, <3>6, <3>8, ReturnsUninformed, GoesOn
    <3> QED BY <2>2, <3>7, <3>8 DEF Replies
  <2>3. CASE output.status = "acked" /\ funds.captured = 1
    BY <1>14, <2>3, QuietlyGoesOn DEF Capture, Uncaptured
  <2>4. CASE UNCHANGED funds /\ Continues(w, "requeue")
    BY <1>14, <2>4, QuietlyGoesOn DEF Capture
  <2> QED BY <1>14, <2>1, <2>2, <2>3, <2>4
          DEF Capture, RunInv, Shapes, RowAndMoney
<1>15. CASE Check(w)
  <2>1. UNCHANGED <<run, funds, output>> /\ run.result /\ funds.captured = 1
    BY <1>15 DEF Check, store, RunInv, Processes, Knows
  <2>2. DOMAIN pc' = Procs /\ saw' \in [Procs -> Rows]
    BY <1>0, <1>15 DEF Check, Continues, Goes, Sees
  <2>3. Shapes' /\ RowAndMoney' /\ Advances
    BY <2>1, <2>2, Quiet
  <2>4. Only(w) /\ pc'[w] \in {"completeLost", "completeKept"} /\ saw'[w] = NoRow
    BY <1>0, <1>15 DEF Only, Check, Continues, Goes, Sees
  <2>5. Knows(w)' /\ ReadIsPast(w)'
    BY <2>1, <2>4 DEF Knows, ReadIsPast, NoRow, RunInv, Shapes, Rows, RowAndMoney
  <2> QED BY <2>3, <2>4, <2>5, OthersKnow
<1>16. ASSUME NEW stage \in {"completeKept", "completeLost"},
              NEW status \in {"succeeded", "result_lost"}, Complete(w, stage, status)
       PROVE  RunInv'
  <2>1. run.result /\ funds.captured = 1
    BY <1>16 DEF Complete, RunInv, Processes, Knows
  <2>2. CASE run.status \notin {"succeeded", "result_lost"}
    <3>1. /\ run'.status = status /\ run'.version = run.version + 1
          /\ run'.result = run.result /\ run.version \in Nat /\ run' \in Rows
      <4>1. run \in Rows /\ run.version + 1 \in Nat /\ status \in Statuses
        BY DEF RunInv, Shapes, Rows, Statuses
      <4> QED BY <1>16, <2>1, <2>2, <4>1 DEF Complete, MoveTo, Rows
    <3>2. Shapes'
      BY <1>0, <1>16, <3>1 DEF Complete, RunInv, Shapes, Continues, Goes, Sees
    <3>3. RowAndMoney'
      BY <1>16, <2>1, <3>1 DEF Complete, RunInv, RowAndMoney, Refundable, Settling, Ended
    <3>4. Advances
      BY <1>16, <2>1, <3>1 DEF Complete, Advances, Refundable
    <3> QED BY <1>16, <3>2, <3>3, <3>4, GoesOn DEF Complete
  <2>3. CASE run.status \in {"succeeded", "result_lost"}
    BY <1>16, <2>3, QuietlyGoesOn DEF Complete
  <2> QED BY <2>2, <2>3
<1>17. CASE Leave(w)
  BY <1>17, QuietlyGoesOn DEF Leave, store
<1>18. CASE Abandon(w)
  BY <1>18, QuietlyGoesOn DEF Abandon, store
<1>19. CASE Release(w)
  BY <1>19, ReleaseKeeps
<1> QED BY <1>1, <1>2, <1>3, <1>4, <1>5, <1>6, <1>7, <1>8, <1>9, <1>10, <1>11, <1>12, <1>13,
        <1>14, <1>15, <1>16, <1>17, <1>18, <1>19 DEF Work
(* Client, clock and faults keep the invariant. *)
LEMMA OutsideKeeps ==
  ASSUME RunInv,
         \/ AckOutput \/ FindLost \/ Cleanup \/ Expire \/ Recover \/ LockExpires
         \/ MarkFails \/ \E p \in Procs : StepFails(p) \/ Crash(p)
  PROVE  RunInv'
<1> USE DEF Informed
<1>1. CASE AckOutput
  <2>1. run.result /\ funds.captured = 1
    BY <1>1 DEF AckOutput, OfEndedRun, RunInv, RowAndMoney, Ended, Settling
  <2>2. /\ output'.status = "acked"
        /\ output' \in [status : {"none", "made", "acked"}, lost : BOOLEAN]
    BY <1>1 DEF AckOutput, RunInv, Shapes
  <2>3. UNCHANGED <<run, funds, pc, saw>>
    BY <1>1 DEF AckOutput, work
  <2>4. Shapes'
    BY <2>2, <2>3 DEF RunInv, Shapes
  <2>5. RowAndMoney'
    BY <2>1, <2>2, <2>3 DEF RunInv, RowAndMoney, Refundable
  <2>6. Processes'
    BY <2>3 DEF RunInv, Processes, ReadIsPast, Knows, Refundable
  <2> QED BY <2>4, <2>5, <2>6 DEF RunInv
<1>2. CASE FindLost
  <2>1. run.status = "succeeded" /\ run.result /\ funds.captured = 1 /\ ~funds.released
    BY <1>2 DEF FindLost, RunInv, RowAndMoney, Refundable
  <2>2. /\ run'.status = "result_lost" /\ run'.version = run.version + 1
        /\ run'.result = run.result /\ run.version \in Nat /\ run' \in Rows
    <3>1. run \in Rows /\ run.version + 1 \in Nat /\ "result_lost" \in Statuses
      BY DEF RunInv, Shapes, Rows, Statuses
    <3> QED BY <1>2, <3>1 DEF FindLost, MoveTo, Rows
  <2>3. UNCHANGED <<funds, output, pc, saw>>
    BY <1>2 DEF FindLost, work
  <2>4. Shapes'
    BY <2>2, <2>3 DEF RunInv, Shapes
  <2>5. RowAndMoney'
    BY <2>1, <2>2, <2>3 DEF RunInv, RowAndMoney, Refundable, Settling, Ended
  <2>6. Advances
    BY <2>1, <2>2, <2>3 DEF Advances, Refundable
  <2>7. ReadIsPast(Creator)' /\ Knows(Creator)'
    <3>1. Creator \in Procs
      BY DEF Procs
    <3>2. ReadIsPast(Creator) /\ Knows(Creator) /\ saw[Creator].version \in Nat
      BY <3>1 DEF RunInv, Processes, Shapes, Rows
    <3> QED BY <2>1, <2>2, <2>3, <3>2 DEF ReadIsPast, Knows, Refundable
  <2> QED BY <2>3, <2>4, <2>5, <2>6, <2>7, OthersKnow DEF Only, Procs
<1>3. CASE Cleanup
  BY <1>3, Aside DEF Cleanup, store, work
<1>4. CASE Expire
  BY <1>4, Aside DEF Expire, store, work
<1>5. CASE Recover
  BY <1>5, Aside DEF Recover, store, work
<1>6. CASE LockExpires
  BY <1>6, Aside DEF LockExpires, store, work
<1>7. CASE MarkFails
  BY <1>7, QuietlyGoesOn DEF MarkFails, store, Procs
<1>8. ASSUME NEW p \in Procs, StepFails(p) PROVE RunInv'
  <2>1. PICK s : s \notin Informed /\ Continues(p, s)
    BY <1>8, ReturnsUninformed DEF StepFails
  <2> QED BY <1>8, <2>1, QuietlyGoesOn DEF StepFails, store
<1>9. ASSUME NEW p \in Procs, Crash(p) PROVE RunInv'
  BY <1>9, QuietlyGoesOn DEF Crash, store
<1> QED BY <1>1, <1>2, <1>3, <1>4, <1>5, <1>6, <1>7, <1>8, <1>9

(* The invariant is inductive. *)
LEMMA RunInvHolds == Spec => []RunInv
<1>1. Init => RunInv
  BY RunStarts
<1>2. RunInv /\ [Next]_vars => RunInv'
  <2> SUFFICES ASSUME RunInv, [Next]_vars PROVE RunInv'
    OBVIOUS
  <2>1. CASE UNCHANGED vars
    BY <2>1, Aside DEF vars, store, work
  <2> QED BY <2>1, CreateKeeps, DispatchKeeps, WorkKeeps, OutsideKeeps DEF Next
<1> QED BY <1>1, <1>2, PTL DEF Spec
-----------------------------------------------------------------------------
(* A run whose result was delivered is paid and never refunded, whichever  *)
(* worker or dispatcher is late.                                           *)
THEOREM NeverPaidAndRefunded == Spec => []PaidOrRefunded
<1>1. RunInv => PaidOrRefunded
  BY DEF RunInv, RowAndMoney, Refundable, PaidOrRefunded, Settling, Uncaptured
<1> QED BY <1>1, RunInvHolds, PTL

(* A run ends only when its money is settled.                              *)
THEOREM MoneyIsSettledAtTheEnd == Spec => []EndedIsSettled
<1>1. RunInv => EndedIsSettled
  BY DEF RunInv, RowAndMoney, Refundable, EndedIsSettled, Open, Ended, Settling, Uncaptured
<1> QED BY <1>1, RunInvHolds, PTL
==============================================================================
