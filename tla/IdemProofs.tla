------------------------------ MODULE IdemProofs ------------------------------
(***************************************************************************)
(* The safety properties of Idempotency, for any requests, deadlines and   *)
(* bounds.  A request whose claim has not run out owns the record as it    *)
(* wrote it, because a takeover decides with the time of its arrival and   *)
(* a request gives up before the lock it would write could have run out;   *)
(* and a success that was met on arrival is still there while it is        *)
(* retained.                                                               *)
(***************************************************************************)
EXTENDS Idempotency, TLAPS

Stages == Lookups \cup {"new", "run", "markSucceeded", "markFailed", "done"}

(* The shapes of the variables. *)
ClockShapes ==
  /\ clock \in Nat /\ lastId \in Nat
  /\ now \in [Requests -> Nat]
  /\ \A r \in Requests : now[r] <= clock
RecordShapes ==
  /\ row \in Rows \cup {NoRow}
  /\ seen \in [Requests -> Rows \cup {NoRow}]
  /\ pc \in [Requests -> Stages]
HistoryShapes ==
  /\ claim \in [Requests -> Nat] /\ sealed \in [Requests -> Nat]
Shapes == ClockShapes /\ RecordShapes /\ HistoryShapes

(* A lookup ends before a lock counted from its arrival could run out. *)
Patience == \A r \in Requests : pc[r] \in Lookups => clock - now[r] <= MaxStall

(* What a request took over is what it has read. *)
Read ==
  \A r \in Requests :
    /\ pc[r] \in {"takeExpired", "takeFailed"} => seen[r] # NoRow
    /\ pc[r] = "takeFailed" => seen[r].status = "failed_retryable"

(* A request that runs the command within its retention. *)
Live(r) == Busy(r) /\ claim[r] > clock /\ "late outcome" \notin broken

(* Its record is the one it wrote, and the only one of its kind. *)
Owned ==
  \A r \in Requests : Live(r) =>
    /\ row # NoRow /\ row.id = seen[r].id /\ row.status = "processing"
    /\ row.locked = now[r] + Timeout /\ row.expires = claim[r]
Alone == \A r, s \in Requests : Live(r) /\ Live(s) => r = s

(* A request that read an expired record came too early to take this one. *)
TakersAreEarly ==
  \A r, s \in Requests : Live(r) /\ pc[s] = "takeExpired" => now[s] < row.locked

(* A success met on arrival still answers the request. *)
Standing ==
  \A r \in Requests : pc[r] \in Lookups /\ sealed[r] > clock /\ broken = {} =>
    /\ pc[r] \in {"create", "get"}
    /\ row # NoRow /\ row.status = "succeeded" /\ row.print = PrintOf[r]
    /\ row.expires = sealed[r]

IdemInv ==
  Shapes /\ Patience /\ Read /\ Owned /\ Alone /\ TakersAreEarly /\ Standing
-----------------------------------------------------------------------------
LEMMA Instants ==
  ASSUME Shapes, NEW r \in Requests
  PROVE  /\ claim[r] \in Nat /\ sealed[r] \in Nat /\ now[r] \in Nat /\ clock \in Nat
         /\ claim[r] > clock <=> ~(claim[r] <= clock)
         /\ sealed[r] > clock <=> ~(sealed[r] <= clock)
BY DEF Shapes, ClockShapes, HistoryShapes

(* What a claim and an outcome leave in the record. *)
LEMMA ClaimedRecord ==
  ASSUME ClockShapes, NEW r \in Requests, NEW id \in Nat
  PROVE  LET new == Claimed(r, id, PrintOf[r])
         IN  /\ new \in Rows /\ new # NoRow
             /\ new.id = id /\ new.status = "processing"
             /\ new.locked = now[r] + Timeout /\ new.expires = now[r] + TTL
BY IdemAssumption DEF Prints, ClockShapes, Claimed, Rows, Statuses

LEMMA OutcomeRecord ==
  ASSUME ClockShapes, row \in Rows, NEW r \in Requests
  PROVE  Outcome(r) \in Rows /\ Outcome(r) # NoRow /\ Outcome(r).id = row.id
<1> DEFINE new(status, locked) ==
             [id |-> row.id, print |-> row.print, status |-> status,
              locked |-> locked, expires |-> now[r] + TTL]
<1>1. now[r] + TTL \in Nat /\ clock + Backoff \in Nat
  BY IdemAssumption DEF ClockShapes
<1>2. Outcome(r) = new("succeeded", 0) \/ Outcome(r) = new("failed_retryable", clock + Backoff)
  BY DEF Outcome, Rows
<1>3. new("succeeded", 0) \in Rows /\ new("failed_retryable", clock + Backoff) \in Rows
  BY <1>1 DEF Rows, Statuses
<1> QED BY <1>2, <1>3, IdemAssumption

(* The moves of a request.  It becomes the owner of the record, ... *)
Claims(r) ==
  /\ \/ pc[r] = "create" /\ row = NoRow
     \/ pc[r] \in {"takeExpired", "takeFailed"} /\ Reclaimable(r, seen[r].status)
  /\ pc' = [pc EXCEPT ![r] = "run"]
  /\ claim' = [claim EXCEPT ![r] = now[r] + TTL]
  /\ row' \in Rows /\ row' # NoRow /\ row'.status = "processing"
  /\ row'.locked = now[r] + Timeout /\ row'.expires = now[r] + TTL
  /\ seen' = [seen EXCEPT ![r] = row']
  /\ lastId' \in Nat /\ UNCHANGED <<clock, now, sealed>>
  /\ broken \subseteq broken' /\ (Retained => broken' # {})

(* ... looks at it and goes on without one, ... *)
Looks(r) ==
  /\ pc[r] \in Lookups
  /\ \E stage \in {"get", "reget", "takeExpired", "takeFailed", "done"} :
       /\ pc' = [pc EXCEPT ![r] = stage]
       /\ stage = "takeExpired" => ~Foreign(r) /\ row.expires <= now[r] /\ seen' = [seen EXCEPT ![r] = row]
       /\ stage = "takeFailed" =>
            ~Foreign(r) /\ row.status = "failed_retryable" /\ seen' = [seen EXCEPT ![r] = row]
       /\ stage = "reget" => pc[r] = "takeExpired"
       /\ stage = "get" => pc[r] = "create"
  /\ seen' = seen \/ seen' = [seen EXCEPT ![r] = row]
  /\ UNCHANGED <<store, now, claim, sealed, broken>>

(* ... or stores an outcome under the id it knows. *)
Overwrites(r) ==
  /\ pc[r] \in {"markSucceeded", "markFailed"} /\ pc' = [pc EXCEPT ![r] = "done"]
  /\ row # NoRow /\ row.id = seen[r].id
  /\ row' \in Rows /\ row' # NoRow
  /\ broken \subseteq broken' /\ (claim[r] <= clock => "late outcome" \in broken')
  /\ UNCHANGED <<clock, lastId, now, seen, claim, sealed>>

Continues(r) ==
  /\ Busy(r)
  /\ \E stage \in {"markSucceeded", "markFailed", "done"} : pc' = [pc EXCEPT ![r] = stage]
  /\ UNCHANGED <<store, now, seen, claim, sealed, broken>>

LEMMA RequestMoves ==
  ASSUME Shapes, NEW r \in Requests, Execute(r)
  PROVE  Arrive(r) \/ Claims(r) \/ Looks(r) \/ Overwrites(r) \/ Continues(r)
<1> USE DEF Shapes, RecordShapes
<1>1. CASE Arrive(r)
  BY <1>1
<1>2. ASSUME NEW id \in Nat, Own(r, id),
             \/ pc[r] = "create" /\ row = NoRow
             \/ pc[r] \in {"takeExpired", "takeFailed"} /\ Reclaimable(r, seen[r].status),
             lastId' \in Nat, broken \subseteq broken', Retained => broken' # {}
      PROVE  Claims(r)
  BY <1>2, ClaimedRecord DEF Own, Goes, Claims
<1>3. CASE Create(r)
  <2>1. CASE row = NoRow /\ lastId' = lastId + 1 /\ Own(r, lastId') /\ UNCHANGED broken
    BY <1>2, <1>3, <2>1 DEF Create, ClockShapes, Retained
  <2>2. CASE Goes(r, "get") /\ UNCHANGED <<store, now, seen, claim, sealed>>
    BY <1>3, <2>2 DEF Create, Goes, Looks, Lookups
  <2> QED BY <1>3, <2>1, <2>2 DEF Create
<1>4. CASE Get(r)
  BY <1>4 DEF Get, Goes, Reads, Looks, Lookups, Verdict
<1>5. CASE Reget(r)
  BY <1>5 DEF Reget, Goes, Reads, Looks, Lookups, Verdict
<1>6. CASE TakeExpired(r) \/ TakeFailed(r)
  <2>1. PICK stage \in {"takeExpired", "takeFailed"}, otherwise \in {"reget", "done"} :
          Take(r, stage, otherwise) /\ (otherwise = "reget" => stage = "takeExpired")
    BY <1>6 DEF TakeExpired, TakeFailed
  <2>2. CASE /\ Reclaimable(r, seen[r].status) /\ Own(r, row.id) /\ UNCHANGED lastId
             /\ broken' = IF Retained THEN broken \cup {"success reclaimed"} ELSE broken
    <3>1. row.id \in Nat /\ lastId' \in Nat
      BY <2>2 DEF Reclaimable, Rows, ClockShapes
    <3>2. broken \subseteq broken' /\ (Retained => broken' # {})
      BY <2>2
    <3> QED BY <1>2, <2>1, <2>2, <3>1, <3>2 DEF Take
  <2>3. CASE Goes(r, otherwise) /\ UNCHANGED <<store, now, seen, claim, sealed, broken>>
    BY <2>1, <2>3 DEF Take, Goes, Looks, Lookups
  <2> QED BY <2>1, <2>2, <2>3 DEF Take
<1>7. CASE Run(r)
  BY <1>7 DEF Run, Goes, Continues, Busy
<1>8. CASE Mark(r)
  <2>1. CASE UNCHANGED <<row, broken>>
    BY <1>8, <2>1 DEF Mark, Goes, Continues, Busy, store
  <2>2. CASE row # NoRow /\ row.id = seen[r].id /\ row' = Outcome(r)
             /\ broken' = IF claim[r] <= clock THEN broken \cup {"late outcome"} ELSE broken
    <3>1. row' \in Rows /\ row' # NoRow
      BY <2>2, OutcomeRecord
    <3>2. broken \subseteq broken' /\ (claim[r] <= clock => "late outcome" \in broken')
      BY <2>2
    <3> QED BY <1>8, <2>2, <3>1, <3>2 DEF Mark, Goes, Overwrites
  <2> QED BY <1>8, <2>1, <2>2 DEF Mark
<1> QED BY <1>1, <1>3, <1>4, <1>5, <1>6, <1>7, <1>8 DEF Execute

(* A claim: nobody else has a live one, and nobody is left to take it over. *)
LEMMA NobodyLives ==
  ASSUME IdemInv, NEW r \in Requests, Claims(r), NEW s \in Requests
  PROVE  ~Live(s)
<1> SUFFICES ASSUME Live(s) PROVE FALSE
  OBVIOUS
<1> USE DEF IdemInv
<1>1. /\ row # NoRow /\ row.id = seen[s].id /\ row.status = "processing"
      /\ row.locked = now[s] + Timeout
  BY DEF Owned
<1>2. Reclaimable(r, seen[r].status)
  BY <1>1 DEF Claims
<1>3. seen[r].status = "processing" /\ row.locked <= now[r]
  BY <1>1, <1>2 DEF Reclaimable
<1>4. now[r] \in Nat /\ row.locked \in Int
  BY <1>1, IdemAssumption DEF Shapes, ClockShapes
<1>5. CASE pc[r] = "takeExpired"
  BY <1>3, <1>4, <1>5 DEF TakersAreEarly
<1>6. CASE pc[r] = "takeFailed"
  BY <1>3, <1>6 DEF Read
<1> QED BY <1>1, <1>5, <1>6 DEF Claims

LEMMA ClaimsKeep ==
  ASSUME IdemInv, NEW r \in Requests, Claims(r)
  PROVE  IdemInv'
<1> USE IdemAssumption DEF IdemInv, Shapes
<1>1. Shapes'
  BY DEF Claims, ClockShapes, RecordShapes, HistoryShapes, Stages
<1>2. Patience'
  BY DEF Claims, Patience, RecordShapes, Lookups
<1>3. Read'
  BY DEF Claims, Read, RecordShapes
<1>4. \A s \in Requests : Live(s)' => s = r
  <2>1. ASSUME NEW s \in Requests, s # r, Live(s)' PROVE Live(s)
    BY <2>1 DEF Claims, Live, Busy, RecordShapes, HistoryShapes
  <2> QED BY <2>1, NobodyLives
<1>5. Owned'
  BY <1>4 DEF Claims, Owned, ClockShapes, RecordShapes, HistoryShapes
<1>6. Alone'
  BY <1>4 DEF Alone
<1>7. TakersAreEarly'
  <2>1. clock < now[r] + Timeout
    BY DEF Claims, Patience, Lookups, ClockShapes
  <2>2. \A s \in Requests : now[s] < row'.locked
    BY <2>1 DEF Claims, ClockShapes
  <2> QED BY <2>2 DEF Claims, TakersAreEarly
<1>8. Standing'
  <2> SUFFICES ASSUME NEW s \in Requests, pc'[s] \in Lookups, sealed'[s] > clock', broken' = {}
               PROVE  FALSE
    BY DEF Standing
  <2>1. pc[s] \in Lookups /\ sealed[s] > clock /\ broken = {} /\ ~Retained
    BY DEF Claims, RecordShapes, Lookups
  <2>2. row # NoRow /\ row.status = "succeeded" /\ row.expires = sealed[s]
    BY <2>1 DEF Standing
  <2> QED BY <2>1, <2>2 DEF Retained
<1> QED BY <1>1, <1>2, <1>3, <1>5, <1>6, <1>7, <1>8

(* The life of a request depends on its stage, its claim and the clock. *)
LEMMA LifeGoesOn ==
  ASSUME NEW r \in Requests, Busy(r)' => Busy(r), claim'[r] = claim[r], clock' = clock,
         broken \subseteq broken', Live(r)'
  PROVE  Live(r)
BY DEF Live

LEMMA LooksKeep ==
  ASSUME IdemInv, NEW r \in Requests, Looks(r)
  PROVE  IdemInv'
<1> USE DEF IdemInv, Shapes, store
<1>1. Shapes'
  BY DEF Looks, ClockShapes, RecordShapes, HistoryShapes, Stages, Lookups
<1>2. Patience'
  BY DEF Looks, Patience, RecordShapes, Lookups
<1>3. Read'
  BY DEF Looks, Read, RecordShapes, Foreign, Lookups
<1>4. ASSUME NEW s \in Requests, Live(s)'
      PROVE  Live(s) /\ s # r /\ seen'[s] = seen[s]
  <2>1. s # r
    BY <1>4 DEF Live, Busy, Looks, RecordShapes
  <2> QED BY <1>4, <2>1, LifeGoesOn DEF Looks, Busy, RecordShapes
<1>5. Owned' /\ Alone'
  BY <1>4 DEF Looks, Owned, Alone
<1>6. TakersAreEarly'
  <2> SUFFICES ASSUME NEW q \in Requests, Live(q)', NEW s \in Requests, pc'[s] = "takeExpired"
               PROVE  now[s] < row.locked
    BY DEF Looks, TakersAreEarly
  <2>1. Live(q)
    BY <1>4
  <2>2. CASE s = r
    <3>1. row.expires <= now[r]
      BY <2>2 DEF Looks, RecordShapes
    <3>2. row.expires = claim[q] /\ claim[q] > clock
      BY <2>1 DEF Owned, Live
    <3> QED BY <3>1, <3>2 DEF ClockShapes, HistoryShapes
  <2>3. CASE s # r
    BY <2>1, <2>3 DEF Looks, TakersAreEarly, RecordShapes
  <2> QED BY <2>2, <2>3
<1>7. Standing'
  <2> SUFFICES ASSUME NEW s \in Requests, pc'[s] \in Lookups, sealed'[s] > clock', broken' = {}
               PROVE  /\ pc'[s] \in {"create", "get"}
                      /\ row # NoRow /\ row.status = "succeeded" /\ row.print = PrintOf[s]
                      /\ row.expires = sealed[s]
    BY DEF Looks, Standing
  <2>1. pc[s] \in Lookups /\ sealed[s] > clock /\ broken = {}
    BY DEF Looks, RecordShapes
  <2>2. /\ pc[s] \in {"create", "get"}
        /\ row # NoRow /\ row.status = "succeeded" /\ row.print = PrintOf[s]
        /\ row.expires = sealed[s]
    BY <2>1 DEF Standing
  <2>3. CASE s = r
    <3>1. ~(row.expires <= now[r])
      BY <2>1, <2>2, <2>3 DEF ClockShapes, HistoryShapes
    <3>2. pc'[r] = "get"
      BY <2>2, <2>3, <3>1 DEF Looks, RecordShapes, Lookups
    <3> QED BY <2>2, <2>3, <3>2
  <2>4. CASE s # r
    BY <2>2, <2>4 DEF Looks, RecordShapes
  <2> QED BY <2>3, <2>4
<1> QED BY <1>1, <1>2, <1>3, <1>5, <1>6, <1>7

(* An outcome is stored by the one who lives, or late. *)
LEMMA OverwritesKeep ==
  ASSUME IdemInv, NEW r \in Requests, Overwrites(r)
  PROVE  IdemInv'
<1> USE DEF IdemInv, Shapes
<1>1. Shapes'
  BY DEF Overwrites, ClockShapes, RecordShapes, HistoryShapes, Stages
<1>2. Patience' /\ Read'
  BY DEF Overwrites, Patience, Read, RecordShapes, Lookups
<1>3. ASSUME NEW s \in Requests, Live(s)'
      PROVE  FALSE
  <2>1. s # r
    BY <1>3 DEF Live, Busy, Overwrites, RecordShapes
  <2>2. Live(s)
    BY <1>3, <2>1, LifeGoesOn DEF Overwrites, Busy, RecordShapes
  <2>3. Live(r)
    BY <1>3, Instants DEF Live, Busy, Overwrites
  <2> QED BY <2>1, <2>2, <2>3 DEF Alone
<1>4. Owned' /\ Alone' /\ TakersAreEarly'
  BY <1>3 DEF Owned, Alone, TakersAreEarly
<1>5. Standing'
  <2> SUFFICES ASSUME NEW s \in Requests, pc'[s] \in Lookups, sealed'[s] > clock', broken' = {}
               PROVE  FALSE
    BY DEF Standing
  <2>1. pc[s] \in Lookups /\ sealed[s] > clock /\ broken = {}
    BY DEF Overwrites, RecordShapes, Lookups
  <2>2. row.status = "succeeded"
    BY <2>1 DEF Standing
  <2>3. Live(r)
    BY <2>1 DEF Live, Busy, Overwrites, ClockShapes, HistoryShapes
  <2> QED BY <2>2, <2>3 DEF Owned
<1> QED BY <1>1, <1>2, <1>4, <1>5

(* The other steps take nothing from a live claim or a retained success. *)
LEMMA RestKeeps ==
  ASSUME IdemInv,
         \/ \E r \in Requests : Arrive(r) \/ Continues(r)
         \/ DeleteExpired \/ Tick \/ UNCHANGED vars
  PROVE  IdemInv'
<1> USE DEF IdemInv, Shapes, store, Goes
<1>1. ASSUME NEW r \in Requests, Arrive(r) PROVE IdemInv'
  <2>1. Shapes'
    BY <1>1 DEF Arrive, ClockShapes, RecordShapes, HistoryShapes, Stages, Lookups, Rows, Retained
  <2>2. Patience' /\ Read'
    BY <1>1, IdemAssumption DEF Arrive, Patience, Read, RecordShapes, Lookups, ClockShapes
  <2>3. ASSUME NEW s \in Requests, Live(s)' PROVE Live(s) /\ now'[s] = now[s]
    BY <1>1, <2>3, LifeGoesOn DEF Arrive, Busy, Live, RecordShapes, ClockShapes
  <2>4. Owned' /\ Alone'
    BY <1>1, <2>3 DEF Arrive, Owned, Alone
  <2>5. TakersAreEarly'
    BY <1>1, <2>3 DEF Arrive, TakersAreEarly, RecordShapes, ClockShapes
  <2>6. Standing'
    BY <1>1 DEF Arrive, Standing, Retained, RecordShapes, HistoryShapes, ClockShapes
  <2> QED BY <2>1, <2>2, <2>4, <2>5, <2>6
<1>2. ASSUME NEW r \in Requests, Continues(r) PROVE IdemInv'
  <2>1. Shapes' /\ Patience' /\ Read'
    BY <1>2 DEF Continues, ClockShapes, RecordShapes, HistoryShapes, Stages, Lookups, Patience, Read
  <2>2. ASSUME NEW s \in Requests, Live(s)' PROVE Live(s)
    BY <1>2, <2>2, LifeGoesOn DEF Continues, Busy, RecordShapes
  <2>3. Owned' /\ Alone'
    BY <1>2, <2>2 DEF Continues, Owned, Alone
  <2>4. TakersAreEarly' /\ Standing'
    BY <1>2, <2>2 DEF Continues, TakersAreEarly, Standing, RecordShapes, Lookups
  <2> QED BY <2>1, <2>3, <2>4
<1>3. CASE DeleteExpired
  <2>1. Shapes' /\ Patience' /\ Read'
    BY <1>3 DEF DeleteExpired, ClockShapes, RecordShapes, HistoryShapes, Patience, Read
  <2>2. ASSUME NEW s \in Requests, Live(s) PROVE FALSE
    <3>1. row.expires = claim[s] /\ claim[s] > clock /\ row.expires <= clock
      BY <1>3, <2>2 DEF DeleteExpired, Owned, Live
    <3> QED BY <3>1, Instants
  <2>3. Owned' /\ Alone' /\ TakersAreEarly'
    BY <1>3, <2>2 DEF DeleteExpired, Owned, Alone, TakersAreEarly, Live, Busy
  <2>4. Standing'
    BY <1>3 DEF DeleteExpired, Standing, ClockShapes, HistoryShapes
  <2> QED BY <2>1, <2>3, <2>4
<1>4. CASE Tick
  <2>1. Shapes' /\ Patience' /\ Read'
    BY <1>4, IdemAssumption DEF Tick, ClockShapes, RecordShapes, HistoryShapes, Patience, Read
  <2>2. ASSUME NEW s \in Requests, Live(s)' PROVE Live(s)
    <3>1. claim[s] > clock + 1
      BY <1>4, <2>2 DEF Tick, Live
    <3>2. claim[s] > clock
      BY <3>1, Instants
    <3> QED BY <1>4, <2>2, <3>2 DEF Tick, Live, Busy
  <2>3. Owned' /\ Alone' /\ TakersAreEarly'
    BY <1>4, <2>2 DEF Tick, Owned, Alone, TakersAreEarly
  <2>4. Standing'
    BY <1>4 DEF Tick, Standing, ClockShapes, HistoryShapes
  <2> QED BY <2>1, <2>3, <2>4
<1>5. CASE UNCHANGED vars
  BY <1>5 DEF vars, ClockShapes, RecordShapes, HistoryShapes, Patience, Read, Owned, Alone,
              TakersAreEarly, Standing, Live, Busy
<1> QED BY <1>1, <1>2, <1>3, <1>4, <1>5

LEMMA IdemStarts == Init => IdemInv
BY IdemAssumption
DEF Init, IdemInv, Shapes, ClockShapes, RecordShapes, HistoryShapes, Stages, Lookups, Patience,
    Read, Owned, Alone, TakersAreEarly, Standing, Live, Busy

(* The invariant the safety of the record rests on, for any requests,      *)
(* deadlines and bounds: who owns it, who comes too early to take it over, *)
(* and what is still retained.                                             *)
THEOREM IdemInvariance == Spec => []IdemInv
<1>1. ASSUME IdemInv, [Next]_vars PROVE IdemInv'
  <2>1. ASSUME NEW r \in Requests, Execute(r) PROVE IdemInv'
    <3>1. Arrive(r) \/ Claims(r) \/ Looks(r) \/ Overwrites(r) \/ Continues(r)
      BY <1>1, <2>1, RequestMoves DEF IdemInv
    <3> QED BY <1>1, <3>1, ClaimsKeep, LooksKeep, OverwritesKeep, RestKeeps
  <2> QED BY <1>1, <2>1, RestKeeps DEF Next
<1> QED BY <1>1, IdemStarts, PTL DEF Spec

(* Two requests run the command at the same time only when the retention   *)
(* of one has passed or a late outcome has overwritten a successor         *)
(* (Coordinator.Execute, TryReclaim).                                      *)
THEOREM OneClaimantAlways == Spec => []OneClaimant
<1>1. IdemInv => OneClaimant
  BY Instants DEF IdemInv, Alone, Live, OneClaimant
<1> QED BY <1>1, IdemInvariance, PTL

(* A request that arrives while a success of its command is retained is    *)
(* answered with it and does not run the command again within that         *)
(* retention (Coordinator.Execute).                                        *)
THEOREM LateArrivalReplaysAlways == Spec => LateArrivalReplays
<1>1. ASSUME IdemInv, [Next]_vars, NEW r \in Requests, ~Busy(r), Busy(r)'
      PROVE  sealed[r] <= clock \/ broken # {}
  <2> USE <1>1 DEF IdemInv, Shapes
  <2>1. Claims(r)
    <3>1. ASSUME NEW s \in Requests, Execute(s) PROVE Claims(r)
      <4>1. Arrive(s) \/ Claims(s) \/ Looks(s) \/ Overwrites(s) \/ Continues(s)
        BY <3>1, RequestMoves
      <4> QED BY <4>1 DEF Arrive, Goes, Claims, Looks, Overwrites, Continues, Busy, RecordShapes
    <3> QED BY <3>1 DEF Next, DeleteExpired, Tick, vars, Busy
  <2> SUFFICES ASSUME sealed[r] > clock, broken = {} PROVE FALSE
    BY DEF ClockShapes, HistoryShapes
  <2>2. pc[r] \in {"create", "get"} /\ row # NoRow
    BY <2>1 DEF Claims, Standing, Lookups
  <2>3. pc[r] # "create"
    BY <2>1, <2>2 DEF Claims
  <2> QED BY <2>1, <2>2, <2>3 DEF Claims
<1>2. IdemInv /\ [Next]_vars
        => [\A r \in Requests : ~Busy(r) /\ Busy(r)' => sealed[r] <= clock \/ broken # {}]_vars
  BY <1>1
<1> QED BY <1>2, IdemInvariance, PTL DEF Spec, LateArrivalReplays
==============================================================================
