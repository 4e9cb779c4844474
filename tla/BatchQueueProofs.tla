-------------------------- MODULE BatchQueueProofs ---------------------------
(***************************************************************************)
(* The safety properties of BatchQueue, for any jobs, workers and bounds.  *)
(***************************************************************************)
EXTENDS BatchQueue, TLAPS

(* Membership in a list, as Listed says it of the ready list. *)
InList(s, j) == \E i \in DOMAIN s : s[i] = j

(* A push lists its job and keeps the others. *)
LEMMA PushedIsListed ==
  ASSUME NEW s \in Seq(Jobs), NEW k \in Jobs
  PROVE  /\ Append(s, k) \in Seq(Jobs)
         /\ InList(Append(s, k), k)
         /\ \A j : InList(s, j) => InList(Append(s, k), j)
<1>1. /\ Append(s, k) \in Seq(Jobs)
      /\ Len(Append(s, k)) = Len(s) + 1
      /\ Append(s, k)[Len(s) + 1] = k
      /\ \A i \in 1..Len(s) : Append(s, k)[i] = s[i]
  OBVIOUS
<1>2. DOMAIN Append(s, k) = 1..(Len(s) + 1) /\ DOMAIN s = 1..Len(s) /\ Len(s) \in Nat
  BY <1>1
<1>3. InList(Append(s, k), k)
  <2>1. Len(s) + 1 \in DOMAIN Append(s, k)
    BY <1>2
  <2> QED BY <2>1, <1>1 DEF InList
<1>4. ASSUME NEW j, InList(s, j) PROVE InList(Append(s, k), j)
  <2>1. PICK i \in DOMAIN s : s[i] = j
    BY <1>4 DEF InList
  <2>2. i \in DOMAIN Append(s, k) /\ Append(s, k)[i] = j
    BY <2>1, <1>1, <1>2
  <2> QED BY <2>2 DEF InList
<1> QED BY <1>1, <1>3, <1>4

(* What is not taken stays listed. *)
LEMMA TakenOrListed ==
  ASSUME NEW s \in Seq(Jobs), s # <<>>
  PROVE  /\ Tail(s) \in Seq(Jobs) /\ Head(s) \in Jobs
         /\ \A j : InList(s, j) => j = Head(s) \/ InList(Tail(s), j)
<1>1. /\ Tail(s) \in Seq(Jobs) /\ Head(s) \in Jobs /\ Head(s) = s[1]
      /\ Len(s) \in Nat /\ Len(s) > 0 /\ Len(Tail(s)) = Len(s) - 1
      /\ \A i \in 1..(Len(s) - 1) : Tail(s)[i] = s[i + 1]
  OBVIOUS
<1>2. DOMAIN s = 1..Len(s) /\ DOMAIN Tail(s) = 1..(Len(s) - 1)
  BY <1>1
<1>3. ASSUME NEW j, InList(s, j), j # Head(s) PROVE InList(Tail(s), j)
  <2>1. PICK i \in DOMAIN s : s[i] = j
    BY <1>3 DEF InList
  <2>2. i - 1 \in DOMAIN Tail(s) /\ Tail(s)[i - 1] = j
    <3>1. i # 1
      BY <2>1, <1>1, <1>3
    <3>2. i - 1 \in 1..(Len(s) - 1) /\ (i - 1) + 1 = i
      BY <3>1, <1>1, <1>2
    <3> QED BY <3>2, <1>1, <1>2, <2>1
  <2> QED BY <2>2 DEF InList
<1> QED BY <1>1, <1>3
-----------------------------------------------------------------------------
(* What is inductive: a worker about to acknowledge a job left nothing to  *)
(* do in it, since the visits a job wants only become fewer.               *)
AckIsFinal == \A w \in Workers : pc[w] = "ack" => needs[job[w]] = 0

QueueInv ==
  /\ QueueTypeOK
  /\ AdmittedIsRecorded
  /\ NoMarkerWithoutWork
  /\ OnlyExpiryTakesALock
  /\ AckIsFinal

(* The invariant holds at the start. *)
LEMMA QueueStarts == Init => QueueInv
<1> SUFFICES ASSUME Init PROVE QueueInv
  OBVIOUS
<1>1. QueueTypeOK
  BY QueueAssumption DEF Init, QueueTypeOK, Shapes, RecordShapes, LockShape, TurnShapes, CountShapes, IdleHasNoJob, TokenIsAnsweredFor, Stages
<1> QED BY <1>1, QueueAssumption DEF Init, QueueInv, AdmittedIsRecorded, NoMarkerWithoutWork,
          OnlyExpiryTakesALock, AckIsFinal, InTurn

(* The shapes are kept, each group of variables for itself. *)
LEMMA RecordShapesKept == RecordShapes /\ TurnShapes /\ IdleHasNoJob /\ [Next]_vars => RecordShapes'
<1> SUFFICES ASSUME RecordShapes /\ TurnShapes /\ IdleHasNoJob, [Next]_vars PROVE RecordShapes'
  OBVIOUS
<1> USE QueueAssumption DEF RecordShapes, TurnShapes, IdleHasNoJob, records
<1>1. ASSUME NEW j \in Jobs, Enqueue(j) PROVE RecordShapes'
  BY <1>1, PushedIsListed DEF Enqueue
<1>2. ASSUME NEW w \in Workers, Reserve(w) PROVE RecordShapes'
  BY <1>2, TakenOrListed DEF Reserve
<1>3. ASSUME NEW w \in Workers, TryLock(w) PROVE RecordShapes'
  BY <1>3 DEF TryLock
<1>4. ASSUME NEW w \in Workers, Conflict(w) PROVE RecordShapes'
  BY <1>4 DEF Conflict
<1>5. ASSUME NEW w \in Workers, Visit(w) PROVE RecordShapes'
  BY <1>5 DEF Visit
<1>6. ASSUME NEW w \in Workers, LeaseLost(w) PROVE RecordShapes'
  BY <1>6 DEF LeaseLost
<1>7. ASSUME NEW w \in Workers, Publish(w) PROVE RecordShapes'
  BY <1>7 DEF Publish
<1>8. ASSUME NEW w \in Workers, Release(w) PROVE RecordShapes'
  BY <1>8 DEF Release
<1>9. ASSUME NEW j \in Jobs, MoveDue(j) PROVE RecordShapes'
  BY <1>9, PushedIsListed DEF MoveDue
<1>10. ASSUME NEW j \in Jobs, RecoverStale(j) PROVE RecordShapes'
  BY <1>10, PushedIsListed DEF RecoverStale
<1>11. ASSUME NEW j \in Jobs, LeaseExpires(j) PROVE RecordShapes'
  BY <1>11 DEF LeaseExpires
<1>12. ASSUME NEW j \in Jobs, MarkerExpires(j) PROVE RecordShapes'
  BY <1>12 DEF MarkerExpires
<1>13. ASSUME NEW w \in Workers, Crash(w) PROVE RecordShapes'
  BY <1>13 DEF Crash
<1>14. CASE UNCHANGED vars
  BY <1>14 DEF vars
<1> QED BY <1>1, <1>2, <1>3, <1>4, <1>5, <1>6, <1>7, <1>8, <1>9, <1>10, <1>11, <1>12, <1>13, <1>14
        DEF Next, RunOnce

(* The shapes of the locks are kept. *)
LEMMA LockShapeKept == LockShape /\ [Next]_vars => LockShape'
<1> SUFFICES ASSUME LockShape, [Next]_vars PROVE LockShape'
  OBVIOUS
<1> USE DEF LockShape, Goes, Returns, turn
<1>1. ASSUME NEW j \in Jobs, Enqueue(j) PROVE LockShape'
  BY <1>1 DEF Enqueue
<1>2. ASSUME NEW w \in Workers, Reserve(w) PROVE LockShape'
  BY <1>2 DEF Reserve
<1>3. ASSUME NEW w \in Workers, TryLock(w) PROVE LockShape'
  BY <1>3 DEF TryLock
<1>4. ASSUME NEW w \in Workers, Conflict(w) PROVE LockShape'
  BY <1>4 DEF Conflict
<1>5. ASSUME NEW w \in Workers, Visit(w) PROVE LockShape'
  BY <1>5 DEF Visit
<1>6. ASSUME NEW w \in Workers, LeaseLost(w) PROVE LockShape'
  BY <1>6 DEF LeaseLost
<1>7. ASSUME NEW w \in Workers, Publish(w) PROVE LockShape'
  BY <1>7 DEF Publish
<1>8. ASSUME NEW w \in Workers, Release(w) PROVE LockShape'
  BY <1>8 DEF Release
<1>9. ASSUME NEW j \in Jobs, MoveDue(j) PROVE LockShape'
  BY <1>9 DEF MoveDue
<1>10. ASSUME NEW j \in Jobs, RecoverStale(j) PROVE LockShape'
  BY <1>10 DEF RecoverStale
<1>11. ASSUME NEW j \in Jobs, LeaseExpires(j) PROVE LockShape'
  BY <1>11 DEF LeaseExpires
<1>12. ASSUME NEW j \in Jobs, MarkerExpires(j) PROVE LockShape'
  BY <1>12 DEF MarkerExpires
<1>13. ASSUME NEW w \in Workers, Crash(w) PROVE LockShape'
  BY <1>13 DEF Crash
<1>14. CASE UNCHANGED vars
  BY <1>14 DEF vars
<1> QED BY <1>1, <1>2, <1>3, <1>4, <1>5, <1>6, <1>7, <1>8, <1>9, <1>10, <1>11, <1>12, <1>13, <1>14
        DEF Next, RunOnce

(* The shapes of the turns of the workers are kept. *)
LEMMA TurnShapesKept == RecordShapes /\ TurnShapes /\ [Next]_vars => TurnShapes'
<1> SUFFICES ASSUME RecordShapes /\ TurnShapes, [Next]_vars PROVE TurnShapes'
  OBVIOUS
<1> USE DEF RecordShapes, TurnShapes, Stages, Goes, Returns, turn
<1>1. ASSUME NEW j \in Jobs, Enqueue(j) PROVE TurnShapes'
  BY <1>1, PushedIsListed DEF Enqueue
<1>2. ASSUME NEW w \in Workers, Reserve(w) PROVE TurnShapes'
  BY <1>2, TakenOrListed DEF Reserve
<1>3. ASSUME NEW w \in Workers, TryLock(w) PROVE TurnShapes'
  BY <1>3 DEF TryLock
<1>4. ASSUME NEW w \in Workers, Conflict(w) PROVE TurnShapes'
  BY <1>4 DEF Conflict
<1>5. ASSUME NEW w \in Workers, Visit(w) PROVE TurnShapes'
  BY <1>5 DEF Visit
<1>6. ASSUME NEW w \in Workers, LeaseLost(w) PROVE TurnShapes'
  BY <1>6 DEF LeaseLost
<1>7. ASSUME NEW w \in Workers, Publish(w) PROVE TurnShapes'
  BY <1>7 DEF Publish
<1>8. ASSUME NEW w \in Workers, Release(w) PROVE TurnShapes'
  BY <1>8 DEF Release
<1>9. ASSUME NEW j \in Jobs, MoveDue(j) PROVE TurnShapes'
  BY <1>9, PushedIsListed DEF MoveDue
<1>10. ASSUME NEW j \in Jobs, RecoverStale(j) PROVE TurnShapes'
  BY <1>10, PushedIsListed DEF RecoverStale
<1>11. ASSUME NEW j \in Jobs, LeaseExpires(j) PROVE TurnShapes'
  BY <1>11 DEF LeaseExpires
<1>12. ASSUME NEW j \in Jobs, MarkerExpires(j) PROVE TurnShapes'
  BY <1>12 DEF MarkerExpires
<1>13. ASSUME NEW w \in Workers, Crash(w) PROVE TurnShapes'
  BY <1>13 DEF Crash
<1>14. CASE UNCHANGED vars
  BY <1>14 DEF vars
<1> QED BY <1>1, <1>2, <1>3, <1>4, <1>5, <1>6, <1>7, <1>8, <1>9, <1>10, <1>11, <1>12, <1>13, <1>14
        DEF Next, RunOnce

(* The shapes of the counters are kept. *)
LEMMA CountShapesKept == CountShapes /\ [Next]_vars => CountShapes'
<1> SUFFICES ASSUME CountShapes, [Next]_vars PROVE CountShapes'
  OBVIOUS
<1> USE QueueAssumption DEF CountShapes, Fault, NoFault
<1>1. ASSUME NEW j \in Jobs, Enqueue(j) PROVE CountShapes'
  BY <1>1 DEF Enqueue
<1>2. ASSUME NEW w \in Workers, Reserve(w) PROVE CountShapes'
  BY <1>2 DEF Reserve
<1>3. ASSUME NEW w \in Workers, TryLock(w) PROVE CountShapes'
  BY <1>3 DEF TryLock
<1>4. ASSUME NEW w \in Workers, Conflict(w) PROVE CountShapes'
  BY <1>4 DEF Conflict
<1>5. ASSUME NEW w \in Workers, Visit(w) PROVE CountShapes'
  BY <1>5 DEF Visit
<1>6. ASSUME NEW w \in Workers, LeaseLost(w) PROVE CountShapes'
  BY <1>6 DEF LeaseLost
<1>7. ASSUME NEW w \in Workers, Publish(w) PROVE CountShapes'
  BY <1>7 DEF Publish
<1>8. ASSUME NEW w \in Workers, Release(w) PROVE CountShapes'
  BY <1>8 DEF Release
<1>9. ASSUME NEW j \in Jobs, MoveDue(j) PROVE CountShapes'
  BY <1>9 DEF MoveDue
<1>10. ASSUME NEW j \in Jobs, RecoverStale(j) PROVE CountShapes'
  BY <1>10 DEF RecoverStale
<1>11. ASSUME NEW j \in Jobs, LeaseExpires(j) PROVE CountShapes'
  BY <1>11 DEF LeaseExpires
<1>12. ASSUME NEW j \in Jobs, MarkerExpires(j) PROVE CountShapes'
  BY <1>12 DEF MarkerExpires
<1>13. ASSUME NEW w \in Workers, Crash(w) PROVE CountShapes'
  BY <1>13 DEF Crash
<1>14. CASE UNCHANGED vars
  BY <1>14 DEF vars
<1> QED BY <1>1, <1>2, <1>3, <1>4, <1>5, <1>6, <1>7, <1>8, <1>9, <1>10, <1>11, <1>12, <1>13, <1>14
        DEF Next, RunOnce

(* Exactly the idle workers have no job. *)
LEMMA IdleKept == Shapes /\ IdleHasNoJob /\ [Next]_vars => IdleHasNoJob'
<1> SUFFICES ASSUME Shapes /\ IdleHasNoJob, [Next]_vars PROVE IdleHasNoJob'
  OBVIOUS
<1> USE QueueAssumption DEF Shapes, RecordShapes, TurnShapes, Stages, IdleHasNoJob, InTurn, Goes, Returns, turn
<1>1. ASSUME NEW j \in Jobs, Enqueue(j) PROVE IdleHasNoJob'
  BY <1>1 DEF Enqueue
<1>2. ASSUME NEW w \in Workers, Reserve(w) PROVE IdleHasNoJob'
  BY <1>2, TakenOrListed DEF Reserve
<1>3. ASSUME NEW w \in Workers, TryLock(w) PROVE IdleHasNoJob'
  BY <1>3 DEF TryLock
<1>4. ASSUME NEW w \in Workers, Conflict(w) PROVE IdleHasNoJob'
  BY <1>4 DEF Conflict
<1>5. ASSUME NEW w \in Workers, Visit(w) PROVE IdleHasNoJob'
  BY <1>5 DEF Visit
<1>6. ASSUME NEW w \in Workers, LeaseLost(w) PROVE IdleHasNoJob'
  BY <1>6 DEF LeaseLost
<1>7. ASSUME NEW w \in Workers, Publish(w) PROVE IdleHasNoJob'
  BY <1>7 DEF Publish
<1>8. ASSUME NEW w \in Workers, Release(w) PROVE IdleHasNoJob'
  BY <1>8 DEF Release
<1>9. ASSUME NEW j \in Jobs, MoveDue(j) PROVE IdleHasNoJob'
  BY <1>9 DEF MoveDue
<1>10. ASSUME NEW j \in Jobs, RecoverStale(j) PROVE IdleHasNoJob'
  BY <1>10 DEF RecoverStale
<1>11. ASSUME NEW j \in Jobs, LeaseExpires(j) PROVE IdleHasNoJob'
  BY <1>11 DEF LeaseExpires
<1>12. ASSUME NEW j \in Jobs, MarkerExpires(j) PROVE IdleHasNoJob'
  BY <1>12 DEF MarkerExpires
<1>13. ASSUME NEW w \in Workers, Crash(w) PROVE IdleHasNoJob'
  BY <1>13 DEF Crash
<1>14. CASE UNCHANGED vars
  BY <1>14 DEF vars
<1> QED BY <1>1, <1>2, <1>3, <1>4, <1>5, <1>6, <1>7, <1>8, <1>9, <1>10, <1>11, <1>12, <1>13, <1>14
        DEF Next, RunOnce

(* A token of a worker belongs to its current turn. *)
LEMMA TokensKept == QueueTypeOK /\ [Next]_vars => TokenIsAnsweredFor'
<1> SUFFICES ASSUME QueueTypeOK, [Next]_vars PROVE TokenIsAnsweredFor'
  OBVIOUS
<1> USE QueueAssumption DEF QueueTypeOK, Shapes, RecordShapes, LockShape, TurnShapes, IdleHasNoJob, TokenIsAnsweredFor, Goes, Returns, turn
<1>1. ASSUME NEW j \in Jobs, Enqueue(j) PROVE TokenIsAnsweredFor'
  BY <1>1 DEF Enqueue
<1>2. ASSUME NEW w \in Workers, Reserve(w) PROVE TokenIsAnsweredFor'
  BY <1>2, TakenOrListed DEF Reserve
<1>3. ASSUME NEW w \in Workers, TryLock(w) PROVE TokenIsAnsweredFor'
  BY <1>3 DEF TryLock
<1>4. ASSUME NEW w \in Workers, Conflict(w) PROVE TokenIsAnsweredFor'
  BY <1>4 DEF Conflict
<1>5. ASSUME NEW w \in Workers, Visit(w) PROVE TokenIsAnsweredFor'
  BY <1>5 DEF Visit
<1>6. ASSUME NEW w \in Workers, LeaseLost(w) PROVE TokenIsAnsweredFor'
  BY <1>6 DEF LeaseLost
<1>7. ASSUME NEW w \in Workers, Publish(w) PROVE TokenIsAnsweredFor'
  BY <1>7 DEF Publish
<1>8. ASSUME NEW w \in Workers, Release(w) PROVE TokenIsAnsweredFor'
  BY <1>8 DEF Release
<1>9. ASSUME NEW j \in Jobs, MoveDue(j) PROVE TokenIsAnsweredFor'
  BY <1>9 DEF MoveDue
<1>10. ASSUME NEW j \in Jobs, RecoverStale(j) PROVE TokenIsAnsweredFor'
  BY <1>10 DEF RecoverStale
<1>11. ASSUME NEW j \in Jobs, LeaseExpires(j) PROVE TokenIsAnsweredFor'
  BY <1>11 DEF LeaseExpires
<1>12. ASSUME NEW j \in Jobs, MarkerExpires(j) PROVE TokenIsAnsweredFor'
  BY <1>12 DEF MarkerExpires
<1>13. ASSUME NEW w \in Workers, Crash(w) PROVE TokenIsAnsweredFor'
  BY <1>13 DEF Crash
<1>14. CASE UNCHANGED vars
  BY <1>14 DEF vars
<1> QED BY <1>1, <1>2, <1>3, <1>4, <1>5, <1>6, <1>7, <1>8, <1>9, <1>10, <1>11, <1>12, <1>13, <1>14
        DEF Next, RunOnce

-----------------------------------------------------------------------------
(* Visits only become fewer, so an acknowledgement stays final. *)
LEMMA AckKept == QueueTypeOK /\ AckIsFinal /\ [Next]_vars => AckIsFinal'
<1> SUFFICES ASSUME QueueTypeOK /\ AckIsFinal, [Next]_vars PROVE AckIsFinal'
  OBVIOUS
<1> USE QueueAssumption DEF QueueTypeOK, Shapes, TurnShapes, CountShapes, IdleHasNoJob, AckIsFinal, Goes, Returns, turn
<1>1. ASSUME NEW j \in Jobs, Enqueue(j) PROVE AckIsFinal'
  BY <1>1 DEF Enqueue
<1>2. ASSUME NEW w \in Workers, Reserve(w) PROVE AckIsFinal'
  BY <1>2 DEF Reserve
<1>3. ASSUME NEW w \in Workers, TryLock(w) PROVE AckIsFinal'
  BY <1>3 DEF TryLock
<1>4. ASSUME NEW w \in Workers, Conflict(w) PROVE AckIsFinal'
  BY <1>4 DEF Conflict
<1>5. ASSUME NEW w \in Workers, Visit(w) PROVE AckIsFinal'
  BY <1>5 DEF Visit
<1>6. ASSUME NEW w \in Workers, LeaseLost(w) PROVE AckIsFinal'
  BY <1>6 DEF LeaseLost
<1>7. ASSUME NEW w \in Workers, Publish(w) PROVE AckIsFinal'
  BY <1>7 DEF Publish
<1>8. ASSUME NEW w \in Workers, Release(w) PROVE AckIsFinal'
  BY <1>8 DEF Release
<1>9. ASSUME NEW j \in Jobs, MoveDue(j) PROVE AckIsFinal'
  BY <1>9 DEF MoveDue
<1>10. ASSUME NEW j \in Jobs, RecoverStale(j) PROVE AckIsFinal'
  BY <1>10 DEF RecoverStale
<1>11. ASSUME NEW j \in Jobs, LeaseExpires(j) PROVE AckIsFinal'
  BY <1>11 DEF LeaseExpires
<1>12. ASSUME NEW j \in Jobs, MarkerExpires(j) PROVE AckIsFinal'
  BY <1>12 DEF MarkerExpires
<1>13. ASSUME NEW w \in Workers, Crash(w) PROVE AckIsFinal'
  BY <1>13 DEF Crash
<1>14. CASE UNCHANGED vars
  BY <1>14 DEF vars
<1> QED BY <1>1, <1>2, <1>3, <1>4, <1>5, <1>6, <1>7, <1>8, <1>9, <1>10, <1>11, <1>12, <1>13, <1>14
        DEF Next, RunOnce

(* Only the holder and the expiry remove a token. *)
LEMMA ExpiryKept == QueueTypeOK /\ OnlyExpiryTakesALock /\ [Next]_vars => OnlyExpiryTakesALock'
<1> SUFFICES ASSUME QueueTypeOK /\ OnlyExpiryTakesALock, [Next]_vars PROVE OnlyExpiryTakesALock'
  OBVIOUS
<1> USE QueueAssumption DEF QueueTypeOK, Shapes, RecordShapes, LockShape, TurnShapes, IdleHasNoJob, TokenIsAnsweredFor, OnlyExpiryTakesALock, InTurn, Goes, Returns, turn
<1>1. ASSUME NEW j \in Jobs, Enqueue(j) PROVE OnlyExpiryTakesALock'
  BY <1>1 DEF Enqueue
<1>2. ASSUME NEW w \in Workers, Reserve(w) PROVE OnlyExpiryTakesALock'
  BY <1>2, TakenOrListed DEF Reserve
<1>3. ASSUME NEW w \in Workers, TryLock(w) PROVE OnlyExpiryTakesALock'
  BY <1>3 DEF TryLock
<1>4. ASSUME NEW w \in Workers, Conflict(w) PROVE OnlyExpiryTakesALock'
  BY <1>4 DEF Conflict
<1>5. ASSUME NEW w \in Workers, Visit(w) PROVE OnlyExpiryTakesALock'
  BY <1>5 DEF Visit
<1>6. ASSUME NEW w \in Workers, LeaseLost(w) PROVE OnlyExpiryTakesALock'
  BY <1>6 DEF LeaseLost
<1>7. ASSUME NEW w \in Workers, Publish(w) PROVE OnlyExpiryTakesALock'
  BY <1>7 DEF Publish
<1>8. ASSUME NEW w \in Workers, Release(w) PROVE OnlyExpiryTakesALock'
  BY <1>8 DEF Release
<1>9. ASSUME NEW j \in Jobs, MoveDue(j) PROVE OnlyExpiryTakesALock'
  BY <1>9 DEF MoveDue
<1>10. ASSUME NEW j \in Jobs, RecoverStale(j) PROVE OnlyExpiryTakesALock'
  BY <1>10 DEF RecoverStale
<1>11. ASSUME NEW j \in Jobs, LeaseExpires(j) PROVE OnlyExpiryTakesALock'
  BY <1>11 DEF LeaseExpires
<1>12. ASSUME NEW j \in Jobs, MarkerExpires(j) PROVE OnlyExpiryTakesALock'
  BY <1>12 DEF MarkerExpires
<1>13. ASSUME NEW w \in Workers, Crash(w) PROVE OnlyExpiryTakesALock'
  BY <1>13 DEF Crash
<1>14. CASE UNCHANGED vars
  BY <1>14 DEF vars
<1> QED BY <1>1, <1>2, <1>3, <1>4, <1>5, <1>6, <1>7, <1>8, <1>9, <1>10, <1>11, <1>12, <1>13, <1>14
        DEF Next, RunOnce

(* Every step but a publication keeps the record of every job: what leaves *)
(* one of the three places arrives in another one.                         *)
LEMMA RecordsStay ==
  ASSUME QueueTypeOK, NEW j \in Jobs, Recorded(j), [Next]_vars,
         ~ \E w \in Workers : Publish(w) /\ pc[w] = "ack" /\ job[w] = j /\ lock[j] = w
  PROVE  Recorded(j)'
<1> USE DEF QueueTypeOK, Shapes, RecordShapes, Recorded, records
<1> DEFINE Here(s) == InList(s, j)
<1>0. Listed(j) = Here(ready) /\ Listed(j)' = Here(ready')
  BY DEF Listed, InList
<1> HIDE DEF Here
<1>1. ASSUME NEW k \in Jobs, Enqueue(k) PROVE Recorded(j)'
  <2>1. Here(ready) => Here(Append(ready, k))
    BY PushedIsListed DEF Here
  <2>2. k = j => Here(Append(ready, k))
    BY PushedIsListed DEF Here
  <2> QED BY <1>1, <1>0, <2>1, <2>2 DEF Enqueue
<1>2. ASSUME NEW w \in Workers, Reserve(w) PROVE Recorded(j)'
  <2>1. Here(ready) => j = Head(ready) \/ Here(Tail(ready))
    BY <1>2, TakenOrListed DEF Reserve, Here
  <2> QED BY <1>2, <1>0, <2>1 DEF Reserve
<1>3. ASSUME NEW w \in Workers, TryLock(w) PROVE Recorded(j)'
  BY <1>3, <1>0 DEF TryLock
<1>4. ASSUME NEW w \in Workers, Conflict(w) PROVE Recorded(j)'
  BY <1>4, <1>0 DEF Conflict
<1>5. ASSUME NEW w \in Workers, Visit(w) PROVE Recorded(j)'
  BY <1>5, <1>0 DEF Visit
<1>6. ASSUME NEW w \in Workers, LeaseLost(w) PROVE Recorded(j)'
  BY <1>6, <1>0 DEF LeaseLost
<1>7. ASSUME NEW w \in Workers, Publish(w) PROVE Recorded(j)'
  <2>1. CASE lock[job[w]] # w
    BY <1>7, <1>0, <2>1 DEF Publish
  <2>2. CASE lock[job[w]] = w /\ pc[w] = "requeue"
    BY <1>7, <1>0, <2>2 DEF Publish
  <2>3. CASE lock[job[w]] = w /\ pc[w] = "ack"
    BY <1>7, <1>0, <2>3 DEF Publish
  <2> QED BY <1>7, <2>1, <2>2, <2>3 DEF Publish
<1>8. ASSUME NEW w \in Workers, Release(w) PROVE Recorded(j)'
  BY <1>8, <1>0 DEF Release
<1>9. ASSUME NEW k \in Jobs, MoveDue(k) PROVE Recorded(j)'
  <2>1. Here(ready) => Here(Append(ready, k))
    BY PushedIsListed DEF Here
  <2>2. k = j => Here(Append(ready, k))
    BY PushedIsListed DEF Here
  <2> QED BY <1>9, <1>0, <2>1, <2>2 DEF MoveDue
<1>10. ASSUME NEW k \in Jobs, RecoverStale(k) PROVE Recorded(j)'
  <2>1. Here(ready) => Here(Append(ready, k))
    BY PushedIsListed DEF Here
  <2>2. k = j => Here(Append(ready, k))
    BY PushedIsListed DEF Here
  <2> QED BY <1>10, <1>0, <2>1, <2>2 DEF RecoverStale
<1>11. ASSUME NEW k \in Jobs, LeaseExpires(k) PROVE Recorded(j)'
  BY <1>11, <1>0 DEF LeaseExpires
<1>12. ASSUME NEW k \in Jobs, MarkerExpires(k) PROVE Recorded(j)'
  BY <1>12, <1>0 DEF MarkerExpires
<1>13. ASSUME NEW w \in Workers, Crash(w) PROVE Recorded(j)'
  BY <1>13, <1>0 DEF Crash
<1>14. CASE UNCHANGED vars
  BY <1>14, <1>0 DEF vars
<1> QED BY <1>1, <1>2, <1>3, <1>4, <1>5, <1>6, <1>7, <1>8, <1>9, <1>10, <1>11, <1>12, <1>13, <1>14
        DEF Next, RunOnce

(* No step loses work or leaves a marker behind: the only step that removes a *)
(* last record is the acknowledgement of a finished job.                      *)
LEMMA WorkStays == QueueInv /\ [Next]_vars => AdmittedIsRecorded' /\ NoMarkerWithoutWork'
<1> SUFFICES ASSUME QueueInv, [Next]_vars PROVE AdmittedIsRecorded' /\ NoMarkerWithoutWork'
  OBVIOUS
<1> USE DEF QueueInv
<1>1. ASSUME NEW w \in Workers, Publish(w), pc[w] = "ack", lock[job[w]] = w
      PROVE  AdmittedIsRecorded' /\ NoMarkerWithoutWork'
  <2> DEFINE d == job[w]
  <2>1. /\ needs[d] = 0 /\ needs' = needs /\ admits' = admits /\ ready' = ready
        /\ active' = active \ {d} /\ delayed' = delayed \ {d} /\ inflight' = inflight \ {d}
    BY <1>1 DEF Publish, AckIsFinal
  <2> HIDE DEF d
  <2>2. ASSUME NEW k \in Jobs, k # d, Recorded(k) PROVE Recorded(k)'
    BY <2>1, <2>2 DEF Recorded, Listed
  <2> QED BY <2>1, <2>2 DEF AdmittedIsRecorded, NoMarkerWithoutWork, QueueTypeOK, Shapes, RecordShapes
<1>2. ASSUME ~ \E w \in Workers : Publish(w) /\ pc[w] = "ack" /\ lock[job[w]] = w
      PROVE  AdmittedIsRecorded' /\ NoMarkerWithoutWork'
  <2>1. \A k \in Jobs : Recorded(k) => Recorded(k)'
    BY <1>2, RecordsStay
  <2>2. \A k \in Jobs : needs'[k] > 0 => needs[k] > 0
    <3>1. CASE \E w \in Workers : Visit(w)
      BY <3>1 DEF Visit, QueueTypeOK, Shapes, CountShapes
    <3>2. CASE UNCHANGED needs
      BY <3>2
    <3>3. (\E w \in Workers : Visit(w)) \/ UNCHANGED needs
      BY DEF Next, RunOnce, vars, Enqueue, Reserve, TryLock, Conflict, LeaseLost, Publish, Release,
             MoveDue, RecoverStale, LeaseExpires, MarkerExpires, Crash
    <3> QED BY <3>1, <3>2, <3>3
  <2>3. CASE \E j \in Jobs : Enqueue(j)
    <3>1. PICK j \in Jobs : Enqueue(j)
      BY <2>3
    <3>2. /\ \A k \in Jobs : k # j => admits'[k] = admits[k]
          /\ inflight' = inflight \cup {j}
      BY <3>1 DEF Enqueue, QueueTypeOK, Shapes, CountShapes
    <3>3. Recorded(j)'
      <4>1. InList(Append(ready, j), j)
        BY PushedIsListed DEF QueueTypeOK, Shapes, RecordShapes
      <4> QED BY <4>1, <3>1 DEF Enqueue, Recorded, Listed, InList
    <3> QED BY <2>1, <2>2, <3>2, <3>3
           DEF AdmittedIsRecorded, NoMarkerWithoutWork, QueueTypeOK, Shapes, RecordShapes
  <2>4. CASE UNCHANGED admits /\ inflight' \subseteq inflight
    BY <2>1, <2>2, <2>4 DEF AdmittedIsRecorded, NoMarkerWithoutWork, QueueTypeOK, Shapes, RecordShapes
  <2>5. (\E j \in Jobs : Enqueue(j)) \/ (UNCHANGED admits /\ inflight' \subseteq inflight)
    BY DEF Next, RunOnce, vars, Reserve, TryLock, Conflict, Visit, LeaseLost, Publish, Release,
           MoveDue, RecoverStale, LeaseExpires, MarkerExpires, Crash
  <2> QED BY <2>3, <2>4, <2>5
<1> QED BY <1>1, <1>2

(* The invariant is inductive. *)
LEMMA QueueInvKept == QueueInv /\ [Next]_vars => QueueInv'
<1> SUFFICES ASSUME QueueInv, [Next]_vars PROVE QueueInv'
  OBVIOUS
<1>1. Shapes'
  BY RecordShapesKept, LockShapeKept, TurnShapesKept, CountShapesKept DEF QueueInv, QueueTypeOK, Shapes
<1>2. IdleHasNoJob' /\ TokenIsAnsweredFor'
  BY IdleKept, TokensKept DEF QueueInv, QueueTypeOK
<1> QED BY <1>1, <1>2, AckKept, ExpiryKept, WorkStays DEF QueueInv, QueueTypeOK
-----------------------------------------------------------------------------
(* A job that was admitted keeps a record until its last visit was         *)
(* acknowledged, and no marker outlives the record (queue.go:20-22), for   *)
(* any number of jobs, workers, visits, admissions and faults.             *)
THEOREM AdmittedWorkIsRecorded == Spec => []NoWorkLost
<1>1. QueueInv => NoWorkLost
  BY DEF QueueInv, NoWorkLost
<1> QED BY <1>1, QueueStarts, QueueInvKept, PTL DEF Spec

(* The queue's records keep their shapes, exactly the idle workers have no *)
(* job, and a worker's token is in a lock only during the turn that will   *)
(* release it (worker.go:196-203), whatever expires, fails or is repeated. *)
THEOREM QueueTypeCorrect == Spec => []QueueTypeOK
<1>1. QueueInv => QueueTypeOK
  BY DEF QueueInv
<1> QED BY <1>1, QueueStarts, QueueInvKept, PTL DEF Spec

(* A worker loses its lock to the TTL and to nobody else (queue.go:77-89   *)
(* and 119-122): two workers process one job only after an expiry.         *)
THEOREM LockIsKept == Spec => [](QueueTypeOK /\ OnlyExpiryTakesALock)
<1>1. QueueInv => QueueTypeOK /\ OnlyExpiryTakesALock
  BY DEF QueueInv
<1> QED BY <1>1, QueueStarts, QueueInvKept, PTL DEF Spec

(* A worker that lost its lock and finishes late leaves the record of its  *)
(* successor's job alone (queue.go:119-122).                               *)
THEOREM RecordIsTheHolders == Spec => HolderAloneRetires
<1> DEFINE A == \A j \in Jobs : Recorded(j) /\ ~Recorded(j)' =>
                   \A w \in Workers : Owns(w, j) => pc'[w] = "releasing"
<1>1. QueueInv /\ [Next]_vars => [A]_vars
  <2> SUFFICES ASSUME QueueInv, [Next]_vars,
                      NEW j \in Jobs, Recorded(j), ~Recorded(j)',
                      NEW w \in Workers, Owns(w, j)
               PROVE  pc'[w] = "releasing"
    OBVIOUS
  <2>1. PICK v \in Workers : Publish(v) /\ job[v] = j /\ lock[j] = v
    BY RecordsStay DEF QueueInv
  <2>2. v = w
    BY <2>1 DEF Owns
  <2> QED BY <2>1, <2>2 DEF Publish, Goes, QueueInv, QueueTypeOK, Shapes, TurnShapes
<1> QED BY <1>1, QueueStarts, QueueInvKept, PTL DEF Spec, HolderAloneRetires
==============================================================================
