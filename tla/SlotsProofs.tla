----------------------------- MODULE SlotsProofs -----------------------------
(***************************************************************************)
(* The safety properties of ProviderSlots, for any requests, limits and    *)
(* bounds.  The limit holds because whoever works on the provider and did  *)
(* not overrun is counted in Redis, and a slot is given only while fewer   *)
(* than the limit are counted there.                                       *)
(***************************************************************************)
EXTENDS ProviderSlots, FiniteSetTheorems, TLAPS

(* The shapes of the variables, in groups that change together. *)
RedisShapes ==
  /\ regular \subseteq Slots /\ live \subseteq Lives
  /\ waiting \in 0..MaxWait /\ index \in BOOLEAN
  /\ counted \subseteq Chats

RequestShapes ==
  /\ pc \in [Requests -> Stages] /\ try \in [Requests -> 1..Tries]
  /\ holding \subseteq Requests /\ closed \subseteq Requests

LeaseShapes ==
  /\ release \in [Slots -> {"held", "remove", "removed"}]
  /\ refresh \in [Refreshers -> {"none", "read", "zero", "overtaken", "busy"}]

HistoryShapes ==
  /\ faults \in 0..MaxFaults
  /\ overran \subseteq Slots /\ lost \subseteq Slots /\ drift \in Nat
  /\ unindexed \in {"idle", "raced", "failed"}

(* Only ordinary requests wait, and only live calls trade their slots. *)
Trading == {"create", "dropCreated", "dropFailed", "session"}
Roles ==
  \A r \in Requests :
    /\ pc[r] = "enter" => r \in Chats
    /\ pc[r] \in Trading \cup {"replace", "close"} => r \in Lives
    /\ r \in Lives \/ pc[r] = "idle" => try[r] = 1

Shapes == RedisShapes /\ RequestShapes /\ LeaseShapes /\ HistoryShapes /\ Roles

(* Before a request is on the provider, its slot is new. *)
Fresh == {"idle", "ask", "enter", "touchWait", "wait", "touch", "own"}
IsNew(s) == release[s] = "held" /\ s \notin lost
Takes(r) == \/ pc[r] \in {"touch", "own"}
            \/ r \in holding /\ release[Slot(r)] = "held"

(* What Redis counts for a request, stage by stage. *)
Accounted(r) ==
  /\ pc[r] \in Fresh => r \notin holding /\ IsNew(Slot(r))
  /\ pc[r] \notin Ended => \A n \in 1..Tries : n > try[r] => IsNew(<<r, n>>)
  /\ pc[r] \in {"session", "close", "end"} \cup Ended => r \notin holding
  /\ r \in holding /\ release[Slot(r)] = "held" => Slot(r) \notin lost
  /\ Takes(r) /\ Slot(r) \notin overran => Slot(r) \in regular
  /\ pc[r] = "replace" => Takes(r)
  /\ pc[r] \in Trading /\ Slot(r) \notin overran => r \in live

SlotsAccounted == \A r \in Requests : Accounted(r)

(* Whose entry in Redis it is, and what will remove it. *)
SlotsOwned ==
  \A s \in regular :
    \/ s \in lost \/ pc[Owner(s)] = "gone"
    \/ /\ s = Slot(Owner(s))
       /\ \/ pc[Owner(s)] \in {"touch", "own"}
          \/ Owner(s) \in holding /\ release[s] # "removed"

LeasesOwned ==
  \A r \in live : Slot(r) \in lost \/ pc[r] \in Trading \cup {"close", "gone"}

(* The waiters, and who knows of an idle provider. *)
WaitStages ==
  \A r \in Requests :
    /\ pc[r] = "leave" => r \in counted
    /\ pc[r] \in {"idle", "ask", "enter"} => r \notin counted

ZeroIsTrue == \A x \in Refreshers : refresh[x] = "zero" => NoLoad

(* A slot belongs to one request. *)
LEMMA SlotOfRequest ==
  ASSUME RequestShapes, NEW r \in Requests
  PROVE  /\ Slot(r) \in Slots /\ Owner(Slot(r)) = r
         /\ try[r] \in 1..Tries /\ Slot(r) = <<r, try[r]>>
BY DEF RequestShapes, Slot, Slots, Owner

LEMMA SlotsAreFinite ==
  /\ IsFiniteSet(Requests) /\ IsFiniteSet(Slots)
  /\ Chats \subseteq Requests /\ Lives \subseteq Requests
<1>1. IsFiniteSet(Requests) /\ IsFiniteSet(1..Tries)
  BY SlotAssumption, FS_Interval DEF Requests
<1> QED BY <1>1, FS_Product DEF Slots, Requests

(* The names of slots and refreshers. *)
LEMMA SlotsAreRefreshers ==
  /\ \A s \in Slots : s \in Refreshers /\ Owner(s) \in Requests
  /\ \A r \in Requests : <<r, 0>> \in Refreshers
BY DEF Refreshers, Slots, Owner
-----------------------------------------------------------------------------
(* What Redis holds keeps its shape. *)
LEMMA RedisShapesKept ==
  ASSUME Shapes, [Next]_vars PROVE RedisShapes'
<1> USE SlotAssumption DEF Shapes, RedisShapes, redis, request
<1>1. ASSUME NEW r \in Requests, Begin(r) PROVE RedisShapes'
  BY <1>1 DEF Begin
<1>2. ASSUME NEW r \in Requests, Acquire(r) PROVE RedisShapes'
  BY <1>2, SlotOfRequest DEF Acquire
<1>3. ASSUME NEW r \in Requests, Refused(r) PROVE RedisShapes'
  BY <1>3 DEF Refused
<1>4. ASSUME NEW r \in Requests, EnterWait(r) PROVE RedisShapes'
  BY <1>4 DEF EnterWait, MayWait, Roles
<1>5. ASSUME NEW r \in Requests, EnterFails(r) PROVE RedisShapes'
  BY <1>5 DEF EnterFails
<1>6. ASSUME NEW r \in Requests, GiveUp(r) PROVE RedisShapes'
  BY <1>6 DEF GiveUp
<1>7. ASSUME NEW r \in Requests, Touch(r) PROVE RedisShapes'
  BY <1>7 DEF Touch
<1>8. ASSUME NEW r \in Requests, Own(r) PROVE RedisShapes'
  BY <1>8 DEF Own
<1>9. ASSUME NEW r \in Requests, Leave(r) PROVE RedisShapes'
  BY <1>9 DEF Leave, GivesBack
<1>10. ASSUME NEW r \in Requests, Left(r) PROVE RedisShapes'
  BY <1>10 DEF Left
<1>11. ASSUME NEW r \in Requests, Finish(r) PROVE RedisShapes'
  BY <1>11 DEF Finish
<1>12. ASSUME NEW r \in Requests, Dropped(r) PROVE RedisShapes'
  BY <1>12 DEF Dropped
<1>13. ASSUME NEW r \in Requests, End(r) PROVE RedisShapes'
  BY <1>13 DEF End
<1>14. ASSUME NEW r \in Requests, Cancel(r) PROVE RedisShapes'
  BY <1>14 DEF Cancel
<1>15. ASSUME NEW r \in Requests, Replace(r) PROVE RedisShapes'
  BY <1>15 DEF Replace, Roles, Trading, GivesSlotBack
<1>16. ASSUME NEW r \in Requests, Create(r) PROVE RedisShapes'
  BY <1>16 DEF Create
<1>17. ASSUME NEW r \in Requests, Hang(r) PROVE RedisShapes'
  BY <1>17 DEF Hang
<1>18. ASSUME NEW r \in Requests, ReleaseLive(r) PROVE RedisShapes'
  BY <1>18 DEF ReleaseLive
<1>19. ASSUME NEW r \in Requests, ExpireLive(r) PROVE RedisShapes'
  BY <1>19 DEF ExpireLive
<1>20. ASSUME NEW s \in Slots, Remove(s) PROVE RedisShapes'
  BY <1>20 DEF Remove
<1>21. ASSUME NEW s \in Slots, Expire(s) PROVE RedisShapes'
  BY <1>21 DEF Expire
<1>22. ASSUME NEW x \in Refreshers, RefreshRead(x) PROVE RedisShapes'
  BY <1>22 DEF RefreshRead
<1>23. ASSUME NEW x \in Refreshers, RefreshWrite(x) PROVE RedisShapes'
  BY <1>23 DEF RefreshWrite
<1>24. CASE Reconcile
  BY <1>24 DEF Reconcile
<1>25. CASE ExpireWait
  BY <1>25 DEF ExpireWait
<1>26. CASE Restart
  <2>1. CASE index
    <3>1. regular' = {} /\ waiting' = 0 /\ counted' = {} /\ live' = live /\ 0 \in 0..MaxWait
      BY <1>26, <2>1 DEF Restart
    <3>2. index' \in BOOLEAN
      BY <1>26, <2>1, Zenon DEF Restart
    <3> QED BY <3>1, <3>2
  <2>2. CASE ~index
    BY <1>26, <2>2 DEF Restart
  <2> QED BY <2>1, <2>2
<1>27. CASE UNCHANGED vars
  BY <1>27 DEF vars, redis, request, lease, history
<1> QED BY <1>1, <1>2, <1>3, <1>4, <1>5, <1>6, <1>7, <1>8, <1>9, <1>10,
        <1>11, <1>12, <1>13, <1>14, <1>15, <1>16, <1>17, <1>18, <1>19, <1>20,
        <1>21, <1>22, <1>23, <1>24, <1>25, <1>26, <1>27 DEF Next, Handle

(* The stages keep their shape. *)
LEMMA RequestShapesKept ==
  ASSUME Shapes, [Next]_vars PROVE RequestShapes'
<1> USE DEF Shapes, RequestShapes, Goes, Stages, redis, request, lease
<1>1. ASSUME NEW r \in Requests, Begin(r) PROVE RequestShapes'
  BY <1>1 DEF Begin
<1>2. ASSUME NEW r \in Requests, Acquire(r) PROVE RequestShapes'
  BY <1>2 DEF Acquire
<1>3. ASSUME NEW r \in Requests, Refused(r) PROVE RequestShapes'
  BY <1>3 DEF Refused
<1>4. ASSUME NEW r \in Requests, EnterWait(r) PROVE RequestShapes'
  BY <1>4 DEF EnterWait
<1>5. ASSUME NEW r \in Requests, EnterFails(r) PROVE RequestShapes'
  BY <1>5 DEF EnterFails
<1>6. ASSUME NEW r \in Requests, GiveUp(r) PROVE RequestShapes'
  BY <1>6 DEF GiveUp
<1>7. ASSUME NEW r \in Requests, Touch(r) PROVE RequestShapes'
  BY <1>7 DEF Touch
<1>8. ASSUME NEW r \in Requests, Own(r) PROVE RequestShapes'
  BY <1>8 DEF Own
<1>9. ASSUME NEW r \in Requests, Leave(r) PROVE RequestShapes'
  BY <1>9 DEF Leave
<1>10. ASSUME NEW r \in Requests, Left(r) PROVE RequestShapes'
  BY <1>10 DEF Left
<1>11. ASSUME NEW r \in Requests, Finish(r) PROVE RequestShapes'
  BY <1>11 DEF Finish
<1>12. ASSUME NEW r \in Requests, Dropped(r) PROVE RequestShapes'
  <2>1. pc' \in [Requests -> Stages] /\ holding' \subseteq Requests /\ closed' = closed
    BY <1>12 DEF Dropped
  <2>2. try' \in [Requests -> 1..Tries]
    BY <1>12, SlotAssumption DEF Dropped
  <2> QED BY <2>1, <2>2
<1>13. ASSUME NEW r \in Requests, End(r) PROVE RequestShapes'
  <2>1. pc' \in [Requests -> Stages] /\ closed' \subseteq Requests
    BY <1>13 DEF End
  <2>2. try' \in [Requests -> 1..Tries] /\ holding' = holding
    BY <1>13, SlotAssumption DEF End
  <2> QED BY <2>1, <2>2
<1>14. ASSUME NEW r \in Requests, Cancel(r) PROVE RequestShapes'
  BY <1>14 DEF Cancel
<1>15. ASSUME NEW r \in Requests, Replace(r) PROVE RequestShapes'
  BY <1>15 DEF Replace, GivesSlotBack
<1>16. ASSUME NEW r \in Requests, Create(r) PROVE RequestShapes'
  BY <1>16 DEF Create
<1>17. ASSUME NEW r \in Requests, Hang(r) PROVE RequestShapes'
  BY <1>17 DEF Hang
<1>18. ASSUME NEW r \in Requests, ReleaseLive(r) PROVE RequestShapes'
  BY <1>18 DEF ReleaseLive
<1>19. ASSUME NEW r \in Requests, ExpireLive(r) PROVE RequestShapes'
  BY <1>19 DEF ExpireLive
<1>20. ASSUME NEW s \in Slots, Remove(s) PROVE RequestShapes'
  BY <1>20 DEF Remove
<1>21. ASSUME NEW s \in Slots, Expire(s) PROVE RequestShapes'
  BY <1>21 DEF Expire
<1>22. ASSUME NEW x \in Refreshers, RefreshRead(x) PROVE RequestShapes'
  BY <1>22 DEF RefreshRead
<1>23. ASSUME NEW x \in Refreshers, RefreshWrite(x) PROVE RequestShapes'
  BY <1>23 DEF RefreshWrite
<1>24. CASE Reconcile
  BY <1>24 DEF Reconcile
<1>25. CASE ExpireWait
  BY <1>25 DEF ExpireWait
<1>26. CASE Restart
  BY <1>26, SlotAssumption DEF Restart
<1>27. CASE UNCHANGED vars
  BY <1>27 DEF vars, redis, request, lease, history
<1> QED BY <1>1, <1>2, <1>3, <1>4, <1>5, <1>6, <1>7, <1>8, <1>9, <1>10,
        <1>11, <1>12, <1>13, <1>14, <1>15, <1>16, <1>17, <1>18, <1>19, <1>20,
        <1>21, <1>22, <1>23, <1>24, <1>25, <1>26, <1>27 DEF Next, Handle

(* The leases keep their shape. *)
LEMMA LeaseShapesKept ==
  ASSUME Shapes, [Next]_vars PROVE LeaseShapes'
<1> USE DEF Shapes, LeaseShapes, lease, Releases, Overtakes
<1>1. ASSUME NEW r \in Requests, Begin(r) PROVE LeaseShapes'
  BY <1>1 DEF Begin
<1>2. ASSUME NEW r \in Requests, Acquire(r) PROVE LeaseShapes'
  BY <1>2 DEF Acquire
<1>3. ASSUME NEW r \in Requests, Refused(r) PROVE LeaseShapes'
  BY <1>3 DEF Refused
<1>4. ASSUME NEW r \in Requests, EnterWait(r) PROVE LeaseShapes'
  BY <1>4 DEF EnterWait
<1>5. ASSUME NEW r \in Requests, EnterFails(r) PROVE LeaseShapes'
  BY <1>5 DEF EnterFails
<1>6. ASSUME NEW r \in Requests, GiveUp(r) PROVE LeaseShapes'
  BY <1>6 DEF GiveUp
<1>7. ASSUME NEW r \in Requests, Touch(r) PROVE LeaseShapes'
  BY <1>7 DEF Touch
<1>8. ASSUME NEW r \in Requests, Own(r) PROVE LeaseShapes'
  BY <1>8 DEF Own
<1>9. ASSUME NEW r \in Requests, Leave(r) PROVE LeaseShapes'
  BY <1>9 DEF Leave
<1>10. ASSUME NEW r \in Requests, Left(r) PROVE LeaseShapes'
  BY <1>10 DEF Left
<1>11. ASSUME NEW r \in Requests, Finish(r) PROVE LeaseShapes'
  BY <1>11 DEF Finish
<1>12. ASSUME NEW r \in Requests, Dropped(r) PROVE LeaseShapes'
  BY <1>12 DEF Dropped
<1>13. ASSUME NEW r \in Requests, End(r) PROVE LeaseShapes'
  BY <1>13 DEF End
<1>14. ASSUME NEW r \in Requests, Cancel(r) PROVE LeaseShapes'
  BY <1>14 DEF Cancel
<1>15. ASSUME NEW r \in Requests, Replace(r) PROVE LeaseShapes'
  BY <1>15 DEF Replace, GivesSlotBack
<1>16. ASSUME NEW r \in Requests, Create(r) PROVE LeaseShapes'
  BY <1>16 DEF Create
<1>17. ASSUME NEW r \in Requests, Hang(r) PROVE LeaseShapes'
  BY <1>17 DEF Hang
<1>18. ASSUME NEW r \in Requests, ReleaseLive(r) PROVE LeaseShapes'
  BY <1>18 DEF ReleaseLive
<1>19. ASSUME NEW r \in Requests, ExpireLive(r) PROVE LeaseShapes'
  BY <1>19 DEF ExpireLive
<1>20. ASSUME NEW s \in Slots, Remove(s) PROVE LeaseShapes'
  BY <1>20 DEF Remove
<1>21. ASSUME NEW s \in Slots, Expire(s) PROVE LeaseShapes'
  BY <1>21 DEF Expire
<1>22. ASSUME NEW x \in Refreshers, RefreshRead(x) PROVE LeaseShapes'
  BY <1>22 DEF RefreshRead
<1>23. ASSUME NEW x \in Refreshers, RefreshWrite(x) PROVE LeaseShapes'
  BY <1>23 DEF RefreshWrite
<1>24. CASE Reconcile
  BY <1>24 DEF Reconcile
<1>25. CASE ExpireWait
  BY <1>25 DEF ExpireWait
<1>26. CASE Restart
  BY <1>26 DEF Restart
<1>27. CASE UNCHANGED vars
  BY <1>27 DEF vars, redis, request, lease, history
<1> QED BY <1>1, <1>2, <1>3, <1>4, <1>5, <1>6, <1>7, <1>8, <1>9, <1>10,
        <1>11, <1>12, <1>13, <1>14, <1>15, <1>16, <1>17, <1>18, <1>19, <1>20,
        <1>21, <1>22, <1>23, <1>24, <1>25, <1>26, <1>27 DEF Next, Handle

(* Bounds and histories keep their shape. *)
LEMMA HistoryShapesKept ==
  ASSUME Shapes, [Next]_vars PROVE HistoryShapes'
<1> USE SlotAssumption DEF Shapes, HistoryShapes, history, Fault
<1>1. ASSUME NEW r \in Requests, Begin(r) PROVE HistoryShapes'
  BY <1>1 DEF Begin
<1>2. ASSUME NEW r \in Requests, Acquire(r) PROVE HistoryShapes'
  BY <1>2, SlotOfRequest DEF Acquire
<1>3. ASSUME NEW r \in Requests, Refused(r) PROVE HistoryShapes'
  BY <1>3 DEF Refused
<1>4. ASSUME NEW r \in Requests, EnterWait(r) PROVE HistoryShapes'
  BY <1>4 DEF EnterWait
<1>5. ASSUME NEW r \in Requests, EnterFails(r) PROVE HistoryShapes'
  BY <1>5 DEF EnterFails
<1>6. ASSUME NEW r \in Requests, GiveUp(r) PROVE HistoryShapes'
  BY <1>6 DEF GiveUp
<1>7. ASSUME NEW r \in Requests, Touch(r) PROVE HistoryShapes'
  BY <1>7 DEF Touch
<1>8. ASSUME NEW r \in Requests, Own(r) PROVE HistoryShapes'
  BY <1>8 DEF Own
<1>9. ASSUME NEW r \in Requests, Leave(r) PROVE HistoryShapes'
  BY <1>9 DEF Leave
<1>10. ASSUME NEW r \in Requests, Left(r) PROVE HistoryShapes'
  BY <1>10 DEF Left
<1>11. ASSUME NEW r \in Requests, Finish(r) PROVE HistoryShapes'
  BY <1>11 DEF Finish
<1>12. ASSUME NEW r \in Requests, Dropped(r) PROVE HistoryShapes'
  BY <1>12 DEF Dropped
<1>13. ASSUME NEW r \in Requests, End(r) PROVE HistoryShapes'
  BY <1>13 DEF End
<1>14. ASSUME NEW r \in Requests, Cancel(r) PROVE HistoryShapes'
  BY <1>14 DEF Cancel
<1>15. ASSUME NEW r \in Requests, Replace(r) PROVE HistoryShapes'
  BY <1>15, SlotOfRequest DEF Replace
<1>16. ASSUME NEW r \in Requests, Create(r) PROVE HistoryShapes'
  BY <1>16 DEF Create
<1>17. ASSUME NEW r \in Requests, Hang(r) PROVE HistoryShapes'
  BY <1>17 DEF Hang
<1>18. ASSUME NEW r \in Requests, ReleaseLive(r) PROVE HistoryShapes'
  BY <1>18, SlotOfRequest DEF ReleaseLive
<1>19. ASSUME NEW r \in Requests, ExpireLive(r) PROVE HistoryShapes'
  <2>1. Slot(r) \in Slots
    BY SlotOfRequest
  <2> QED BY <1>19, <2>1 DEF ExpireLive
<1>20. ASSUME NEW s \in Slots, Remove(s) PROVE HistoryShapes'
  BY <1>20 DEF Remove
<1>21. ASSUME NEW s \in Slots, Expire(s) PROVE HistoryShapes'
  BY <1>21 DEF Expire
<1>22. ASSUME NEW x \in Refreshers, RefreshRead(x) PROVE HistoryShapes'
  BY <1>22 DEF RefreshRead
<1>23. ASSUME NEW x \in Refreshers, RefreshWrite(x) PROVE HistoryShapes'
  BY <1>23 DEF RefreshWrite
<1>24. CASE Reconcile
  BY <1>24 DEF Reconcile
<1>25. CASE ExpireWait
  BY <1>25 DEF ExpireWait
<1>26. CASE Restart
  <2>1. Cardinality(counted) \in Nat
    BY SlotsAreFinite, FS_Subset, FS_CardinalityType DEF RedisShapes
  <2> QED BY <1>26, <2>1 DEF Restart
<1>27. CASE UNCHANGED vars
  BY <1>27 DEF vars, redis, request, lease, history
<1> QED BY <1>1, <1>2, <1>3, <1>4, <1>5, <1>6, <1>7, <1>8, <1>9, <1>10,
        <1>11, <1>12, <1>13, <1>14, <1>15, <1>16, <1>17, <1>18, <1>19, <1>20,
        <1>21, <1>22, <1>23, <1>24, <1>25, <1>26, <1>27 DEF Next, Handle

(* The roles are kept. *)
LEMMA RolesKept ==
  ASSUME Shapes, [Next]_vars PROVE Roles'
<1> USE SlotAssumption DEF Shapes, Roles, RequestShapes, RedisShapes, Goes, Trading,
        Stages, Requests, redis, request, lease
<1>1. ASSUME NEW r \in Requests, Begin(r) PROVE Roles'
  BY <1>1 DEF Begin
<1>2. ASSUME NEW r \in Requests, Acquire(r) PROVE Roles'
  BY <1>2 DEF Acquire
<1>3. ASSUME NEW r \in Requests, Refused(r) PROVE Roles'
  BY <1>3 DEF Refused
<1>4. ASSUME NEW r \in Requests, EnterWait(r) PROVE Roles'
  BY <1>4 DEF EnterWait
<1>5. ASSUME NEW r \in Requests, EnterFails(r) PROVE Roles'
  BY <1>5 DEF EnterFails
<1>6. ASSUME NEW r \in Requests, GiveUp(r) PROVE Roles'
  BY <1>6 DEF GiveUp
<1>7. ASSUME NEW r \in Requests, Touch(r) PROVE Roles'
  BY <1>7 DEF Touch
<1>8. ASSUME NEW r \in Requests, Own(r) PROVE Roles'
  BY <1>8 DEF Own
<1>9. ASSUME NEW r \in Requests, Leave(r) PROVE Roles'
  BY <1>9 DEF Leave
<1>10. ASSUME NEW r \in Requests, Left(r) PROVE Roles'
  BY <1>10 DEF Left
<1>11. ASSUME NEW r \in Requests, Finish(r) PROVE Roles'
  BY <1>11 DEF Finish
<1>12. ASSUME NEW r \in Requests, Dropped(r) PROVE Roles'
  BY <1>12 DEF Dropped
<1>13. ASSUME NEW r \in Requests, End(r) PROVE Roles'
  BY <1>13 DEF End
<1>14. ASSUME NEW r \in Requests, Cancel(r) PROVE Roles'
  BY <1>14 DEF Cancel
<1>15. ASSUME NEW r \in Requests, Replace(r) PROVE Roles'
  BY <1>15 DEF Replace, GivesSlotBack
<1>16. ASSUME NEW r \in Requests, Create(r) PROVE Roles'
  BY <1>16 DEF Create
<1>17. ASSUME NEW r \in Requests, Hang(r) PROVE Roles'
  BY <1>17 DEF Hang
<1>18. ASSUME NEW r \in Requests, ReleaseLive(r) PROVE Roles'
  BY <1>18 DEF ReleaseLive
<1>19. ASSUME NEW r \in Requests, ExpireLive(r) PROVE Roles'
  BY <1>19 DEF ExpireLive
<1>20. ASSUME NEW s \in Slots, Remove(s) PROVE Roles'
  BY <1>20 DEF Remove
<1>21. ASSUME NEW s \in Slots, Expire(s) PROVE Roles'
  BY <1>21 DEF Expire
<1>22. ASSUME NEW x \in Refreshers, RefreshRead(x) PROVE Roles'
  BY <1>22 DEF RefreshRead
<1>23. ASSUME NEW x \in Refreshers, RefreshWrite(x) PROVE Roles'
  BY <1>23 DEF RefreshWrite
<1>24. CASE Reconcile
  BY <1>24 DEF Reconcile
<1>25. CASE ExpireWait
  BY <1>25 DEF ExpireWait
<1>26. CASE Restart
  BY <1>26 DEF Restart, Active, Ended
<1>27. CASE UNCHANGED vars
  BY <1>27 DEF vars, redis, request, lease, history
<1> QED BY <1>1, <1>2, <1>3, <1>4, <1>5, <1>6, <1>7, <1>8, <1>9, <1>10,
        <1>11, <1>12, <1>13, <1>14, <1>15, <1>16, <1>17, <1>18, <1>19, <1>20,
        <1>21, <1>22, <1>23, <1>24, <1>25, <1>26, <1>27 DEF Next, Handle

LEMMA ShapesKept == ASSUME Shapes, [Next]_vars PROVE Shapes'
BY RedisShapesKept, RequestShapesKept, LeaseShapesKept, HistoryShapesKept, RolesKept DEF Shapes
-----------------------------------------------------------------------------
(* What Redis counts for a request is kept by the steps of all. *)
LEMMA SlotsAccountedKept ==
  ASSUME Shapes, SlotsAccounted, NEW q \in Requests, [Next]_vars PROVE Accounted(q)'
<1> USE DEF Shapes, RequestShapes, LeaseShapes, Roles, SlotsAccounted, Accounted, Takes,
        IsNew, Goes, Fresh, Trading, Ended, Slot, Slots, Owner, Releases, Requests,
        redis, request, lease, history
<1>1. ASSUME NEW r \in Requests, Begin(r) PROVE Accounted(q)'
  BY <1>1 DEF Begin
<1>2. ASSUME NEW r \in Requests, Acquire(r) PROVE Accounted(q)'
  BY <1>2 DEF Acquire
<1>3. ASSUME NEW r \in Requests, Refused(r) PROVE Accounted(q)'
  BY <1>3 DEF Refused
<1>4. ASSUME NEW r \in Requests, EnterWait(r) PROVE Accounted(q)'
  BY <1>4 DEF EnterWait
<1>5. ASSUME NEW r \in Requests, EnterFails(r) PROVE Accounted(q)'
  BY <1>5 DEF EnterFails
<1>6. ASSUME NEW r \in Requests, GiveUp(r) PROVE Accounted(q)'
  BY <1>6 DEF GiveUp
<1>7. ASSUME NEW r \in Requests, Touch(r) PROVE Accounted(q)'
  BY <1>7 DEF Touch
<1>8. ASSUME NEW r \in Requests, Own(r) PROVE Accounted(q)'
  BY <1>8 DEF Own, Refuses
<1>9. ASSUME NEW r \in Requests, Leave(r) PROVE Accounted(q)'
  BY <1>9 DEF Leave
<1>10. ASSUME NEW r \in Requests, Left(r) PROVE Accounted(q)'
  BY <1>10 DEF Left
<1>11. ASSUME NEW r \in Requests, Finish(r) PROVE Accounted(q)'
  BY <1>11 DEF Finish
<1>12. ASSUME NEW r \in Requests, Dropped(r) PROVE Accounted(q)'
  <2>1. UNCHANGED <<regular, live, release, lost, overran>> /\ holding' = holding \ {r}
    BY <1>12 DEF Dropped
  <2>2. CASE q # r
    <3>1. pc'[q] = pc[q] /\ try'[q] = try[q] /\ Slot(q)' = Slot(q)
      BY <1>12, <2>2 DEF Dropped
    <3> QED BY <2>1, <2>2, <3>1
  <2>3. CASE q = r /\ try' = try
    <3>1. /\ pc[r] \in {"drop", "dropCreated", "dropFailed"}
          /\ \/ pc'[r] \in {"leave", "end", "close"}
             \/ pc[r] = "dropCreated" /\ pc'[r] = "session"
      BY <1>12, <2>3 DEF Dropped
    <3> QED BY <2>1, <2>3, <3>1
  <2>4. CASE q = r /\ try' # try
    <3>1. /\ pc[r] = "drop" /\ pc'[r] = "ask" /\ try[r] \in 1..Tries
          /\ try'[r] = try[r] + 1 /\ try[r] + 1 \in 1..Tries
      BY <1>12, <2>4, SlotAssumption DEF Dropped
    <3>2. IsNew(<<r, try[r] + 1>>) /\ \A n \in 1..Tries : n > try[r] + 1 => IsNew(<<r, n>>)
      <4>1. \A n \in 1..Tries : n > try[r] => IsNew(<<r, n>>)
        BY <3>1, <2>4
      <4>2. /\ Tries \in Nat /\ try[r] + 1 > try[r]
            /\ \A n \in 1..Tries : n > try[r] + 1 => n > try[r]
        BY <3>1, SlotAssumption
      <4> HIDE DEF IsNew
      <4> QED BY <3>1, <4>1, <4>2
    <3> QED BY <2>1, <2>4, <3>1, <3>2
  <2> QED BY <2>2, <2>3, <2>4
<1>13. ASSUME NEW r \in Requests, End(r) PROVE Accounted(q)'
  BY <1>13 DEF End
<1>14. ASSUME NEW r \in Requests, Cancel(r) PROVE Accounted(q)'
  BY <1>14, SlotAssumption DEF Cancel
<1>15. ASSUME NEW r \in Requests, Replace(r) PROVE Accounted(q)'
  BY <1>15 DEF Replace, GivesSlotBack
<1>16. ASSUME NEW r \in Requests, Create(r) PROVE Accounted(q)'
  BY <1>16 DEF Create
<1>17. ASSUME NEW r \in Requests, Hang(r) PROVE Accounted(q)'
  BY <1>17 DEF Hang
<1>18. ASSUME NEW r \in Requests, ReleaseLive(r) PROVE Accounted(q)'
  BY <1>18 DEF ReleaseLive
<1>19. ASSUME NEW r \in Requests, ExpireLive(r) PROVE Accounted(q)'
  BY <1>19 DEF ExpireLive
<1>20. ASSUME NEW s \in Slots, Remove(s) PROVE Accounted(q)'
  BY <1>20 DEF Remove
<1>21. ASSUME NEW s \in Slots, Expire(s) PROVE Accounted(q)'
  BY <1>21 DEF Expire
<1>22. ASSUME NEW x \in Refreshers, RefreshRead(x) PROVE Accounted(q)'
  BY <1>22 DEF RefreshRead
<1>23. ASSUME NEW x \in Refreshers, RefreshWrite(x) PROVE Accounted(q)'
  BY <1>23 DEF RefreshWrite
<1>24. CASE Reconcile
  BY <1>24 DEF Reconcile
<1>25. CASE ExpireWait
  BY <1>25 DEF ExpireWait
<1>26. CASE Restart
  <2>1. pc'[q] \in {"idle", "over", "gone"} /\ (pc'[q] = "idle" => pc[q] = "idle")
    BY <1>26 DEF Restart, Active, Stages
  <2>2. holding' = {} /\ try'[q] = 1 /\ lost' = lost /\ \A s \in Slots : release'[s] = "held"
    BY <1>26 DEF Restart
  <2>3. CASE pc'[q] = "idle"
    <3>1. try[q] = 1
      BY <2>1, <2>3
    <3> QED BY <2>1, <2>2, <2>3, <3>1
  <2>4. CASE pc'[q] # "idle"
    BY <2>1, <2>2, <2>4
  <2> QED BY <2>3, <2>4
<1>27. CASE UNCHANGED vars
  BY <1>27 DEF vars, redis, request, lease, history
<1> QED BY <1>1, <1>2, <1>3, <1>4, <1>5, <1>6, <1>7, <1>8, <1>9, <1>10,
        <1>11, <1>12, <1>13, <1>14, <1>15, <1>16, <1>17, <1>18, <1>19, <1>20,
        <1>21, <1>22, <1>23, <1>24, <1>25, <1>26, <1>27 DEF Next, Handle

(* No step leaves a slot behind. *)
LEMMA SlotsOwnedKept ==
  ASSUME Shapes, SlotsAccounted, SlotsOwned, [Next]_vars PROVE SlotsOwned'
<1> USE DEF Shapes, RedisShapes, RequestShapes, LeaseShapes, Roles, Goes, Fresh,
        Trading, Ended, Slot, Slots, Owner, Releases, Requests, redis, request, lease,
        history, SlotsOwned, SlotsAccounted, Accounted
<1>1. ASSUME NEW r \in Requests, Begin(r) PROVE SlotsOwned'
  BY <1>1 DEF Begin
<1>2. ASSUME NEW r \in Requests, Acquire(r) PROVE SlotsOwned'
  BY <1>2 DEF Acquire
<1>3. ASSUME NEW r \in Requests, Refused(r) PROVE SlotsOwned'
  BY <1>3 DEF Refused
<1>4. ASSUME NEW r \in Requests, EnterWait(r) PROVE SlotsOwned'
  BY <1>4 DEF EnterWait
<1>5. ASSUME NEW r \in Requests, EnterFails(r) PROVE SlotsOwned'
  BY <1>5 DEF EnterFails
<1>6. ASSUME NEW r \in Requests, GiveUp(r) PROVE SlotsOwned'
  BY <1>6 DEF GiveUp
<1>7. ASSUME NEW r \in Requests, Touch(r) PROVE SlotsOwned'
  BY <1>7 DEF Touch
<1>8. ASSUME NEW r \in Requests, Own(r) PROVE SlotsOwned'
  <2>1. release[Slot(r)] = "held" /\ Slot(r) \in Slots
    BY <1>8 DEF Own, IsNew
  <2>2. /\ release'[Slot(r)] # "removed" /\ holding' = holding \cup {r}
        /\ \A s \in Slots : s # Slot(r) => release'[s] = release[s]
        /\ \A q \in Requests : q # r => pc'[q] = pc[q]
        /\ UNCHANGED <<regular, lost, try>>
    BY <1>8, <2>1 DEF Own
  <2> QED BY <1>8, <2>1, <2>2 DEF Own
<1>9. ASSUME NEW r \in Requests, Leave(r) PROVE SlotsOwned'
  BY <1>9 DEF Leave
<1>10. ASSUME NEW r \in Requests, Left(r) PROVE SlotsOwned'
  BY <1>10 DEF Left
<1>11. ASSUME NEW r \in Requests, Finish(r) PROVE SlotsOwned'
  BY <1>11 DEF Finish
<1>12. ASSUME NEW r \in Requests, Dropped(r) PROVE SlotsOwned'
  BY <1>12 DEF Dropped, Released
<1>13. ASSUME NEW r \in Requests, End(r) PROVE SlotsOwned'
  BY <1>13 DEF End
<1>14. ASSUME NEW r \in Requests, Cancel(r) PROVE SlotsOwned'
  BY <1>14 DEF Cancel
<1>15. ASSUME NEW r \in Requests, Replace(r) PROVE SlotsOwned'
  BY <1>15 DEF Replace, GivesSlotBack
<1>16. ASSUME NEW r \in Requests, Create(r) PROVE SlotsOwned'
  BY <1>16 DEF Create
<1>17. ASSUME NEW r \in Requests, Hang(r) PROVE SlotsOwned'
  BY <1>17 DEF Hang
<1>18. ASSUME NEW r \in Requests, ReleaseLive(r) PROVE SlotsOwned'
  BY <1>18 DEF ReleaseLive
<1>19. ASSUME NEW r \in Requests, ExpireLive(r) PROVE SlotsOwned'
  BY <1>19 DEF ExpireLive
<1>20. ASSUME NEW s \in Slots, Remove(s) PROVE SlotsOwned'
  BY <1>20 DEF Remove
<1>21. ASSUME NEW s \in Slots, Expire(s) PROVE SlotsOwned'
  BY <1>21 DEF Expire
<1>22. ASSUME NEW x \in Refreshers, RefreshRead(x) PROVE SlotsOwned'
  BY <1>22 DEF RefreshRead
<1>23. ASSUME NEW x \in Refreshers, RefreshWrite(x) PROVE SlotsOwned'
  BY <1>23 DEF RefreshWrite
<1>24. CASE Reconcile
  BY <1>24 DEF Reconcile
<1>25. CASE ExpireWait
  BY <1>25 DEF ExpireWait
<1>26. CASE Restart
  BY <1>26 DEF Restart, Active, Stages
<1>27. CASE UNCHANGED vars
  BY <1>27 DEF vars, redis, request, lease, history
<1> QED BY <1>1, <1>2, <1>3, <1>4, <1>5, <1>6, <1>7, <1>8, <1>9, <1>10,
        <1>11, <1>12, <1>13, <1>14, <1>15, <1>16, <1>17, <1>18, <1>19, <1>20,
        <1>21, <1>22, <1>23, <1>24, <1>25, <1>26, <1>27 DEF Next, Handle

(* No step leaves a live lease behind. *)
LEMMA LeasesOwnedKept ==
  ASSUME Shapes, LeasesOwned, [Next]_vars PROVE LeasesOwned'
<1> USE SlotAssumption DEF Shapes, RedisShapes, RequestShapes, LeaseShapes, Roles, Goes,
        Fresh, Trading, Ended, Slot, Slots, Owner, Releases, Requests, redis, request,
        lease, history, LeasesOwned
<1>1. ASSUME NEW r \in Requests, Begin(r) PROVE LeasesOwned'
  BY <1>1 DEF Begin
<1>2. ASSUME NEW r \in Requests, Acquire(r) PROVE LeasesOwned'
  BY <1>2 DEF Acquire
<1>3. ASSUME NEW r \in Requests, Refused(r) PROVE LeasesOwned'
  BY <1>3 DEF Refused
<1>4. ASSUME NEW r \in Requests, EnterWait(r) PROVE LeasesOwned'
  BY <1>4 DEF EnterWait
<1>5. ASSUME NEW r \in Requests, EnterFails(r) PROVE LeasesOwned'
  BY <1>5 DEF EnterFails
<1>6. ASSUME NEW r \in Requests, GiveUp(r) PROVE LeasesOwned'
  BY <1>6 DEF GiveUp
<1>7. ASSUME NEW r \in Requests, Touch(r) PROVE LeasesOwned'
  BY <1>7 DEF Touch
<1>8. ASSUME NEW r \in Requests, Own(r) PROVE LeasesOwned'
  BY <1>8 DEF Own, Refuses
<1>9. ASSUME NEW r \in Requests, Leave(r) PROVE LeasesOwned'
  BY <1>9 DEF Leave
<1>10. ASSUME NEW r \in Requests, Left(r) PROVE LeasesOwned'
  BY <1>10 DEF Left
<1>11. ASSUME NEW r \in Requests, Finish(r) PROVE LeasesOwned'
  BY <1>11 DEF Finish
<1>12. ASSUME NEW r \in Requests, Dropped(r) PROVE LeasesOwned'
  BY <1>12 DEF Dropped, Released
<1>13. ASSUME NEW r \in Requests, End(r) PROVE LeasesOwned'
  BY <1>13 DEF End
<1>14. ASSUME NEW r \in Requests, Cancel(r) PROVE LeasesOwned'
  BY <1>14 DEF Cancel
<1>15. ASSUME NEW r \in Requests, Replace(r) PROVE LeasesOwned'
  BY <1>15 DEF Replace, GivesSlotBack
<1>16. ASSUME NEW r \in Requests, Create(r) PROVE LeasesOwned'
  BY <1>16 DEF Create
<1>17. ASSUME NEW r \in Requests, Hang(r) PROVE LeasesOwned'
  BY <1>17 DEF Hang
<1>18. ASSUME NEW r \in Requests, ReleaseLive(r) PROVE LeasesOwned'
  BY <1>18 DEF ReleaseLive
<1>19. ASSUME NEW r \in Requests, ExpireLive(r) PROVE LeasesOwned'
  BY <1>19 DEF ExpireLive
<1>20. ASSUME NEW s \in Slots, Remove(s) PROVE LeasesOwned'
  BY <1>20 DEF Remove
<1>21. ASSUME NEW s \in Slots, Expire(s) PROVE LeasesOwned'
  BY <1>21 DEF Expire
<1>22. ASSUME NEW x \in Refreshers, RefreshRead(x) PROVE LeasesOwned'
  BY <1>22 DEF RefreshRead
<1>23. ASSUME NEW x \in Refreshers, RefreshWrite(x) PROVE LeasesOwned'
  BY <1>23 DEF RefreshWrite
<1>24. CASE Reconcile
  BY <1>24 DEF Reconcile
<1>25. CASE ExpireWait
  BY <1>25 DEF ExpireWait
<1>26. CASE Restart
  BY <1>26 DEF Restart, Active, Stages
<1>27. CASE UNCHANGED vars
  BY <1>27 DEF vars, redis, request, lease, history
<1> QED BY <1>1, <1>2, <1>3, <1>4, <1>5, <1>6, <1>7, <1>8, <1>9, <1>10,
        <1>11, <1>12, <1>13, <1>14, <1>15, <1>16, <1>17, <1>18, <1>19, <1>20,
        <1>21, <1>22, <1>23, <1>24, <1>25, <1>26, <1>27 DEF Next, Handle

(* A closed lease gives back what it is handed. *)
LEMMA ClosedHoldsNothingKept ==
  ASSUME Shapes, SlotsAccounted, ClosedHoldsNothing, [Next]_vars PROVE ClosedHoldsNothing'
<1> USE DEF Shapes, RedisShapes, RequestShapes, LeaseShapes, Roles, Goes, Fresh,
        Trading, Ended, Slot, Slots, Owner, Releases, Requests, redis, request, lease,
        history, ClosedHoldsNothing, SlotsAccounted, Accounted
<1>1. ASSUME NEW r \in Requests, Begin(r) PROVE ClosedHoldsNothing'
  BY <1>1 DEF Begin
<1>2. ASSUME NEW r \in Requests, Acquire(r) PROVE ClosedHoldsNothing'
  BY <1>2 DEF Acquire
<1>3. ASSUME NEW r \in Requests, Refused(r) PROVE ClosedHoldsNothing'
  BY <1>3 DEF Refused
<1>4. ASSUME NEW r \in Requests, EnterWait(r) PROVE ClosedHoldsNothing'
  BY <1>4 DEF EnterWait
<1>5. ASSUME NEW r \in Requests, EnterFails(r) PROVE ClosedHoldsNothing'
  BY <1>5 DEF EnterFails
<1>6. ASSUME NEW r \in Requests, GiveUp(r) PROVE ClosedHoldsNothing'
  BY <1>6 DEF GiveUp
<1>7. ASSUME NEW r \in Requests, Touch(r) PROVE ClosedHoldsNothing'
  BY <1>7 DEF Touch
<1>8. ASSUME NEW r \in Requests, Own(r) PROVE ClosedHoldsNothing'
  BY <1>8 DEF Own, Refuses
<1>9. ASSUME NEW r \in Requests, Leave(r) PROVE ClosedHoldsNothing'
  BY <1>9 DEF Leave
<1>10. ASSUME NEW r \in Requests, Left(r) PROVE ClosedHoldsNothing'
  BY <1>10 DEF Left
<1>11. ASSUME NEW r \in Requests, Finish(r) PROVE ClosedHoldsNothing'
  BY <1>11 DEF Finish
<1>12. ASSUME NEW r \in Requests, Dropped(r) PROVE ClosedHoldsNothing'
  BY <1>12 DEF Dropped, Released
<1>13. ASSUME NEW r \in Requests, End(r) PROVE ClosedHoldsNothing'
  BY <1>13 DEF End
<1>14. ASSUME NEW r \in Requests, Cancel(r) PROVE ClosedHoldsNothing'
  BY <1>14 DEF Cancel
<1>15. ASSUME NEW r \in Requests, Replace(r) PROVE ClosedHoldsNothing'
  BY <1>15 DEF Replace, GivesSlotBack
<1>16. ASSUME NEW r \in Requests, Create(r) PROVE ClosedHoldsNothing'
  BY <1>16 DEF Create
<1>17. ASSUME NEW r \in Requests, Hang(r) PROVE ClosedHoldsNothing'
  BY <1>17 DEF Hang
<1>18. ASSUME NEW r \in Requests, ReleaseLive(r) PROVE ClosedHoldsNothing'
  BY <1>18 DEF ReleaseLive
<1>19. ASSUME NEW r \in Requests, ExpireLive(r) PROVE ClosedHoldsNothing'
  BY <1>19 DEF ExpireLive
<1>20. ASSUME NEW s \in Slots, Remove(s) PROVE ClosedHoldsNothing'
  BY <1>20 DEF Remove
<1>21. ASSUME NEW s \in Slots, Expire(s) PROVE ClosedHoldsNothing'
  BY <1>21 DEF Expire
<1>22. ASSUME NEW x \in Refreshers, RefreshRead(x) PROVE ClosedHoldsNothing'
  BY <1>22 DEF RefreshRead
<1>23. ASSUME NEW x \in Refreshers, RefreshWrite(x) PROVE ClosedHoldsNothing'
  BY <1>23 DEF RefreshWrite
<1>24. CASE Reconcile
  BY <1>24 DEF Reconcile
<1>25. CASE ExpireWait
  BY <1>25 DEF ExpireWait
<1>26. CASE Restart
  BY <1>26 DEF Restart, Active
<1>27. CASE UNCHANGED vars
  BY <1>27 DEF vars, redis, request, lease, history
<1> QED BY <1>1, <1>2, <1>3, <1>4, <1>5, <1>6, <1>7, <1>8, <1>9, <1>10,
        <1>11, <1>12, <1>13, <1>14, <1>15, <1>16, <1>17, <1>18, <1>19, <1>20,
        <1>21, <1>22, <1>23, <1>24, <1>25, <1>26, <1>27 DEF Next, Handle

(* Only counted waiters give their count back. *)
LEMMA WaitStagesKept ==
  ASSUME Shapes, WaitStages, [Next]_vars PROVE WaitStages'
<1> USE DEF Shapes, RequestShapes, WaitStages, Goes, Ended, redis, request, lease,
        history
<1>1. ASSUME NEW r \in Requests, Begin(r) PROVE WaitStages'
  BY <1>1 DEF Begin
<1>2. ASSUME NEW r \in Requests, Acquire(r) PROVE WaitStages'
  BY <1>2 DEF Acquire
<1>3. ASSUME NEW r \in Requests, Refused(r) PROVE WaitStages'
  BY <1>3 DEF Refused
<1>4. ASSUME NEW r \in Requests, EnterWait(r) PROVE WaitStages'
  BY <1>4 DEF EnterWait
<1>5. ASSUME NEW r \in Requests, EnterFails(r) PROVE WaitStages'
  BY <1>5 DEF EnterFails
<1>6. ASSUME NEW r \in Requests, GiveUp(r) PROVE WaitStages'
  BY <1>6 DEF GiveUp
<1>7. ASSUME NEW r \in Requests, Touch(r) PROVE WaitStages'
  BY <1>7 DEF Touch
<1>8. ASSUME NEW r \in Requests, Own(r) PROVE WaitStages'
  BY <1>8 DEF Own
<1>9. ASSUME NEW r \in Requests, Leave(r) PROVE WaitStages'
  BY <1>9 DEF Leave
<1>10. ASSUME NEW r \in Requests, Left(r) PROVE WaitStages'
  BY <1>10 DEF Left
<1>11. ASSUME NEW r \in Requests, Finish(r) PROVE WaitStages'
  BY <1>11 DEF Finish
<1>12. ASSUME NEW r \in Requests, Dropped(r) PROVE WaitStages'
  BY <1>12 DEF Dropped
<1>13. ASSUME NEW r \in Requests, End(r) PROVE WaitStages'
  BY <1>13 DEF End
<1>14. ASSUME NEW r \in Requests, Cancel(r) PROVE WaitStages'
  BY <1>14 DEF Cancel
<1>15. ASSUME NEW r \in Requests, Replace(r) PROVE WaitStages'
  BY <1>15 DEF Replace, GivesSlotBack
<1>16. ASSUME NEW r \in Requests, Create(r) PROVE WaitStages'
  BY <1>16 DEF Create
<1>17. ASSUME NEW r \in Requests, Hang(r) PROVE WaitStages'
  BY <1>17 DEF Hang
<1>18. ASSUME NEW r \in Requests, ReleaseLive(r) PROVE WaitStages'
  BY <1>18 DEF ReleaseLive
<1>19. ASSUME NEW r \in Requests, ExpireLive(r) PROVE WaitStages'
  BY <1>19 DEF ExpireLive
<1>20. ASSUME NEW s \in Slots, Remove(s) PROVE WaitStages'
  BY <1>20 DEF Remove
<1>21. ASSUME NEW s \in Slots, Expire(s) PROVE WaitStages'
  BY <1>21 DEF Expire
<1>22. ASSUME NEW x \in Refreshers, RefreshRead(x) PROVE WaitStages'
  BY <1>22 DEF RefreshRead
<1>23. ASSUME NEW x \in Refreshers, RefreshWrite(x) PROVE WaitStages'
  BY <1>23 DEF RefreshWrite
<1>24. CASE Reconcile
  BY <1>24 DEF Reconcile
<1>25. CASE ExpireWait
  BY <1>25 DEF ExpireWait
<1>26. CASE Restart
  BY <1>26 DEF Restart, Active
<1>27. CASE UNCHANGED vars
  BY <1>27 DEF vars, redis, request, lease, history
<1> QED BY <1>1, <1>2, <1>3, <1>4, <1>5, <1>6, <1>7, <1>8, <1>9, <1>10,
        <1>11, <1>12, <1>13, <1>14, <1>15, <1>16, <1>17, <1>18, <1>19, <1>20,
        <1>21, <1>22, <1>23, <1>24, <1>25, <1>26, <1>27 DEF Next, Handle

(* Who saw no load and was not overtaken is right. *)
LEMMA ZeroIsTrueKept ==
  ASSUME Shapes, ZeroIsTrue, [Next]_vars PROVE ZeroIsTrue'
<1> USE SlotAssumption DEF Shapes, LeaseShapes, RedisShapes, ZeroIsTrue, NoLoad,
        Overtakes, redis, lease
<1>1. ASSUME NEW r \in Requests, Begin(r) PROVE ZeroIsTrue'
  BY <1>1 DEF Begin
<1>2. ASSUME NEW r \in Requests, Acquire(r) PROVE ZeroIsTrue'
  BY <1>2 DEF Acquire
<1>3. ASSUME NEW r \in Requests, Refused(r) PROVE ZeroIsTrue'
  BY <1>3 DEF Refused
<1>4. ASSUME NEW r \in Requests, EnterWait(r) PROVE ZeroIsTrue'
  BY <1>4 DEF EnterWait
<1>5. ASSUME NEW r \in Requests, EnterFails(r) PROVE ZeroIsTrue'
  BY <1>5 DEF EnterFails
<1>6. ASSUME NEW r \in Requests, GiveUp(r) PROVE ZeroIsTrue'
  BY <1>6 DEF GiveUp
<1>7. ASSUME NEW r \in Requests, Touch(r) PROVE ZeroIsTrue'
  BY <1>7 DEF Touch
<1>8. ASSUME NEW r \in Requests, Own(r) PROVE ZeroIsTrue'
  BY <1>8 DEF Own
<1>9. ASSUME NEW r \in Requests, Leave(r) PROVE ZeroIsTrue'
  BY <1>9 DEF Leave, GivesBack
<1>10. ASSUME NEW r \in Requests, Left(r) PROVE ZeroIsTrue'
  BY <1>10 DEF Left
<1>11. ASSUME NEW r \in Requests, Finish(r) PROVE ZeroIsTrue'
  BY <1>11 DEF Finish
<1>12. ASSUME NEW r \in Requests, Dropped(r) PROVE ZeroIsTrue'
  BY <1>12 DEF Dropped
<1>13. ASSUME NEW r \in Requests, End(r) PROVE ZeroIsTrue'
  BY <1>13 DEF End
<1>14. ASSUME NEW r \in Requests, Cancel(r) PROVE ZeroIsTrue'
  BY <1>14 DEF Cancel
<1>15. ASSUME NEW r \in Requests, Replace(r) PROVE ZeroIsTrue'
  BY <1>15 DEF Replace, GivesSlotBack
<1>16. ASSUME NEW r \in Requests, Create(r) PROVE ZeroIsTrue'
  BY <1>16 DEF Create
<1>17. ASSUME NEW r \in Requests, Hang(r) PROVE ZeroIsTrue'
  BY <1>17 DEF Hang
<1>18. ASSUME NEW r \in Requests, ReleaseLive(r) PROVE ZeroIsTrue'
  BY <1>18 DEF ReleaseLive
<1>19. ASSUME NEW r \in Requests, ExpireLive(r) PROVE ZeroIsTrue'
  BY <1>19 DEF ExpireLive
<1>20. ASSUME NEW s \in Slots, Remove(s) PROVE ZeroIsTrue'
  BY <1>20 DEF Remove
<1>21. ASSUME NEW s \in Slots, Expire(s) PROVE ZeroIsTrue'
  BY <1>21 DEF Expire
<1>22. ASSUME NEW x \in Refreshers, RefreshRead(x) PROVE ZeroIsTrue'
  BY <1>22 DEF RefreshRead
<1>23. ASSUME NEW x \in Refreshers, RefreshWrite(x) PROVE ZeroIsTrue'
  BY <1>23 DEF RefreshWrite
<1>24. CASE Reconcile
  BY <1>24 DEF Reconcile
<1>25. CASE ExpireWait
  BY <1>25 DEF ExpireWait
<1>26. CASE Restart
  BY <1>26 DEF Restart
<1>27. CASE UNCHANGED vars
  BY <1>27 DEF vars, redis, request, lease, history
<1> QED BY <1>1, <1>2, <1>3, <1>4, <1>5, <1>6, <1>7, <1>8, <1>9, <1>10,
        <1>11, <1>12, <1>13, <1>14, <1>15, <1>16, <1>17, <1>18, <1>19, <1>20,
        <1>21, <1>22, <1>23, <1>24, <1>25, <1>26, <1>27 DEF Next, Handle

(* A provider with load stays in the index. *)
LEMMA LoadIsIndexedKept ==
  ASSUME Shapes, LoadIsIndexed, ZeroIsTrue, [Next]_vars PROVE LoadIsIndexed'
<1> USE SlotAssumption DEF Shapes, LeaseShapes, RequestShapes, RedisShapes,
        LoadIsIndexed, ZeroIsTrue, NoLoad, Slot, Slots, Owner, Goes, redis, request,
        lease, history
<1>1. ASSUME NEW r \in Requests, Begin(r) PROVE LoadIsIndexed'
  BY <1>1 DEF Begin
<1>2. ASSUME NEW r \in Requests, Acquire(r) PROVE LoadIsIndexed'
  BY <1>2 DEF Acquire
<1>3. ASSUME NEW r \in Requests, Refused(r) PROVE LoadIsIndexed'
  BY <1>3 DEF Refused
<1>4. ASSUME NEW r \in Requests, EnterWait(r) PROVE LoadIsIndexed'
  BY <1>4 DEF EnterWait
<1>5. ASSUME NEW r \in Requests, EnterFails(r) PROVE LoadIsIndexed'
  BY <1>5 DEF EnterFails
<1>6. ASSUME NEW r \in Requests, GiveUp(r) PROVE LoadIsIndexed'
  BY <1>6 DEF GiveUp
<1>7. ASSUME NEW r \in Requests, Touch(r) PROVE LoadIsIndexed'
  BY <1>7 DEF Touch
<1>8. ASSUME NEW r \in Requests, Own(r) PROVE LoadIsIndexed'
  BY <1>8 DEF Own
<1>9. ASSUME NEW r \in Requests, Leave(r) PROVE LoadIsIndexed'
  BY <1>9 DEF Leave, GivesBack
<1>10. ASSUME NEW r \in Requests, Left(r) PROVE LoadIsIndexed'
  BY <1>10 DEF Left
<1>11. ASSUME NEW r \in Requests, Finish(r) PROVE LoadIsIndexed'
  BY <1>11 DEF Finish
<1>12. ASSUME NEW r \in Requests, Dropped(r) PROVE LoadIsIndexed'
  BY <1>12 DEF Dropped
<1>13. ASSUME NEW r \in Requests, End(r) PROVE LoadIsIndexed'
  BY <1>13 DEF End
<1>14. ASSUME NEW r \in Requests, Cancel(r) PROVE LoadIsIndexed'
  BY <1>14 DEF Cancel
<1>15. ASSUME NEW r \in Requests, Replace(r) PROVE LoadIsIndexed'
  BY <1>15 DEF Replace, GivesSlotBack
<1>16. ASSUME NEW r \in Requests, Create(r) PROVE LoadIsIndexed'
  BY <1>16 DEF Create
<1>17. ASSUME NEW r \in Requests, Hang(r) PROVE LoadIsIndexed'
  BY <1>17 DEF Hang
<1>18. ASSUME NEW r \in Requests, ReleaseLive(r) PROVE LoadIsIndexed'
  BY <1>18 DEF ReleaseLive
<1>19. ASSUME NEW r \in Requests, ExpireLive(r) PROVE LoadIsIndexed'
  BY <1>19 DEF ExpireLive
<1>20. ASSUME NEW s \in Slots, Remove(s) PROVE LoadIsIndexed'
  BY <1>20 DEF Remove
<1>21. ASSUME NEW s \in Slots, Expire(s) PROVE LoadIsIndexed'
  BY <1>21 DEF Expire
<1>22. ASSUME NEW x \in Refreshers, RefreshRead(x) PROVE LoadIsIndexed'
  BY <1>22 DEF RefreshRead
<1>23. ASSUME NEW x \in Refreshers, RefreshWrite(x) PROVE LoadIsIndexed'
  <2>1. UNCHANGED <<regular, waiting, pc>>
    BY <1>23 DEF RefreshWrite
  <2>2. CASE UNCHANGED <<index, unindexed>>
    BY <2>1, <2>2
  <2>3. CASE refresh[x] = "zero" /\ unindexed' = "idle"
    BY <2>1, <2>3
  <2>4. CASE refresh[x] = "overtaken" /\ unindexed' = "raced"
    BY <2>4
  <2>5. CASE refresh[x] = "busy" /\ index' = (refresh[x] = "busy")
    BY <2>5
  <2> QED BY <1>23, <2>2, <2>3, <2>4, <2>5 DEF RefreshWrite
<1>24. CASE Reconcile
  BY <1>24 DEF Reconcile
<1>25. CASE ExpireWait
  BY <1>25 DEF ExpireWait
<1>26. CASE Restart
  BY <1>26 DEF Restart, Active, Ended
<1>27. CASE UNCHANGED vars
  BY <1>27 DEF vars, redis, request, lease, history
<1> QED BY <1>1, <1>2, <1>3, <1>4, <1>5, <1>6, <1>7, <1>8, <1>9, <1>10,
        <1>11, <1>12, <1>13, <1>14, <1>15, <1>16, <1>17, <1>18, <1>19, <1>20,
        <1>21, <1>22, <1>23, <1>24, <1>25, <1>26, <1>27 DEF Next, Handle

(* The counter follows the waiters. *)
LEMMA WaitersCountedKept ==
  ASSUME Shapes, WaitStages, WaitersCounted, [Next]_vars PROVE WaitersCounted'
<1> USE DEF WaitersCounted, redis, request, lease, history
<1>0. /\ IsFiniteSet(counted) /\ Cardinality(counted) \in Nat
      /\ waiting \in Nat /\ drift \in Nat
      /\ Cardinality({}) = 0
  BY SlotsAreFinite, FS_Subset, FS_CardinalityType, FS_EmptySet, SlotAssumption
  DEF Shapes, RedisShapes, HistoryShapes
<1>1. ASSUME NEW r \in Requests, Begin(r) PROVE WaitersCounted'
  BY <1>1 DEF Begin
<1>2. ASSUME NEW r \in Requests, Acquire(r) PROVE WaitersCounted'
  BY <1>2 DEF Acquire
<1>3. ASSUME NEW r \in Requests, Refused(r) PROVE WaitersCounted'
  BY <1>3 DEF Refused
<1>4. ASSUME NEW r \in Requests, EnterWait(r) PROVE WaitersCounted'
  <2>1. r \notin counted
    BY <1>4 DEF EnterWait, WaitStages
  <2>2. Cardinality(counted \cup {r}) = Cardinality(counted) + 1
    BY <1>0, <2>1, FS_AddElement
  <2> QED BY <1>4, <1>0, <2>2 DEF EnterWait
<1>5. ASSUME NEW r \in Requests, EnterFails(r) PROVE WaitersCounted'
  BY <1>5 DEF EnterFails
<1>6. ASSUME NEW r \in Requests, GiveUp(r) PROVE WaitersCounted'
  BY <1>6 DEF GiveUp
<1>7. ASSUME NEW r \in Requests, Touch(r) PROVE WaitersCounted'
  BY <1>7 DEF Touch
<1>8. ASSUME NEW r \in Requests, Own(r) PROVE WaitersCounted'
  BY <1>8 DEF Own
<1>9. ASSUME NEW r \in Requests, Leave(r) PROVE WaitersCounted'
  <2>1. r \in counted
    BY <1>9 DEF Leave, WaitStages
  <2>2. /\ Cardinality(counted \ {r}) = Cardinality(counted) - 1
        /\ Cardinality(counted \ {r}) \in Nat
    BY <1>0, <2>1, FS_RemoveElement, FS_CardinalityType
  <2>3. GivesBack(r) = waiting - 1
    BY <1>0, <2>2 DEF GivesBack
  <2> QED BY <1>9, <1>0, <2>2, <2>3 DEF Leave
<1>10. ASSUME NEW r \in Requests, Left(r) PROVE WaitersCounted'
  BY <1>10 DEF Left
<1>11. ASSUME NEW r \in Requests, Finish(r) PROVE WaitersCounted'
  BY <1>11 DEF Finish
<1>12. ASSUME NEW r \in Requests, Dropped(r) PROVE WaitersCounted'
  BY <1>12 DEF Dropped
<1>13. ASSUME NEW r \in Requests, End(r) PROVE WaitersCounted'
  BY <1>13 DEF End
<1>14. ASSUME NEW r \in Requests, Cancel(r) PROVE WaitersCounted'
  BY <1>14 DEF Cancel
<1>15. ASSUME NEW r \in Requests, Replace(r) PROVE WaitersCounted'
  BY <1>15 DEF Replace, GivesSlotBack
<1>16. ASSUME NEW r \in Requests, Create(r) PROVE WaitersCounted'
  BY <1>16 DEF Create
<1>17. ASSUME NEW r \in Requests, Hang(r) PROVE WaitersCounted'
  BY <1>17 DEF Hang
<1>18. ASSUME NEW r \in Requests, ReleaseLive(r) PROVE WaitersCounted'
  BY <1>18 DEF ReleaseLive
<1>19. ASSUME NEW r \in Requests, ExpireLive(r) PROVE WaitersCounted'
  BY <1>19 DEF ExpireLive
<1>20. ASSUME NEW s \in Slots, Remove(s) PROVE WaitersCounted'
  BY <1>20 DEF Remove
<1>21. ASSUME NEW s \in Slots, Expire(s) PROVE WaitersCounted'
  BY <1>21 DEF Expire
<1>22. ASSUME NEW x \in Refreshers, RefreshRead(x) PROVE WaitersCounted'
  BY <1>22 DEF RefreshRead
<1>23. ASSUME NEW x \in Refreshers, RefreshWrite(x) PROVE WaitersCounted'
  BY <1>23 DEF RefreshWrite
<1>24. CASE Reconcile
  BY <1>24 DEF Reconcile
<1>25. CASE ExpireWait
  BY <1>25, <1>0 DEF ExpireWait
<1>26. CASE Restart
  BY <1>26, <1>0 DEF Restart
<1>27. CASE UNCHANGED vars
  BY <1>27 DEF vars, redis, request, lease, history
<1> QED BY <1>1, <1>2, <1>3, <1>4, <1>5, <1>6, <1>7, <1>8, <1>9, <1>10,
        <1>11, <1>12, <1>13, <1>14, <1>15, <1>16, <1>17, <1>18, <1>19, <1>20,
        <1>21, <1>22, <1>23, <1>24, <1>25, <1>26, <1>27 DEF Next, Handle
-----------------------------------------------------------------------------
(* The requests that Redis has to count.                                    *)
InUse ==
  {r \in Requests : /\ Takes(r) \/ pc[r] \in {"create", "dropCreated", "session"}
                    /\ Slot(r) \notin overran}

(* Each of them is counted as a slot or as a live lease.                    *)
LEMMA InUseIsCounted ==
  ASSUME Shapes, SlotsAccounted
  PROVE  /\ IsFiniteSet(InUse)
         /\ Cardinality(InUse) \in Nat
         /\ Cardinality(InUse) <= Cardinality(regular) + Cardinality(live)
         /\ Cardinality(regular) \in Nat /\ Cardinality(live) \in Nat
<1> DEFINE A == {r \in InUse : pc[r] \in Trading}
           B == InUse \ A
           f == [r \in B |-> Slot(r)]
<1>1. /\ IsFiniteSet(regular) /\ IsFiniteSet(live) /\ IsFiniteSet(InUse)
      /\ Cardinality(regular) \in Nat /\ Cardinality(live) \in Nat
      /\ Cardinality(InUse) \in Nat
  BY SlotsAreFinite, FS_Subset, FS_CardinalityType DEF InUse, Shapes, RedisShapes
<1>2. A \subseteq live
  BY DEF InUse, SlotsAccounted, Accounted
<1>3. \A r \in B : Slot(r) \in regular
  BY DEF InUse, SlotsAccounted, Accounted, Trading
<1>4. f \in Injection(B, regular)
  <2>1. f \in [B -> regular]
    BY <1>3
  <2>2. \A q, r \in B : f[q] = f[r] => q = r
    BY SlotOfRequest DEF Shapes, InUse
  <2> QED BY <2>1, <2>2 DEF Injection, IsInjective
<1>5. IsFiniteSet(B) /\ Cardinality(B) <= Cardinality(regular)
  BY <1>1, <1>4, FS_Injection
<1>6. IsFiniteSet(A) /\ Cardinality(A) <= Cardinality(live)
  BY <1>1, <1>2, FS_Subset
<1> InUse = A \cup B
  OBVIOUS
<1> HIDE DEF A, B
<1>7. Cardinality(InUse) <= Cardinality(A) + Cardinality(B)
  <2>1. IsFiniteSet(A \cap B)
    BY <1>5, FS_Subset, A \cap B \subseteq B
  <2>2. Cardinality(A \cup B) = Cardinality(A) + Cardinality(B) - Cardinality(A \cap B)
    BY <1>5, <1>6, FS_Union
  <2>3. /\ Cardinality(A) \in Nat /\ Cardinality(B) \in Nat
        /\ Cardinality(A \cap B) \in Nat
    BY <1>5, <1>6, <2>1, FS_CardinalityType
  <2> QED BY <2>1, <2>2, <2>3
<1>8. Cardinality(A) \in Nat /\ Cardinality(B) \in Nat
  BY <1>5, <1>6, FS_CardinalityType
<1> QED BY <1>1, <1>5, <1>6, <1>7, <1>8

(* Only an acquisition adds a request to them, and only itself.             *)
Grows == \/ InUse' \subseteq InUse
         \/ \E r \in Requests : Acquire(r) /\ InUse' \subseteq InUse \cup {r}
LEMMA InUseGrows ==
  ASSUME Shapes, SlotsAccounted, [Next]_vars PROVE Grows
<1> USE DEF Shapes, RedisShapes, RequestShapes, LeaseShapes, Roles, Goes, Fresh,
        Trading, Ended, Slot, Slots, Owner, Releases, Requests, redis, request, lease,
        history, Grows, InUse, Takes, SlotsAccounted, Accounted
<1>1. ASSUME NEW r \in Requests, Begin(r) PROVE Grows
  BY <1>1 DEF Begin
<1>2. ASSUME NEW r \in Requests, Acquire(r) PROVE Grows
  BY <1>2 DEF Acquire
<1>3. ASSUME NEW r \in Requests, Refused(r) PROVE Grows
  BY <1>3 DEF Refused
<1>4. ASSUME NEW r \in Requests, EnterWait(r) PROVE Grows
  BY <1>4 DEF EnterWait
<1>5. ASSUME NEW r \in Requests, EnterFails(r) PROVE Grows
  BY <1>5 DEF EnterFails
<1>6. ASSUME NEW r \in Requests, GiveUp(r) PROVE Grows
  BY <1>6 DEF GiveUp
<1>7. ASSUME NEW r \in Requests, Touch(r) PROVE Grows
  BY <1>7 DEF Touch
<1>8. ASSUME NEW r \in Requests, Own(r) PROVE Grows
  BY <1>8 DEF Own, Refuses
<1>9. ASSUME NEW r \in Requests, Leave(r) PROVE Grows
  BY <1>9 DEF Leave
<1>10. ASSUME NEW r \in Requests, Left(r) PROVE Grows
  BY <1>10 DEF Left
<1>11. ASSUME NEW r \in Requests, Finish(r) PROVE Grows
  BY <1>11 DEF Finish
<1>12. ASSUME NEW r \in Requests, Dropped(r) PROVE Grows
  BY <1>12 DEF Dropped, Released
<1>13. ASSUME NEW r \in Requests, End(r) PROVE Grows
  BY <1>13 DEF End
<1>14. ASSUME NEW r \in Requests, Cancel(r) PROVE Grows
  BY <1>14 DEF Cancel
<1>15. ASSUME NEW r \in Requests, Replace(r) PROVE Grows
  BY <1>15 DEF Replace, GivesSlotBack
<1>16. ASSUME NEW r \in Requests, Create(r) PROVE Grows
  BY <1>16 DEF Create
<1>17. ASSUME NEW r \in Requests, Hang(r) PROVE Grows
  BY <1>17 DEF Hang
<1>18. ASSUME NEW r \in Requests, ReleaseLive(r) PROVE Grows
  BY <1>18 DEF ReleaseLive
<1>19. ASSUME NEW r \in Requests, ExpireLive(r) PROVE Grows
  BY <1>19 DEF ExpireLive
<1>20. ASSUME NEW s \in Slots, Remove(s) PROVE Grows
  BY <1>20 DEF Remove
<1>21. ASSUME NEW s \in Slots, Expire(s) PROVE Grows
  BY <1>21 DEF Expire
<1>22. ASSUME NEW x \in Refreshers, RefreshRead(x) PROVE Grows
  BY <1>22 DEF RefreshRead
<1>23. ASSUME NEW x \in Refreshers, RefreshWrite(x) PROVE Grows
  BY <1>23 DEF RefreshWrite
<1>24. CASE Reconcile
  BY <1>24 DEF Reconcile
<1>25. CASE ExpireWait
  BY <1>25 DEF ExpireWait
<1>26. CASE Restart
  BY <1>26 DEF Restart, Active
<1>27. CASE UNCHANGED vars
  BY <1>27 DEF vars, redis, request, lease, history
<1> QED BY <1>1, <1>2, <1>3, <1>4, <1>5, <1>6, <1>7, <1>8, <1>9, <1>10,
        <1>11, <1>12, <1>13, <1>14, <1>15, <1>16, <1>17, <1>18, <1>19, <1>20,
        <1>21, <1>22, <1>23, <1>24, <1>25, <1>26, <1>27 DEF Next, Handle

(* A slot is given only while fewer than the limit are counted.             *)
LEMMA LimitKept ==
  ASSUME Shapes, SlotsAccounted, [Next]_vars,
         Cardinality(InUse) <= Limit
  PROVE  Cardinality(InUse)' <= Limit
<1>1. /\ IsFiniteSet(InUse) /\ Cardinality(InUse) \in Nat
      /\ IsFiniteSet(InUse') /\ Cardinality(InUse') \in Nat
  <2>1. InUse' \subseteq Requests
    BY DEF InUse
  <2> QED BY <2>1, InUseIsCounted, SlotsAreFinite, FS_Subset, FS_CardinalityType
<1>2. CASE InUse' \subseteq InUse
  BY <1>1, <1>2, FS_Subset, SlotAssumption
<1>3. ASSUME NEW r \in Requests, Acquire(r), InUse' \subseteq InUse \cup {r}
      PROVE  Cardinality(InUse)' <= Limit
  <2>1. Cardinality(InUse) < Limit
    BY <1>1, <1>3, InUseIsCounted, SlotAssumption DEF Acquire, Room
  <2>2. /\ IsFiniteSet(InUse \cup {r}) /\ Cardinality(InUse \cup {r}) \in Nat
        /\ Cardinality(InUse \cup {r}) <= Cardinality(InUse) + 1
    <3>1. /\ IsFiniteSet(InUse \cup {r})
          /\ Cardinality(InUse \cup {r})
               = IF r \in InUse THEN Cardinality(InUse) ELSE Cardinality(InUse) + 1
      BY <1>1, FS_AddElement
    <3> QED BY <1>1, <3>1
  <2>3. Cardinality(InUse') <= Cardinality(InUse \cup {r})
    BY <1>3, <2>2, FS_Subset
  <2> QED BY <1>1, <2>1, <2>2, <2>3, SlotAssumption
<1> QED BY <1>2, <1>3, InUseGrows DEF Grows
-----------------------------------------------------------------------------
SlotsInv ==
  /\ Shapes
  /\ SlotsAccounted /\ SlotsOwned /\ LeasesOwned
  /\ ClosedHoldsNothing
  /\ WaitStages /\ WaitersCounted
  /\ ZeroIsTrue /\ LoadIsIndexed
  /\ Cardinality(InUse) <= Limit

(* The invariant holds at the start. *)
LEMMA SlotsStart == Init => SlotsInv
<1> SUFFICES ASSUME Init PROVE SlotsInv
  OBVIOUS
<1>1. Shapes
  <2>1. RedisShapes /\ LeaseShapes /\ HistoryShapes
    <3>1. RedisShapes
      <4>1. index \in BOOLEAN
        BY Zenon DEF Init
      <4>2. waiting \in 0..MaxWait
        BY SlotAssumption DEF Init
      <4> QED BY <4>1, <4>2 DEF Init, RedisShapes
    <3>2. LeaseShapes
      BY DEF Init, LeaseShapes
    <3>3. HistoryShapes
      BY SlotAssumption DEF Init, HistoryShapes
    <3> QED BY <3>1, <3>2, <3>3
  <2>2. RequestShapes
    BY SlotAssumption DEF Init, RequestShapes, Stages
  <2>3. Roles
    BY DEF Init, Roles, Trading
  <2> QED BY <2>1, <2>2, <2>3 DEF Shapes
<1>2. SlotsAccounted
  <2> SUFFICES ASSUME NEW r \in Requests PROVE Accounted(r)
    BY DEF SlotsAccounted
  <2>1. pc[r] = "idle" /\ try[r] = 1 /\ holding = {} /\ lost = {}
        /\ \A n \in 1..Tries : release[<<r, n>>] = "held"
    BY DEF Init, Slots
  <2>2. release[Slot(r)] = "held"
    BY <2>1, SlotAssumption DEF Slot
  <2> QED BY <2>1, <2>2 DEF Accounted, Takes, IsNew, Trading, Ended
<1>3. /\ SlotsOwned /\ LeasesOwned /\ ClosedHoldsNothing /\ WaitStages
      /\ ZeroIsTrue /\ LoadIsIndexed
  BY DEF Init, SlotsOwned, LeasesOwned, ClosedHoldsNothing, WaitStages, ZeroIsTrue,
         LoadIsIndexed
<1>4. WaitersCounted
  BY FS_EmptySet DEF Init, WaitersCounted
<1>5. Cardinality(InUse) <= Limit
  <2>1. InUse = {}
    BY DEF Init, InUse, Takes
  <2> QED BY <2>1, FS_EmptySet, SlotAssumption
<1> QED BY <1>1, <1>2, <1>3, <1>4, <1>5 DEF SlotsInv

(* The invariant is inductive. *)
LEMMA SlotsInvHolds == Spec => []SlotsInv
<1>1. Init => SlotsInv
  BY SlotsStart
<1>2. SlotsInv /\ [Next]_vars => SlotsInv'
  <2> SUFFICES ASSUME SlotsInv, [Next]_vars PROVE SlotsInv'
    OBVIOUS
  <2> USE DEF SlotsInv
  <2>1. Shapes'
    BY ShapesKept
  <2>2. SlotsAccounted'
    BY SlotsAccountedKept DEF SlotsAccounted
  <2>3. SlotsOwned' /\ LeasesOwned' /\ ClosedHoldsNothing'
    BY SlotsOwnedKept, LeasesOwnedKept, ClosedHoldsNothingKept
  <2>4. WaitStages' /\ WaitersCounted' /\ ZeroIsTrue' /\ LoadIsIndexed'
    BY WaitStagesKept, WaitersCountedKept, ZeroIsTrueKept, LoadIsIndexedKept
  <2>5. (Cardinality(InUse) <= Limit)'
    BY LimitKept
  <2> QED BY <2>1, <2>2, <2>3, <2>4, <2>5
<1> QED BY <1>1, <1>2, PTL DEF Spec
-----------------------------------------------------------------------------
(* The state keeps its types. *)
THEOREM SlotsTypeCorrect == Spec => []SlotsTypeOK
<1>1. SlotsInv => SlotsTypeOK
  BY DEF SlotsInv, Shapes, RedisShapes, RequestShapes, LeaseShapes, HistoryShapes, SlotsTypeOK
<1> QED BY <1>1, SlotsInvHolds, PTL

(* The provider never works for more requests than its limit, whatever     *)
(* waits, retries, goes away, trades its slot or stops.                    *)
THEOREM LimitCorrect == Spec => []LimitHolds
<1>1. SlotsInv => LimitHolds
  <2> SUFFICES ASSUME SlotsInv PROVE LimitHolds
    OBVIOUS
  <2> DEFINE W == {r \in Working : Slot(r) \notin overran}
  <2>1. W \subseteq InUse
    BY DEF Working, InUse, Takes, SlotsInv, Shapes, RequestShapes, Requests
  <2>2. IsFiniteSet(InUse) /\ Cardinality(InUse) \in Nat /\ Cardinality(InUse) <= Limit
    BY InUseIsCounted DEF SlotsInv
  <2>3. Cardinality(W) <= Cardinality(InUse) /\ Cardinality(W) \in Nat
    BY <2>1, <2>2, FS_Subset, FS_CardinalityType
  <2> QED BY <2>2, <2>3, SlotAssumption DEF LimitHolds
<1> QED BY <1>1, SlotsInvHolds, PTL

(* A request that is over has left no slot and no live lease behind.       *)
THEOREM NothingIsLeaked == Spec => []NothingLeaks
<1>1. SlotsInv => NothingLeaks
  <2> SUFFICES ASSUME SlotsInv PROVE NothingLeaks
    OBVIOUS
  <2>1. \A s \in regular : Owner(s) \in Requests
    BY DEF SlotsInv, Shapes, RedisShapes, Slots, Owner
  <2> QED BY <2>1
          DEF SlotsInv, NothingLeaks, SlotsOwned, LeasesOwned, SlotsAccounted, Accounted,
              Trading, Ended
<1> QED BY <1>1, SlotsInvHolds, PTL

(* A client that goes away frees the slot its handler has or is taking.    *)
THEOREM ClosedFreesItsSlot == Spec => []ClosedHoldsNothing
BY SlotsInvHolds, PTL DEF SlotsInv

(* The counter of waiters follows the waiters.                             *)
THEOREM WaitersAreCounted == Spec => []WaitersCounted
BY SlotsInvHolds, PTL DEF SlotsInv

(* Clean-up finds every provider with load.                                *)
THEOREM IndexShowsLoad == Spec => []LoadIsIndexed
BY SlotsInvHolds, PTL DEF SlotsInv
==============================================================================
