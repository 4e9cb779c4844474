---------------------------- MODULE ProviderSlots ----------------------------
(***************************************************************************)
(* The concurrency slots of one upstream provider.  A request takes a slot *)
(* in Redis or waits for one, hands it to the lease of the request, runs   *)
(* and gives it back; its client may go away at any moment and then the    *)
(* lease gives it back.  A live call trades its slot for a lease that its  *)
(* observer renews.  Each script, each Redis command and each critical     *)
(* section of a lease is one step.  One process serves requests at a time; *)
(* when it stops another one takes over.                                   *)
(***************************************************************************)
EXTENDS Integers, FiniteSets

CONSTANTS Chats,      \* ordinary requests
          Lives,      \* requests that create a live call
          Limit,      \* MaxConcurrency of the provider
          MaxWait,    \* MaxWaiting of the wait plan
          Tries,      \* bound: attempts of an ordinary request on the provider
          MaxFaults   \* bound: crashes, lost replies, failed commands, overruns

ASSUME SlotAssumption ==
  /\ Limit \in Nat \ {0} /\ MaxWait \in Nat /\ Tries \in Nat \ {0}
  /\ MaxFaults \in Nat
  /\ IsFiniteSet(Chats \cup Lives) /\ Chats \cap Lives = {}

Requests == Chats \cup Lives
Slots == Requests \X (1..Tries)
Cleaner == <<"cleanup", -1>>   \* the clean-up worker
Refreshers == Slots \cup (Requests \X {0}) \cup {Cleaner}

VARIABLES
  regular,   \* the sorted set of ordinary slots
  live,      \* the sorted set of live leases
  waiting,   \* the counter of waiters
  index,     \* the provider is in the index of active ones
  pc, try,   \* of each request: its stage, its attempt
  holding,   \* the requests whose handler has a slot
  counted,   \* the requests whose wait was counted and not yet given back
  closed,    \* the requests whose lease was released
  release,   \* of each slot: how far its release has come
  refresh,   \* of each release, wait and clean-up: what it saw of the load
  faults,
  overran,   \* history: slots that expired while in use
  lost,      \* history: slots that nobody will release
  drift,     \* history: counts that nobody will give back
  unindexed  \* history: why the provider is not in the index

redis == <<regular, live, waiting, index>>
request == <<pc, try, holding, counted>>
lease == <<closed, release, refresh>>
history == <<overran, lost, drift, unindexed>>
vars == <<redis, request, lease, faults, history>>

Stages == {"idle", "ask", "enter", "touchWait", "wait", "touch", "own", "leave",
           "left", "run", "drop", "replace", "create", "dropCreated", "dropFailed",
           "session", "close", "end", "over", "gone"}
Ended == {"over", "gone"}
Slot(r) == <<r, try[r]>>
Owner(s) == s[1]
Active(r) == pc[r] \notin Ended \cup {"idle"}

Init ==
  /\ regular = {} /\ live = {} /\ waiting = 0 /\ index = FALSE
  /\ pc = [r \in Requests |-> "idle"] /\ try = [r \in Requests |-> 1]
  /\ holding = {} /\ counted = {} /\ closed = {}
  /\ release = [s \in Slots |-> "held"]
  /\ refresh = [x \in Refreshers |-> "none"]
  /\ faults = 0
  /\ overran = {} /\ lost = {} /\ drift = 0 /\ unindexed = "idle"

Goes(r, stage) == pc' = [pc EXCEPT ![r] = stage]
Fault == faults < MaxFaults /\ faults' = faults + 1

(* Whoever saw no load before this moment will act on it all the same.     *)
Overtakes == refresh' = [x \in DOMAIN refresh |-> IF refresh[x] = "zero" THEN "overtaken" ELSE refresh[x]]
-----------------------------------------------------------------------------
(* Taking a slot.                                                          *)

(* Mutant: the comparison lets one more in. *)
RoomForOneMore == Cardinality(regular) + Cardinality(live) <= Limit

Room == Cardinality(regular) + Cardinality(live) < Limit

Begin(r) ==
  /\ pc[r] = "idle" /\ Goes(r, "ask")
  /\ UNCHANGED <<redis, try, holding, counted, lease, faults, history>>

(* acquireScript, first without waiting and then at every turn of the wait *)
(* loop.  When the reply is lost the caller gives up and the slot stays.   *)
Acquire(r) ==
  /\ pc[r] \in {"ask", "wait"}
  /\ Room
  /\ regular' = regular \cup {Slot(r)} /\ Overtakes
  /\ \/ Goes(r, "touch") /\ UNCHANGED <<faults, lost, unindexed>>
     \/ /\ Fault /\ lost' = lost \cup {Slot(r)}
        /\ unindexed' = IF index THEN unindexed ELSE "failed"
        /\ Goes(r, IF r \in counted THEN "leave" ELSE "end")
  /\ UNCHANGED <<live, waiting, index, try, holding, counted, closed, release,
                 overran, drift>>

(* A live call does not wait. *)
Refused(r) ==
  /\ pc[r] = "ask" /\ ~Room
  /\ Goes(r, IF r \in Lives THEN "end" ELSE "enter")
  /\ UNCHANGED <<redis, try, holding, counted, lease, faults, history>>

(* Mutant: the counter is compared after the increment. *)
OneMoreMayWait == waiting <= MaxWait

MayWait == waiting < MaxWait

(* incrementProviderWaitScript; an error admits the request uncounted.     *)
EnterWait(r) ==
  /\ pc[r] = "enter" /\ MayWait
  /\ waiting' = waiting + 1 /\ Overtakes
  /\ \/ /\ Goes(r, "touchWait") /\ counted' = counted \cup {r}
        /\ UNCHANGED <<faults, drift, unindexed>>
     \/ /\ Fault /\ drift' = drift + 1 /\ Goes(r, "wait")
        /\ unindexed' = IF index THEN unindexed ELSE "failed"
        /\ UNCHANGED counted
  /\ UNCHANGED <<regular, live, index, try, holding, closed, release, overran, lost>>

EnterFails(r) ==
  /\ pc[r] = "enter"
  /\ \/ ~MayWait /\ Goes(r, "end") /\ UNCHANGED faults
     \/ Fault /\ Goes(r, "wait")
  /\ UNCHANGED <<redis, try, holding, counted, lease, history>>

(* The wait ends by its deadline or with its client.                       *)
GiveUp(r) ==
  /\ pc[r] = "wait"
  /\ Goes(r, IF r \in counted THEN "leave" ELSE "end")
  /\ UNCHANGED <<redis, try, holding, counted, lease, faults, history>>

(* touchActiveIndexAt: the command may fail, which is only logged.         *)
Touch(r) ==
  /\ \/ pc[r] = "touch" /\ Goes(r, "own")
     \/ pc[r] = "touchWait" /\ Goes(r, "wait")
  /\ \/ index' = TRUE /\ unindexed' = "idle" /\ UNCHANGED faults
     \/ ~index /\ Fault /\ unindexed' = "failed" /\ UNCHANGED index
  /\ UNCHANGED <<regular, live, waiting, try, holding, counted, lease, overran,
                 lost, drift>>
-----------------------------------------------------------------------------
(* The lease of the request.                                               *)

(* Whoever comes first removes the slot; the others wait for it.           *)
Releases(s) == IF release[s] = "held" THEN [release EXCEPT ![s] = "remove"] ELSE release
Released(s) == release[s] = "removed" /\ refresh[s] = "none"

(* Mutant: a lease that is closed takes the slot all the same. *)
RefusesNone(r) == FALSE

Refuses(r) == r \in closed

(* Lease.Own: a closed lease gives the slot back at once, and the handler  *)
(* finds its context done.                                                 *)
Own(r) ==
  /\ pc[r] = "own" /\ holding' = holding \cup {r}
  /\ IF Refuses(r)
       THEN release' = Releases(Slot(r)) /\ Goes(r, "drop")
       ELSE /\ Goes(r, IF r \in counted THEN "leave" ELSE
                       IF r \in Lives THEN "replace" ELSE "run")
            /\ UNCHANGED release
  /\ UNCHANGED <<redis, try, counted, closed, refresh, faults, history>>

(* Mutant: only a wait that succeeded gives its count back. *)
GivesBackAfterSuccess(r) == IF r \in holding THEN waiting - 1 ELSE waiting

(* decrementWaitScript: not below zero. *)
GivesBack(r) == IF waiting > 0 THEN waiting - 1 ELSE 0

Leave(r) ==
  /\ pc[r] = "leave"
  /\ counted' = counted \ {r} /\ Goes(r, "left")
  /\ \/ /\ waiting' = GivesBack(r) /\ refresh' = [refresh EXCEPT ![<<r, 0>>] = "read"]
        /\ UNCHANGED <<faults, drift>>
     \/ Fault /\ drift' = drift + 1 /\ UNCHANGED <<waiting, refresh>>
  /\ UNCHANGED <<regular, live, index, try, holding, closed, release, overran,
                 lost, unindexed>>

Left(r) ==
  /\ pc[r] = "left" /\ refresh[<<r, 0>>] = "none"
  /\ Goes(r, IF r \in holding THEN "run" ELSE "end")
  /\ UNCHANGED <<redis, try, holding, counted, lease, faults, history>>

(* The attempt is over: AttemptLease.Finish. *)
Finish(r) ==
  /\ pc[r] = "run"
  /\ release' = Releases(Slot(r)) /\ Goes(r, "drop")
  /\ UNCHANGED <<redis, try, holding, counted, closed, refresh, faults, history>>

(* The slot is gone; the next attempt may choose the same provider.        *)
Dropped(r) ==
  /\ pc[r] \in {"drop", "dropCreated", "dropFailed"} /\ Released(Slot(r))
  /\ holding' = holding \ {r}
  /\ \/ pc[r] = "drop" /\ Goes(r, IF r \in counted THEN "leave" ELSE "end") /\ UNCHANGED try
     \/ /\ pc[r] = "drop" /\ r \in Chats \ (counted \cup closed) /\ try[r] < Tries
        /\ try' = [try EXCEPT ![r] = @ + 1] /\ Goes(r, "ask")
     \/ pc[r] = "dropCreated" /\ Goes(r, "session") /\ UNCHANGED try
     \/ pc[r] = "dropFailed" /\ Goes(r, "close") /\ UNCHANGED try
  /\ UNCHANGED <<redis, counted, lease, faults, history>>

(* Nobody looks at the lease of a request that is over.                    *)
End(r) ==
  /\ pc[r] = "end" /\ Goes(r, "over")
  /\ closed' = closed \ {r} /\ try' = [try EXCEPT ![r] = 1]
  /\ release' = [s \in Slots |-> IF Owner(s) = r THEN "held" ELSE release[s]]
  /\ overran' = {s \in overran : Owner(s) # r}
  /\ UNCHANGED <<redis, holding, counted, refresh, faults, lost, drift, unindexed>>

(* The client goes away: Lease.Release from the context's callback.        *)
Cancel(r) ==
  /\ r \in Chats \ closed /\ Active(r)
  /\ closed' = closed \cup {r}
  /\ release' = IF r \in holding THEN Releases(Slot(r)) ELSE release
  /\ UNCHANGED <<redis, request, refresh, faults, history>>
-----------------------------------------------------------------------------
(* Live calls.                                                             *)

RoomToReplace == Cardinality(regular) + Cardinality(live) < Limit + 1

(* Mutant: a live call that was refused keeps its ordinary slot. *)
KeepsSlot(r) == Goes(r, "end") /\ UNCHANGED release

GivesSlotBack(r) == Goes(r, "drop") /\ release' = Releases(Slot(r))

(* acquireLiveLeaseScript, replacing the slot the call was selected with.  *)
Replace(r) ==
  /\ pc[r] = "replace"
  /\ \/ RoomToReplace /\ live' = live \cup {r} /\ Goes(r, "create") /\ UNCHANGED <<release, faults, lost>>
     \/ ~RoomToReplace /\ GivesSlotBack(r) /\ UNCHANGED <<live, faults, lost>>
     \/ /\ RoomToReplace /\ Fault /\ live' = live \cup {r} /\ lost' = lost \cup {Slot(r)}
        /\ GivesSlotBack(r)
  /\ UNCHANGED <<regular, waiting, index, try, holding, counted, closed, refresh,
                 overran, drift, unindexed>>

(* The upstream call is created or not; the ordinary slot goes in any case. *)
Create(r) ==
  /\ pc[r] = "create"
  /\ \E outcome \in {"dropCreated", "dropFailed"} : Goes(r, outcome)
  /\ release' = Releases(Slot(r))
  /\ UNCHANGED <<redis, try, holding, counted, closed, refresh, faults, history>>

(* The call ends, or the renewal finds its lease gone. *)
Hang(r) ==
  /\ pc[r] = "session" /\ Goes(r, "close")
  /\ UNCHANGED <<redis, try, holding, counted, lease, faults, history>>

ReleaseLive(r) ==
  /\ pc[r] = "close" /\ Goes(r, "end")
  /\ \/ live' = live \ {r} /\ UNCHANGED <<faults, lost>>
     \/ Fault /\ lost' = lost \cup {Slot(r)} /\ UNCHANGED live
  /\ UNCHANGED <<regular, waiting, index, try, holding, counted, lease, overran,
                 drift, unindexed>>
-----------------------------------------------------------------------------
(* Releasing, the index and its maintenance.                               *)
Remove(s) ==
  /\ release[s] = "remove" /\ release' = [release EXCEPT ![s] = "removed"]
  /\ \/ /\ regular' = regular \ {s} /\ refresh' = [refresh EXCEPT ![s] = "read"]
        /\ UNCHANGED <<faults, lost>>
     \/ Fault /\ lost' = lost \cup {s} /\ UNCHANGED <<regular, refresh>>
  /\ UNCHANGED <<live, waiting, index, request, closed, overran, drift, unindexed>>

(* Mutant: waiters do not keep a provider in the index. *)
NoSlots == regular = {}

NoLoad == regular = {} /\ waiting = 0

(* refreshActiveIndex: the load is read, then the index is written.  A     *)
(* command that fails is logged.                                           *)
RefreshRead(x) ==
  /\ refresh[x] = "read"
  /\ \/ refresh' = [refresh EXCEPT ![x] = IF NoLoad THEN "zero" ELSE "busy"] /\ UNCHANGED faults
     \/ Fault /\ refresh' = [refresh EXCEPT ![x] = "none"]
  /\ UNCHANGED <<redis, request, closed, release, history>>

RefreshWrite(x) ==
  /\ refresh[x] \in {"zero", "overtaken", "busy"}
  /\ refresh' = [refresh EXCEPT ![x] = "none"]
  /\ \/ /\ index' = (refresh[x] = "busy")
        /\ unindexed' = IF refresh[x] = "overtaken" THEN "raced" ELSE "idle"
        /\ UNCHANGED faults
     \/ Fault /\ UNCHANGED <<index, unindexed>>
  /\ UNCHANGED <<regular, live, waiting, request, closed, release, overran,
                 lost, drift>>

(* reconcileExpiredIndexCandidates takes up a provider it finds in the     *)
(* index.  It then reads the load and writes the index as a refresh does,  *)
(* with whatever begins in between.                                        *)
Reconcile ==
  /\ index /\ refresh[Cleaner] = "none"
  /\ refresh' = [refresh EXCEPT ![Cleaner] = "read"]
  /\ UNCHANGED <<redis, request, closed, release, faults, history>>

(* Slots and leases expire; one that is in use has overrun its lifetime.   *)
Expire(s) ==
  /\ s \in regular /\ regular' = regular \ {s}
  /\ IF s \in lost \/ pc[Owner(s)] \in Ended
       THEN UNCHANGED <<faults, overran>>
       ELSE Fault /\ overran' = overran \cup {s}
  /\ UNCHANGED <<live, waiting, index, request, lease, lost, drift, unindexed>>

ExpireLive(r) ==
  /\ r \in live /\ live' = live \ {r}
  /\ IF pc[r] \notin {"create", "dropCreated", "dropFailed", "session", "close"}
       THEN UNCHANGED <<faults, overran>>
       ELSE Fault /\ overran' = overran \cup {Slot(r)}
  /\ UNCHANGED <<regular, waiting, index, request, lease, lost, drift, unindexed>>

(* The counter expires when nobody has entered the wait for long.          *)
ExpireWait ==
  /\ waiting > 0 /\ counted = {}
  /\ waiting' = 0 /\ drift' = 0
  /\ UNCHANGED <<regular, live, index, request, lease, faults, overran, lost, unindexed>>

(* The process stops and the next one sweeps what the index shows.         *)
Restart ==
  /\ Fault
  /\ pc' = [r \in Requests |-> IF Active(r) THEN "gone" ELSE pc[r]]
  /\ holding' = {} /\ counted' = {} /\ closed' = {} /\ overran' = {}
  /\ try' = [r \in Requests |-> 1] /\ release' = [s \in Slots |-> "held"]
  /\ refresh' = [x \in DOMAIN refresh |-> "none"]
  /\ IF index
       THEN regular' = {} /\ waiting' = 0 /\ drift' = 0 /\ index' = FALSE /\ unindexed' = "idle"
       ELSE /\ drift' = drift + Cardinality(counted)
            /\ unindexed' = IF unindexed = "raced" THEN "raced" ELSE "failed"
            /\ UNCHANGED <<regular, waiting, index>>
  /\ UNCHANGED <<live, lost>>
-----------------------------------------------------------------------------
Handle(r) ==
  \/ Begin(r) \/ Acquire(r) \/ Refused(r) \/ EnterWait(r) \/ EnterFails(r)
  \/ GiveUp(r) \/ Touch(r) \/ Own(r) \/ Leave(r) \/ Left(r) \/ Finish(r)
  \/ Dropped(r) \/ End(r) \/ Cancel(r)
  \/ Replace(r) \/ Create(r) \/ Hang(r) \/ ReleaseLive(r) \/ ExpireLive(r)

Next ==
  \/ \E r \in Requests : Handle(r)
  \/ \E s \in Slots : Remove(s) \/ Expire(s)
  \/ \E x \in Refreshers : RefreshRead(x) \/ RefreshWrite(x)
  \/ Reconcile \/ ExpireWait \/ Restart

Spec == Init /\ [][Next]_vars
-----------------------------------------------------------------------------
SlotsTypeOK ==
  /\ regular \subseteq Slots /\ live \subseteq Lives
  /\ waiting \in 0..MaxWait /\ index \in BOOLEAN
  /\ pc \in [Requests -> Stages] /\ try \in [Requests -> 1..Tries]
  /\ holding \subseteq Requests /\ counted \subseteq Chats /\ closed \subseteq Requests
  /\ release \in [Slots -> {"held", "remove", "removed"}]
  /\ refresh \in [Refreshers -> {"none", "read", "zero", "overtaken", "busy"}]
  /\ faults \in 0..MaxFaults
  /\ overran \subseteq Slots /\ lost \subseteq Slots /\ drift \in Nat
  /\ unindexed \in {"idle", "raced", "failed"}

(* The requests that work on the provider at this moment, as far as they   *)
(* and their clients know.                                                 *)
Working ==
  {r \in holding \ closed : pc[r] # "end" /\ Active(r) /\ release[Slot(r)] = "held"}
    \cup {r \in Lives : pc[r] = "session"}

(* The provider never works for more requests than its limit, waiters, new *)
(* arrivals, retries and live calls that trade their slots all counted;    *)
(* only a request that outlives the lifetime of its slot is not seen.      *)
LimitHolds == Cardinality({r \in Working : Slot(r) \notin overran}) <= Limit

(* A request that is over has left nothing behind: whatever way it ended,  *)
(* no slot and no live lease of it is still counted, unless a command of   *)
(* its release or the reply to its acquisition was lost.                   *)
NothingLeaks ==
  /\ \A s \in regular : pc[Owner(s)] = "over" => s \in lost
  /\ \A r \in live : pc[r] = "over" => Slot(r) \in lost

(* A client that goes away frees the slot, also when its handler was just  *)
(* taking one: from the moment the handler has it, it is on its way back.  *)
ClosedHoldsNothing ==
  \A r \in holding \cap closed : release[Slot(r)] # "held"

(* The counter of waiters is neither below the waiters it counts, so that  *)
(* the limit of the wait holds, nor above them by more than what lost      *)
(* replies and stopped processes left.                                     *)
WaitersCounted ==
  Cardinality(counted) <= waiting /\ waiting <= Cardinality(counted) + drift

(* Clean-up and the next process find every slot and count: a provider     *)
(* with load is in the index, except for a request between the two         *)
(* commands of its acquisition, after a refresh or a clean-up pass that    *)
(* another request overtook, and after a failed command.                   *)
LoadIsIndexed ==
  ~index /\ unindexed = "idle" =>
    /\ \A s \in regular : pc[Owner(s)] = "touch"
    /\ waiting = 0 \/ \E r \in Requests : pc[r] = "touchWait"
==============================================================================
