---------------------------- MODULE TokenRefresh ----------------------------
(***************************************************************************)
(* The refresh of one OAuth provider.  A refresh token is used once: the   *)
(* authorization server answers with its successor and forgets it.         *)
(* Background workers, requests and administrators of several processes    *)
(* exchange the stored token under a lock of their process and a lock in   *)
(* Redis that nobody owns by name, and store the successor if the row has  *)
(* not changed since it was read.                                          *)
(***************************************************************************)
EXTENDS Integers, Sequences, FiniteSets

CONSTANTS Procs, Workers, Requests, Managers,
          Home,          \* process of each refresher
          Retries,       \* attempts of a background worker
          MaxTokens,     \* bound: no token ages when there are so many
          MaxFaults      \* bound: failures, crashes and stops

Refreshers == Workers \cup Requests \cup Managers
Nobody == "nobody"

ASSUME RefreshAssumption ==
  /\ Home \in [Refreshers -> Procs]
  /\ Nobody \notin Refreshers
  /\ Retries \in Nat \ {0} /\ MaxTokens \in Nat \ {0} /\ MaxFaults \in Nat

VARIABLES
  row,        \* the provider: stored token, status, scheduling switch, pause, due
  parent,     \* the token each token was exchanged for, 0 if authorized by hand
  valid,      \* tokens the authorization server accepts
  lock,       \* who set the lock in Redis, which the lock itself does not say
  local,      \* holder of the lock of each process
  phase,      \* of each process: up, stopping, stopped
  active,     \* refreshers the coordinator has registered
  pc, seen, got, owns, next, tries,   \* of each refresher
  hurt,       \* what went wrong that the code cannot repair
  faults

vars == <<row, parent, valid, lock, local, phase, active,
          pc, seen, got, owns, next, tries, hurt, faults>>
server == <<parent, valid>>
locks == <<lock, local>>
process == <<phase, active>>
own == <<seen, got, owns, next, tries>>
history == <<hurt, faults>>

Snapshot == [token |-> row.token, status |-> row.status,
             sched |-> row.sched, paused |-> row.paused]
Unread == [token |-> 0, status |-> "active", sched |-> TRUE, paused |-> FALSE]

Init ==
  /\ row = [token |-> 1, status |-> "active", sched |-> TRUE, paused |-> FALSE,
            due |-> FALSE]
  /\ parent = <<0>> /\ valid = {1}
  /\ lock = Nobody /\ local = [p \in Procs |-> Nobody]
  /\ phase = [p \in Procs |-> "up"] /\ active = {}
  /\ pc = [r \in Refreshers |-> "idle"]
  /\ seen = [r \in Refreshers |-> Unread]
  /\ got = [r \in Refreshers |-> 0]
  /\ owns = [r \in Refreshers |-> FALSE]
  /\ next = [r \in Refreshers |-> "idle"]
  /\ tries = [r \in Refreshers |-> 0]
  /\ hurt = {} /\ faults = 0

Goes(r, stage) == pc' = [pc EXCEPT ![r] = stage]
(* A call is over and what it knew is gone. *)
Forgets(r) ==
  /\ seen' = [seen EXCEPT ![r] = Unread]
  /\ tries' = [tries EXCEPT ![r] = 0]
  /\ next' = [next EXCEPT ![r] = "idle"]

Stopped(r) == phase[Home[r]] # "up"     \* its context is cancelled
Faulty == faults < MaxFaults /\ faults' = faults + 1

(* A call of a client or an administrator is over; a worker scans again.   *)
Over(r) == IF r \in Workers THEN "idle" ELSE "done"

(* refreshIfNeeded returns: its locks are released and then the outcome is *)
(* dealt with.                                                             *)
Returns(r, outcome) ==
  /\ Goes(r, "release")
  /\ next' = [next EXCEPT ![r] = outcome]
  /\ got' = [got EXCEPT ![r] = 0]

(* A failure that may pass: the worker tries again and pauses the provider *)
(* in the end; a request and an administrator get the error.               *)
Transient(r) ==
  Returns(r, CASE r \notin Workers      -> "done"
               [] tries[r] < Retries    -> "retry"
               [] OTHER                 -> "pause")
-----------------------------------------------------------------------------
(* Administration, and time.                                               *)
InFlight == \E r \in Refreshers : pc[r] \in {"exchange", "persist"}
Hurts(what) == hurt' = hurt \cup {what}

(* Whatever the status is, and whatever the scheduling switch. *)
Cleared == [row EXCEPT !.status = "active", !.paused = FALSE]

(* UpdateProvider with new credentials, then ClearProviderError, of which  *)
(* any step may fail.                                                      *)
Reauthorize ==
  /\ Len(parent) < MaxTokens
  /\ parent' = Append(parent, 0)
  /\ valid' = valid \cup {Len(parent')}
  /\ \E clean \in {row, Cleared, [Cleared EXCEPT !.paused = row.paused]} :
       row' = [clean EXCEPT !.token = Len(parent'), !.due = FALSE]
  /\ UNCHANGED <<locks, process, pc, own, history>>

Changes(record) ==
  /\ row' = record
  /\ IF InFlight /\ record.status # row.status THEN Hurts("row") ELSE UNCHANGED hurt
  /\ UNCHANGED <<server, locks, process, pc, own, faults>>

ClearError ==
  \E clean \in {Cleared, [Cleared EXCEPT !.paused = row.paused]} : Changes(clean)

Disable == row.status = "active" /\ Changes([row EXCEPT !.status = "disabled"])

Switch ==
  /\ row' = [row EXCEPT !.sched = ~@]
  /\ UNCHANGED <<server, locks, process, pc, own, history>>

Age ==
  /\ Len(parent) < MaxTokens
  /\ row' = [row EXCEPT !.due = TRUE]
  /\ UNCHANGED <<server, locks, process, pc, own, history>>

PauseEnds ==
  /\ row.paused
  /\ row' = [row EXCEPT !.paused = FALSE]
  /\ UNCHANGED <<server, locks, process, pc, own, history>>
-----------------------------------------------------------------------------
(* What a refresher is admitted for: a worker for a candidate of its page, *)
(* a request for a token that is about to expire, an administrator always. *)
Wanted(r) ==
  CASE r \in Workers  -> row.status = "active" /\ row.sched /\ ~row.paused /\ row.due
    [] r \in Requests -> row.status = "active" /\ row.due
    [] OTHER          -> TRUE

(* Mutant: a call is not registered. *)
RegistersNothing(r) ==
  /\ Goes(r, "local")
  /\ UNCHANGED <<row, server, locks, process, seen, got, owns, next, history>>

(* beginRefresh registers the call unless the coordinator is stopped. *)
Registers(r) ==
  /\ active' = active \cup {r}
  /\ Goes(r, "local")
  /\ UNCHANGED <<row, server, locks, phase, seen, got, owns, next, history>>

Begin(r) ==
  /\ pc[r] = "idle" /\ ~Stopped(r) /\ Wanted(r)
  /\ tries' = [tries EXCEPT ![r] = 1]
  /\ Registers(r)

(* The backoff ends; a stop before its end leaves nothing more to do. *)
Retry(r) ==
  /\ pc[r] = "retry" /\ ~Stopped(r)
  /\ tries' = [tries EXCEPT ![r] = @ + 1]
  /\ Registers(r)

(* RefreshLock.Lock: the token and the cancellation compete. *)
TakeLocal(r) ==
  /\ pc[r] = "local"
  /\ \/ /\ local[Home[r]] = Nobody
        /\ local' = [local EXCEPT ![Home[r]] = r]
        /\ Goes(r, "redis") /\ UNCHANGED next
     \/ /\ Stopped(r)
        /\ Goes(r, "finish") /\ next' = [next EXCEPT ![r] = Over(r)]
        /\ UNCHANGED local
  /\ UNCHANGED <<row, server, lock, process, seen, got, owns, tries, history>>

(* Mutant: a contended lock is taken for a Redis that does not answer. *)
TakeRedisAnyway(r) ==
  /\ pc[r] = "redis"
  /\ lock' = IF lock = Nobody THEN r ELSE lock
  /\ owns' = [owns EXCEPT ![r] = lock = Nobody]
  /\ Goes(r, "reread")
  /\ UNCHANGED <<row, server, local, process, seen, got, next, tries, history>>

(* The stop barrier, then SETNX.  Contention is no failure. *)
TakeRedis(r) ==
  /\ pc[r] = "redis"
  /\ \/ /\ ~Stopped(r) /\ lock = Nobody
        /\ lock' = r /\ owns' = [owns EXCEPT ![r] = TRUE]
        /\ Goes(r, "reread") /\ UNCHANGED next
     \/ /\ Stopped(r) \/ lock # Nobody
        /\ Goes(r, "finish") /\ next' = [next EXCEPT ![r] = Over(r)]
        /\ UNCHANGED <<lock, owns>>
  /\ UNCHANGED <<row, server, local, process, seen, got, tries, history>>

(* A Redis that does not answer leaves the lock of the process alone; the  *)
(* command may have been executed, and a repeated one then reports false.  *)
RedisFails(r) ==
  /\ pc[r] = "redis" /\ ~Stopped(r) /\ Faulty /\ Hurts("lock")
  /\ \/ Goes(r, "reread") /\ lock' \in {lock, IF lock = Nobody THEN r ELSE lock}
        /\ UNCHANGED next
     \/ /\ lock = Nobody /\ lock' = r
        /\ Goes(r, "finish") /\ next' = [next EXCEPT ![r] = Over(r)]
  /\ UNCHANGED <<row, server, local, process, seen, got, owns, tries>>

Needed(r) == r \in Managers \/ (row.status = "active" /\ row.due)

(* GetByID under the locks: a peer may have refreshed meanwhile. *)
Reread(r) ==
  /\ pc[r] = "reread"
  /\ \/ /\ ~Stopped(r) /\ Needed(r)
        /\ seen' = [seen EXCEPT ![r] = Snapshot]
        /\ Goes(r, "exchange") /\ UNCHANGED <<next, got>>
     \/ /\ Stopped(r) \/ ~Needed(r)
        /\ Returns(r, Over(r)) /\ UNCHANGED seen
  /\ UNCHANGED <<row, server, locks, process, owns, tries, history>>
-----------------------------------------------------------------------------
Rotates(token) ==
  /\ parent' = Append(parent, token)
  /\ valid' = (valid \ {token}) \cup {Len(parent')}

(* The server executes the exchange or rejects the token. *)
Exchange(r) ==
  /\ pc[r] = "exchange"
  /\ \/ /\ ~Stopped(r) /\ seen[r].token \in valid
        /\ Rotates(seen[r].token)
        /\ got' = [got EXCEPT ![r] = Len(parent')]
        /\ Goes(r, "persist") /\ UNCHANGED next
     \/ /\ ~Stopped(r) /\ seen[r].token \notin valid
        /\ IF r \in Managers THEN Returns(r, "done")
                             ELSE Goes(r, "recover") /\ UNCHANGED <<next, got>>
        /\ UNCHANGED server
     \/ Stopped(r) /\ Returns(r, Over(r)) /\ UNCHANGED server
  /\ UNCHANGED <<row, locks, process, seen, owns, tries, history>>

(* The request fails on its way, or its reply does; an outage that lasts   *)
(* into the next attempt is one fault.                                     *)
ExchangeFails(r) ==
  /\ pc[r] = "exchange" /\ ~Stopped(r)
  /\ IF tries[r] > 1 THEN UNCHANGED faults ELSE Faulty
  /\ Transient(r)
  /\ \/ UNCHANGED <<server, hurt>>
     \/ seen[r].token \in valid /\ Rotates(seen[r].token) /\ Hurts("token")
  /\ UNCHANGED <<row, locks, process, seen, owns, tries>>

(* Mutant: the identity is not compared. *)
NotCompared(r) == TRUE

(* UpdateOAuthCredentialsIfUnchanged compares credentials and status. *)
Unchanged(r) == row.token = seen[r].token /\ row.status = seen[r].status

Stores(r) ==
  IF Unchanged(r) THEN row' = [row EXCEPT !.token = got[r], !.due = FALSE]
                  ELSE UNCHANGED row

(* A result that arrives after the stop is dropped; otherwise it is stored *)
(* or yields to what the row says now.                                     *)
Persist(r) ==
  /\ pc[r] = "persist"
  /\ \/ /\ ~Stopped(r)
        /\ Stores(r)
        /\ Returns(r, IF Unchanged(r) /\ r \in Workers THEN "clear" ELSE Over(r))
        /\ seen' = [seen EXCEPT ![r].token = IF Unchanged(r) THEN got[r] ELSE @]
        /\ UNCHANGED hurt
     \/ Stopped(r) /\ Returns(r, Over(r)) /\ Hurts("token") /\ UNCHANGED <<row, seen>>
  /\ UNCHANGED <<server, locks, process, owns, tries, faults>>

(* The deadline of the attempt passes before the reply is used, or the     *)
(* database does not answer, with or without having stored the result: then *)
(* nothing is known that a pause could compare.                            *)
PersistFails(r) ==
  /\ pc[r] = "persist" /\ ~Stopped(r) /\ Faulty
  /\ \/ UNCHANGED row /\ Hurts("token") /\ Transient(r)
     \/ /\ Returns(r, IF r \in Workers /\ tries[r] < Retries THEN "retry" ELSE Over(r))
        /\ \/ Stores(r) /\ UNCHANGED hurt
           \/ UNCHANGED row /\ Hurts("token")
  /\ UNCHANGED <<server, locks, process, seen, owns, tries>>

(* tryRecoverFromRefreshRace: another token in the row explains the        *)
(* rejection.                                                              *)
Recover(r) ==
  /\ pc[r] = "recover"
  /\ Returns(r, IF Stopped(r) \/ r \notin Workers \/ row.token # seen[r].token
                  THEN Over(r) ELSE "fail")
  /\ UNCHANGED <<row, server, locks, process, seen, owns, tries, history>>
-----------------------------------------------------------------------------
(* ReleaseRefreshLock deletes the key, whoever has set it. *)
Release(r) ==
  /\ pc[r] = "release"
  /\ lock' = IF owns[r] THEN Nobody ELSE lock
  /\ owns' = [owns EXCEPT ![r] = FALSE]
  /\ Goes(r, "finish")
  /\ UNCHANGED <<row, server, local, process, seen, got, next, tries, history>>

ReleaseFails(r) ==
  /\ pc[r] = "release" /\ owns[r] /\ Faulty /\ Hurts("lock")
  /\ owns' = [owns EXCEPT ![r] = FALSE]
  /\ Goes(r, "finish")
  /\ UNCHANGED <<row, server, locks, process, seen, got, next, tries>>

(* The lock of the process is given up, and then the registration.         *)
Finish(r) ==
  /\ pc[r] = "finish"
  /\ local' = [local EXCEPT ![Home[r]] = IF @ = r THEN Nobody ELSE @]
  /\ active' = active \ {r}
  /\ Goes(r, next[r])
  /\ IF next[r] \in {"idle", "done"} THEN Forgets(r) ELSE UNCHANGED <<seen, tries, next>>
  /\ UNCHANGED <<row, server, lock, phase, got, owns, history>>
-----------------------------------------------------------------------------
(* Mutant: the failure is written for the provider, not for its token. *)
StillActive(r) == row.status = seen[r].status

(* ApplyOAuthRefreshFailure compares the scheduling switch too. *)
AsRead(r) == Unchanged(r) /\ row.sched = seen[r].sched

After(r, stage, matches, change) ==
  /\ pc[r] = stage
  /\ row' = IF ~Stopped(r) /\ matches THEN change ELSE row
  /\ Goes(r, "idle") /\ Forgets(r)
  /\ UNCHANGED <<server, locks, process, got, owns, history>>

Condemn(r) ==
  After(r, "fail", AsRead(r), [row EXCEPT !.status = "error", !.sched = FALSE])
Pause(r) == After(r, "pause", AsRead(r), [row EXCEPT !.paused = TRUE])

(* ClearRefreshCooldownIfUnchanged compares the pause it has seen. *)
ClearCooldown(r) ==
  After(r, "clear", Unchanged(r) /\ seen[r].paused /\ row.paused, [row EXCEPT !.paused = FALSE])
-----------------------------------------------------------------------------
(* The lock expires: nobody will release it, or the exchange of a request  *)
(* or an administrator takes longer than its lifetime.  The attempt of a   *)
(* worker has a deadline before it.                                        *)
Held == \E r \in Refreshers : lock = r /\ owns[r]

(* Mutant: the key is set without a lifetime. *)
NeverExpires == FALSE /\ UNCHANGED vars

ExpireOrphan ==
  /\ lock # Nobody /\ ~Held
  /\ lock' = Nobody
  /\ UNCHANGED <<row, server, local, process, pc, own, history>>

ExpireHeld ==
  /\ Faulty /\ Hurts("lock")
  /\ \E r \in Requests \cup Managers :
       lock = r /\ owns[r] /\ pc[r] \in {"reread", "exchange", "persist", "recover"}
  /\ lock' = Nobody
  /\ UNCHANGED <<row, server, local, process, pc, own>>

Here(p) == {r \in Refreshers : Home[r] = p}

(* StopContext closes the barrier and cancels what is registered.          *)
Stop(p) ==
  /\ phase[p] = "up" /\ Faulty
  /\ phase' = [phase EXCEPT ![p] = "stopping"]
  /\ UNCHANGED <<row, server, locks, active, pc, own, hurt>>

Drained(p) ==
  /\ phase[p] = "stopping" /\ Here(p) \cap active = {}
  /\ phase' = [phase EXCEPT ![p] = "stopped"]
  /\ UNCHANGED <<row, server, locks, active, pc, own, history>>

(* The process ends, after its stop or without, and another one starts. *)
Restart(p) ==
  /\ \/ phase[p] = "stopped" /\ UNCHANGED faults
     \/ phase[p] # "stopped" /\ Faulty
  /\ phase' = [phase EXCEPT ![p] = "up"]
  /\ active' = active \ Here(p)
  /\ local' = [local EXCEPT ![p] = Nobody]
  /\ pc' = [r \in Refreshers |->
              IF r \notin Here(p) \/ pc[r] = "done" THEN pc[r] ELSE "idle"]
  /\ owns' = [r \in Refreshers |-> owns[r] /\ r \notin Here(p)]
  /\ got' = [r \in Refreshers |-> IF r \in Here(p) THEN 0 ELSE got[r]]
  /\ hurt' = hurt \cup {w \in {"token"} : \E r \in Here(p) : got[r] # 0}
                   \cup {w \in {"lock"} : \E r \in Here(p) : owns[r]}
  /\ seen' = [r \in Refreshers |-> IF r \in Here(p) THEN Unread ELSE seen[r]]
  /\ next' = [r \in Refreshers |-> IF r \in Here(p) THEN "idle" ELSE next[r]]
  /\ tries' = [r \in Refreshers |-> IF r \in Here(p) THEN 0 ELSE tries[r]]
  /\ UNCHANGED <<row, server, lock>>
-----------------------------------------------------------------------------
Step(r) ==
  \/ Begin(r) \/ Retry(r) \/ TakeLocal(r) \/ TakeRedis(r) \/ Reread(r)
  \/ Exchange(r) \/ Persist(r) \/ Recover(r)
  \/ Release(r) \/ Finish(r)
  \/ Condemn(r) \/ Pause(r) \/ ClearCooldown(r)

Fails(r) == RedisFails(r) \/ ExchangeFails(r) \/ PersistFails(r) \/ ReleaseFails(r)

Next ==
  \/ \E r \in Refreshers : Step(r) \/ Fails(r)
  \/ Reauthorize \/ ClearError \/ Disable \/ Switch \/ Age \/ PauseEnds
  \/ ExpireOrphan \/ ExpireHeld
  \/ \E p \in Procs : Stop(p) \/ Drained(p) \/ Restart(p)

Spec == Init /\ [][Next]_vars

(* Workers scan until they are stopped, an admitted call runs to its end,  *)
(* keys and pauses expire, and a stopped process is replaced.              *)
FairSpec ==
  /\ Spec
  /\ \A r \in Workers : WF_vars(Step(r))
  /\ \A r \in Requests \cup Managers : WF_vars(pc[r] # "idle" /\ Step(r))
  /\ WF_vars(ExpireOrphan) /\ WF_vars(PauseEnds)
  /\ \A p \in Procs :
       WF_vars(Drained(p)) /\ WF_vars(phase[p] = "stopped" /\ Restart(p))
-----------------------------------------------------------------------------
(* The result of an exchange is lost by nothing but a lost reply, a stop,  *)
(* a lock that ran out under its holder or an administrator who changes    *)
(* the status meanwhile: else the stored token is one the server accepts,  *)
(* or its successor is about to be stored.                                 *)
StoredTokenLives ==
  hurt = {} =>
    \/ row.token \in valid
    \/ \E r \in Refreshers :
         pc[r] = "persist" /\ got[r] \in valid /\ parent[got[r]] = row.token /\ Unchanged(r)

(* A refresh replaces the token it exchanged and no other: a late result   *)
(* never overwrites a newer authorization.                                 *)
LateResultsYield ==
  [][row'.token # row.token => parent'[row'.token] \in {0, row.token}]_vars

(* A provider is condemned only for a token that is dead: neither a        *)
(* failure of the way nor the rejection of an older token does it.  The    *)
(* permanent errors about a client, a scope or a subscription              *)
(* (IsNonRetryableRefreshError) are outside this module.                   *)
OnlyDeadIsCondemned ==
  [][row'.status = "error" /\ row.status # "error" => row.token \notin valid]_vars

(* A coordinator that reports its work as drained has left no lock behind  *)
(* that would keep another process from refreshing, and has no result in   *)
(* hand that it would still store.                                         *)
DrainedIsQuiet ==
  \A p \in Procs : phase[p] = "stopped" =>
    /\ local[p] = Nobody
    /\ "lock" \in hurt \/ lock \notin Here(p)
    /\ \A r \in Here(p) : got[r] = 0

(* A token that is due is refreshed, or its provider leaves the schedule. *)
DueIsRefreshed ==
  row.due ~> (~row.due \/ row.status # "active" \/ ~row.sched)
==============================================================================
