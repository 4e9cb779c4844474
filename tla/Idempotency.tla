----------------------------- MODULE Idempotency -----------------------------
(***************************************************************************)
(* The idempotency record of one command key and the requests that carry   *)
(* the key.  A request inserts the record or, finding one, replays it,     *)
(* waits, or takes it over by a conditional update; the winner runs the    *)
(* command and stores the outcome.  Every statement is one step, and a     *)
(* request decides with the time it read when it arrived.                  *)
(***************************************************************************)
EXTENDS Integers

CONSTANTS Requests, NoRow,
          PrintOf,     \* fingerprint of the payload of each request
          TTL,         \* retention of a record
          Timeout,     \* window of the processing lock
          Backoff,     \* wait after a retryable failure
          MaxStall,    \* bound: time a request spends before it owns or gives up
          MaxClock     \* bound: last instant

Statuses == {"processing", "succeeded", "failed_retryable"}
Prints == {PrintOf[r] : r \in Requests}
Rows == [id : Nat, print : Prints, status : Statuses,
         locked : Nat, expires : Nat]

ASSUME IdemAssumption ==
  /\ NoRow \notin Rows
  /\ TTL \in Nat /\ Timeout \in Nat /\ Backoff \in Nat
  /\ MaxStall \in Nat /\ MaxClock \in Nat
  /\ MaxStall < Timeout /\ Timeout <= TTL

VARIABLES
  clock,
  row,      \* the stored record, or NoRow; a NULL locked_until is 0
  lastId,   \* the last record id the database gave out
  pc,       \* where Execute of each request stands
  now,      \* the time it read on arrival
  seen,     \* the record it last read
  claim,    \* history: when the retention of its own claim ends
  sealed,   \* history: retention of the success it met on arrival, 0 if none
  broken    \* history: what went wrong so far

vars == <<clock, row, lastId, pc, now, seen, claim, sealed, broken>>
store == <<clock, row, lastId>>

Lookups == {"create", "get", "takeExpired", "reget", "takeFailed"}
Busy(r) == pc[r] \in {"run", "markSucceeded", "markFailed"}

(* A success that retries are still to be answered with. *)
Retained == row # NoRow /\ row.status = "succeeded" /\ row.expires > clock

Init ==
  /\ clock = 1 /\ row = NoRow /\ lastId = 0
  /\ pc = [r \in Requests |-> "new"]
  /\ now = [r \in Requests |-> 0]
  /\ seen = [r \in Requests |-> NoRow]
  /\ claim = [r \in Requests |-> 0]
  /\ sealed = [r \in Requests |-> 0]
  /\ broken = {}

Goes(r, stage) == pc' = [pc EXCEPT ![r] = stage]

Arrive(r) ==
  /\ pc[r] = "new"
  /\ now' = [now EXCEPT ![r] = clock]
  /\ sealed' = [sealed EXCEPT ![r] =
                   IF Retained /\ row.print = PrintOf[r] THEN row.expires ELSE 0]
  /\ Goes(r, "create")
  /\ UNCHANGED <<store, seen, claim, broken>>
-----------------------------------------------------------------------------
(* The record as a claim of the request leaves it: deadlines count from    *)
(* the arrival of the request.                                             *)
Claimed(r, id, print) ==
  [id |-> id, print |-> print, status |-> "processing",
   locked |-> now[r] + Timeout, expires |-> now[r] + TTL]

Own(r, id) ==
  /\ row' = Claimed(r, id, PrintOf[r])
  /\ claim' = [claim EXCEPT ![r] = now[r] + TTL]
  /\ seen' = [seen EXCEPT ![r] = row']
  /\ Goes(r, "run")
  /\ UNCHANGED <<clock, now, sealed>>

(* INSERT ... ON CONFLICT DO NOTHING. *)
Create(r) ==
  /\ pc[r] = "create"
  /\ \/ /\ row = NoRow
        /\ lastId' = lastId + 1
        /\ Own(r, lastId')
     \/ /\ row # NoRow
        /\ Goes(r, "get")
        /\ UNCHANGED <<store, now, seen, claim, sealed>>
  /\ UNCHANGED broken

(* Mutant: a stored success is run again like a failure. *)
VerdictReruns(r) ==
  IF row.status # "processing" /\ row.locked <= now[r] THEN "takeFailed" ELSE "done"

(* What an existing record of the same payload means to the request. *)
Verdict(r) ==
  IF row.status = "failed_retryable" /\ row.locked <= now[r] THEN "takeFailed" ELSE "done"

Foreign(r) == row = NoRow \/ row.print # PrintOf[r]

(* SELECT of the record, which the request keeps.                          *)
Reads(r) ==
  /\ seen' = [seen EXCEPT ![r] = row]
  /\ UNCHANGED <<store, now, claim, sealed, broken>>

Get(r) ==
  /\ pc[r] = "get"
  /\ Goes(r, CASE Foreign(r) -> "done"
               [] ~Foreign(r) /\ row.expires <= now[r] -> "takeExpired"
               [] OTHER -> Verdict(r))
  /\ Reads(r)

(* The record is read again after a takeover that did not succeed, this    *)
(* time whether or not it has expired.                                     *)
Reget(r) ==
  /\ pc[r] = "reget"
  /\ Goes(r, IF Foreign(r) THEN "done" ELSE Verdict(r))
  /\ Reads(r)

(* Mutant: the update looks at the status only. *)
ReclaimableLocked(r, status) ==
  row # NoRow /\ row.id = seen[r].id /\ row.status = status

(* UPDATE ... WHERE id AND status = the status read AND the lock has run   *)
(* out; the expiry of the record is not looked at again.                   *)
Reclaimable(r, status) ==
  /\ row # NoRow
  /\ row.id = seen[r].id
  /\ row.status = status
  /\ row.locked <= now[r]

Take(r, stage, otherwise) ==
  /\ pc[r] = stage
  /\ \/ /\ Reclaimable(r, seen[r].status)
        /\ Own(r, row.id)
        /\ broken' = IF Retained THEN broken \cup {"success reclaimed"} ELSE broken
        /\ UNCHANGED lastId
     \/ /\ ~Reclaimable(r, seen[r].status)
        /\ Goes(r, otherwise)
        /\ UNCHANGED <<store, now, seen, claim, sealed, broken>>

TakeExpired(r) == Take(r, "takeExpired", "reget")
TakeFailed(r) == Take(r, "takeFailed", "done")
-----------------------------------------------------------------------------
(* The command runs; the process may stop in it. *)
Run(r) ==
  /\ pc[r] = "run"
  /\ \E stage \in {"markSucceeded", "markFailed", "done"} : Goes(r, stage)
  /\ UNCHANGED <<store, now, seen, claim, sealed, broken>>

(* The outcome is stored under the id alone, whoever owns the record by    *)
(* now, with the retention that counts from the arrival of the request.    *)
Outcome(r) ==
  IF pc[r] = "markSucceeded"
  THEN [row EXCEPT !.status = "succeeded", !.locked = 0, !.expires = now[r] + TTL]
  ELSE [row EXCEPT !.status = "failed_retryable", !.locked = clock + Backoff,
                   !.expires = now[r] + TTL]

Mark(r) ==
  /\ pc[r] \in {"markSucceeded", "markFailed"}
  /\ \/ /\ row # NoRow /\ row.id = seen[r].id
        /\ row' = Outcome(r)
        /\ broken' = IF claim[r] <= clock THEN broken \cup {"late outcome"} ELSE broken
     \/ UNCHANGED <<row, broken>>   \* the row is gone, or the statement failed
  /\ Goes(r, "done")
  /\ UNCHANGED <<clock, lastId, now, seen, claim, sealed>>
-----------------------------------------------------------------------------
DeleteExpired ==
  /\ row # NoRow
  /\ row.expires <= clock
  /\ row' = NoRow
  /\ UNCHANGED <<clock, lastId, pc, now, seen, claim, sealed, broken>>

Tick ==
  /\ clock < MaxClock
  /\ \A r \in Requests : pc[r] \in Lookups => clock - now[r] < MaxStall
  /\ clock' = clock + 1
  /\ UNCHANGED <<row, lastId, pc, now, seen, claim, sealed, broken>>

Execute(r) ==
  \/ Arrive(r) \/ Create(r) \/ Get(r) \/ Reget(r)
  \/ TakeExpired(r) \/ TakeFailed(r) \/ Run(r) \/ Mark(r)

Next == DeleteExpired \/ Tick \/ \E r \in Requests : Execute(r)

Spec == Init /\ [][Next]_vars
-----------------------------------------------------------------------------
(* Two requests run the command at the same time only when the retention   *)
(* of one of them has passed, or when a request that outlived its          *)
(* retention has overwritten the record of its successor                   *)
(* (idempotency.go:413-414: expiry alone cannot replace an active lock).   *)
OneClaimant ==
  \A r, s \in Requests :
     r # s /\ Busy(r) /\ Busy(s) =>
        claim[r] <= clock \/ claim[s] <= clock \/ "late outcome" \in broken

(* A request that arrives while a success of its command is retained does  *)
(* not run the command again within that retention, whatever it reads and  *)
(* whatever is deleted or taken over in between.                           *)
LateArrivalReplays ==
  [][\A r \in Requests :
        ~Busy(r) /\ Busy(r)' => sealed[r] <= clock \/ broken # {}]_vars

(* A command that succeeded is run again only after its retention: "may    *)
(* reclaim its existing record after the relevant retention or retry-lock  *)
(* window expires" (idempotency.go:36-37).                                 *)
RepeatsOnlyAfterExpiry ==
  [][\A r \in Requests : ~Busy(r) /\ Busy(r)' => ~Retained]_vars
==============================================================================
