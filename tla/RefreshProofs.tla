---------------------------- MODULE RefreshProofs ----------------------------
(***************************************************************************)
(* The safety properties of TokenRefresh, for any processes, refreshers    *)
(* and bounds.  They rest on four arguments: whoever works is registered   *)
(* with its process; whoever exchanges holds the key in Redis unless the   *)
(* key was lost; a token that was refused stays refused, and the token a   *)
(* refresher was given is known to nobody else until it is stored.         *)
(***************************************************************************)
EXTENDS TokenRefresh, SequenceTheorems, TLAPS

Stages == {"idle", "local", "redis", "reread", "exchange", "persist", "recover",
           "release", "finish", "retry", "fail", "pause", "clear", "done"}
Outcomes == {"idle", "done", "retry", "pause", "fail", "clear"}
Locked == {"reread", "exchange", "persist", "recover", "release"}
Working == Locked \cup {"local", "redis", "finish"}
RowStatuses == {"active", "disabled", "error"}
Rows == [token : Nat, status : RowStatuses, sched : BOOLEAN, paused : BOOLEAN,
         due : BOOLEAN]
Reads == [token : Nat, status : RowStatuses, sched : BOOLEAN, paused : BOOLEAN]
Tokens == 1..Len(parent)

(* The shapes of the variables, in groups that change together. *)
ServerShapes ==
  /\ parent \in Seq(Nat) /\ valid \subseteq Tokens
RowShapes ==
  /\ row \in Rows
  /\ row.token \in Tokens
LockShapes ==
  /\ lock \in Refreshers \cup {Nobody}
  /\ local \in [Procs -> Refreshers \cup {Nobody}]
  /\ owns \in [Refreshers -> BOOLEAN]
ProcessShapes ==
  /\ phase \in [Procs -> {"up", "stopping", "stopped"}]
  /\ active \subseteq Refreshers
  /\ hurt \subseteq {"token", "lock", "row"}
StageShapes ==
  /\ pc \in [Refreshers -> Stages] /\ next \in [Refreshers -> Outcomes]
  /\ tries \in [Refreshers -> Nat]
ReadShapes ==
  /\ seen \in [Refreshers -> Reads]
  /\ got \in [Refreshers -> Nat]
  /\ \A r \in Refreshers : seen[r].token \in Tokens \cup {0} /\ got[r] \in Tokens \cup {0}
Shapes ==
  ServerShapes /\ RowShapes /\ LockShapes /\ ProcessShapes /\ StageShapes /\ ReadShapes

(* Whoever works is registered, and only for those a process is waited for *)
(* can hold its lock or a result.                                          *)
Registered == \A r \in Refreshers : pc[r] \in Working => r \in active
StoppedIsIdle == \A p \in Procs : phase[p] = "stopped" => Here(p) \cap active = {}
LocalIsHeld ==
  \A p \in Procs : local[p] # Nobody =>
    Home[local[p]] = p /\ pc[local[p]] \in Working \ {"local"}
ResultInHand == \A r \in Refreshers : got[r] # 0 <=> pc[r] = "persist"
Barrier == Registered /\ StoppedIsIdle /\ LocalIsHeld /\ ResultInHand

(* Unless the key was lost, it is there for the one who works under it. *)
KeyIsHeld ==
  \A r \in Refreshers :
    /\ owns[r] => pc[r] \in Locked
    /\ "lock" \in hurt \/ (owns[r] <=> lock = r)
    /\ "lock" \in hurt \/ (pc[r] \in Locked \ {"release"} => owns[r])

(* A refresher whose token was refused, on its way to say so. *)
Refused(r) ==
  \/ pc[r] \in {"recover", "fail"}
  \/ pc[r] \in {"release", "finish"} /\ next[r] = "fail"
RefusedIsDead == \A r \in Refreshers : Refused(r) => seen[r].token \notin valid

(* The token a refresher was given succeeds the one it read and is still   *)
(* its secret.                                                             *)
Secret ==
  \A r \in Refreshers : pc[r] = "persist" =>
    /\ got[r] \in valid /\ parent[got[r]] = seen[r].token
    /\ got[r] # row.token
    /\ \A s \in Refreshers : seen[s].token # got[r] /\ (got[s] = got[r] => s = r)
TokensKnown == RefusedIsDead /\ Secret

(* Nobody's status changes under an exchange that can succeed. *)
StatusStands ==
  \A r \in Refreshers : hurt = {} /\ seen[r].token = row.token =>
    /\ pc[r] = "exchange" /\ seen[r].token \in valid => row.status = seen[r].status
    /\ pc[r] = "persist" => row.status = seen[r].status
NoRival ==
  \A r, s \in Refreshers : hurt = {} /\ pc[r] = "persist" /\ Refused(s) =>
    seen[s].token # seen[r].token
RowKnown == StatusStands /\ NoRival /\ StoredTokenLives

RefreshInv == Shapes /\ Barrier /\ KeyIsHeld /\ TokensKnown /\ RowKnown
-----------------------------------------------------------------------------
(* A new token is a new one, and those there were keep their origin. *)
LEMMA ServerGrows ==
  ASSUME ServerShapes, NEW x \in Nat, parent' = Append(parent, x)
  PROVE  /\ parent' \in Seq(Nat) /\ Len(parent) \in Nat
         /\ Len(parent') = Len(parent) + 1
         /\ Tokens' = Tokens \cup {Len(parent')}
         /\ Len(parent') \in Nat \ {0} /\ Len(parent') \notin Tokens
         /\ parent'[Len(parent')] = x
         /\ \A i \in Tokens : parent'[i] = parent[i]
<1>1. parent \in Seq(Nat) /\ Len(parent) \in Nat
  BY DEF ServerShapes
<1>2. /\ parent' \in Seq(Nat) /\ Len(parent') = Len(parent) + 1
      /\ parent'[Len(parent) + 1] = x
      /\ \A i \in 1..Len(parent) : parent'[i] = parent[i]
  BY <1>1, AppendProperties
<1> QED BY <1>1, <1>2 DEF Tokens

(* What the writes to the row change. *)
LEMMA RowStored ==
  ASSUME NEW old \in Rows, NEW t \in Nat,
         NEW new, new = [old EXCEPT !.token = t, !.due = FALSE]
  PROVE  new \in Rows /\ new.token = t /\ new.status = old.status
BY DEF Rows

LEMMA RowEdited ==
  ASSUME row \in Rows,
         NEW new \in {[row EXCEPT !.sched = ~@], [row EXCEPT !.due = TRUE],
                      [row EXCEPT !.paused = FALSE], [row EXCEPT !.paused = TRUE]}
  PROVE  new \in Rows /\ new.token = row.token /\ new.status = row.status
BY DEF Rows

LEMMA RowMarked ==
  ASSUME row \in Rows,
         NEW new \in {[row EXCEPT !.status = "disabled"],
                      [row EXCEPT !.status = "error", !.sched = FALSE]}
  PROVE  /\ new \in Rows /\ new.token = row.token
         /\ new.status \in {"disabled", "error"}
<1>1. [row EXCEPT !.status = "disabled"] \in Rows
  BY DEF Rows, RowStatuses
<1>2. [row EXCEPT !.status = "error", !.sched = FALSE] \in Rows
  BY DEF Rows, RowStatuses
<1>3. /\ [row EXCEPT !.status = "disabled"].token = row.token
      /\ [row EXCEPT !.status = "disabled"].status = "disabled"
      /\ [row EXCEPT !.status = "error", !.sched = FALSE].token = row.token
      /\ [row EXCEPT !.status = "error", !.sched = FALSE].status = "error"
  BY DEF Rows
<1> QED BY <1>1, <1>2, <1>3

LEMMA RowCleared ==
  ASSUME row \in Rows,
         NEW clean \in {row, Cleared, [Cleared EXCEPT !.paused = row.paused]}
  PROVE  clean \in Rows /\ clean.token = row.token
<1>1. CASE clean = row
  BY <1>1 DEF Rows
<1>2. Cleared \in Rows /\ Cleared.token = row.token
  BY DEF Rows, Cleared, RowStatuses
<1>3. CASE clean = [Cleared EXCEPT !.paused = row.paused]
  BY <1>2, <1>3 DEF Rows
<1> QED BY <1>1, <1>2, <1>3

LEMMA RowIsRead ==
  /\ row \in Rows => /\ Snapshot \in Reads /\ Snapshot.token = row.token
                     /\ Snapshot.status = row.status
  /\ Unread \in Reads /\ Unread.token = 0
BY DEF Rows, Snapshot, Unread, Reads, RowStatuses

(* A failed attempt returns, to be repeated or not. *)
LEMMA FailureReturns ==
  ASSUME NEW r \in Refreshers, ExchangeFails(r) \/ PersistFails(r)
  PROVE  \E outcome \in {"idle", "done", "retry", "pause"} : Returns(r, outcome)
<1>1. ASSUME Transient(r)
      PROVE  \E outcome \in {"idle", "done", "retry", "pause"} : Returns(r, outcome)
  <2>1. CASE r \notin Workers
    BY <1>1, <2>1 DEF Transient
  <2>2. CASE r \in Workers /\ tries[r] < Retries
    BY <1>1, <2>2 DEF Transient
  <2>3. CASE r \in Workers /\ ~(tries[r] < Retries)
    BY <1>1, <2>3 DEF Transient
  <2> QED BY <2>1, <2>2, <2>3
<1> QED BY <1>1 DEF ExchangeFails, PersistFails, Over

LEMMA ExchangeReturns ==
  ASSUME NEW r \in Refreshers, Exchange(r)
  PROVE  /\ UNCHANGED <<row, locks, process, seen, owns, tries, history>>
         /\ pc[r] = "exchange"
         /\ \/ /\ ~Stopped(r) /\ seen[r].token \in valid /\ Rotates(seen[r].token)
               /\ Goes(r, "persist") /\ UNCHANGED next
               /\ got' = [got EXCEPT ![r] = Len(parent')]
            \/ /\ seen[r].token \notin valid
               /\ Goes(r, "recover") /\ UNCHANGED <<server, next, got>>
            \/ /\ \E outcome \in {"idle", "done"} : Returns(r, outcome)
               /\ UNCHANGED server
BY DEF Exchange, Over

LEMMA PersistReturns ==
  ASSUME NEW r \in Refreshers, Persist(r)
  PROVE  \E outcome \in {"idle", "done", "clear"} : Returns(r, outcome)
<1>1. CASE Returns(r, IF Unchanged(r) /\ r \in Workers THEN "clear" ELSE Over(r))
  BY <1>1 DEF Over
<1> QED BY <1>1 DEF Persist, Over

(* Under the key one goes on, or to its release. *)
LEMMA KeyStays ==
  ASSUME StageShapes, KeyIsHeld, NEW r \in Refreshers, pc[r] \in Locked \ {"release"},
         NEW stage \in Locked, Goes(r, stage),
         UNCHANGED <<lock, owns>>, hurt \subseteq hurt'
  PROVE  KeyIsHeld'
<1> SUFFICES ASSUME NEW s \in Refreshers
             PROVE  /\ owns[s] => pc'[s] \in Locked
                    /\ "lock" \in hurt' \/ (owns[s] <=> lock = s)
                    /\ "lock" \in hurt' \/ (pc'[s] \in Locked \ {"release"} => owns[s])
  BY DEF KeyIsHeld
<1>1. /\ owns[s] => pc[s] \in Locked
      /\ "lock" \in hurt \/ (owns[s] <=> lock = s)
      /\ "lock" \in hurt \/ (pc[s] \in Locked \ {"release"} => owns[s])
  BY DEF KeyIsHeld
<1>2. CASE s = r
  BY <1>1, <1>2 DEF Goes, StageShapes
<1>3. CASE s # r
  BY <1>1, <1>3 DEF Goes, StageShapes
<1> QED BY <1>2, <1>3

(* A result is stored for the token it succeeds, or the row stays. *)
LEMMA ResultStored ==
  ASSUME Shapes, Barrier, NEW r \in Refreshers, pc[r] = "persist",
         Stores(r) \/ UNCHANGED row
  PROVE  /\ row' \in Rows /\ row'.token \in Tokens /\ row'.status = row.status
         /\ row' = row \/ (Stores(r) /\ Unchanged(r) /\ row'.token = got[r])
<1>1. got[r] \in Tokens /\ got[r] \in Nat
  BY DEF Shapes, ReadShapes, Barrier, ResultInHand
<1>2. row \in Rows /\ row.token \in Tokens
  BY DEF Shapes, RowShapes
<1>3. CASE Stores(r) /\ Unchanged(r)
  <2>1. row' = [row EXCEPT !.token = got[r], !.due = FALSE]
    BY <1>3 DEF Stores
  <2>2. row' \in Rows /\ row'.token = got[r] /\ row'.status = row.status
    BY <1>1, <1>2, <2>1, RowStored, ZenonT(60)
  <2> QED BY <1>1, <1>3, <2>2
<1>4. CASE ~(Stores(r) /\ Unchanged(r))
  BY <1>2, <1>4 DEF Stores
<1> QED BY <1>3, <1>4

LEMMA WhatIsStored ==
  ASSUME Shapes, Barrier, NEW r \in Refreshers, pc[r] = "persist", Stores(r), Unchanged(r)
  PROVE  row'.token = got[r]
<1>1. row \in Rows
  BY DEF Shapes, RowShapes
<1> QED BY <1>1 DEF Stores, Rows

(* What the owner of a stored result knows then. *)
LEMMA ResultRead ==
  ASSUME Shapes, Barrier, NEW r \in Refreshers, Persist(r)
  PROVE  /\ seen' \in [Refreshers -> Reads]
         /\ \A s \in Refreshers \ {r} : seen'[s] = seen[s]
         /\ seen'[r].token \in Tokens \cup {0}
         /\ seen'[r].token = seen[r].token \/ (~Stopped(r) /\ Unchanged(r) /\ seen'[r].token = got[r])
<1> DEFINE Stored(t) == [seen EXCEPT ![r].token = t]
<1>1. ASSUME NEW t \in Nat
      PROVE  /\ Stored(t) \in [Refreshers -> Reads] /\ Stored(t)[r].token = t
             /\ \A s \in Refreshers \ {r} : Stored(t)[s] = seen[s]
  BY DEF Shapes, ReadShapes, Reads
<1>2. seen[r].token \in Tokens \cup {0} /\ got[r] \in Tokens /\ Tokens \subseteq Nat
  BY DEF Shapes, ReadShapes, Persist, Barrier, ResultInHand, Tokens
<1>3. \/ UNCHANGED seen
      \/ ~Stopped(r) /\ Unchanged(r) /\ seen' = Stored(got[r])
      \/ seen' = Stored(seen[r].token)
  BY DEF Persist
<1> HIDE DEF Stored
<1>4. CASE UNCHANGED seen
  BY <1>2, <1>4 DEF Shapes, ReadShapes
<1>5. CASE ~Stopped(r) /\ Unchanged(r) /\ seen' = Stored(got[r])
  BY <1>1, <1>2, <1>5
<1>6. CASE seen' = Stored(seen[r].token)
  BY <1>1, <1>2, <1>6
<1> QED BY <1>3, <1>4, <1>5, <1>6

(* A new authorization is a token nobody has seen. *)
LEMMA RowReauthorized ==
  ASSUME Shapes, Reauthorize
  PROVE  row' \in Rows /\ row'.token = Len(parent')
<1>1. ASSUME NEW clean \in Rows, NEW t \in Nat, row' = [clean EXCEPT !.token = t, !.due = FALSE]
      PROVE  row' \in Rows /\ row'.token = t
  BY <1>1 DEF Rows
<1>2. PICK clean \in {row, Cleared, [Cleared EXCEPT !.paused = row.paused]} :
        row' = [clean EXCEPT !.token = Len(parent'), !.due = FALSE]
  BY DEF Reauthorize
<1>3. clean \in Rows
  BY RowCleared DEF Shapes, RowShapes
<1>4. Len(parent') \in Nat
  BY ServerGrows DEF Shapes, Reauthorize
<1> QED BY <1>1, <1>2, <1>3, <1>4

(* The server forgets tokens, and adds none but new ones. *)
LEMMA OldTokensOnly ==
  ASSUME Shapes, [Next]_vars
  PROVE  /\ \A t \in Tokens \cup {0} : t \in valid' => t \in valid
         /\ \A t \in Tokens : parent'[t] = parent[t]
         /\ Tokens \subseteq Tokens' /\ 0 \notin Tokens
<1>1. CASE UNCHANGED server
  BY <1>1 DEF server, Tokens
<1>2. CASE Reauthorize \/ \E r \in Refreshers : Rotates(seen[r].token)
  <2>1. \E x \in Nat : parent' = Append(parent, x) /\ valid' \subseteq valid \cup {Len(parent')}
    BY <1>2 DEF Reauthorize, Rotates, Shapes, ReadShapes, Reads
  <2> QED BY <2>1, ServerGrows DEF Shapes, Tokens
<1>3. UNCHANGED server \/ Reauthorize \/ \E r \in Refreshers : Rotates(seen[r].token)
  <2> USE DEF server
  <2>1. ASSUME NEW r \in Refreshers, Step(r)
        PROVE  UNCHANGED server \/ Rotates(seen[r].token)
    BY <2>1 DEF Step, Begin, Retry, Registers, TakeLocal, TakeRedis, Reread, Exchange, Persist,
                Recover, Release, Finish, Condemn, Pause, ClearCooldown, After
  <2>2. ASSUME NEW r \in Refreshers, Fails(r)
        PROVE  UNCHANGED server \/ Rotates(seen[r].token)
    BY <2>2 DEF Fails, RedisFails, ExchangeFails, PersistFails, ReleaseFails
  <2>3. ASSUME NEW p \in Procs, Stop(p) \/ Drained(p) \/ Restart(p)
        PROVE  UNCHANGED server
    BY <2>3 DEF Stop, Drained, Restart
  <2>4. ASSUME ClearError \/ Disable \/ Switch \/ Age \/ PauseEnds \/ ExpireOrphan \/ ExpireHeld
        PROVE  UNCHANGED server
    BY <2>4 DEF ClearError, Disable, Changes, Switch, Age, PauseEnds, ExpireOrphan, ExpireHeld
  <2>5. CASE UNCHANGED vars
    BY <2>5 DEF vars
  <2> QED BY <2>1, <2>2, <2>3, <2>4, <2>5 DEF Next
<1> QED BY <1>1, <1>2, <1>3

(* A secret is kept by those who read the row only. *)
LEMMA SecretStays ==
  ASSUME Shapes, Barrier, Secret, UNCHANGED server, row'.token = row.token,
         \A s \in Refreshers :
           /\ seen'[s].token \in {seen[s].token, row.token, 0}
           /\ got'[s] \in {got[s], 0}
           /\ pc'[s] = "persist" =>
                pc[s] = "persist" /\ got'[s] = got[s] /\ seen'[s].token = seen[s].token
  PROVE  Secret'
<1> SUFFICES ASSUME NEW r \in Refreshers, pc'[r] = "persist"
             PROVE  /\ got'[r] \in valid' /\ parent'[got'[r]] = seen'[r].token
                    /\ got'[r] # row'.token
                    /\ \A s \in Refreshers : seen'[s].token # got'[r] /\ (got'[s] = got'[r] => s = r)
  BY DEF Secret
<1>1. /\ got[r] \in valid /\ parent[got[r]] = seen[r].token /\ got[r] # row.token
      /\ \A s \in Refreshers : seen[s].token # got[r] /\ (got[s] = got[r] => s = r)
  BY DEF Secret
<1>2. got[r] # 0
  BY DEF Barrier, ResultInHand
<1> QED BY <1>1, <1>2 DEF server

(* The status stands for those who read the row as it is. *)
LEMMA StatusStays ==
  ASSUME Shapes, [Next]_vars, StatusStands, hurt \subseteq hurt', row'.status = row.status,
         \A s \in Refreshers : pc'[s] \in {"exchange", "persist"} =>
           \/ /\ pc'[s] = pc[s] /\ seen'[s] = seen[s]
              /\ row'.token = row.token \/ seen[s].token # row'.token
           \/ seen'[s].status = row.status
  PROVE  StatusStands'
<1> SUFFICES ASSUME NEW s \in Refreshers, hurt' = {}, seen'[s].token = row'.token
             PROVE  /\ pc'[s] = "exchange" /\ seen'[s].token \in valid' => row'.status = seen'[s].status
                    /\ pc'[s] = "persist" => row'.status = seen'[s].status
  BY DEF StatusStands
<1>1. hurt = {}
  OBVIOUS
<1>2. CASE pc'[s] \notin {"exchange", "persist"} \/ seen'[s].status = row.status
  BY <1>2
<1>3. CASE /\ pc'[s] = pc[s] /\ seen'[s] = seen[s]
           /\ row'.token = row.token \/ seen[s].token # row'.token
  <2>1. seen[s].token \in valid' => seen[s].token \in valid
    BY OldTokensOnly DEF Shapes, ReadShapes
  <2> QED BY <1>1, <1>3, <2>1 DEF StatusStands
<1> QED BY <1>2, <1>3

LEMMA RivalsStay ==
  ASSUME NoRival, hurt \subseteq hurt',
         \A s \in Refreshers :
           /\ pc'[s] = "persist" => pc[s] = "persist" /\ seen'[s].token = seen[s].token
           /\ Refused(s)' => Refused(s) /\ seen'[s].token = seen[s].token
  PROVE  NoRival'
BY DEF NoRival

(* Two refreshers work under the key in turn. *)
LEMMA OneUnderTheKey ==
  ASSUME KeyIsHeld, NEW r \in Refreshers, NEW s \in Refreshers, hurt = {},
         pc[r] \in {"exchange", "persist"}, pc[s] \in {"exchange", "persist"}
  PROVE  r = s
BY DEF KeyIsHeld, Locked

(* A token that lives goes on living, and so does its successor. *)
LEMMA LivesOn ==
  ASSUME StoredTokenLives, UNCHANGED server, row'.token = row.token,
         hurt' = {} => hurt = {},
         row.token \in valid \/ row'.status = row.status,
         \A s \in Refreshers : pc[s] = "persist" /\ Unchanged(s) =>
           pc'[s] = "persist" /\ got'[s] = got[s] /\ seen'[s] = seen[s]
  PROVE  StoredTokenLives'
<1> SUFFICES ASSUME hurt' = {}, row.token \notin valid
             PROVE  \E s \in Refreshers :
                      pc'[s] = "persist" /\ got'[s] \in valid' /\ parent'[got'[s]] = row'.token
                      /\ Unchanged(s)'
  BY DEF StoredTokenLives, server
<1>1. PICK s \in Refreshers :
        pc[s] = "persist" /\ got[s] \in valid /\ parent[got[s]] = row.token /\ Unchanged(s)
  BY DEF StoredTokenLives
<1> WITNESS s \in Refreshers
<1> QED BY <1>1 DEF Unchanged, server

(* Steps that neither touch the row nor bring a call into an exchange or out of it. *)
LEMMA QuietSteps ==
  ASSUME Shapes, NEW r \in Refreshers,
         \/ Begin(r) \/ Retry(r) \/ TakeLocal(r) \/ TakeRedis(r) \/ RedisFails(r)
         \/ Recover(r) \/ Release(r) \/ ReleaseFails(r)
  PROVE  /\ UNCHANGED <<row, server, seen>> /\ hurt \subseteq hurt'
         /\ pc[r] \in {"idle", "retry", "local", "redis", "recover", "release"}
         /\ pc'[r] \in {"local", "redis", "reread", "finish", "release"}
         /\ \A s \in Refreshers \ {r} : pc'[s] = pc[s] /\ next'[s] = next[s] /\ got'[s] = got[s]
         /\ got'[r] \in {got[r], 0}
         /\ Refused(r)' => Refused(r)
<1> USE DEF Goes, own, server, history, Hurts, Over
<1>1. pc \in [Refreshers -> Stages] /\ next \in [Refreshers -> Outcomes]
  BY DEF Shapes, StageShapes
<1>2. got \in [Refreshers -> Nat]
  BY DEF Shapes, ReadShapes
<1>3. CASE Begin(r) \/ Retry(r)
  BY <1>1, <1>3 DEF Begin, Retry, Registers, Refused
<1>4. CASE TakeLocal(r)
  BY <1>1, <1>4 DEF TakeLocal, Refused
<1>5. CASE TakeRedis(r)
  BY <1>1, <1>5 DEF TakeRedis, Refused
<1>6. CASE RedisFails(r)
  BY <1>1, <1>6 DEF RedisFails, Refused
<1>7. CASE Recover(r)
  <2>1. PICK outcome : Returns(r, outcome)
    BY <1>7 DEF Recover
  <2> QED BY <1>1, <1>2, <1>7, <2>1 DEF Recover, Returns, Refused
<1>8. CASE Release(r) \/ ReleaseFails(r)
  BY <1>1, <1>8 DEF Release, ReleaseFails, Refused
<1> QED BY <1>3, <1>4, <1>5, <1>6, <1>7, <1>8

(* Changes of the row that leave its token, and of what is around it. *)
QuietChange ==
  \/ ClearError \/ Disable \/ Switch \/ Age \/ PauseEnds \/ ExpireOrphan \/ ExpireHeld
  \/ \E p \in Procs : Stop(p) \/ Drained(p)
LEMMA QuietChanges ==
  ASSUME Shapes, QuietChange
  PROVE  /\ UNCHANGED <<server, local, active, pc, seen, got, owns, next, tries>> /\ hurt \subseteq hurt'
         /\ row' \in Rows /\ row'.token = row.token
         /\ row'.status = row.status \/ (UNCHANGED hurt /\ ~InFlight) \/ hurt' # {}
<1> USE DEF own, server, locks, process, history, Hurts
<1>1. row \in Rows
  BY DEF Shapes, RowShapes
<1>2. ASSUME NEW record \in Rows, record.token = row.token, Changes(record)
      PROVE  /\ UNCHANGED <<server, local, active, pc, seen, got, owns, next, tries>> /\ hurt \subseteq hurt'
             /\ row' \in Rows /\ row'.token = row.token
             /\ row'.status = row.status \/ (UNCHANGED hurt /\ ~InFlight) \/ hurt' # {}
  BY <1>2 DEF Changes
<1>3. CASE ClearError \/ Disable
  <2>1. PICK record \in Rows : record.token = row.token /\ Changes(record)
    BY <1>1, <1>3, RowCleared, RowMarked DEF ClearError, Disable
  <2> QED BY <1>2, <2>1
<1>4. CASE Switch \/ Age \/ PauseEnds
  BY <1>1, <1>4, RowEdited DEF Switch, Age, PauseEnds
<1>5. CASE ExpireOrphan \/ ExpireHeld \/ \E p \in Procs : Stop(p) \/ Drained(p)
  BY <1>1, <1>5 DEF ExpireOrphan, ExpireHeld, Stop, Drained
<1> QED BY <1>3, <1>4, <1>5 DEF QuietChange

(* A worker deals with the outcome and forgets the call. *)
LEMMA AfterSteps ==
  ASSUME Shapes, NEW r \in Refreshers, Condemn(r) \/ Pause(r) \/ ClearCooldown(r)
  PROVE  /\ UNCHANGED <<server, lock, local, phase, active, got, owns, hurt>>
         /\ pc[r] \in {"fail", "pause", "clear"} /\ Goes(r, "idle") /\ Forgets(r)
         /\ row' \in Rows /\ row'.token = row.token
<1>1. row \in Rows
  BY DEF Shapes, RowShapes
<1> QED BY <1>1, RowMarked, RowEdited
        DEF Condemn, Pause, ClearCooldown, After, server, locks, process, history

(* The tokens of the server keep their shape. *)
LEMMA ServerShapesKept ==
  ASSUME RefreshInv, [Next]_vars PROVE ServerShapes'
<1>1. ASSUME NEW r \in Refreshers,
            \/ Begin(r) \/ Retry(r) \/ TakeLocal(r) \/ TakeRedis(r) \/ RedisFails(r)
            \/ Recover(r) \/ Release(r) \/ ReleaseFails(r)
     PROVE  ServerShapes'
  BY <1>1, QuietSteps DEF RefreshInv, Goes, own, Shapes, ServerShapes, Tokens, server
<1>2. ASSUME NEW r \in Refreshers, Condemn(r) \/ Pause(r) \/ ClearCooldown(r)
     PROVE  ServerShapes'
  BY <1>2, AfterSteps DEF RefreshInv, Goes, own, Shapes, ServerShapes, Tokens, server
<1>3. CASE QuietChange
  BY <1>3, QuietChanges DEF RefreshInv, Goes, own, Shapes, ServerShapes, Tokens, server
<1> USE RefreshAssumption DEF RefreshInv, Shapes, ServerShapes, ReadShapes, Reads,
       Tokens, Goes, server, locks, process, own, history
<1>4. ASSUME NEW r \in Refreshers, Reread(r) PROVE ServerShapes'
  BY <1>4, RowIsRead DEF Reread, Returns, Over
<1>5. ASSUME NEW r \in Refreshers, Exchange(r) PROVE ServerShapes'
  BY <1>5, ServerGrows DEF Exchange, Rotates, Returns, Over
<1>6. ASSUME NEW r \in Refreshers, ExchangeFails(r) PROVE ServerShapes'
  BY <1>6, ServerGrows DEF ExchangeFails, Rotates, Returns, Faulty, Hurts
<1>7. ASSUME NEW r \in Refreshers, Persist(r) PROVE ServerShapes'
  BY <1>7 DEF Persist, Stores, Unchanged, Returns, Over, Hurts
<1>8. ASSUME NEW r \in Refreshers, PersistFails(r) PROVE ServerShapes'
  BY <1>8 DEF PersistFails, Stores, Unchanged, Returns, Over, Faulty, Hurts
<1>9. ASSUME NEW r \in Refreshers, Finish(r) PROVE ServerShapes'
  BY <1>9, RowIsRead DEF Finish, Forgets
<1>10. CASE Reauthorize
  BY <1>10, ServerGrows DEF Reauthorize
<1>11. ASSUME NEW p \in Procs, Restart(p) PROVE ServerShapes'
  BY <1>11, RowIsRead DEF Restart, Faulty, Here
<1>12. CASE UNCHANGED vars
  BY <1>12 DEF vars
<1> QED
  BY <1>1, <1>2, <1>3, <1>4, <1>5, <1>6, <1>7, <1>8, <1>9, <1>10, <1>11, <1>12
  DEF Next, Step, Fails, QuietChange

(* The row keeps its shape: what is stored is a token of the server. *)
LEMMA RowShapesKept ==
  ASSUME RefreshInv, [Next]_vars PROVE RowShapes'
<1>1. ASSUME NEW r \in Refreshers,
            \/ Begin(r) \/ Retry(r) \/ TakeLocal(r) \/ TakeRedis(r) \/ RedisFails(r)
            \/ Recover(r) \/ Release(r) \/ ReleaseFails(r)
     PROVE  RowShapes'
  BY <1>1, QuietSteps DEF RefreshInv, Goes, own, Shapes, RowShapes, Tokens, server
<1>2. ASSUME NEW r \in Refreshers, Condemn(r) \/ Pause(r) \/ ClearCooldown(r)
     PROVE  RowShapes'
  BY <1>2, AfterSteps DEF RefreshInv, Goes, own, Shapes, RowShapes, Tokens, server
<1>3. CASE QuietChange
  BY <1>3, QuietChanges DEF RefreshInv, Goes, own, Shapes, RowShapes, Tokens, server
<1> USE RefreshAssumption DEF RefreshInv, Shapes, ServerShapes, RowShapes, ReadShapes,
       Tokens, RowStatuses, Barrier, ResultInHand, Goes, server, locks, process, own,
history
<1>4. ASSUME NEW r \in Refreshers, Reread(r) PROVE RowShapes'
  BY <1>4, RowIsRead DEF Reread, Returns, Over
<1>5. ASSUME NEW r \in Refreshers, Exchange(r) PROVE RowShapes'
  BY <1>5, ServerGrows DEF Exchange, Rotates, Returns, Over
<1>6. ASSUME NEW r \in Refreshers, ExchangeFails(r) PROVE RowShapes'
  BY <1>6, ServerGrows DEF ExchangeFails, Rotates, Returns, Faulty, Hurts
<1>7. ASSUME NEW r \in Refreshers, Persist(r) PROVE RowShapes'
  BY <1>7, ResultStored DEF Persist
<1>8. ASSUME NEW r \in Refreshers, PersistFails(r) PROVE RowShapes'
  BY <1>8, ResultStored DEF PersistFails
<1>9. ASSUME NEW r \in Refreshers, Finish(r) PROVE RowShapes'
  BY <1>9, RowIsRead DEF Finish, Forgets
<1>10. CASE Reauthorize
  BY <1>10, RowReauthorized, ServerGrows DEF Reauthorize
<1>11. ASSUME NEW p \in Procs, Restart(p) PROVE RowShapes'
  BY <1>11, RowIsRead DEF Restart, Faulty, Here
<1>12. CASE UNCHANGED vars
  BY <1>12 DEF vars
<1> QED
  BY <1>1, <1>2, <1>3, <1>4, <1>5, <1>6, <1>7, <1>8, <1>9, <1>10, <1>11, <1>12
  DEF Next, Step, Fails, QuietChange

(* The locks keep their shape. *)
LEMMA LockShapesKept ==
  ASSUME RefreshInv, [Next]_vars PROVE LockShapes'
<1> USE RefreshAssumption DEF RefreshInv, Shapes, LockShapes, Goes, server, locks,
       process, own, history
<1>1. ASSUME NEW r \in Refreshers, Begin(r) PROVE LockShapes'
  BY <1>1 DEF Begin, Registers, Stopped
<1>2. ASSUME NEW r \in Refreshers, Retry(r) PROVE LockShapes'
  BY <1>2 DEF Retry, Registers, Stopped
<1>3. ASSUME NEW r \in Refreshers, TakeLocal(r) PROVE LockShapes'
  BY <1>3 DEF TakeLocal, Stopped, Over
<1>4. ASSUME NEW r \in Refreshers, TakeRedis(r) PROVE LockShapes'
  BY <1>4 DEF TakeRedis, Over
<1>5. ASSUME NEW r \in Refreshers, RedisFails(r) PROVE LockShapes'
  BY <1>5 DEF RedisFails, Stopped, Faulty, Hurts, Over
<1>6. ASSUME NEW r \in Refreshers, Reread(r) PROVE LockShapes'
  BY <1>6, RowIsRead DEF Reread, Returns, Over
<1>7. ASSUME NEW r \in Refreshers, Exchange(r) PROVE LockShapes'
  BY <1>7 DEF Exchange, Rotates, Returns, Over
<1>8. ASSUME NEW r \in Refreshers, ExchangeFails(r) PROVE LockShapes'
  BY <1>8 DEF ExchangeFails, Rotates, Returns, Faulty, Hurts
<1>9. ASSUME NEW r \in Refreshers, Persist(r) PROVE LockShapes'
  BY <1>9 DEF Persist, Stores, Unchanged, Returns, Over, Hurts
<1>10. ASSUME NEW r \in Refreshers, PersistFails(r) PROVE LockShapes'
  BY <1>10 DEF PersistFails, Stores, Unchanged, Returns, Over, Faulty, Hurts
<1>11. ASSUME NEW r \in Refreshers, Recover(r) PROVE LockShapes'
  BY <1>11 DEF Recover, Returns, Over
<1>12. ASSUME NEW r \in Refreshers, Release(r) PROVE LockShapes'
  BY <1>12 DEF Release
<1>13. ASSUME NEW r \in Refreshers, ReleaseFails(r) PROVE LockShapes'
  BY <1>13 DEF ReleaseFails, Faulty, Hurts
<1>14. ASSUME NEW r \in Refreshers, Finish(r) PROVE LockShapes'
  BY <1>14, RowIsRead DEF Finish, Forgets
<1>15. ASSUME NEW r \in Refreshers, Condemn(r) PROVE LockShapes'
  BY <1>15 DEF Condemn, After, Forgets
<1>16. ASSUME NEW r \in Refreshers, Pause(r) PROVE LockShapes'
  BY <1>16 DEF Pause, After, Forgets
<1>17. ASSUME NEW r \in Refreshers, ClearCooldown(r) PROVE LockShapes'
  BY <1>17 DEF ClearCooldown, After, Forgets
<1>18. CASE Reauthorize
  BY <1>18 DEF Reauthorize
<1>19. CASE ClearError
  BY <1>19 DEF ClearError, Changes, Hurts, InFlight
<1>20. CASE Disable
  BY <1>20 DEF Disable, Changes, Hurts, InFlight
<1>21. CASE Switch
  BY <1>21 DEF Switch
<1>22. CASE Age
  BY <1>22 DEF Age
<1>23. CASE PauseEnds
  BY <1>23 DEF PauseEnds
<1>24. CASE ExpireOrphan
  BY <1>24 DEF ExpireOrphan, Held
<1>25. CASE ExpireHeld
  BY <1>25 DEF ExpireHeld, Faulty, Hurts
<1>26. ASSUME NEW p \in Procs, Stop(p) PROVE LockShapes'
  BY <1>26 DEF Stop, Faulty
<1>27. ASSUME NEW p \in Procs, Drained(p) PROVE LockShapes'
  BY <1>27 DEF Drained, Here
<1>28. ASSUME NEW p \in Procs, Restart(p) PROVE LockShapes'
  BY <1>28, RowIsRead DEF Restart, Faulty, Here
<1>29. CASE UNCHANGED vars
  BY <1>29 DEF vars
<1> QED
  BY <1>1, <1>2, <1>3, <1>4, <1>5, <1>6, <1>7, <1>8, <1>9, <1>10, <1>11, <1>12, <1>13,
     <1>14, <1>15, <1>16, <1>17, <1>18, <1>19, <1>20, <1>21, <1>22, <1>23, <1>24,
  <1>25, <1>26, <1>27, <1>28, <1>29
  DEF Next, Step, Fails

(* The processes and the history keep their shape. *)
LEMMA ProcessShapesKept ==
  ASSUME RefreshInv, [Next]_vars PROVE ProcessShapes'
<1> USE RefreshAssumption DEF RefreshInv, Shapes, ProcessShapes, Goes, server, locks,
       process, own, history
<1>1. ASSUME NEW r \in Refreshers, Begin(r) PROVE ProcessShapes'
  BY <1>1 DEF Begin, Registers, Stopped
<1>2. ASSUME NEW r \in Refreshers, Retry(r) PROVE ProcessShapes'
  BY <1>2 DEF Retry, Registers, Stopped
<1>3. ASSUME NEW r \in Refreshers, TakeLocal(r) PROVE ProcessShapes'
  BY <1>3 DEF TakeLocal, Stopped, Over
<1>4. ASSUME NEW r \in Refreshers, TakeRedis(r) PROVE ProcessShapes'
  BY <1>4 DEF TakeRedis, Over
<1>5. ASSUME NEW r \in Refreshers, RedisFails(r) PROVE ProcessShapes'
  BY <1>5 DEF RedisFails, Stopped, Faulty, Hurts, Over
<1>6. ASSUME NEW r \in Refreshers, Reread(r) PROVE ProcessShapes'
  BY <1>6, RowIsRead DEF Reread, Returns, Over
<1>7. ASSUME NEW r \in Refreshers, Exchange(r) PROVE ProcessShapes'
  BY <1>7 DEF Exchange, Rotates, Returns, Over
<1>8. ASSUME NEW r \in Refreshers, ExchangeFails(r) PROVE ProcessShapes'
  BY <1>8 DEF ExchangeFails, Rotates, Returns, Faulty, Hurts
<1>9. ASSUME NEW r \in Refreshers, Persist(r) PROVE ProcessShapes'
  BY <1>9 DEF Persist, Stores, Unchanged, Returns, Over, Hurts
<1>10. ASSUME NEW r \in Refreshers, PersistFails(r) PROVE ProcessShapes'
  BY <1>10 DEF PersistFails, Stores, Unchanged, Returns, Over, Faulty, Hurts
<1>11. ASSUME NEW r \in Refreshers, Recover(r) PROVE ProcessShapes'
  BY <1>11 DEF Recover, Returns, Over
<1>12. ASSUME NEW r \in Refreshers, Release(r) PROVE ProcessShapes'
  BY <1>12 DEF Release
<1>13. ASSUME NEW r \in Refreshers, ReleaseFails(r) PROVE ProcessShapes'
  BY <1>13 DEF ReleaseFails, Faulty, Hurts
<1>14. ASSUME NEW r \in Refreshers, Finish(r) PROVE ProcessShapes'
  BY <1>14, RowIsRead DEF Finish, Forgets
<1>15. ASSUME NEW r \in Refreshers, Condemn(r) PROVE ProcessShapes'
  BY <1>15 DEF Condemn, After, Forgets
<1>16. ASSUME NEW r \in Refreshers, Pause(r) PROVE ProcessShapes'
  BY <1>16 DEF Pause, After, Forgets
<1>17. ASSUME NEW r \in Refreshers, ClearCooldown(r) PROVE ProcessShapes'
  BY <1>17 DEF ClearCooldown, After, Forgets
<1>18. CASE Reauthorize
  BY <1>18 DEF Reauthorize
<1>19. CASE ClearError
  BY <1>19 DEF ClearError, Changes, Hurts, InFlight
<1>20. CASE Disable
  BY <1>20 DEF Disable, Changes, Hurts, InFlight
<1>21. CASE Switch
  BY <1>21 DEF Switch
<1>22. CASE Age
  BY <1>22 DEF Age
<1>23. CASE PauseEnds
  BY <1>23 DEF PauseEnds
<1>24. CASE ExpireOrphan
  BY <1>24 DEF ExpireOrphan, Held
<1>25. CASE ExpireHeld
  BY <1>25 DEF ExpireHeld, Faulty, Hurts
<1>26. ASSUME NEW p \in Procs, Stop(p) PROVE ProcessShapes'
  BY <1>26 DEF Stop, Faulty
<1>27. ASSUME NEW p \in Procs, Drained(p) PROVE ProcessShapes'
  BY <1>27 DEF Drained, Here
<1>28. ASSUME NEW p \in Procs, Restart(p) PROVE ProcessShapes'
  BY <1>28, RowIsRead DEF Restart, Faulty, Here
<1>29. CASE UNCHANGED vars
  BY <1>29 DEF vars
<1> QED
  BY <1>1, <1>2, <1>3, <1>4, <1>5, <1>6, <1>7, <1>8, <1>9, <1>10, <1>11, <1>12, <1>13,
     <1>14, <1>15, <1>16, <1>17, <1>18, <1>19, <1>20, <1>21, <1>22, <1>23, <1>24,
  <1>25, <1>26, <1>27, <1>28, <1>29
  DEF Next, Step, Fails

(* The stages keep their shape. *)
LEMMA StageShapesKept ==
  ASSUME RefreshInv, [Next]_vars PROVE StageShapes'
<1>1. ASSUME NEW r \in Refreshers, Condemn(r) \/ Pause(r) \/ ClearCooldown(r)
     PROVE  StageShapes'
  BY <1>1, AfterSteps DEF Forgets, RefreshInv, Goes, own, Shapes, StageShapes, Stages,
     Outcomes
<1>2. CASE QuietChange
  BY <1>2, QuietChanges DEF RefreshInv, Goes, own, Shapes, StageShapes, Stages, Outcomes
<1> USE RefreshAssumption DEF RefreshInv, Shapes, StageShapes, Stages, Outcomes, Goes,
       server, locks, process, own, history
<1>3. ASSUME NEW r \in Refreshers, Begin(r) PROVE StageShapes'
  BY <1>3 DEF Begin, Registers, Stopped
<1>4. ASSUME NEW r \in Refreshers, Retry(r) PROVE StageShapes'
  BY <1>4 DEF Retry, Registers, Stopped
<1>5. ASSUME NEW r \in Refreshers, TakeLocal(r) PROVE StageShapes'
  BY <1>5 DEF TakeLocal, Stopped, Over
<1>6. ASSUME NEW r \in Refreshers, TakeRedis(r) PROVE StageShapes'
  BY <1>6 DEF TakeRedis, Over
<1>7. ASSUME NEW r \in Refreshers, RedisFails(r) PROVE StageShapes'
  BY <1>7 DEF RedisFails, Stopped, Faulty, Hurts, Over
<1>8. ASSUME NEW r \in Refreshers, Reread(r) PROVE StageShapes'
  BY <1>8, RowIsRead DEF Reread, Returns, Over
<1>9. ASSUME NEW r \in Refreshers, Exchange(r) PROVE StageShapes'
  BY <1>9 DEF Exchange, Rotates, Returns, Over
<1>10. ASSUME NEW r \in Refreshers, ExchangeFails(r) PROVE StageShapes'
  <2>1. PICK outcome \in {"idle", "done", "retry", "pause"} : Returns(r, outcome)
    BY <1>10, FailureReturns
  <2> QED BY <1>10, <2>1 DEF ExchangeFails, Returns
<1>11. ASSUME NEW r \in Refreshers, Persist(r) PROVE StageShapes'
  BY <1>11 DEF Persist, Stores, Unchanged, Returns, Over, Hurts
<1>12. ASSUME NEW r \in Refreshers, PersistFails(r) PROVE StageShapes'
  <2>1. PICK outcome \in {"idle", "done", "retry", "pause"} : Returns(r, outcome)
    BY <1>12, FailureReturns
  <2> QED BY <1>12, <2>1 DEF PersistFails, Returns
<1>13. ASSUME NEW r \in Refreshers, Recover(r) PROVE StageShapes'
  BY <1>13 DEF Recover, Returns, Over
<1>14. ASSUME NEW r \in Refreshers, Release(r) PROVE StageShapes'
  BY <1>14 DEF Release
<1>15. ASSUME NEW r \in Refreshers, ReleaseFails(r) PROVE StageShapes'
  BY <1>15 DEF ReleaseFails, Faulty, Hurts
<1>16. ASSUME NEW r \in Refreshers, Finish(r) PROVE StageShapes'
  BY <1>16, RowIsRead DEF Finish, Forgets
<1>17. CASE Reauthorize
  BY <1>17 DEF Reauthorize
<1>18. ASSUME NEW p \in Procs, Restart(p) PROVE StageShapes'
  BY <1>18, RowIsRead DEF Restart, Faulty, Here
<1>19. CASE UNCHANGED vars
  BY <1>19 DEF vars
<1> QED
  BY <1>1, <1>2, <1>3, <1>4, <1>5, <1>6, <1>7, <1>8, <1>9, <1>10, <1>11, <1>12, <1>13,
     <1>14, <1>15, <1>16, <1>17, <1>18, <1>19
  DEF Next, Step, Fails, QuietChange

(* What refreshers read and were given keeps its shape. *)
LEMMA ReadShapesKept ==
  ASSUME RefreshInv, [Next]_vars PROVE ReadShapes'
<1>1. ASSUME NEW r \in Refreshers, Condemn(r) \/ Pause(r) \/ ClearCooldown(r)
     PROVE  ReadShapes'
  BY <1>1, AfterSteps, RowIsRead DEF Forgets, RefreshInv, Goes, own, Shapes,
     ReadShapes, Tokens, server
<1>2. CASE QuietChange
  BY <1>2, QuietChanges DEF RefreshInv, Goes, own, Shapes, ReadShapes, Tokens, server
<1> USE RefreshAssumption DEF RefreshInv, Shapes, ServerShapes, RowShapes, ReadShapes,
       Reads, Tokens, Barrier, ResultInHand, Goes, server, locks, process, own, history
<1>3. ASSUME NEW r \in Refreshers, Begin(r) PROVE ReadShapes'
  BY <1>3 DEF Begin, Registers, Stopped
<1>4. ASSUME NEW r \in Refreshers, Retry(r) PROVE ReadShapes'
  BY <1>4 DEF Retry, Registers, Stopped
<1>5. ASSUME NEW r \in Refreshers, TakeLocal(r) PROVE ReadShapes'
  BY <1>5 DEF TakeLocal, Stopped, Over
<1>6. ASSUME NEW r \in Refreshers, TakeRedis(r) PROVE ReadShapes'
  BY <1>6 DEF TakeRedis, Over
<1>7. ASSUME NEW r \in Refreshers, RedisFails(r) PROVE ReadShapes'
  BY <1>7 DEF RedisFails, Stopped, Faulty, Hurts, Over
<1>8. ASSUME NEW r \in Refreshers, Reread(r) PROVE ReadShapes'
  <2>1. Snapshot \in Reads /\ Snapshot.token \in Tokens
    BY RowIsRead
  <2>2. seen' \in [Refreshers -> Reads] /\ \A s \in Refreshers : seen'[s] \in {seen[s], Snapshot}
    BY <1>8, <2>1 DEF Reread
  <2>3. got' \in [Refreshers -> Nat] /\ \A s \in Refreshers : got'[s] \in {got[s], 0}
    BY <1>8 DEF Reread, Returns
  <2>4. UNCHANGED parent
    BY <1>8 DEF Reread
  <2> QED BY <2>1, <2>2, <2>3, <2>4
<1>9. ASSUME NEW r \in Refreshers, Exchange(r) PROVE ReadShapes'
  BY <1>9, ServerGrows DEF Exchange, Rotates, Returns, Over
<1>10. ASSUME NEW r \in Refreshers, ExchangeFails(r) PROVE ReadShapes'
  <2>1. PICK outcome \in {"idle", "done", "retry", "pause"} : Returns(r, outcome)
    BY <1>10, FailureReturns
  <2> QED BY <1>10, <2>1, ServerGrows DEF ExchangeFails, Returns, Rotates
<1>11. ASSUME NEW r \in Refreshers, Persist(r) PROVE ReadShapes'
  <2>1. got' = [got EXCEPT ![r] = 0] /\ UNCHANGED server
    BY <1>11 DEF Persist, Returns
  <2> QED BY <1>11, <2>1, ResultRead
<1>12. ASSUME NEW r \in Refreshers, PersistFails(r) PROVE ReadShapes'
  <2>1. PICK outcome \in {"idle", "done", "retry", "pause"} : Returns(r, outcome)
    BY <1>12, FailureReturns
  <2> QED BY <1>12, <2>1 DEF PersistFails, Returns
<1>13. ASSUME NEW r \in Refreshers, Recover(r) PROVE ReadShapes'
  BY <1>13 DEF Recover, Returns, Over
<1>14. ASSUME NEW r \in Refreshers, Release(r) PROVE ReadShapes'
  BY <1>14 DEF Release
<1>15. ASSUME NEW r \in Refreshers, ReleaseFails(r) PROVE ReadShapes'
  BY <1>15 DEF ReleaseFails, Faulty, Hurts
<1>16. ASSUME NEW r \in Refreshers, Finish(r) PROVE ReadShapes'
  BY <1>16, RowIsRead DEF Finish, Forgets
<1>17. CASE Reauthorize
  BY <1>17, ServerGrows DEF Reauthorize
<1>18. ASSUME NEW p \in Procs, Restart(p) PROVE ReadShapes'
  BY <1>18, RowIsRead DEF Restart, Faulty, Here
<1>19. CASE UNCHANGED vars
  BY <1>19 DEF vars
<1> QED
  BY <1>1, <1>2, <1>3, <1>4, <1>5, <1>6, <1>7, <1>8, <1>9, <1>10, <1>11, <1>12, <1>13,
     <1>14, <1>15, <1>16, <1>17, <1>18, <1>19
  DEF Next, Step, Fails, QuietChange

(* Whoever works is registered: a call registers before it works. *)
LEMMA RegisteredKept ==
  ASSUME RefreshInv, [Next]_vars PROVE Registered'
<1>1. ASSUME NEW r \in Refreshers, Condemn(r) \/ Pause(r) \/ ClearCooldown(r)
     PROVE  Registered'
  BY <1>1, AfterSteps DEF RefreshInv, Goes, own, Barrier, Registered, Shapes,
     StageShapes, Working, Locked
<1>2. CASE QuietChange
  BY <1>2, QuietChanges DEF RefreshInv, Goes, own, Barrier, Registered, Shapes,
     StageShapes, Working, Locked
<1> USE RefreshAssumption DEF RefreshInv, Shapes, LockShapes, ProcessShapes,
       StageShapes, ReadShapes, Barrier, Registered, Working, Locked, Stages, Outcomes,
Goes, server, locks, process, own, history
<1>3. ASSUME NEW r \in Refreshers, Begin(r) PROVE Registered'
  BY <1>3 DEF Begin, Registers, Stopped
<1>4. ASSUME NEW r \in Refreshers, Retry(r) PROVE Registered'
  BY <1>4 DEF Retry, Registers, Stopped
<1>5. ASSUME NEW r \in Refreshers, TakeLocal(r) PROVE Registered'
  BY <1>5 DEF TakeLocal, Stopped, Over
<1>6. ASSUME NEW r \in Refreshers, TakeRedis(r) PROVE Registered'
  BY <1>6 DEF TakeRedis, Over
<1>7. ASSUME NEW r \in Refreshers, RedisFails(r) PROVE Registered'
  BY <1>7 DEF RedisFails, Stopped, Faulty, Hurts, Over
<1>8. ASSUME NEW r \in Refreshers, Reread(r) PROVE Registered'
  BY <1>8, RowIsRead DEF Reread, Returns, Over
<1>9. ASSUME NEW r \in Refreshers, Exchange(r) PROVE Registered'
  <2>1. UNCHANGED <<row, locks, process, seen, owns, tries, history>> /\ pc[r] = "exchange"
    BY <1>9, ExchangeReturns
  <2>2. CASE Goes(r, "persist") /\ UNCHANGED next /\ got' = [got EXCEPT ![r] = Len(parent')] /\ Rotates(seen[r].token)
    BY <2>1, <2>2 DEF Rotates
  <2>3. CASE Goes(r, "recover") /\ UNCHANGED <<server, next, got>>
    BY <2>1, <2>3
  <2>4. CASE \E outcome \in {"idle", "done"} : Returns(r, outcome) /\ UNCHANGED server
    BY <2>1, <2>4 DEF Returns
  <2> QED BY <1>9, <2>2, <2>3, <2>4, ExchangeReturns
<1>10. ASSUME NEW r \in Refreshers, ExchangeFails(r) PROVE Registered'
  <2>1. PICK outcome \in {"idle", "done", "retry", "pause"} : Returns(r, outcome)
    BY <1>10, FailureReturns
  <2> QED BY <1>10, <2>1 DEF ExchangeFails, Returns
<1>11. ASSUME NEW r \in Refreshers, Persist(r) PROVE Registered'
  <2>1. PICK outcome \in {"idle", "done", "clear"} : Returns(r, outcome)
    BY <1>11, PersistReturns
  <2> QED BY <1>11, <2>1 DEF Persist, Returns
<1>12. ASSUME NEW r \in Refreshers, PersistFails(r) PROVE Registered'
  <2>1. PICK outcome \in {"idle", "done", "retry", "pause"} : Returns(r, outcome)
    BY <1>12, FailureReturns
  <2> QED BY <1>12, <2>1 DEF PersistFails, Returns
<1>13. ASSUME NEW r \in Refreshers, Recover(r) PROVE Registered'
  BY <1>13 DEF Recover, Returns, Over
<1>14. ASSUME NEW r \in Refreshers, Release(r) PROVE Registered'
  BY <1>14 DEF Release
<1>15. ASSUME NEW r \in Refreshers, ReleaseFails(r) PROVE Registered'
  BY <1>15 DEF ReleaseFails, Faulty, Hurts
<1>16. ASSUME NEW r \in Refreshers, Finish(r) PROVE Registered'
  BY <1>16, RowIsRead DEF Finish, Forgets
<1>17. CASE Reauthorize
  BY <1>17 DEF Reauthorize
<1>18. ASSUME NEW p \in Procs, Restart(p) PROVE Registered'
  BY <1>18, RowIsRead DEF Restart, Faulty, Here
<1>19. CASE UNCHANGED vars
  BY <1>19 DEF vars
<1> QED
  BY <1>1, <1>2, <1>3, <1>4, <1>5, <1>6, <1>7, <1>8, <1>9, <1>10, <1>11, <1>12, <1>13,
     <1>14, <1>15, <1>16, <1>17, <1>18, <1>19
  DEF Next, Step, Fails, QuietChange

(* A stopped process admits nobody. *)
LEMMA StoppedIsIdleKept ==
  ASSUME RefreshInv, [Next]_vars PROVE StoppedIsIdle'
<1> USE RefreshAssumption DEF RefreshInv, Shapes, LockShapes, ProcessShapes,
       StageShapes, ReadShapes, Barrier, StoppedIsIdle, Stopped, Here, Goes, server,
locks, process, own, history
<1>1. ASSUME NEW r \in Refreshers, Begin(r) PROVE StoppedIsIdle'
  BY <1>1 DEF Begin, Registers, Stopped
<1>2. ASSUME NEW r \in Refreshers, Retry(r) PROVE StoppedIsIdle'
  BY <1>2 DEF Retry, Registers, Stopped
<1>3. ASSUME NEW r \in Refreshers, TakeLocal(r) PROVE StoppedIsIdle'
  BY <1>3 DEF TakeLocal, Stopped, Over
<1>4. ASSUME NEW r \in Refreshers, TakeRedis(r) PROVE StoppedIsIdle'
  BY <1>4 DEF TakeRedis, Over
<1>5. ASSUME NEW r \in Refreshers, RedisFails(r) PROVE StoppedIsIdle'
  BY <1>5 DEF RedisFails, Stopped, Faulty, Hurts, Over
<1>6. ASSUME NEW r \in Refreshers, Reread(r) PROVE StoppedIsIdle'
  BY <1>6, RowIsRead DEF Reread, Returns, Over
<1>7. ASSUME NEW r \in Refreshers, Exchange(r) PROVE StoppedIsIdle'
  BY <1>7 DEF Exchange, Rotates, Returns, Over
<1>8. ASSUME NEW r \in Refreshers, ExchangeFails(r) PROVE StoppedIsIdle'
  BY <1>8 DEF ExchangeFails, Rotates, Returns, Faulty, Hurts
<1>9. ASSUME NEW r \in Refreshers, Persist(r) PROVE StoppedIsIdle'
  BY <1>9 DEF Persist, Stores, Unchanged, Returns, Over, Hurts
<1>10. ASSUME NEW r \in Refreshers, PersistFails(r) PROVE StoppedIsIdle'
  BY <1>10 DEF PersistFails, Stores, Unchanged, Returns, Over, Faulty, Hurts
<1>11. ASSUME NEW r \in Refreshers, Recover(r) PROVE StoppedIsIdle'
  BY <1>11 DEF Recover, Returns, Over
<1>12. ASSUME NEW r \in Refreshers, Release(r) PROVE StoppedIsIdle'
  BY <1>12 DEF Release
<1>13. ASSUME NEW r \in Refreshers, ReleaseFails(r) PROVE StoppedIsIdle'
  BY <1>13 DEF ReleaseFails, Faulty, Hurts
<1>14. ASSUME NEW r \in Refreshers, Finish(r) PROVE StoppedIsIdle'
  BY <1>14, RowIsRead DEF Finish, Forgets
<1>15. ASSUME NEW r \in Refreshers, Condemn(r) PROVE StoppedIsIdle'
  BY <1>15 DEF Condemn, After, Forgets
<1>16. ASSUME NEW r \in Refreshers, Pause(r) PROVE StoppedIsIdle'
  BY <1>16 DEF Pause, After, Forgets
<1>17. ASSUME NEW r \in Refreshers, ClearCooldown(r) PROVE StoppedIsIdle'
  BY <1>17 DEF ClearCooldown, After, Forgets
<1>18. CASE Reauthorize
  BY <1>18 DEF Reauthorize
<1>19. CASE ClearError
  BY <1>19 DEF ClearError, Changes, Hurts, InFlight
<1>20. CASE Disable
  BY <1>20 DEF Disable, Changes, Hurts, InFlight
<1>21. CASE Switch
  BY <1>21 DEF Switch
<1>22. CASE Age
  BY <1>22 DEF Age
<1>23. CASE PauseEnds
  BY <1>23 DEF PauseEnds
<1>24. CASE ExpireOrphan
  BY <1>24 DEF ExpireOrphan, Held
<1>25. CASE ExpireHeld
  BY <1>25 DEF ExpireHeld, Faulty, Hurts
<1>26. ASSUME NEW p \in Procs, Stop(p) PROVE StoppedIsIdle'
  BY <1>26 DEF Stop, Faulty
<1>27. ASSUME NEW p \in Procs, Drained(p) PROVE StoppedIsIdle'
  BY <1>27 DEF Drained, Here
<1>28. ASSUME NEW p \in Procs, Restart(p) PROVE StoppedIsIdle'
  BY <1>28, RowIsRead DEF Restart, Faulty, Here
<1>29. CASE UNCHANGED vars
  BY <1>29 DEF vars
<1> QED
  BY <1>1, <1>2, <1>3, <1>4, <1>5, <1>6, <1>7, <1>8, <1>9, <1>10, <1>11, <1>12, <1>13,
     <1>14, <1>15, <1>16, <1>17, <1>18, <1>19, <1>20, <1>21, <1>22, <1>23, <1>24,
  <1>25, <1>26, <1>27, <1>28, <1>29
  DEF Next, Step, Fails

(* The lock of a process is held by one of its calls. *)
LEMMA LocalIsHeldKept ==
  ASSUME RefreshInv, [Next]_vars PROVE LocalIsHeld'
<1>1. ASSUME NEW r \in Refreshers, Condemn(r) \/ Pause(r) \/ ClearCooldown(r)
     PROVE  LocalIsHeld'
  BY <1>1, AfterSteps DEF RefreshInv, Goes, own, Barrier, LocalIsHeld, Shapes,
     StageShapes, LockShapes, Working, Locked
<1>2. CASE QuietChange
  BY <1>2, QuietChanges DEF RefreshInv, Goes, own, Barrier, LocalIsHeld, Shapes,
     StageShapes, LockShapes, Working, Locked
<1> USE RefreshAssumption DEF RefreshInv, Shapes, LockShapes, ProcessShapes,
       StageShapes, ReadShapes, Barrier, LocalIsHeld, Working, Locked, Stages,
Outcomes, Here, Goes, server, locks, process, own, history
<1>3. ASSUME NEW r \in Refreshers, Begin(r) PROVE LocalIsHeld'
  BY <1>3 DEF Begin, Registers, Stopped
<1>4. ASSUME NEW r \in Refreshers, Retry(r) PROVE LocalIsHeld'
  BY <1>4 DEF Retry, Registers, Stopped
<1>5. ASSUME NEW r \in Refreshers, TakeLocal(r) PROVE LocalIsHeld'
  BY <1>5 DEF TakeLocal, Stopped, Over
<1>6. ASSUME NEW r \in Refreshers, TakeRedis(r) PROVE LocalIsHeld'
  BY <1>6 DEF TakeRedis, Over
<1>7. ASSUME NEW r \in Refreshers, RedisFails(r) PROVE LocalIsHeld'
  BY <1>7 DEF RedisFails, Stopped, Faulty, Hurts, Over
<1>8. ASSUME NEW r \in Refreshers, Reread(r) PROVE LocalIsHeld'
  BY <1>8, RowIsRead DEF Reread, Returns, Over
<1>9. ASSUME NEW r \in Refreshers, Exchange(r) PROVE LocalIsHeld'
  <2>1. UNCHANGED <<row, locks, process, seen, owns, tries, history>> /\ pc[r] = "exchange"
    BY <1>9, ExchangeReturns
  <2>2. CASE Goes(r, "persist") /\ UNCHANGED next /\ got' = [got EXCEPT ![r] = Len(parent')] /\ Rotates(seen[r].token)
    BY <2>1, <2>2 DEF Rotates
  <2>3. CASE Goes(r, "recover") /\ UNCHANGED <<server, next, got>>
    BY <2>1, <2>3
  <2>4. CASE \E outcome \in {"idle", "done"} : Returns(r, outcome) /\ UNCHANGED server
    BY <2>1, <2>4 DEF Returns
  <2> QED BY <1>9, <2>2, <2>3, <2>4, ExchangeReturns
<1>10. ASSUME NEW r \in Refreshers, ExchangeFails(r) PROVE LocalIsHeld'
  <2>1. PICK outcome \in {"idle", "done", "retry", "pause"} : Returns(r, outcome)
    BY <1>10, FailureReturns
  <2> QED BY <1>10, <2>1 DEF ExchangeFails, Returns
<1>11. ASSUME NEW r \in Refreshers, Persist(r) PROVE LocalIsHeld'
  <2>1. PICK outcome \in {"idle", "done", "clear"} : Returns(r, outcome)
    BY <1>11, PersistReturns
  <2> QED BY <1>11, <2>1 DEF Persist, Returns
<1>12. ASSUME NEW r \in Refreshers, PersistFails(r) PROVE LocalIsHeld'
  <2>1. PICK outcome \in {"idle", "done", "retry", "pause"} : Returns(r, outcome)
    BY <1>12, FailureReturns
  <2> QED BY <1>12, <2>1 DEF PersistFails, Returns
<1>13. ASSUME NEW r \in Refreshers, Recover(r) PROVE LocalIsHeld'
  BY <1>13 DEF Recover, Returns, Over
<1>14. ASSUME NEW r \in Refreshers, Release(r) PROVE LocalIsHeld'
  BY <1>14 DEF Release
<1>15. ASSUME NEW r \in Refreshers, ReleaseFails(r) PROVE LocalIsHeld'
  BY <1>15 DEF ReleaseFails, Faulty, Hurts
<1>16. ASSUME NEW r \in Refreshers, Finish(r) PROVE LocalIsHeld'
  BY <1>16, RowIsRead DEF Finish, Forgets
<1>17. CASE Reauthorize
  BY <1>17 DEF Reauthorize
<1>18. ASSUME NEW p \in Procs, Restart(p) PROVE LocalIsHeld'
  BY <1>18, RowIsRead DEF Restart, Faulty, Here
<1>19. CASE UNCHANGED vars
  BY <1>19 DEF vars
<1> QED
  BY <1>1, <1>2, <1>3, <1>4, <1>5, <1>6, <1>7, <1>8, <1>9, <1>10, <1>11, <1>12, <1>13,
     <1>14, <1>15, <1>16, <1>17, <1>18, <1>19
  DEF Next, Step, Fails, QuietChange

(* A result is in hand between an exchange and its storage. *)
LEMMA ResultInHandKept ==
  ASSUME RefreshInv, [Next]_vars PROVE ResultInHand'
<1>1. ASSUME NEW r \in Refreshers,
            \/ Begin(r) \/ Retry(r) \/ TakeLocal(r) \/ TakeRedis(r) \/ RedisFails(r)
            \/ Recover(r) \/ Release(r) \/ ReleaseFails(r)
     PROVE  ResultInHand'
  BY <1>1, QuietSteps DEF RefreshInv, Goes, own, Barrier, ResultInHand, Shapes,
     StageShapes
<1>2. ASSUME NEW r \in Refreshers, Condemn(r) \/ Pause(r) \/ ClearCooldown(r)
     PROVE  ResultInHand'
  BY <1>2, AfterSteps DEF RefreshInv, Goes, own, Barrier, ResultInHand, Shapes,
     StageShapes
<1>3. CASE QuietChange
  BY <1>3, QuietChanges DEF RefreshInv, Goes, own, Barrier, ResultInHand, Shapes,
     StageShapes
<1> USE RefreshAssumption DEF RefreshInv, Shapes, LockShapes, ProcessShapes,
       StageShapes, ReadShapes, Barrier, ResultInHand, Tokens, Stages, Outcomes, Here,
Goes, server, locks, process, own, history
<1>4. ASSUME NEW r \in Refreshers, Reread(r) PROVE ResultInHand'
  BY <1>4, RowIsRead DEF Reread, Returns, Over
<1>5. ASSUME NEW r \in Refreshers, Exchange(r) PROVE ResultInHand'
  <2>1. UNCHANGED <<row, locks, process, seen, owns, tries, history>> /\ pc[r] = "exchange"
    BY <1>5, ExchangeReturns
  <2>2. CASE Goes(r, "persist") /\ UNCHANGED next /\ got' = [got EXCEPT ![r] = Len(parent')] /\ Rotates(seen[r].token)
    BY <2>1, <2>2, ServerGrows DEF Rotates
  <2>3. CASE Goes(r, "recover") /\ UNCHANGED <<server, next, got>>
    BY <2>1, <2>3
  <2>4. CASE \E outcome \in {"idle", "done"} : Returns(r, outcome) /\ UNCHANGED server
    BY <2>1, <2>4 DEF Returns
  <2> QED BY <1>5, <2>2, <2>3, <2>4, ExchangeReturns
<1>6. ASSUME NEW r \in Refreshers, ExchangeFails(r) PROVE ResultInHand'
  <2>1. PICK outcome \in {"idle", "done", "retry", "pause"} : Returns(r, outcome)
    BY <1>6, FailureReturns
  <2> QED BY <1>6, <2>1 DEF ExchangeFails, Returns
<1>7. ASSUME NEW r \in Refreshers, Persist(r) PROVE ResultInHand'
  <2>1. PICK outcome \in {"idle", "done", "clear"} : Returns(r, outcome)
    BY <1>7, PersistReturns
  <2> QED BY <1>7, <2>1 DEF Persist, Returns
<1>8. ASSUME NEW r \in Refreshers, PersistFails(r) PROVE ResultInHand'
  <2>1. PICK outcome \in {"idle", "done", "retry", "pause"} : Returns(r, outcome)
    BY <1>8, FailureReturns
  <2> QED BY <1>8, <2>1 DEF PersistFails, Returns
<1>9. ASSUME NEW r \in Refreshers, Finish(r) PROVE ResultInHand'
  BY <1>9, RowIsRead DEF Finish, Forgets
<1>10. CASE Reauthorize
  BY <1>10 DEF Reauthorize
<1>11. ASSUME NEW p \in Procs, Restart(p) PROVE ResultInHand'
  BY <1>11, RowIsRead DEF Restart, Faulty, Here
<1>12. CASE UNCHANGED vars
  BY <1>12 DEF vars
<1> QED
  BY <1>1, <1>2, <1>3, <1>4, <1>5, <1>6, <1>7, <1>8, <1>9, <1>10, <1>11, <1>12
  DEF Next, Step, Fails, QuietChange

(* The key in Redis stays with the one who works under it. *)
LEMMA KeyIsHeldKept ==
  ASSUME RefreshInv, [Next]_vars PROVE KeyIsHeld'
<1>1. ASSUME NEW r \in Refreshers, Condemn(r) \/ Pause(r) \/ ClearCooldown(r)
     PROVE  KeyIsHeld'
  BY <1>1, AfterSteps DEF RefreshInv, Goes, own, KeyIsHeld, Shapes, StageShapes, Locked
<1> USE RefreshAssumption DEF RefreshInv, Shapes, LockShapes, ProcessShapes,
       StageShapes, ReadShapes, Barrier, KeyIsHeld, Working, Locked, Stages, Outcomes,
Here, Goes, server, locks, process, own, history
<1>2. ASSUME NEW r \in Refreshers, Begin(r) PROVE KeyIsHeld'
  BY <1>2 DEF Begin, Registers, Stopped
<1>3. ASSUME NEW r \in Refreshers, Retry(r) PROVE KeyIsHeld'
  BY <1>3 DEF Retry, Registers, Stopped
<1>4. ASSUME NEW r \in Refreshers, TakeLocal(r) PROVE KeyIsHeld'
  BY <1>4 DEF TakeLocal, Stopped, Over
<1>5. ASSUME NEW r \in Refreshers, TakeRedis(r) PROVE KeyIsHeld'
  BY <1>5 DEF TakeRedis, Over
<1>6. ASSUME NEW r \in Refreshers, RedisFails(r) PROVE KeyIsHeld'
  BY <1>6 DEF RedisFails, Stopped, Faulty, Hurts, Over
<1>7. ASSUME NEW r \in Refreshers, Reread(r) PROVE KeyIsHeld'
  BY <1>7, RowIsRead DEF Reread, Returns, Over
<1>8. ASSUME NEW r \in Refreshers, Exchange(r) PROVE KeyIsHeld'
  <2>1. \E stage \in Locked : Goes(r, stage)
    BY <1>8, ExchangeReturns DEF Exchange, Returns
  <2>2. pc[r] \in Locked \ {"release"} /\ UNCHANGED <<lock, owns>> /\ hurt \subseteq hurt'
    BY <1>8 DEF Exchange
  <2> QED BY <2>1, <2>2, KeyStays
<1>9. ASSUME NEW r \in Refreshers, ExchangeFails(r) PROVE KeyIsHeld'
  <2>1. \E stage \in Locked : Goes(r, stage)
    BY <1>9, FailureReturns DEF ExchangeFails, Returns
  <2>2. pc[r] \in Locked \ {"release"} /\ UNCHANGED <<lock, owns>> /\ hurt \subseteq hurt'
    BY <1>9 DEF ExchangeFails, Hurts
  <2> QED BY <2>1, <2>2, KeyStays
<1>10. ASSUME NEW r \in Refreshers, Persist(r) PROVE KeyIsHeld'
  <2>1. \E stage \in Locked : Goes(r, stage)
    BY <1>10, PersistReturns DEF Persist, Returns
  <2>2. pc[r] \in Locked \ {"release"} /\ UNCHANGED <<lock, owns>> /\ hurt \subseteq hurt'
    BY <1>10 DEF Persist, Hurts
  <2> QED BY <2>1, <2>2, KeyStays
<1>11. ASSUME NEW r \in Refreshers, PersistFails(r) PROVE KeyIsHeld'
  <2>1. \E stage \in Locked : Goes(r, stage)
    BY <1>11, FailureReturns DEF PersistFails, Returns
  <2>2. pc[r] \in Locked \ {"release"} /\ UNCHANGED <<lock, owns>> /\ hurt \subseteq hurt'
    BY <1>11 DEF PersistFails, Hurts
  <2> QED BY <2>1, <2>2, KeyStays
<1>12. ASSUME NEW r \in Refreshers, Recover(r) PROVE KeyIsHeld'
  BY <1>12 DEF Recover, Returns, Over
<1>13. ASSUME NEW r \in Refreshers, Release(r) PROVE KeyIsHeld'
  BY <1>13 DEF Release
<1>14. ASSUME NEW r \in Refreshers, ReleaseFails(r) PROVE KeyIsHeld'
  BY <1>14 DEF ReleaseFails, Faulty, Hurts
<1>15. ASSUME NEW r \in Refreshers, Finish(r) PROVE KeyIsHeld'
  BY <1>15, RowIsRead DEF Finish, Forgets
<1>16. CASE Reauthorize
  BY <1>16 DEF Reauthorize
<1>17. CASE ClearError
  BY <1>17 DEF ClearError, Changes, Hurts, InFlight
<1>18. CASE Disable
  BY <1>18 DEF Disable, Changes, Hurts, InFlight
<1>19. CASE Switch
  BY <1>19 DEF Switch
<1>20. CASE Age
  BY <1>20 DEF Age
<1>21. CASE PauseEnds
  BY <1>21 DEF PauseEnds
<1>22. CASE ExpireOrphan
  BY <1>22 DEF ExpireOrphan, Held
<1>23. CASE ExpireHeld
  BY <1>23 DEF ExpireHeld, Faulty, Hurts
<1>24. ASSUME NEW p \in Procs, Stop(p) PROVE KeyIsHeld'
  BY <1>24 DEF Stop, Faulty
<1>25. ASSUME NEW p \in Procs, Drained(p) PROVE KeyIsHeld'
  BY <1>25 DEF Drained, Here
<1>26. ASSUME NEW p \in Procs, Restart(p) PROVE KeyIsHeld'
  BY <1>26, RowIsRead DEF Restart, Faulty, Here
<1>27. CASE UNCHANGED vars
  BY <1>27 DEF vars
<1> QED
  BY <1>1, <1>2, <1>3, <1>4, <1>5, <1>6, <1>7, <1>8, <1>9, <1>10, <1>11, <1>12, <1>13,
     <1>14, <1>15, <1>16, <1>17, <1>18, <1>19, <1>20, <1>21, <1>22, <1>23, <1>24,
  <1>25, <1>26, <1>27
  DEF Next, Step, Fails

(* A refused token stays refused. *)
LEMMA RefusedIsDeadKept ==
  ASSUME RefreshInv, [Next]_vars PROVE RefusedIsDead'
<1>1. ASSUME NEW r \in Refreshers,
            \/ Begin(r) \/ Retry(r) \/ TakeLocal(r) \/ TakeRedis(r) \/ RedisFails(r)
            \/ Recover(r) \/ Release(r) \/ ReleaseFails(r)
     PROVE  RefusedIsDead'
  BY <1>1, QuietSteps DEF RefreshInv, Goes, own, TokensKnown, RefusedIsDead, Refused,
     Shapes, StageShapes, ReadShapes, server
<1>2. ASSUME NEW r \in Refreshers, Condemn(r) \/ Pause(r) \/ ClearCooldown(r)
     PROVE  RefusedIsDead'
  BY <1>2, AfterSteps DEF Forgets, RefreshInv, Goes, own, TokensKnown, RefusedIsDead,
     Refused, Shapes, StageShapes, ReadShapes, server
<1>3. CASE QuietChange
  BY <1>3, QuietChanges DEF RefreshInv, Goes, own, TokensKnown, RefusedIsDead, Refused,
     Shapes, StageShapes, ReadShapes, server
<1> USE RefreshAssumption DEF RefreshInv, Shapes, LockShapes, ProcessShapes,
       StageShapes, ReadShapes, Reads, Barrier, TokensKnown, RefusedIsDead, Refused,
Stages, Outcomes, Here, Goes, server, locks, process, own, history
<1>4. ASSUME NEW r \in Refreshers, Reread(r) PROVE RefusedIsDead'
  BY <1>4, RowIsRead DEF Reread, Returns, Over
<1>5. ASSUME NEW r \in Refreshers, Exchange(r) PROVE RefusedIsDead'
  <2>1. CASE pc[r] = "exchange" /\ seen[r].token \notin valid /\ Goes(r, "recover") /\ UNCHANGED <<server, seen, next>>
    BY <2>1
  <2>2. CASE UNCHANGED <<seen, next>> /\ Goes(r, "persist")
    BY <2>2, OldTokensOnly
  <2>3. CASE UNCHANGED seen /\ \E outcome \in {"idle", "done"} : Returns(r, outcome)
    BY <2>3, OldTokensOnly DEF Returns
  <2> QED BY <1>5, <2>1, <2>2, <2>3, ExchangeReturns
<1>6. ASSUME NEW r \in Refreshers, ExchangeFails(r) PROVE RefusedIsDead'
  <2>1. PICK outcome \in {"idle", "done", "retry", "pause"} : Returns(r, outcome)
    BY <1>6, FailureReturns
  <2> QED BY <1>6, <2>1, OldTokensOnly DEF ExchangeFails, Returns
<1>7. ASSUME NEW r \in Refreshers, Persist(r) PROVE RefusedIsDead'
  <2>1. PICK outcome \in {"idle", "done", "clear"} : Returns(r, outcome)
    BY <1>7, PersistReturns
  <2>2. \A s \in Refreshers \ {r} : seen'[s] = seen[s]
    BY <1>7, ResultRead
  <2> QED BY <1>7, <2>1, <2>2 DEF Persist, Returns
<1>8. ASSUME NEW r \in Refreshers, PersistFails(r) PROVE RefusedIsDead'
  <2>1. PICK outcome \in {"idle", "done", "retry", "pause"} : Returns(r, outcome)
    BY <1>8, FailureReturns
  <2> QED BY <1>8, <2>1, OldTokensOnly DEF PersistFails, Returns
<1>9. ASSUME NEW r \in Refreshers, Finish(r) PROVE RefusedIsDead'
  BY <1>9, RowIsRead DEF Finish, Forgets
<1>10. CASE Reauthorize
  BY <1>10, OldTokensOnly DEF Reauthorize
<1>11. ASSUME NEW p \in Procs, Restart(p) PROVE RefusedIsDead'
  BY <1>11, RowIsRead DEF Restart, Faulty, Here
<1>12. CASE UNCHANGED vars
  BY <1>12 DEF vars
<1> QED
  BY <1>1, <1>2, <1>3, <1>4, <1>5, <1>6, <1>7, <1>8, <1>9, <1>10, <1>11, <1>12
  DEF Next, Step, Fails, QuietChange

(* Only its owner knows a token that is not stored yet. *)
LEMMA SecretKept ==
  ASSUME RefreshInv, [Next]_vars PROVE Secret'
<1>1. ASSUME NEW r \in Refreshers,
            \/ Begin(r) \/ Retry(r) \/ TakeLocal(r) \/ TakeRedis(r) \/ RedisFails(r)
            \/ Recover(r) \/ Release(r) \/ ReleaseFails(r)
     PROVE  Secret'
  BY <1>1, QuietSteps, SecretStays DEF RefreshInv, Goes, own, TokensKnown, Shapes,
     StageShapes, ReadShapes
<1>2. ASSUME NEW r \in Refreshers, Condemn(r) \/ Pause(r) \/ ClearCooldown(r)
     PROVE  Secret'
  BY <1>2, AfterSteps, SecretStays, RowIsRead DEF Forgets, RefreshInv, Goes, own,
     TokensKnown, Shapes, StageShapes, ReadShapes
<1>3. CASE QuietChange
  BY <1>3, QuietChanges, SecretStays DEF RefreshInv, Goes, own, TokensKnown, Shapes,
     StageShapes, ReadShapes
<1> USE RefreshAssumption DEF RefreshInv, Shapes, LockShapes, ProcessShapes,
       StageShapes, ReadShapes, ServerShapes, RowShapes, Reads, Barrier, ResultInHand,
TokensKnown, Secret, Tokens, Stages, Outcomes, Here, Goes, server, locks, process, own,
history
<1>4. ASSUME NEW r \in Refreshers, Reread(r) PROVE Secret'
  <2>1. /\ \A s \in Refreshers \ {r} : seen'[s] = seen[s]
        /\ seen'[r] \in {seen[r], Snapshot}
    BY <1>4 DEF Reread
  <2>2. /\ \A s \in Refreshers \ {r} : got'[s] = got[s] /\ pc'[s] = pc[s]
        /\ got'[r] \in {got[r], 0} /\ pc'[r] # "persist"
    BY <1>4 DEF Reread, Returns
  <2>3. UNCHANGED server /\ row'.token = row.token /\ Snapshot.token = row.token
    BY <1>4, RowIsRead DEF Reread
  <2> QED BY <2>1, <2>2, <2>3, SecretStays
<1>5. ASSUME NEW r \in Refreshers, Exchange(r) PROVE Secret'
  <2>1. CASE UNCHANGED <<server, row, seen>> /\ pc[r] = "exchange" /\ Goes(r, "recover") /\ UNCHANGED got
    BY <2>1
  <2>2. CASE /\ UNCHANGED <<row, seen>> /\ seen[r].token \in valid /\ Rotates(seen[r].token)
             /\ Goes(r, "persist") /\ got' = [got EXCEPT ![r] = Len(parent')]
    <3>1. /\ Len(parent') \notin Tokens \cup {0} /\ parent'[Len(parent')] = seen[r].token
          /\ \A t \in Tokens : parent'[t] = parent[t]
      BY <2>2, ServerGrows DEF Rotates
    <3>2. valid' = (valid \ {seen[r].token}) \cup {Len(parent')}
      BY <2>2 DEF Rotates
    <3>3. /\ \A s \in Refreshers \ {r} : pc'[s] = pc[s] /\ got'[s] = got[s]
          /\ got'[r] = Len(parent')
          /\ \A s \in Refreshers : got[s] # Len(parent') /\ seen[s].token # Len(parent')
      BY <2>2, <3>1
    <3> SUFFICES ASSUME NEW s \in Refreshers, pc'[s] = "persist"
                 PROVE  /\ got'[s] \in valid' /\ parent'[got'[s]] = seen[s].token
                        /\ got'[s] # row.token
                        /\ \A q \in Refreshers : seen[q].token # got'[s] /\ (got'[q] = got'[s] => q = s)
      BY <2>2
    <3>4. CASE s = r
      BY <2>2, <3>1, <3>2, <3>3, <3>4
    <3>5. CASE s # r
      <4>1. pc[s] = "persist" /\ got'[s] = got[s] /\ got[s] \in Tokens
        BY <3>3, <3>5
      <4>2. /\ got[s] \in valid /\ parent[got[s]] = seen[s].token /\ got[s] # row.token
            /\ \A q \in Refreshers : seen[q].token # got[s] /\ (got[q] = got[s] => q = s)
        BY <4>1
      <4>3. got[s] \in valid' /\ parent'[got[s]] = seen[s].token
        BY <3>1, <3>2, <4>1, <4>2
      <4>4. \A q \in Refreshers : got'[q] = got[s] => q = s
        BY <3>1, <3>3, <4>1, <4>2
      <4> QED BY <4>1, <4>2, <4>3, <4>4
    <3> QED BY <3>4, <3>5
  <2>3. CASE UNCHANGED <<server, row, seen>> /\ \E outcome \in {"idle", "done"} : Returns(r, outcome)
    BY <2>3 DEF Returns
  <2> QED BY <1>5, <2>1, <2>2, <2>3, ExchangeReturns
<1>6. ASSUME NEW r \in Refreshers, ExchangeFails(r) PROVE Secret'
  <2>1. PICK outcome \in {"idle", "done", "retry", "pause"} : Returns(r, outcome)
    BY <1>6, FailureReturns
  <2>2. CASE UNCHANGED server
    BY <1>6, <2>1, <2>2 DEF ExchangeFails, Returns
  <2>3. CASE Rotates(seen[r].token)
    <3>1. \A t \in Tokens : parent'[t] = parent[t]
      BY <2>3, ServerGrows DEF Rotates
    <3>2. valid' = (valid \ {seen[r].token}) \cup {Len(parent')}
      BY <2>3 DEF Rotates
    <3>3. pc[r] = "exchange" /\ UNCHANGED <<row, seen>>
      BY <1>6 DEF ExchangeFails
    <3>4. /\ pc'[r] = "release" /\ got'[r] = 0
          /\ \A s \in Refreshers \ {r} : pc'[s] = pc[s] /\ got'[s] = got[s]
      BY <2>1 DEF Returns
    <3> SUFFICES ASSUME NEW s \in Refreshers, pc'[s] = "persist"
                 PROVE  /\ got'[s] \in valid' /\ parent'[got'[s]] = seen'[s].token
                        /\ got'[s] # row'.token
                        /\ \A q \in Refreshers : seen'[q].token # got'[s] /\ (got'[q] = got'[s] => q = s)
      OBVIOUS
    <3>5. pc[s] = "persist" /\ s # r /\ got'[s] = got[s]
      BY ONLY <3>4, pc'[s] = "persist"
    <3>6. /\ got[s] \in valid /\ parent[got[s]] = seen[s].token /\ got[s] # row.token
          /\ got[s] \in Tokens
          /\ \A q \in Refreshers : seen[q].token # got[s] /\ (got[q] = got[s] => q = s)
      BY <3>5
    <3>7. parent'[got[s]] = seen[s].token
      BY ONLY <3>1, <3>6
    <3>8. got[s] \in valid'
      BY <3>2, <3>3, <3>5, <3>6
    <3>9. \A q \in Refreshers : got'[q] = got[s] => q = s
      BY <3>4, <3>5, <3>6
    <3> QED BY ONLY <3>3, <3>5, <3>7, <3>8, <3>9, <3>6
  <2> QED BY <1>6, <2>2, <2>3 DEF ExchangeFails
<1>7. ASSUME NEW r \in Refreshers, Persist(r) PROVE Secret'
  <2>1. PICK outcome \in {"idle", "done", "clear"} : Returns(r, outcome)
    BY <1>7, PersistReturns
  <2>2. /\ \A s \in Refreshers \ {r} : seen'[s] = seen[s]
        /\ seen'[r].token = seen[r].token \/ seen'[r].token = got[r]
    BY <1>7, ResultRead
  <2>3. row'.token = row.token \/ row'.token = got[r]
    BY <1>7, ResultStored DEF Persist
  <2>4. pc[r] = "persist" /\ UNCHANGED server
    BY <1>7 DEF Persist
  <2> QED BY <2>1, <2>2, <2>3, <2>4 DEF Returns
<1>8. ASSUME NEW r \in Refreshers, PersistFails(r) PROVE Secret'
  <2>1. PICK outcome \in {"idle", "done", "retry", "pause"} : Returns(r, outcome)
    BY <1>8, FailureReturns
  <2>2. row'.token = row.token \/ row'.token = got[r]
    BY <1>8, ResultStored DEF PersistFails
  <2> QED BY <1>8, <2>1, <2>2, SMTT(30) DEF PersistFails, Returns
<1>9. ASSUME NEW r \in Refreshers, Finish(r) PROVE Secret'
  <2>1. /\ \A s \in Refreshers \ {r} : seen'[s] = seen[s]
        /\ seen'[r] \in {seen[r], Unread}
    BY <1>9 DEF Finish, Forgets
  <2>2. /\ \A s \in Refreshers \ {r} : pc'[s] = pc[s]
        /\ pc'[r] # "persist" /\ UNCHANGED got
    BY <1>9, ZenonT(60) DEF Finish
  <2>3. UNCHANGED server /\ row'.token = row.token /\ Unread.token = 0
    BY <1>9, RowIsRead DEF Finish
  <2> QED BY <2>1, <2>2, <2>3, SecretStays
<1>10. CASE Reauthorize
  <2>1. /\ Len(parent') \notin Tokens \cup {0}
        /\ \A t \in Tokens : parent'[t] = parent[t]
    BY <1>10, ServerGrows DEF Reauthorize
  <2>2. /\ valid \subseteq valid' /\ UNCHANGED <<pc, seen, got>>
        /\ row'.token = Len(parent')
    BY <1>10, RowReauthorized DEF Reauthorize
  <2> QED BY <2>1, <2>2, SMTT(30)
<1>11. ASSUME NEW p \in Procs, Restart(p) PROVE Secret'
  BY <1>11, RowIsRead DEF Restart, Faulty, Here
<1>12. CASE UNCHANGED vars
  BY <1>12 DEF vars
<1> QED
  BY <1>1, <1>2, <1>3, <1>4, <1>5, <1>6, <1>7, <1>8, <1>9, <1>10, <1>11, <1>12
  DEF Next, Step, Fails, QuietChange

(* The status stands under an exchange that can succeed. *)
LEMMA StatusStandsKept ==
  ASSUME RefreshInv, [Next]_vars PROVE StatusStands'
<1>1. ASSUME NEW r \in Refreshers,
            \/ Begin(r) \/ Retry(r) \/ TakeLocal(r) \/ TakeRedis(r) \/ RedisFails(r)
            \/ Recover(r) \/ Release(r) \/ ReleaseFails(r)
     PROVE  StatusStands'
  BY <1>1, QuietSteps, StatusStays DEF RefreshInv, Goes, own, RowKnown, StatusStands,
     server
<1>2. CASE QuietChange
  BY <1>2, QuietChanges DEF InFlight, RefreshInv, Goes, own, RowKnown, StatusStands,
     server
<1> USE RefreshAssumption DEF RefreshInv, Shapes, LockShapes, ProcessShapes,
       StageShapes, ReadShapes, RowShapes, Reads, RowKnown, StatusStands, Tokens,
Stages, Outcomes, Here, Goes, server, locks, process, own, history
<1>3. ASSUME NEW r \in Refreshers, Reread(r) PROVE StatusStands'
  <2>1. /\ \A s \in Refreshers \ {r} : seen'[s] = seen[s] /\ pc'[s] = pc[s]
        /\ (pc'[r] = "exchange" /\ seen'[r] = Snapshot) \/ pc'[r] = "release"
        /\ UNCHANGED <<row, hurt>>
    BY <1>3 DEF Reread, Returns
  <2> QED BY <2>1, RowIsRead, StatusStays
<1>4. ASSUME NEW r \in Refreshers, Exchange(r) PROVE StatusStands'
  <2>1. UNCHANGED <<row, seen, hurt>> /\ pc[r] = "exchange"
    BY <1>4, ExchangeReturns
  <2>2. \/ seen[r].token \in valid /\ Goes(r, "persist")
        \/ \E stage \in {"recover", "release"} : Goes(r, stage)
    BY <1>4, ExchangeReturns DEF Returns
  <2>3. \A s \in Refreshers : seen[s].token \in valid' => seen[s].token \in valid
    BY OldTokensOnly
  <2> QED BY <2>1, <2>2, <2>3, ZenonT(60)
<1>5. ASSUME NEW r \in Refreshers, ExchangeFails(r) PROVE StatusStands'
  <2>1. PICK outcome \in {"idle", "done", "retry", "pause"} : Returns(r, outcome)
    BY <1>5, FailureReturns
  <2>2. \A s \in Refreshers : seen[s].token \in valid' => seen[s].token \in valid
    BY OldTokensOnly
  <2> QED BY <1>5, <2>1, <2>2 DEF ExchangeFails, Returns, Hurts
<1>6. ASSUME NEW r \in Refreshers, Persist(r) PROVE StatusStands'
  <2>1. PICK outcome \in {"idle", "done", "clear"} : Returns(r, outcome)
    BY <1>6, PersistReturns
  <2>2. \A s \in Refreshers \ {r} : seen'[s] = seen[s]
    BY <1>6, ResultRead
  <2>3. /\ row'.status = row.status
        /\ row'.token = row.token \/ row'.token = got[r]
    BY <1>6, ResultStored DEF Persist
  <2>4. pc[r] = "persist" /\ UNCHANGED server /\ hurt \subseteq hurt'
    BY <1>6 DEF Persist, Hurts
  <2>5. \A s \in Refreshers : pc'[s] = "persist" \/ pc'[s] = "exchange" => s # r /\ pc'[s] = pc[s]
    BY <2>1 DEF Returns
  <2>6. \A s \in Refreshers : seen[s].token # got[r]
    BY <2>4 DEF TokensKnown, Secret
  <2> QED BY <2>2, <2>3, <2>4, <2>5, <2>6, StatusStays
<1>7. ASSUME NEW r \in Refreshers, PersistFails(r) PROVE StatusStands'
  <2>1. PICK outcome \in {"idle", "done", "retry", "pause"} : Returns(r, outcome)
    BY <1>7, FailureReturns
  <2>2. /\ row'.status = row.status
        /\ row'.token = row.token \/ row'.token = got[r]
    BY <1>7, ResultStored DEF PersistFails
  <2>3. pc[r] = "persist" /\ UNCHANGED <<server, seen>> /\ hurt \subseteq hurt'
    BY <1>7 DEF PersistFails, Hurts
  <2>4. \A s \in Refreshers : pc'[s] = "persist" \/ pc'[s] = "exchange" => s # r /\ pc'[s] = pc[s]
    BY <2>1 DEF Returns
  <2>5. \A s \in Refreshers : seen[s].token # got[r]
    BY <2>3 DEF TokensKnown, Secret
  <2> QED BY <2>2, <2>3, <2>4, <2>5, StatusStays
<1>8. ASSUME NEW r \in Refreshers, Finish(r) PROVE StatusStands'
  <2>1. /\ \A s \in Refreshers \ {r} : seen'[s] = seen[s] /\ pc'[s] = pc[s]
        /\ pc'[r] \notin {"exchange", "persist"} /\ UNCHANGED <<row, hurt>>
    BY <1>8, ZenonT(60) DEF Finish, Forgets
  <2> QED BY <2>1, StatusStays
<1>9. ASSUME NEW r \in Refreshers, Condemn(r) PROVE StatusStands'
  <2>1. CASE UNCHANGED row
    BY <1>9, <2>1, RowIsRead, ZenonT(60) DEF Condemn, After, Forgets
  <2>2. CASE ~Stopped(r) /\ AsRead(r)
    <3>1. row'.token = row.token /\ row.token = seen[r].token
      BY <1>9, <2>2, RowMarked DEF Condemn, After, AsRead, Unchanged
    <3>2. Refused(r) /\ seen[r].token \notin valid
      BY <1>9 DEF Condemn, After, Refused, TokensKnown, RefusedIsDead
    <3>3. UNCHANGED <<server, got, hurt>> /\ Goes(r, "idle") /\ \A s \in Refreshers \ {r} : seen'[s] = seen[s]
      BY <1>9 DEF Condemn, After, Forgets
    <3> QED BY <1>9, <3>1, <3>2, <3>3 DEF NoRival, RefusedIsDead
  <2> QED BY <1>9, <2>1, <2>2 DEF Condemn, After
<1>10. ASSUME NEW r \in Refreshers, Pause(r) PROVE StatusStands'
  BY <1>10 DEF Pause, After, Forgets
<1>11. ASSUME NEW r \in Refreshers, ClearCooldown(r) PROVE StatusStands'
  BY <1>11 DEF ClearCooldown, After, Forgets
<1>12. CASE Reauthorize
  <2>1. row'.token = Len(parent') /\ Len(parent') \notin Tokens \cup {0} /\ UNCHANGED seen
    BY <1>12, RowReauthorized, ServerGrows DEF Reauthorize
  <2> QED BY <2>1
<1>13. ASSUME NEW p \in Procs, Restart(p) PROVE StatusStands'
  <2>1. /\ \A s \in Refreshers \ Here(p) : seen'[s] = seen[s] /\ pc'[s] = pc[s]
        /\ \A s \in Here(p) : pc'[s] \in {"idle", "done"}
        /\ UNCHANGED row /\ hurt \subseteq hurt'
    BY <1>13 DEF Restart
  <2> QED BY <2>1, StatusStays
<1>14. CASE UNCHANGED vars
  BY <1>14 DEF vars
<1> QED
  BY <1>1, <1>2, <1>3, <1>4, <1>5, <1>6, <1>7, <1>8, <1>9, <1>10, <1>11, <1>12, <1>13,
     <1>14
  DEF Next, Step, Fails, QuietChange

(* Nobody was refused the token that another one has exchanged under the key. *)
LEMMA NoRivalKept ==
  ASSUME RefreshInv, [Next]_vars PROVE NoRival'
<1>1. ASSUME NEW r \in Refreshers,
            \/ Begin(r) \/ Retry(r) \/ TakeLocal(r) \/ TakeRedis(r) \/ RedisFails(r)
            \/ Recover(r) \/ Release(r) \/ ReleaseFails(r)
     PROVE  NoRival'
  BY <1>1, QuietSteps, RivalsStay DEF RefreshInv, Goes, own, RowKnown, Shapes,
     StageShapes, ReadShapes, Refused
<1>2. ASSUME NEW r \in Refreshers, Condemn(r) \/ Pause(r) \/ ClearCooldown(r)
     PROVE  NoRival'
  BY <1>2, AfterSteps, RivalsStay DEF Forgets, RefreshInv, Goes, own, RowKnown, Shapes,
     StageShapes, ReadShapes, Refused
<1>3. CASE QuietChange
  BY <1>3, QuietChanges, RivalsStay DEF Refused, RefreshInv, Goes, own, RowKnown,
     Shapes, StageShapes, ReadShapes, Refused
<1> USE RefreshAssumption DEF RefreshInv, Shapes, LockShapes, ProcessShapes,
       StageShapes, ReadShapes, KeyIsHeld, RowKnown, NoRival, Refused, Stages,
Outcomes, Goes, server, locks, process, own, history
<1>4. ASSUME NEW r \in Refreshers, Reread(r) PROVE NoRival'
  <2>1. /\ pc[r] = "reread" /\ UNCHANGED hurt
        /\ \/ Goes(r, "exchange") /\ UNCHANGED next
           \/ \E outcome \in {"idle", "done"} : Returns(r, outcome)
        /\ \A s \in Refreshers \ {r} : seen'[s] = seen[s]
    BY <1>4 DEF Reread, Over
  <2> QED BY <2>1, RivalsStay DEF Returns
<1>5. ASSUME NEW r \in Refreshers, Exchange(r) PROVE NoRival'
  <2>1. UNCHANGED <<row, seen, hurt>> /\ pc[r] = "exchange"
    BY <1>5, ExchangeReturns
  <2>2. CASE seen[r].token \in valid /\ Goes(r, "persist") /\ UNCHANGED next
    <3>1. ASSUME NEW s \in Refreshers, NEW q \in Refreshers, hurt = {}, pc'[s] = "persist", Refused(q)'
          PROVE  seen[q].token # seen[s].token
      <4>1. s = r
        BY <2>1, <2>2, <3>1, OneUnderTheKey
      <4>2. Refused(q)
        BY <2>2, <3>1 DEF Refused
      <4> QED BY <2>2, <4>1, <4>2 DEF TokensKnown, RefusedIsDead
    <3> QED BY <2>1, <3>1
  <2>3. CASE Goes(r, "recover") /\ UNCHANGED next
    <3>1. ASSUME NEW s \in Refreshers, hurt = {}
          PROVE  pc'[s] # "persist"
      BY <2>1, <2>3, <3>1, OneUnderTheKey
    <3> QED BY <2>1, <3>1
  <2>4. CASE \E outcome \in {"idle", "done"} : Returns(r, outcome)
    BY <2>1, <2>4, RivalsStay DEF Returns
  <2> QED BY <1>5, <2>2, <2>3, <2>4, ExchangeReturns
<1>6. ASSUME NEW r \in Refreshers, ExchangeFails(r) PROVE NoRival'
  <2>1. PICK outcome \in {"idle", "done", "retry", "pause"} : Returns(r, outcome)
    BY <1>6, FailureReturns
  <2>2. /\ pc[r] = "exchange" /\ hurt \subseteq hurt'
        /\ \A s \in Refreshers \ {r} : seen'[s] = seen[s]
    BY <1>6 DEF ExchangeFails, Hurts
  <2> QED BY <2>1, <2>2, RivalsStay DEF Returns
<1>7. ASSUME NEW r \in Refreshers, Persist(r) PROVE NoRival'
  <2>1. PICK outcome \in {"idle", "done", "clear"} : Returns(r, outcome)
    BY <1>7, PersistReturns
  <2>2. /\ pc[r] = "persist" /\ hurt \subseteq hurt'
        /\ \A s \in Refreshers \ {r} : seen'[s] = seen[s]
    BY <1>7, ResultRead DEF Persist, Hurts
  <2> QED BY <2>1, <2>2, RivalsStay DEF Returns
<1>8. ASSUME NEW r \in Refreshers, PersistFails(r) PROVE NoRival'
  <2>1. PICK outcome \in {"idle", "done", "retry", "pause"} : Returns(r, outcome)
    BY <1>8, FailureReturns
  <2>2. /\ pc[r] = "persist" /\ hurt \subseteq hurt'
        /\ \A s \in Refreshers \ {r} : seen'[s] = seen[s]
    BY <1>8 DEF PersistFails, Hurts
  <2> QED BY <2>1, <2>2, RivalsStay DEF Returns
<1>9. ASSUME NEW r \in Refreshers, Finish(r) PROVE NoRival'
  <2>1. /\ pc[r] = "finish" /\ Goes(r, next[r]) /\ UNCHANGED hurt
        /\ (seen' = seen /\ next' = next) \/ next[r] \in {"idle", "done"}
        /\ \A s \in Refreshers \ {r} : seen'[s] = seen[s] /\ next'[s] = next[s]
    BY <1>9 DEF Finish, Forgets
  <2> QED BY <2>1, RivalsStay
<1>10. CASE Reauthorize
  BY <1>10, RivalsStay DEF Reauthorize
<1>11. ASSUME NEW p \in Procs, Restart(p) PROVE NoRival'
  <2>1. /\ \A s \in Refreshers \ Here(p) : seen'[s] = seen[s] /\ pc'[s] = pc[s] /\ next'[s] = next[s]
        /\ \A s \in Here(p) : pc'[s] \in {"idle", "done"}
    BY <1>11 DEF Restart, Here
  <2>2. hurt \subseteq hurt'
    BY <1>11 DEF Restart
  <2> QED BY <2>1, <2>2, RivalsStay
<1>12. CASE UNCHANGED vars
  BY <1>12 DEF vars
<1> QED
  BY <1>1, <1>2, <1>3, <1>4, <1>5, <1>6, <1>7, <1>8, <1>9, <1>10, <1>11, <1>12
  DEF Next, Step, Fails, QuietChange

(* The stored token lives, or its successor is about to be stored. *)
LEMMA StoredTokenLivesKept ==
  ASSUME RefreshInv, [Next]_vars PROVE StoredTokenLives'
<1>1. ASSUME NEW r \in Refreshers,
            \/ Begin(r) \/ Retry(r) \/ TakeLocal(r) \/ TakeRedis(r) \/ RedisFails(r)
            \/ Recover(r) \/ Release(r) \/ ReleaseFails(r)
     PROVE  StoredTokenLives'
  BY <1>1, QuietSteps, LivesOn DEF RefreshInv, Goes, own, RowKnown
<1>2. CASE QuietChange
  <2>1. /\ UNCHANGED <<server, pc, seen, got>> /\ hurt \subseteq hurt' /\ row'.token = row.token
        /\ row'.status = row.status \/ ~InFlight \/ hurt' # {}
    BY <1>2, QuietChanges DEF RefreshInv
  <2>2. CASE hurt' # {}
    BY <2>2 DEF StoredTokenLives
  <2>3. CASE row'.status = row.status
    BY <2>1, <2>3, LivesOn DEF RefreshInv, RowKnown
  <2>4. CASE ~InFlight
    BY <2>1, <2>4 DEF InFlight, StoredTokenLives, RefreshInv, RowKnown, server
  <2> QED BY <2>1, <2>2, <2>3, <2>4
<1> USE RefreshAssumption DEF RefreshInv, Shapes, LockShapes, ProcessShapes,
       StageShapes, ReadShapes, RowShapes, Reads, RowKnown, StoredTokenLives,
Unchanged, Tokens, Stages, Outcomes, Here, Goes, server, locks, process, own, history
<1>3. ASSUME NEW r \in Refreshers, Reread(r) PROVE StoredTokenLives'
  <2>1. \A s \in Refreshers : pc[s] = "persist" => pc'[s] = "persist" /\ got'[s] = got[s] /\ seen'[s] = seen[s]
    BY <1>3 DEF Reread, Returns
  <2> QED BY <1>3, <2>1, LivesOn DEF Reread
<1>4. ASSUME NEW r \in Refreshers, Exchange(r) PROVE StoredTokenLives'
  <2>1. UNCHANGED <<row, seen, hurt>> /\ pc[r] = "exchange"
    BY <1>4, ExchangeReturns
  <2>2. CASE UNCHANGED server
    <3>1. \A s \in Refreshers \ {r} : pc'[s] = pc[s] /\ got'[s] = got[s]
      <4>1. CASE \E stage \in {"persist", "recover"} : Goes(r, stage) /\ \E t : got' = [got EXCEPT ![r] = t]
        BY <4>1
      <4>2. CASE Goes(r, "recover") /\ UNCHANGED got
        BY <4>2
      <4>3. CASE \E outcome \in {"idle", "done"} : Returns(r, outcome)
        BY <4>3 DEF Returns
      <4> QED BY <1>4, <4>1, <4>2, <4>3, ExchangeReturns
    <3> QED BY <2>1, <2>2, <3>1, LivesOn
  <2>3. CASE /\ seen[r].token \in valid /\ Rotates(seen[r].token)
             /\ Goes(r, "persist") /\ got' = [got EXCEPT ![r] = Len(parent')]
    <3>1. /\ parent'[Len(parent')] = seen[r].token /\ \A t \in Tokens : parent'[t] = parent[t]
      BY <2>3, ServerGrows DEF Rotates
    <3>2. valid' = (valid \ {seen[r].token}) \cup {Len(parent')}
      BY <2>3 DEF Rotates
    <3>3. CASE row.token = seen[r].token /\ hurt = {}
      <4>1. row.status = seen[r].status
        BY <2>1, <2>3, <3>3 DEF StatusStands
      <4>2. Unchanged(r)' /\ pc'[r] = "persist" /\ got'[r] \in valid' /\ parent'[got'[r]] = row'.token
        BY <2>1, <2>3, <3>1, <3>2, <3>3, <4>1
      <4> QED BY <4>2
    <3>4. CASE row.token # seen[r].token /\ row.token \in valid
      BY <2>1, <3>2, <3>4
    <3>5. ASSUME NEW s \in Refreshers, pc[s] = "persist", got[s] \in valid,
                 parent[got[s]] = row.token, Unchanged(s)
          PROVE  StoredTokenLives'
      <4>1. s # r /\ got[s] # seen[r].token /\ got[s] \in Tokens
        BY <2>1, <3>5 DEF TokensKnown, Secret, Barrier, ResultInHand
      <4>2. /\ pc'[s] = "persist" /\ got'[s] \in valid' /\ parent'[got'[s]] = row'.token
            /\ Unchanged(s)'
        BY <2>1, <2>3, <3>1, <3>2, <3>5, <4>1
      <4> QED BY <4>2
    <3> QED BY <2>1, <3>3, <3>4, <3>5
  <2> QED BY <1>4, <2>2, <2>3, ExchangeReturns
<1>5. ASSUME NEW r \in Refreshers, ExchangeFails(r) PROVE StoredTokenLives'
  <2>1. PICK outcome \in {"idle", "done", "retry", "pause"} : Returns(r, outcome)
    BY <1>5, FailureReturns
  <2>2. CASE UNCHANGED <<server, hurt>>
    BY <1>5, <2>1, <2>2, LivesOn DEF ExchangeFails, Returns
  <2>3. CASE Hurts("token")
    BY <2>3 DEF Hurts
  <2> QED BY <1>5, <2>2, <2>3 DEF ExchangeFails
<1>6. ASSUME NEW r \in Refreshers, Persist(r) PROVE StoredTokenLives'
  <2>1. PICK outcome \in {"idle", "done", "clear"} : Returns(r, outcome)
    BY <1>6, PersistReturns
  <2>2. CASE Stores(r) /\ UNCHANGED hurt
    <3>1. CASE Unchanged(r)
      <4>1. row'.token = got[r] /\ got[r] \in valid /\ UNCHANGED server
        BY <1>6, <2>2, <3>1, WhatIsStored DEF PersistFails, Persist, TokensKnown, Secret
      <4> QED BY <4>1
    <3>2. CASE ~Unchanged(r)
      <4>1. UNCHANGED <<row, server>>
        BY <1>6, <2>2, <3>2 DEF PersistFails, Persist, Stores
      <4>2. \A s \in Refreshers \ {r} : pc'[s] = pc[s] /\ got'[s] = got[s]
        BY <2>1 DEF Returns
      <4>3. \A s \in Refreshers \ {r} : seen'[s] = seen[s]
        BY <1>6, ResultRead
      <4> QED BY <2>2, <3>2, <4>1, <4>2, <4>3, LivesOn
    <3> QED BY <3>1, <3>2
  <2>3. CASE Hurts("token")
    BY <2>3 DEF Hurts
  <2> QED BY <1>6, <2>2, <2>3 DEF Persist
<1>7. ASSUME NEW r \in Refreshers, PersistFails(r) PROVE StoredTokenLives'
  <2>1. PICK outcome \in {"idle", "done", "retry", "pause"} : Returns(r, outcome)
    BY <1>7, FailureReturns
  <2>2. CASE Stores(r) /\ UNCHANGED hurt
    <3>1. CASE Unchanged(r)
      <4>1. row'.token = got[r] /\ got[r] \in valid /\ UNCHANGED server
        BY <1>7, <2>2, <3>1, WhatIsStored DEF PersistFails, Persist, TokensKnown, Secret
      <4> QED BY <4>1
    <3>2. CASE ~Unchanged(r)
      <4>1. UNCHANGED <<row, server>>
        BY <1>7, <2>2, <3>2 DEF PersistFails, Persist, Stores
      <4>2. \A s \in Refreshers \ {r} : pc'[s] = pc[s] /\ got'[s] = got[s]
        BY <2>1 DEF Returns
      <4>3. \A s \in Refreshers \ {r} : seen'[s] = seen[s]
        BY <1>7 DEF PersistFails
      <4> QED BY <2>2, <3>2, <4>1, <4>2, <4>3, LivesOn
    <3> QED BY <3>1, <3>2
  <2>3. CASE Hurts("token")
    BY <2>3 DEF Hurts
  <2> QED BY <1>7, <2>2, <2>3 DEF PersistFails
<1>8. ASSUME NEW r \in Refreshers, Finish(r) PROVE StoredTokenLives'
  BY <1>8, RowIsRead, ZenonT(60) DEF Finish, Forgets
<1>9. ASSUME NEW r \in Refreshers, Condemn(r) PROVE StoredTokenLives'
  <2>1. CASE UNCHANGED row
    BY <1>9, <2>1, LivesOn DEF Condemn, After, Forgets
  <2>2. CASE ~Stopped(r) /\ AsRead(r)
    <3>1. row'.token = row.token /\ row.token = seen[r].token
      BY <1>9, <2>2, RowMarked DEF Condemn, After, AsRead, Unchanged
    <3>2. Refused(r) /\ seen[r].token \notin valid
      BY <1>9 DEF Condemn, After, Refused, TokensKnown, RefusedIsDead
    <3>3. UNCHANGED <<server, got, hurt>> /\ Goes(r, "idle") /\ \A s \in Refreshers \ {r} : seen'[s] = seen[s]
      BY <1>9 DEF Condemn, After, Forgets
    <3> QED BY <1>9, <2>2, <3>1, <3>2, <3>3 DEF RefusedIsDead, NoRival, AsRead, After,
    Condemn
  <2> QED BY <1>9, <2>1, <2>2 DEF Condemn, After
<1>10. ASSUME NEW r \in Refreshers, Pause(r) PROVE StoredTokenLives'
  <2>1. row'.token = row.token /\ row'.status = row.status
    BY <1>10, RowEdited DEF Pause, After
  <2>2. \A s \in Refreshers : pc[s] = "persist" => pc'[s] = "persist" /\ got'[s] = got[s] /\ seen'[s] = seen[s]
    BY <1>10 DEF Pause, After, Forgets
  <2> QED BY <1>10, <2>1, <2>2, LivesOn DEF Pause, After
<1>11. ASSUME NEW r \in Refreshers, ClearCooldown(r) PROVE StoredTokenLives'
  <2>1. row'.token = row.token /\ row'.status = row.status
    BY <1>11, RowEdited DEF ClearCooldown, After
  <2>2. \A s \in Refreshers : pc[s] = "persist" => pc'[s] = "persist" /\ got'[s] = got[s] /\ seen'[s] = seen[s]
    BY <1>11 DEF ClearCooldown, After, Forgets
  <2> QED BY <1>11, <2>1, <2>2, LivesOn DEF ClearCooldown, After
<1>12. CASE Reauthorize
  <2>1. row'.token = Len(parent')
    BY <1>12, RowReauthorized
  <2> QED BY <1>12, <2>1 DEF Reauthorize
<1>13. ASSUME NEW p \in Procs, Restart(p) PROVE StoredTokenLives'
  <2>1. CASE \E s \in Here(p) : got[s] # 0
    <3>1. "token" \in hurt'
      BY <1>13, <2>1 DEF Restart
    <3> QED BY <3>1
  <2>2. CASE \A s \in Here(p) : got[s] = 0
    <3>1. \A s \in Refreshers : pc[s] = "persist" => s \notin Here(p)
      BY <2>2 DEF Barrier, ResultInHand
    <3>2. /\ \A s \in Refreshers \ Here(p) : seen'[s] = seen[s] /\ pc'[s] = pc[s] /\ got'[s] = got[s]
          /\ UNCHANGED <<row, server>>
      BY <1>13 DEF Restart
    <3>3. hurt \subseteq hurt'
      BY <1>13 DEF Restart
    <3> QED BY <3>1, <3>2, <3>3, LivesOn
  <2> QED BY <2>1, <2>2
<1>14. CASE UNCHANGED vars
  BY <1>14 DEF vars
<1> QED
  BY <1>1, <1>2, <1>3, <1>4, <1>5, <1>6, <1>7, <1>8, <1>9, <1>10, <1>11, <1>12, <1>13,
     <1>14
  DEF Next, Step, Fails, QuietChange

LEMMA RefreshStarts == Init => RefreshInv
<1> SUFFICES ASSUME Init PROVE RefreshInv
  OBVIOUS
<1> USE RefreshAssumption DEF Init
<1>1. parent \in Seq(Nat) /\ Len(parent) = 1 /\ Tokens = {1}
  BY DEF Tokens
<1>2. row \in Rows /\ row.token = 1
  BY DEF Rows, RowStatuses
<1>3. Unread \in Reads /\ Unread.token = 0
  BY RowIsRead
<1>4. ServerShapes /\ RowShapes /\ LockShapes /\ ProcessShapes /\ StageShapes /\ ReadShapes
  BY <1>1, <1>2, <1>3 DEF ServerShapes, RowShapes, LockShapes, ProcessShapes, StageShapes,
                          ReadShapes, Stages, Outcomes
<1>5. Barrier /\ KeyIsHeld
  BY DEF Barrier, Registered, StoppedIsIdle, LocalIsHeld, ResultInHand, KeyIsHeld, Working, Locked
<1>6. TokensKnown /\ StatusStands /\ NoRival
  BY DEF TokensKnown, RefusedIsDead, Refused, Secret, StatusStands, NoRival
<1>7. StoredTokenLives
  BY <1>2 DEF StoredTokenLives
<1> QED BY <1>4, <1>5, <1>6, <1>7 DEF RefreshInv, Shapes, RowKnown

(* The invariant the safety properties rest on, for any processes,         *)
(* refreshers and bounds: shapes, registration, the key, and what is known *)
(* of the tokens.                                                          *)
THEOREM RefreshInvariance == Spec => []RefreshInv
<1>1. Init => RefreshInv
  BY RefreshStarts
<1>2. ASSUME RefreshInv, [Next]_vars PROVE RefreshInv'
  <2>1. Shapes'
    BY <1>2, ServerShapesKept, RowShapesKept, LockShapesKept, ProcessShapesKept, StageShapesKept,
       ReadShapesKept DEF Shapes
  <2>2. Barrier'
    BY <1>2, RegisteredKept, StoppedIsIdleKept, LocalIsHeldKept, ResultInHandKept DEF Barrier
  <2>3. KeyIsHeld' /\ TokensKnown'
    BY <1>2, KeyIsHeldKept, RefusedIsDeadKept, SecretKept DEF TokensKnown
  <2>4. RowKnown'
    BY <1>2, StatusStandsKept, NoRivalKept, StoredTokenLivesKept DEF RowKnown
  <2> QED BY <2>1, <2>2, <2>3, <2>4 DEF RefreshInv
<1> QED BY <1>1, <1>2, PTL DEF Spec

(* The stored token is one the authorization server accepts, or its        *)
(* successor is about to be stored, unless a reply was lost, a process     *)
(* stopped, a lock ran out under its holder or the status changed under an *)
(* exchange (OAuthRefreshAPI.RefreshIfNeeded).                             *)
THEOREM StoredTokenLivesAlways == Spec => []StoredTokenLives
<1>1. RefreshInv => StoredTokenLives
  BY DEF RefreshInv, RowKnown
<1> QED BY <1>1, RefreshInvariance, PTL

(* When the coordinator of a process reports its work as drained, its lock *)
(* is free, the key in Redis is not its own unless it was lost, and no     *)
(* result is in hand (TokenRefreshService.StopContext).                    *)
THEOREM DrainedIsQuietAlways == Spec => []DrainedIsQuiet
<1>1. RefreshInv => DrainedIsQuiet
  <2> SUFFICES ASSUME RefreshInv, NEW p \in Procs, phase[p] = "stopped"
               PROVE  /\ local[p] = Nobody
                      /\ "lock" \in hurt \/ lock \notin Here(p)
                      /\ \A r \in Here(p) : got[r] = 0
    BY DEF DrainedIsQuiet
  <2> USE DEF RefreshInv, Barrier
  <2>1. \A r \in Here(p) : r \in Refreshers /\ pc[r] \notin Working
    BY DEF Registered, StoppedIsIdle, Here
  <2>2. local[p] = Nobody
    BY <2>1 DEF LocalIsHeld, Here, Shapes, LockShapes
  <2>3. "lock" \in hurt \/ lock \notin Here(p)
    BY <2>1 DEF KeyIsHeld, Working
  <2>4. \A r \in Here(p) : got[r] = 0
    BY <2>1 DEF ResultInHand, Working, Locked
  <2> QED BY <2>2, <2>3, <2>4
<1> QED BY <1>1, RefreshInvariance, PTL

(* What a step does to the row: it stores the result that was in hand, a   *)
(* new authorization, or another token is not there afterwards.            *)
LEMMA RowSteps ==
  ASSUME RefreshInv, [Next]_vars
  PROVE  \/ row'.token = row.token
         \/ Reauthorize
         \/ \E r \in Refreshers :
              pc[r] = "persist" /\ Unchanged(r) /\ row'.token = got[r] /\ UNCHANGED server
<1> USE DEF RefreshInv
<1>1. ASSUME NEW r \in Refreshers, Persist(r) \/ PersistFails(r)
      PROVE  \/ row'.token = row.token
             \/ pc[r] = "persist" /\ Unchanged(r) /\ row'.token = got[r] /\ UNCHANGED server
  BY <1>1, ResultStored DEF Persist, PersistFails
<1>2. ASSUME NEW r \in Refreshers, Condemn(r) \/ Pause(r) \/ ClearCooldown(r)
      PROVE  row'.token = row.token
  BY <1>2, RowMarked, RowEdited DEF Condemn, Pause, ClearCooldown, After, Shapes, RowShapes
<1>3. ASSUME NEW r \in Refreshers, Step(r) \/ Fails(r), ~Persist(r), ~PersistFails(r),
             ~Condemn(r), ~Pause(r), ~ClearCooldown(r)
      PROVE  row' = row
  BY <1>3 DEF Step, Fails, Begin, Retry, Registers, TakeLocal, TakeRedis, Reread, Exchange, Recover,
              Release, Finish, RedisFails, ExchangeFails, ReleaseFails
<1>4. ASSUME NEW p \in Procs, Stop(p) \/ Drained(p) \/ Restart(p)
      PROVE  row' = row
  BY <1>4 DEF Stop, Drained, Restart
<1>5. ASSUME ClearError \/ Disable \/ Switch \/ Age \/ PauseEnds
      PROVE  row'.token = row.token
  BY <1>5, RowCleared, RowMarked, RowEdited
  DEF ClearError, Disable, Changes, Switch, Age, PauseEnds, Shapes, RowShapes
<1>6. ASSUME ExpireOrphan \/ ExpireHeld \/ UNCHANGED vars
      PROVE  row' = row
  BY <1>6 DEF ExpireOrphan, ExpireHeld, vars
<1> QED BY <1>1, <1>2, <1>3, <1>4, <1>5, <1>6 DEF Next

(* A refresh replaces the token it exchanged and no other: a result that   *)
(* comes after a newer authorization is dropped                            *)
(* (UpdateOAuthCredentialsIfUnchanged).                                    *)
THEOREM LateResultsYieldAlways == Spec => LateResultsYield
<1>1. ASSUME RefreshInv, [Next]_vars, row'.token # row.token
      PROVE  parent'[row'.token] \in {0, row.token}
  <2>1. CASE Reauthorize
    BY <1>1, <2>1, RowReauthorized, ServerGrows DEF RefreshInv, Shapes, Reauthorize
  <2>2. ASSUME NEW r \in Refreshers, pc[r] = "persist", Unchanged(r), row'.token = got[r],
               UNCHANGED server
        PROVE  parent'[row'.token] = row.token
    BY <1>1, <2>2 DEF RefreshInv, TokensKnown, Secret, Unchanged, server
  <2> QED BY <1>1, <2>1, <2>2, RowSteps
<1>2. RefreshInv /\ [Next]_vars => [row'.token # row.token => parent'[row'.token] \in {0, row.token}]_vars
  BY <1>1
<1> QED BY <1>2, RefreshInvariance, PTL DEF Spec, LateResultsYield

(* An administrator activates or disables a provider, and condemns none.   *)
LEMMA StatusGiven ==
  ASSUME row \in Rows, Reauthorize \/ ClearError \/ Disable
  PROVE  row'.status \in {row.status, "active", "disabled"}
<1>1. Cleared \in Rows /\ Cleared.status = "active"
  BY DEF Rows, Cleared, RowStatuses
<1>2. ASSUME NEW clean \in {row, Cleared, [Cleared EXCEPT !.paused = row.paused]}
      PROVE  clean \in Rows /\ clean.status \in {row.status, "active"}
  <2>1. [Cleared EXCEPT !.paused = row.paused].status = Cleared.status
    BY <1>1 DEF Rows
  <2> QED BY <1>1, <1>2, <2>1, RowCleared
<1>3. CASE Reauthorize
  <2>1. ASSUME NEW clean \in Rows, NEW t, row' = [clean EXCEPT !.token = t, !.due = FALSE]
        PROVE  row'.status = clean.status
    BY <2>1 DEF Rows
  <2> QED BY <1>2, <1>3, <2>1 DEF Reauthorize
<1>4. CASE ClearError
  BY <1>2, <1>4 DEF ClearError, Changes
<1>5. CASE Disable
  BY <1>5, RowMarked DEF Disable, Changes, Rows
<1> QED BY <1>3, <1>4, <1>5

(* A provider is condemned only for a token that is dead: a failure on the *)
(* way, or the rejection of an older token, does not do it                 *)
(* (ApplyOAuthRefreshFailure).                                             *)
THEOREM OnlyDeadIsCondemnedAlways == Spec => OnlyDeadIsCondemned
<1>1. ASSUME RefreshInv, [Next]_vars, row'.status = "error", row.status # "error"
      PROVE  row.token \notin valid
  <2> USE DEF RefreshInv
  <2>1. ASSUME NEW r \in Refreshers, Condemn(r)
        PROVE  row.token \notin valid
    <3>1. AsRead(r)
      BY <1>1, <2>1 DEF Condemn, After
    <3>2. Refused(r)
      BY <2>1 DEF Condemn, After, Refused
    <3> QED BY <1>1, <3>1, <3>2 DEF TokensKnown, RefusedIsDead, AsRead, Unchanged
  <2>2. ASSUME NEW r \in Refreshers, Pause(r) \/ ClearCooldown(r) \/ Persist(r) \/ PersistFails(r)
        PROVE  row'.status = row.status
    BY <1>1, <2>2, RowEdited, ResultStored DEF Pause, ClearCooldown, After, Persist, PersistFails, Shapes, RowShapes
  <2>3. ASSUME NEW r \in Refreshers, Step(r) \/ Fails(r), ~Persist(r), ~PersistFails(r),
               ~Condemn(r), ~Pause(r), ~ClearCooldown(r)
        PROVE  row' = row
    BY <2>3 DEF Step, Fails, Begin, Retry, Registers, TakeLocal, TakeRedis, Reread, Exchange, Recover,
                Release, Finish, RedisFails, ExchangeFails, ReleaseFails
  <2>4. ASSUME NEW p \in Procs, Stop(p) \/ Drained(p) \/ Restart(p)
        PROVE  row' = row
    BY <2>4 DEF Stop, Drained, Restart
  <2>5. ASSUME Reauthorize \/ ClearError \/ Disable
        PROVE  row'.status \in {row.status, "active", "disabled"}
    BY <1>1, <2>5, StatusGiven DEF Shapes, RowShapes
  <2>6. ASSUME Switch \/ Age \/ PauseEnds
        PROVE  row'.status = row.status
    BY <1>1, <2>6, RowEdited DEF Switch, Age, PauseEnds, Shapes, RowShapes
  <2>7. ASSUME ExpireOrphan \/ ExpireHeld \/ UNCHANGED vars
        PROVE  row' = row
    BY <2>7 DEF ExpireOrphan, ExpireHeld, vars
  <2> QED BY <1>1, <2>1, <2>2, <2>3, <2>4, <2>5, <2>6, <2>7 DEF Next
<1>2. RefreshInv /\ [Next]_vars
        => [row'.status = "error" /\ row.status # "error" => row.token \notin valid]_vars
  BY <1>1
<1> QED BY <1>2, RefreshInvariance, PTL DEF Spec, OnlyDeadIsCondemned
==============================================================================
