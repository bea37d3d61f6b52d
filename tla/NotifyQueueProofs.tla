------------------------- MODULE NotifyQueueProofs -------------------------
(***************************************************************************)
(* What NotifyQueue guarantees for any number of requests, recipients,     *)
(* workers, faults and attempts.                                           *)
(***************************************************************************)
EXTENDS NotifyQueue, FiniteSetTheorems, TLAPS

\* The lock protocol: a worker is busy with a row that exists, and a row
\* that is locked is pending.
LocksPending ==
  \A w \in Worker :
    /\ pc[w] \in Busy => row[job[w]].status # "absent"
    /\ pc[w] \in Locking => row[job[w]].status = "pending"

\* A row exists, and a mail was sent, only after its request has committed.
OnlyCommittedRows ==
  \A j \in Job :
    row[j].status # "absent" \/ accepted[j] > 0 =>
      txn[j[1]] = "committed" /\ j[2] \in mails[j[1]]

\* attempts counts deliveries: it lags behind accepted by the delivery that
\* a worker has yet to commit, and a second session never overestimates it.
AttemptsAreDeliveries ==
  /\ \A j \in Job :
       /\ row[j].attempts <= accepted[j]
       /\ row[j].status = "done" => row[j].attempts >= 1
       /\ row[j].status = "failed" => row[j].attempts >= MaxAttempts
  /\ \A w \in Worker :
       /\ pc[w] = "sent" => row[job[w]].attempts < accepted[job[w]]
       /\ pc[w] = "recording" => seen[w].attempts <= row[job[w]].attempts

Inductive ==
  /\ TypeOK
  /\ NoConcurrentSend
  /\ LocksPending
  /\ OnlyCommittedRows
  /\ AttemptsAreDeliveries

-----------------------------------------------------------------------------

\* The table starts empty and the workers polling.
LEMMA TypeInit == Init => TypeOK
  BY AudienceAssumption, MaxFaultsAssumption
     DEF Init, TypeOK, Row, Status, AbsentRow, Busy, Locking

\* The domains of the variables are closed under every step of the code.
LEMMA TypeStep == TypeOK /\ [Next]_vars => TypeOK'
<1> SUFFICES ASSUME TypeOK, [Next]_vars PROVE TypeOK'
  OBVIOUS
<1> USE DEF TypeOK
<1>1. ASSUME NEW r \in Request, NotifyMany(r) PROVE TypeOK'
  <2>1. PICK to \in SUBSET Audience[r] : mails' = [mails EXCEPT ![r] = to]
    BY <1>1 DEF NotifyMany
  <2>2. to \in SUBSET Recipient
    BY AudienceAssumption
  <2>3. mails' \in [Request -> SUBSET Recipient] /\ \A q \in Request : mails'[q] \subseteq Audience[q]
    BY <2>1, <2>2
  <2> QED
    BY <1>1, <2>3 DEF NotifyMany, workerVars, historyVars
<1>2. ASSUME NEW r \in Request, CommitRequest(r) PROVE TypeOK'
  BY <1>2 DEF CommitRequest, workerVars, historyVars, NewRow, Row, Status
<1>3. ASSUME NEW r \in Request, RollbackRequest(r) PROVE TypeOK'
  BY <1>3 DEF RollbackRequest, workerVars, historyVars
<1>4. ASSUME NEW w \in Worker, Claim(w) PROVE TypeOK'
  BY <1>4 DEF Claim, Claimable, Pending, requestVars, historyVars, Busy, Locking
<1>5. ASSUME NEW w \in Worker, PollEmpty(w) PROVE TypeOK'
  BY <1>5 DEF PollEmpty, requestVars, historyVars, Busy, Locking
<1>6. ASSUME NEW w \in Worker, Send(w) PROVE TypeOK'
  BY <1>6 DEF Send, requestVars, Busy, Locking
<1>7. ASSUME NEW w \in Worker, SendRaises(w) PROVE TypeOK'
  BY <1>7 DEF SendRaises, Fault, requestVars, Busy, Locking
<1>8. ASSUME NEW w \in Worker, Commit(w) PROVE TypeOK'
  <2>1. job[w] \in Job
    BY <1>8 DEF Commit, Busy, Locking
  <2>2. Completed(row[job[w]]) \in Row
    BY <2>1 DEF Completed, Row, Status
  <2>3. row' \in [Job -> Row]
    BY <1>8, <2>2 DEF Commit
  <2> QED
    BY <1>8, <2>3 DEF Commit, End, requestVars, historyVars, AbsentRow,
       Row, Status, Busy, Locking
<1>9. ASSUME NEW w \in Worker, CommitRaises(w) PROVE TypeOK'
  <2>1. job[w] \in Job
    BY <1>9 DEF CommitRaises, Busy, Locking
  <2>2. Completed(row[job[w]]) \in Row
    BY <2>1 DEF Completed, Row, Status
  <2>3. row' \in [Job -> Row]
    BY <1>9, <2>2 DEF CommitRaises
  <2>4. pc' \in [Worker -> {"poll", "exited", "down"} \cup Busy]
    BY <1>9 DEF CommitRaises, Busy
  <2>5. budget' \in Nat /\ faults' \in [Job -> Nat]
    BY <1>9, <2>1 DEF CommitRaises, Fault
  <2> QED
    BY <1>9, <2>3, <2>4, <2>5 DEF CommitRaises, requestVars, Busy, Locking
<1>10. ASSUME NEW w \in Worker, LoadFailed(w) PROVE TypeOK'
  BY <1>10 DEF LoadFailed, requestVars, historyVars, Busy, Locking
<1>11. ASSUME NEW w \in Worker, RecordFailure(w) PROVE TypeOK'
  BY <1>11 DEF RecordFailure, FailStatus, End, requestVars, AbsentRow, Row,
     Status, Busy, Locking
<1>12. ASSUME NEW w \in Worker, Crash(w) PROVE TypeOK'
  BY <1>12 DEF Crash, Fault, End, requestVars, AbsentRow, Row, Status, Busy, Locking
<1>13. ASSUME NEW w \in Worker, Restart(w) PROVE TypeOK'
  BY <1>13 DEF Restart, requestVars, historyVars, Busy, Locking
<1>14. CASE UNCHANGED vars
  BY <1>14 DEF vars, requestVars, workerVars, historyVars
<1> QED
  BY <1>1, <1>2, <1>3, <1>4, <1>5, <1>6, <1>7, <1>8, <1>9, <1>10, <1>11,
     <1>12, <1>13, <1>14 DEF Next

\* Every variable keeps its type, whatever the numbers of users and workers.
THEOREM TypeCorrect == Spec => []TypeOK
  BY TypeInit, TypeStep, PTL DEF Spec

-----------------------------------------------------------------------------

\* A worker takes the lock of a job only in Claim, and only a free one: two
\* workers never hold the same row.
LEMMA MutexStep ==
  ASSUME TypeOK, NoConcurrentSend, [Next]_vars
  PROVE  NoConcurrentSend'
<1> DEFINE NoNewHolder == \A v \in Worker, j \in Job : Holds(v, j)' => Holds(v, j)
<1>1. ASSUME NEW w \in Worker, Claim(w) PROVE NoConcurrentSend'
  <2>1. PICK j \in Claimable : job' = [job EXCEPT ![w] = j]
    BY <1>1 DEF Claim
  <2>2. ~Locked(j)
    BY DEF Claimable
  <2>3. \A v \in Worker, k \in Job : Holds(v, k)' => Holds(v, k) \/ (v = w /\ k = j)
    BY <1>1, <2>1 DEF Claim, Holds, TypeOK
  <2> QED
    BY <2>2, <2>3 DEF NoConcurrentSend, Locked
<1>2. NoNewHolder => NoConcurrentSend'
  BY DEF NoConcurrentSend
<1>3. CASE \E r \in Request : NotifyMany(r) \/ CommitRequest(r) \/ RollbackRequest(r)
  <2>1. NoNewHolder
    BY <1>3 DEF NotifyMany, CommitRequest, RollbackRequest, workerVars, Holds
  <2> QED
    BY <1>2, <2>1
<1>4. ASSUME NEW w \in Worker,
             PollEmpty(w) \/ Send(w) \/ SendRaises(w) \/ CommitRaises(w) \/ LoadFailed(w) \/ Restart(w)
      PROVE  NoConcurrentSend'
  <2>1. NoNewHolder
    BY <1>4 DEF PollEmpty, Send, SendRaises, CommitRaises, LoadFailed, Restart, Holds,
       Locking, TypeOK
  <2> QED
    BY <1>2, <2>1
<1>5. ASSUME NEW w \in Worker, Commit(w) \/ RecordFailure(w) \/ Crash(w)
      PROVE  NoConcurrentSend'
  <2>1. NoNewHolder
    BY <1>5 DEF Commit, RecordFailure, Crash, End, Holds, Locking, TypeOK
  <2> QED
    BY <1>2, <2>1
<1>6. CASE UNCHANGED vars
  <2>1. NoNewHolder
    BY <1>6 DEF vars, workerVars, Holds
  <2> QED
    BY <1>2, <2>1
<1> QED
  BY <1>1, <1>3, <1>4, <1>5, <1>6 DEF Next

\* The queue's rows are written only by their own request, once, and by the
\* two sessions of a worker, which never touch a row another one has locked.
LEMMA LocksStep ==
  ASSUME TypeOK, NoConcurrentSend, LocksPending, OnlyCommittedRows, [Next]_vars
  PROVE  LocksPending'
<1> USE DEF LocksPending
<1>1. ASSUME NEW r \in Request, CommitRequest(r) PROVE LocksPending'
  <2>1. \A w \in Worker : pc[w] \in Busy => row'[job[w]] = row[job[w]]
    BY <1>1 DEF CommitRequest, TypeOK, OnlyCommittedRows, Job
  <2> QED
    BY <1>1, <2>1 DEF CommitRequest, workerVars, Busy
<1>2. CASE \E r \in Request : NotifyMany(r) \/ RollbackRequest(r)
  BY <1>2 DEF NotifyMany, RollbackRequest, workerVars
<1>3. ASSUME NEW w \in Worker, Claim(w) PROVE LocksPending'
  BY <1>3 DEF Claim, Claimable, Pending, TypeOK, Busy, Locking
<1>4. ASSUME NEW w \in Worker,
             PollEmpty(w) \/ Send(w) \/ SendRaises(w) \/ LoadFailed(w) \/ Restart(w)
      PROVE  LocksPending'
  BY <1>4 DEF PollEmpty, Send, SendRaises, LoadFailed, Restart, TypeOK, Busy, Locking
<1>5. ASSUME NEW w \in Worker, Crash(w) PROVE LocksPending'
  BY <1>5 DEF Crash, End, TypeOK, Busy, Locking
<1>6. ASSUME NEW w \in Worker, Commit(w) \/ CommitRaises(w) PROVE LocksPending'
  <2>1. job[w] \in Job /\ Holds(w, job[w])
    BY <1>6 DEF Commit, CommitRaises, Holds, Busy, Locking, TypeOK
  <2>2. \A v \in Worker \ {w} : pc[v] \in Locking => job[v] # job[w]
    BY <2>1 DEF NoConcurrentSend, Holds
  <2>3. /\ row' = row \/ row' = [row EXCEPT ![job[w]] = Completed(@)]
        /\ pc'[w] \notin Locking
        /\ pc'[w] \in Busy => job'[w] = job[w] /\ pc[w] \in Busy
        /\ \A v \in Worker \ {w} : pc'[v] = pc[v] /\ job'[v] = job[v]
    BY <1>6 DEF Commit, CommitRaises, End, Busy, Locking, TypeOK
  <2>4. \A j \in Job : row[j].status # "absent" => row'[j].status # "absent"
    BY <2>1, <2>3 DEF Completed, TypeOK
  <2>5. \A j \in Job \ {job[w]} : row'[j] = row[j]
    BY <2>1, <2>3 DEF TypeOK
  <2> QED
    BY <2>1, <2>2, <2>3, <2>4, <2>5 DEF TypeOK, Busy
<1>7. ASSUME NEW w \in Worker, RecordFailure(w) PROVE LocksPending'
  <2>1. job[w] \in Job /\ ~Locked(job[w])
    BY <1>7 DEF RecordFailure, Busy, TypeOK
  <2>2. \A v \in Worker : pc[v] \in Locking => job[v] # job[w]
    BY <2>1 DEF Locked, Holds
  <2>3. /\ row' = row \/ row' = [row EXCEPT ![job[w]].status = FailStatus(seen[w])]
        /\ pc'[w] \notin Busy
        /\ \A v \in Worker \ {w} : pc'[v] = pc[v] /\ job'[v] = job[v]
    BY <1>7 DEF RecordFailure, End, Busy, Locking, TypeOK
  <2>4. \A j \in Job : row[j].status # "absent" => row'[j].status # "absent"
    BY <2>1, <2>3 DEF FailStatus, TypeOK, Row
  <2>5. \A j \in Job \ {job[w]} : row'[j] = row[j]
    BY <2>1, <2>3 DEF TypeOK
  <2> QED
    BY <2>2, <2>3, <2>4, <2>5 DEF TypeOK, Busy
<1>8. CASE UNCHANGED vars
  BY <1>8 DEF vars, workerVars
<1> QED
  BY <1>1, <1>2, <1>3, <1>4, <1>5, <1>6, <1>7, <1>8 DEF Next

\* What the workers do to the table, in one place: a step of a worker leaves
\* every row in existence, writes only the row of its job, and hands mail to
\* the relay only for a row it has locked.
LEMMA WorkerStep ==
  ASSUME TypeOK, LocksPending, NEW w \in Worker,
         \/ Claim(w) \/ PollEmpty(w) \/ Send(w) \/ SendRaises(w)
         \/ Commit(w) \/ CommitRaises(w) \/ LoadFailed(w) \/ RecordFailure(w)
         \/ Crash(w) \/ Restart(w)
  PROVE  /\ UNCHANGED <<txn, mails>>
         /\ \A j \in Job : row'[j].status = "absent" <=> row[j].status = "absent"
         /\ \A j \in Job : accepted'[j] # accepted[j] =>
              row[j].status # "absent" /\ row'[j].status # "absent"
<1> USE DEF requestVars, historyVars
<1>1. CASE Claim(w) \/ PollEmpty(w) \/ LoadFailed(w) \/ Restart(w) \/ Crash(w)
  BY <1>1 DEF Claim, PollEmpty, LoadFailed, Restart, Crash
<1>2. CASE Send(w) \/ SendRaises(w)
  <2>1. job[w] \in Job /\ row[job[w]].status # "absent"
    BY <1>2 DEF Send, SendRaises, LocksPending, TypeOK, Busy, Locking
  <2>2. row' = row /\ \A j \in Job \ {job[w]} : accepted'[j] = accepted[j]
    BY <1>2, <2>1 DEF Send, SendRaises, TypeOK
  <2> QED
    BY <1>2, <2>1, <2>2 DEF Send, SendRaises
<1>3. CASE Commit(w) \/ CommitRaises(w)
  <2>1. job[w] \in Job /\ row[job[w]].status # "absent"
    BY <1>3 DEF Commit, CommitRaises, LocksPending, TypeOK, Busy, Locking
  <2>2. row' = row \/ row' = [row EXCEPT ![job[w]] = Completed(@)]
    BY <1>3 DEF Commit, CommitRaises
  <2>3. \A j \in Job : row'[j].status = "absent" <=> row[j].status = "absent"
    BY <2>1, <2>2 DEF Completed, TypeOK
  <2> QED
    BY <1>3, <2>3 DEF Commit, CommitRaises
<1>4. CASE RecordFailure(w)
  <2>1. job[w] \in Job /\ row[job[w]].status # "absent"
    BY <1>4 DEF RecordFailure, LocksPending, TypeOK, Busy
  <2>2. row' = row \/ row' = [row EXCEPT ![job[w]].status = FailStatus(seen[w])]
    BY <1>4 DEF RecordFailure
  <2>3. \A j \in Job : row'[j].status = "absent" <=> row[j].status = "absent"
    BY <2>1, <2>2 DEF FailStatus, TypeOK, Row
  <2> QED
    BY <1>4, <2>3 DEF RecordFailure
<1> QED
  BY <1>1, <1>2, <1>3, <1>4

\* Rows and mails appear only with the commit of their request.
LEMMA OnlyCommittedStep ==
  ASSUME TypeOK, LocksPending, OnlyCommittedRows, [Next]_vars
  PROVE  OnlyCommittedRows'
<1> USE DEF OnlyCommittedRows
<1>1. ASSUME NEW r \in Request, NotifyMany(r) \/ RollbackRequest(r) PROVE OnlyCommittedRows'
  <2>1. row' = row /\ accepted' = accepted /\ txn[r] # "committed"
    BY <1>1 DEF NotifyMany, RollbackRequest, historyVars
  <2>2. \A q \in Request \ {r} : txn'[q] = txn[q] /\ mails'[q] = mails[q]
    BY <1>1 DEF NotifyMany, RollbackRequest, TypeOK
  <2> QED
    BY <2>1, <2>2 DEF Job
<1>2. ASSUME NEW r \in Request, CommitRequest(r) PROVE OnlyCommittedRows'
  <2>1. \A j \in Job : row'[j] = IF j[1] = r /\ j[2] \in mails[r] THEN NewRow ELSE row[j]
    BY <1>2 DEF CommitRequest
  <2>2. txn' = [txn EXCEPT ![r] = "committed"] /\ mails' = mails /\ accepted' = accepted
    BY <1>2 DEF CommitRequest, historyVars
  <2>3. txn[r] = "open"
    BY <1>2 DEF CommitRequest
  <2> SUFFICES ASSUME NEW j \in Job, row'[j].status # "absent" \/ accepted'[j] > 0
               PROVE  txn'[j[1]] = "committed" /\ j[2] \in mails'[j[1]]
    OBVIOUS
  <2>4. CASE j[1] = r /\ j[2] \in mails[r]
    BY <2>2, <2>4 DEF TypeOK
  <2>5. CASE ~(j[1] = r /\ j[2] \in mails[r])
    <3>1. txn[j[1]] = "committed" /\ j[2] \in mails[j[1]]
      BY <2>1, <2>2, <2>5
    <3> QED
      BY <2>2, <2>3, <3>1 DEF TypeOK, Job
  <2> QED
    BY <2>4, <2>5
<1>3. ASSUME NEW w \in Worker,
             \/ Claim(w) \/ PollEmpty(w) \/ Send(w) \/ SendRaises(w)
             \/ Commit(w) \/ CommitRaises(w) \/ LoadFailed(w) \/ RecordFailure(w)
             \/ Crash(w) \/ Restart(w)
      PROVE  OnlyCommittedRows'
  BY <1>3, WorkerStep
<1>4. CASE UNCHANGED vars
  BY <1>4 DEF vars, requestVars, historyVars
<1> QED
  BY <1>1, <1>2, <1>3, <1>4 DEF Next

\* An attempt is counted exactly when the commit after a delivery succeeds.
LEMMA AttemptsStep ==
  ASSUME Inductive, [Next]_vars
  PROVE  AttemptsAreDeliveries'
<1> USE DEF Inductive, AttemptsAreDeliveries
<1>1. ASSUME NEW r \in Request, NotifyMany(r) \/ RollbackRequest(r)
      PROVE  AttemptsAreDeliveries'
  BY <1>1 DEF NotifyMany, RollbackRequest, workerVars, historyVars
<1>2. ASSUME NEW r \in Request, CommitRequest(r) PROVE AttemptsAreDeliveries'
  <2>1. \A j \in Job : row'[j] = IF j[1] = r /\ j[2] \in mails[r] THEN NewRow ELSE row[j]
    BY <1>2 DEF CommitRequest
  <2>2. UNCHANGED <<pc, job, seen, accepted>> /\ txn[r] = "open"
    BY <1>2 DEF CommitRequest, workerVars, historyVars
  <2>3. \A w \in Worker : pc[w] \in Busy => row'[job[w]] = row[job[w]]
    BY <2>1, <2>2 DEF TypeOK, LocksPending, OnlyCommittedRows, Job
  <2>4. \A j \in Job : row'[j] = row[j] \/ row'[j] = NewRow
    BY <2>1
  <2>5. \A j \in Job : /\ row'[j].attempts <= accepted'[j]
                       /\ row'[j].status = "done" => row'[j].attempts >= 1
                       /\ row'[j].status = "failed" => row'[j].attempts >= MaxAttempts
    BY <2>2, <2>4 DEF TypeOK, NewRow
  <2> QED
    BY <2>2, <2>3, <2>5 DEF Busy, Locking
<1>3. ASSUME NEW w \in Worker, Claim(w) \/ PollEmpty(w) \/ Restart(w)
      PROVE  AttemptsAreDeliveries'
  BY <1>3 DEF Claim, PollEmpty, Restart, historyVars, TypeOK
<1>4. ASSUME NEW w \in Worker, Send(w) \/ SendRaises(w) PROVE AttemptsAreDeliveries'
  <2>1. job[w] \in Job
    BY <1>4 DEF Send, SendRaises, TypeOK, Busy, Locking
  <2>2. UNCHANGED <<row, job, seen>> /\ pc'[w] \in {"sent", "failing"}
        /\ \A v \in Worker \ {w} : pc'[v] = pc[v]
    BY <1>4 DEF Send, SendRaises, TypeOK
  <2>3. \A j \in Job : accepted'[j] >= accepted[j] /\ accepted'[j] \in Nat
    BY <1>4, <2>1 DEF Send, SendRaises, TypeOK
  <2>4. pc'[w] = "sent" => accepted'[job[w]] = accepted[job[w]] + 1
    BY <1>4, <2>1 DEF Send, SendRaises, TypeOK
  <2>5. \A j \in Job : row[j].attempts \in Nat /\ accepted[j] \in Nat
    BY DEF TypeOK, Row
  <2> QED
    BY <2>1, <2>2, <2>3, <2>4, <2>5 DEF TypeOK, Busy, Locking
<1>5. ASSUME NEW w \in Worker, Commit(w) \/ CommitRaises(w) PROVE AttemptsAreDeliveries'
  <2>1. job[w] \in Job /\ pc[w] = "sent"
    BY <1>5 DEF Commit, CommitRaises, TypeOK, Busy, Locking
  <2>2. \A v \in Worker \ {w} : pc[v] = "sent" => job[v] # job[w]
    BY <2>1 DEF NoConcurrentSend, Holds, Locking
  <2>3. /\ row' = row \/ row' = [row EXCEPT ![job[w]] = Completed(@)]
        /\ accepted' = accepted
        /\ pc'[w] \notin {"sent", "recording"}
        /\ \A v \in Worker \ {w} : pc'[v] = pc[v] /\ job'[v] = job[v] /\ seen'[v] = seen[v]
    BY <1>5 DEF Commit, CommitRaises, End, historyVars, TypeOK
  <2>4. \A j \in Job : row[j].attempts \in Nat /\ accepted[j] \in Nat
    BY DEF TypeOK, Row
  <2>5. \A j \in Job \ {job[w]} : row'[j] = row[j]
    BY <2>1, <2>3 DEF TypeOK
  <2>6. \/ row'[job[w]] = row[job[w]]
        \/ row'[job[w]].attempts = row[job[w]].attempts + 1 /\ row'[job[w]].status = "done"
    BY <2>1, <2>3 DEF Completed, TypeOK
  <2>7. \A j \in Job : /\ row'[j].attempts <= accepted'[j]
                       /\ row'[j].status = "done" => row'[j].attempts >= 1
                       /\ row'[j].status = "failed" => row'[j].attempts >= MaxAttempts
    BY <2>1, <2>3, <2>4, <2>5, <2>6
  <2>8. ASSUME NEW v \in Worker, pc'[v] = "sent"
        PROVE  row'[job'[v]].attempts < accepted'[job'[v]]
    BY <2>2, <2>3, <2>5, <2>8 DEF TypeOK, Busy, Locking
  <2>9. ASSUME NEW v \in Worker, pc'[v] = "recording"
        PROVE  seen'[v].attempts <= row'[job'[v]].attempts
    <3>1. v # w /\ job[v] \in Job /\ seen[v].attempts \in Nat
      BY <2>3, <2>9 DEF TypeOK, Row, Busy
    <3>2. row'[job[v]].attempts >= row[job[v]].attempts
      BY <2>4, <2>5, <2>6, <3>1
    <3>3. seen[v].attempts <= row[job[v]].attempts
      BY <2>3, <2>9, <3>1
    <3>4. row'[job[v]].attempts \in Nat
      BY <2>4, <2>5, <2>6, <3>1
    <3> QED
      BY <2>3, <2>4, <3>1, <3>2, <3>3, <3>4
  <2> QED
    BY <2>7, <2>8, <2>9
<1>6. ASSUME NEW w \in Worker, LoadFailed(w) PROVE AttemptsAreDeliveries'
  <2>1. job[w] \in Job /\ row[job[w]].attempts \in Nat
    BY <1>6 DEF LoadFailed, TypeOK, Row, Busy
  <2> QED
    BY <1>6, <2>1 DEF LoadFailed, historyVars, TypeOK
<1>7. ASSUME NEW w \in Worker, RecordFailure(w) PROVE AttemptsAreDeliveries'
  <2>1. job[w] \in Job /\ pc[w] = "recording"
    BY <1>7 DEF RecordFailure, TypeOK, Busy
  <2>2. /\ row' = row \/ row' = [row EXCEPT ![job[w]].status = FailStatus(seen[w])]
        /\ accepted' = accepted
        /\ pc'[w] = "poll"
        /\ \A v \in Worker \ {w} : pc'[v] = pc[v] /\ job'[v] = job[v] /\ seen'[v] = seen[v]
    BY <1>7 DEF RecordFailure, End, TypeOK
  <2>3. \A j \in Job : row[j].attempts \in Nat /\ accepted[j] \in Nat
    BY DEF TypeOK, Row
  <2>4. \A j \in Job : row'[j].attempts = row[j].attempts
    BY <2>1, <2>2, SMTT(60) DEF TypeOK, Row
  <2>5. \A j \in Job \ {job[w]} : row'[j] = row[j]
    BY <2>1, <2>2 DEF TypeOK
  <2>6. row'[job[w]] = row[job[w]] \/ row'[job[w]].status = FailStatus(seen[w])
    BY <2>1, <2>2 DEF TypeOK, Row
  <2>7. FailStatus(seen[w]) = "failed" => row[job[w]].attempts >= MaxAttempts
    <3>1. seen[w].attempts \in Nat /\ seen[w].attempts <= row[job[w]].attempts
      BY <2>1 DEF TypeOK, Row
    <3> QED
      BY <2>1, <2>3, <3>1, MaxAttemptsAssumption DEF FailStatus
  <2>8. \A j \in Job : /\ row'[j].status = "done" => row'[j].attempts >= 1
                       /\ row'[j].status = "failed" => row'[j].attempts >= MaxAttempts
    BY <2>4, <2>5, <2>6, <2>7 DEF FailStatus
  <2> QED
    BY <2>1, <2>2, <2>4, <2>8 DEF TypeOK, Busy, Locking
<1>8. ASSUME NEW w \in Worker, Crash(w) PROVE AttemptsAreDeliveries'
  BY <1>8 DEF Crash, End, TypeOK
<1>9. CASE UNCHANGED vars
  BY <1>9 DEF vars, workerVars, historyVars
<1> QED
  BY <1>1, <1>2, <1>3, <1>4, <1>5, <1>6, <1>7, <1>8, <1>9 DEF Next

-----------------------------------------------------------------------------
(* One fault buys two extra copies.  A failed attempt leaves a worker in   *)
(* its second session, which can put the job back to pending once: it is   *)
(* worth one future copy.  A copy the table knows about (the job settled,  *)
(* or its worker has yet to commit) is not followed by another one as long *)
(* as no second session reopens the job.                                   *)

Failing(j) == {w \in Worker : job[w] = j /\ pc[w] \in {"failing", "recording"}}

Delivered(j) ==
  \/ row[j].status \in {"done", "failed"}
  \/ \E w \in Worker : job[w] = j /\ pc[w] = "sent"

Credit(j) == IF Delivered(j) THEN 1 ELSE 0

CopiesArePaidFor ==
  \A j \in Job : accepted[j] + Cardinality(Failing(j)) <= 2 * faults[j] + Credit(j)

\* Workers are finitely many, so those in a second session can be counted.
LEMMA FailingFinite ==
  ASSUME NEW j
  PROVE  IsFiniteSet(Failing(j)) /\ Cardinality(Failing(j)) \in Nat
<1>1. Failing(j) \in SUBSET Worker
  BY DEF Failing
<1> QED
  BY <1>1, WorkerAssumption, FS_Subset, FS_CardinalityType

\* A send, a failed attempt, a commit and a second session each keep the
\* account of the job they are about.
LEMMA CopiesStep ==
  ASSUME Inductive, CopiesArePaidFor, [Next]_vars
  PROVE  CopiesArePaidFor'
<1> USE DEF Inductive
<1> DEFINE Same(j) == /\ accepted'[j] = accepted[j]
                      /\ faults'[j] = faults[j]
                      /\ Failing(j)' = Failing(j)
                      /\ Delivered(j)' = Delivered(j)
           Kept(j) == accepted'[j] + Cardinality(Failing(j)')
                        <= 2 * faults'[j] + (IF Delivered(j)' THEN 1 ELSE 0)
<1>0. ASSUME NEW j \in Job, Same(j) PROVE Kept(j)
  BY <1>0 DEF CopiesArePaidFor, Credit
<1>1. ASSUME \A j \in Job : Kept(j) PROVE CopiesArePaidFor'
  BY <1>1 DEF CopiesArePaidFor, Credit
<1>2. \A j \in Job : /\ accepted[j] \in Nat /\ faults[j] \in Nat
                     /\ Cardinality(Failing(j)) \in Nat /\ IsFiniteSet(Failing(j))
                     /\ accepted[j] + Cardinality(Failing(j)) <= 2 * faults[j] + Credit(j)
  BY FailingFinite DEF TypeOK, CopiesArePaidFor
<1>3. ASSUME NEW r \in Request, NotifyMany(r) \/ RollbackRequest(r) PROVE CopiesArePaidFor'
  <2>1. \A j \in Job : Same(j)
    BY <1>3 DEF NotifyMany, RollbackRequest, workerVars, historyVars, Failing, Delivered
  <2> QED
    BY <1>0, <1>1, <2>1
<1>4. ASSUME NEW r \in Request, CommitRequest(r) PROVE CopiesArePaidFor'
  <2>1. \A j \in Job : row'[j] = row[j] \/ (row[j].status = "absent" /\ row'[j] = NewRow)
    BY <1>4 DEF CommitRequest, OnlyCommittedRows
  <2>2. \A j \in Job : Same(j)
    BY <1>4, <2>1 DEF CommitRequest, workerVars, historyVars, Failing, Delivered, NewRow
  <2> QED
    BY <1>0, <1>1, <2>2
<1>5. ASSUME NEW w \in Worker, Claim(w) \/ PollEmpty(w) \/ LoadFailed(w) \/ Restart(w)
      PROVE  CopiesArePaidFor'
  <2>1. UNCHANGED <<row, accepted, faults>>
    BY <1>5 DEF Claim, PollEmpty, LoadFailed, Restart, historyVars
  <2>2. /\ pc[w] = "sent" <=> pc'[w] = "sent"
        /\ pc[w] \in {"failing", "recording"} <=> pc'[w] \in {"failing", "recording"}
        /\ pc[w] \in {"failing", "recording", "sent"} => job'[w] = job[w]
        /\ \A v \in Worker \ {w} : pc'[v] = pc[v] /\ job'[v] = job[v]
    BY <1>5 DEF Claim, PollEmpty, LoadFailed, Restart, TypeOK
  <2>3. \A j \in Job : Same(j)
    BY <2>1, <2>2 DEF Failing, Delivered
  <2> QED
    BY <1>0, <1>1, <2>3
<1>6. ASSUME NEW w \in Worker, Send(w) PROVE CopiesArePaidFor'
  <2>1. PICK k \in Job : k = job[w] /\ pc[w] = "claimed"
    BY <1>6 DEF Send, TypeOK, Busy, Locking
  <2>2. /\ UNCHANGED <<row, job, faults>>
        /\ accepted' = [accepted EXCEPT ![k] = @ + 1]
        /\ pc' = [pc EXCEPT ![w] = "sent"]
    BY <1>6, <2>1 DEF Send
  <2>3. \A j \in Job : Failing(j)' = Failing(j)
    BY <2>1, <2>2 DEF Failing, TypeOK
  <2>4. ~Delivered(k) /\ Delivered(k)'
    BY <2>1, <2>2 DEF Delivered, LocksPending, NoConcurrentSend, Holds, Locking, TypeOK
  <2>5. \A j \in Job \ {k} : Same(j)
    BY <2>1, <2>2, <2>3 DEF Delivered, TypeOK
  <2>6. Kept(k)
    <3>1. accepted'[k] = accepted[k] + 1 /\ faults'[k] = faults[k]
      BY <2>1, <2>2 DEF TypeOK
    <3> QED
      BY <1>2, <2>1, <2>3, <2>4, <3>1 DEF Credit
  <2> QED
    BY <1>0, <1>1, <2>5, <2>6
<1>7. ASSUME NEW w \in Worker, SendRaises(w) \/ CommitRaises(w) PROVE CopiesArePaidFor'
  <2>1. PICK k \in Job : k = job[w] /\ pc[w] \in Locking
    BY <1>7 DEF SendRaises, CommitRaises, TypeOK, Busy, Locking
  <2>2. /\ UNCHANGED job
        /\ faults' = [faults EXCEPT ![k] = @ + 1]
        /\ pc' = [pc EXCEPT ![w] = "failing"]
        /\ \/ row' = row
           \/ row' = [row EXCEPT ![k] = Completed(@)]
    BY <1>7, <2>1 DEF SendRaises, CommitRaises, Fault
  <2>3. \A j \in Job \ {k} : Same(j)
    <3>1. \A j \in Job \ {k} : row'[j] = row[j] /\ faults'[j] = faults[j]
      BY <2>1, <2>2 DEF TypeOK
    <3>2. \A j \in Job \ {k} : accepted'[j] = accepted[j]
      BY <1>7, <2>1 DEF SendRaises, CommitRaises, TypeOK
    <3> QED
      BY <2>1, <2>2, <3>1, <3>2 DEF Failing, Delivered, TypeOK
  <2>4. w \notin Failing(k) /\ Failing(k)' = Failing(k) \cup {w}
    BY <2>1, <2>2 DEF Failing, Locking, TypeOK
  <2>5. Cardinality(Failing(k)') = Cardinality(Failing(k)) + 1
    BY <1>2, <2>1, <2>4, FS_AddElement
  <2>6. faults'[k] = faults[k] + 1
    BY <2>1, <2>2 DEF TypeOK
  <2>7. Kept(k)
    <3>1. CASE SendRaises(w)
      <4>1. pc[w] = "claimed" /\ row' = row
        BY <3>1 DEF SendRaises
      <4>2. ~Delivered(k)
        BY <2>1, <4>1 DEF Delivered, LocksPending, NoConcurrentSend, Holds, Locking, TypeOK
      <4>3. PICK copies \in {0, 1} : accepted' = [accepted EXCEPT ![k] = @ + copies]
        BY <2>1, <3>1 DEF SendRaises
      <4>4. accepted'[k] = accepted[k] + copies
        BY <2>1, <4>3 DEF TypeOK
      <4> QED
        BY <1>2, <2>1, <2>5, <2>6, <4>2, <4>4 DEF Credit
    <3>2. CASE CommitRaises(w)
      <4>1. accepted' = accepted
        BY <3>2 DEF CommitRaises
      <4> QED
        BY <1>2, <2>1, <2>5, <2>6, <4>1 DEF Credit
    <3> QED
      BY <1>7, <3>1, <3>2
  <2> QED
    BY <1>0, <1>1, <2>3, <2>7
<1>8. ASSUME NEW w \in Worker, Commit(w) PROVE CopiesArePaidFor'
  <2>1. PICK k \in Job : k = job[w] /\ pc[w] = "sent"
    BY <1>8 DEF Commit, TypeOK, Busy, Locking
  <2>2. /\ UNCHANGED <<accepted, faults>>
        /\ row' = [row EXCEPT ![k] = Completed(@)]
        /\ pc' = [pc EXCEPT ![w] = "poll"]
        /\ job' = [job EXCEPT ![w] = NoJob]
    BY <1>8, <2>1 DEF Commit, End, historyVars
  <2>3. \A j \in Job : Failing(j)' = Failing(j)
    BY <2>1, <2>2 DEF Failing, TypeOK
  <2>4. Delivered(k)' = Delivered(k)
    BY <2>1, <2>2 DEF Delivered, Completed, TypeOK
  <2>5. \A j \in Job \ {k} : row'[j] = row[j]
    BY <2>1, <2>2 DEF TypeOK
  <2>6. \A j \in Job \ {k} : Delivered(j)' = Delivered(j)
    BY <2>1, <2>2, <2>5 DEF Delivered, TypeOK
  <2>7. \A j \in Job : Same(j)
    BY <2>2, <2>3, <2>4, <2>6
  <2> QED
    BY <1>0, <1>1, <2>7
<1>9. ASSUME NEW w \in Worker, RecordFailure(w) PROVE CopiesArePaidFor'
  <2>1. PICK k \in Job : k = job[w] /\ pc[w] = "recording"
    BY <1>9 DEF RecordFailure, TypeOK, Busy
  <2>2. /\ UNCHANGED <<accepted, faults>>
        /\ row' = row \/ row' = [row EXCEPT ![k].status = FailStatus(seen[w])]
        /\ pc' = [pc EXCEPT ![w] = "poll"]
        /\ job' = [job EXCEPT ![w] = NoJob]
    BY <1>9, <2>1 DEF RecordFailure, End
  <2>3. \A j \in Job \ {k} : Same(j)
    <3>1. \A j \in Job \ {k} : row'[j] = row[j]
      BY <2>1, <2>2 DEF TypeOK
    <3> QED
      BY <2>1, <2>2, <3>1 DEF Failing, Delivered, TypeOK
  <2>4. w \in Failing(k) /\ Failing(k)' = Failing(k) \ {w}
    BY <2>1, <2>2, NoJobAssumption DEF Failing, TypeOK
  <2>5. Cardinality(Failing(k)') = Cardinality(Failing(k)) - 1
    BY <1>2, <2>1, <2>4, FS_RemoveElement, ZenonT(60)
  <2>6. Kept(k)
    BY <1>2, <2>1, <2>2, <2>5 DEF Credit
  <2> QED
    BY <1>0, <1>1, <2>3, <2>6
<1>10. ASSUME NEW w \in Worker, Crash(w) PROVE CopiesArePaidFor'
  <2>1. PICK k \in Job : k = job[w] /\ pc[w] \in Busy
    BY <1>10 DEF Crash, TypeOK
  <2>2. /\ UNCHANGED <<row, accepted>>
        /\ faults' = [faults EXCEPT ![k] = @ + 1]
        /\ pc' = [pc EXCEPT ![w] = "down"]
        /\ job' = [job EXCEPT ![w] = NoJob]
    BY <1>10, <2>1 DEF Crash, Fault, End
  <2>3. \A j \in Job \ {k} : Same(j)
    <3>1. \A j \in Job \ {k} : faults'[j] = faults[j]
      BY <2>1, <2>2 DEF TypeOK
    <3> QED
      BY <2>1, <2>2, <3>1 DEF Failing, Delivered, TypeOK
  <2>4. Failing(k)' = Failing(k) \ {w}
    BY <2>1, <2>2, NoJobAssumption DEF Failing, TypeOK
  <2>5. /\ Cardinality(Failing(k)') <= Cardinality(Failing(k))
        /\ Cardinality(Failing(k)') \in Nat
    <3>1. Cardinality(Failing(k)') = IF w \in Failing(k) THEN Cardinality(Failing(k)) - 1
                                     ELSE Cardinality(Failing(k))
      BY <1>2, <2>1, <2>4, FS_RemoveElement, ZenonT(60)
    <3>2. Failing(k)' \in SUBSET Worker
      BY DEF Failing
    <3>3. Cardinality(Failing(k)') \in Nat
      BY <3>2, WorkerAssumption, FS_Subset, FS_CardinalityType
    <3> QED
      BY <1>2, <2>1, <3>1, <3>3
  <2>6. faults'[k] = faults[k] + 1
    BY <2>1, <2>2 DEF TypeOK
  <2>7. Kept(k)
    BY <1>2, <2>1, <2>2, <2>5, <2>6 DEF Credit
  <2> QED
    BY <1>0, <1>1, <2>3, <2>7
<1>11. CASE UNCHANGED vars
  <2>1. \A j \in Job : Same(j)
    BY <1>11 DEF vars, workerVars, historyVars, Failing, Delivered
  <2> QED
    BY <1>0, <1>1, <2>1
<1> QED
  BY <1>3, <1>4, <1>5, <1>6, <1>7, <1>8, <1>9, <1>10, <1>11 DEF Next

-----------------------------------------------------------------------------
(* The theorems.                                                           *)

\* The strengthened invariant holds at first and is kept by every step.
THEOREM Invariance == Spec => []Inductive
<1>1. Init => Inductive
  BY TypeInit, MaxAttemptsAssumption
     DEF Init, Inductive, NoConcurrentSend, LocksPending, OnlyCommittedRows,
         AttemptsAreDeliveries, Holds, Busy, Locking, AbsentRow
<1>2. Inductive /\ [Next]_vars => Inductive'
  BY TypeStep, MutexStep, LocksStep, OnlyCommittedStep, AttemptsStep DEF Inductive
<1> QED
  BY <1>1, <1>2, PTL DEF Spec

\* No two workers ever hold, and so send, the same job.
THEOREM MutualExclusion == Spec => []NoConcurrentSend
<1>1. Inductive => NoConcurrentSend
  BY DEF Inductive
<1> QED
  BY <1>1, Invariance, PTL

\* No mail is sent about a change that was not committed.
THEOREM CommittedMail == Spec => []OnlyCommittedMail
<1>1. Inductive => OnlyCommittedMail
  BY DEF Inductive, OnlyCommittedRows, OnlyCommittedMail
<1> QED
  BY <1>1, Invariance, PTL

\* A settled job was delivered, a given-up one maxAttempts times: the retry
\* limit of fail_job counts deliveries, never failures.
THEOREM SettledDelivered == Spec => []SettledWasDelivered
<1>1. Inductive => SettledWasDelivered
  <2> SUFFICES ASSUME Inductive, NEW j \in Job
               PROVE  /\ row[j].status \in {"done", "failed"} => accepted[j] >= 1
                      /\ row[j].status = "failed" => accepted[j] >= MaxAttempts
    BY DEF SettledWasDelivered
  <2>1. /\ row[j].attempts \in Nat /\ accepted[j] \in Nat
        /\ row[j].attempts <= accepted[j]
        /\ row[j].status = "done" => row[j].attempts >= 1
        /\ row[j].status = "failed" => row[j].attempts >= MaxAttempts
    BY DEF Inductive, AttemptsAreDeliveries, TypeOK, Row
  <2> QED
    BY <2>1, MaxAttemptsAssumption
<1> QED
  BY <1>1, Invariance, PTL

\* A recipient gets at most two extra copies of a mail for each provider
\* error, failed commit or crash of a worker busy with it.
THEOREM BoundedDuplicates == Spec => []DuplicatesBounded
<1>1. Init => CopiesArePaidFor
  <2> SUFFICES ASSUME Init, NEW j \in Job
               PROVE  accepted[j] + Cardinality(Failing(j)) <= 2 * faults[j] + Credit(j)
    BY DEF CopiesArePaidFor
  <2>1. Failing(j) = {} /\ ~Delivered(j) /\ accepted[j] = 0 /\ faults[j] = 0
    BY DEF Init, Failing, Delivered, AbsentRow
  <2>2. Cardinality(Failing(j)) = 0
    BY <2>1, FS_EmptySet
  <2> QED
    BY <2>1, <2>2 DEF Credit
<1>2. Inductive /\ CopiesArePaidFor /\ [Next]_vars => CopiesArePaidFor'
  BY CopiesStep
<1>3. Inductive /\ CopiesArePaidFor => DuplicatesBounded
  <2> SUFFICES ASSUME Inductive, CopiesArePaidFor, NEW j \in Job
               PROVE  accepted[j] <= 1 + 2 * faults[j]
    BY DEF DuplicatesBounded
  <2>1. accepted[j] + Cardinality(Failing(j)) <= 2 * faults[j] + Credit(j)
    BY DEF CopiesArePaidFor
  <2>2. /\ accepted[j] \in Nat /\ faults[j] \in Nat
        /\ Cardinality(Failing(j)) \in Nat /\ Credit(j) \in {0, 1}
    BY FailingFinite DEF Inductive, TypeOK, Credit
  <2> QED
    BY <2>1, <2>2
<1> QED
  BY <1>1, <1>2, <1>3, Invariance, PTL DEF Spec

\* The table and the workers implement the safety part of MailOutbox.
THEOREM Refinement == Spec => Outbox!SafetySpec
<1>1. Init => Outbox!Init
  BY DEF Init, Outbox!Init, AbsentRow
<1>2. Inductive /\ [Next]_vars => [Outbox!Next]_(Outbox!vars)
  <2> SUFFICES ASSUME Inductive, [Next]_vars
               PROVE  Outbox!Next \/ UNCHANGED Outbox!vars
    OBVIOUS
  <2> USE DEF Inductive
  <2> DEFINE Q == {j \in Job : row[j].status # "absent" /\ accepted[j] = 0}
             S == {j \in Job : accepted[j] > 0}
  <2>0. ASSUME accepted' = accepted, \A j \in Job : row'[j].status = "absent" <=> row[j].status = "absent"
        PROVE  UNCHANGED Outbox!vars
    BY <2>0 DEF Outbox!vars
  <2>1. ASSUME NEW r \in Request, NotifyMany(r) \/ RollbackRequest(r)
        PROVE  UNCHANGED Outbox!vars
    BY <2>0, <2>1 DEF NotifyMany, RollbackRequest, historyVars
  <2>2. ASSUME NEW r \in Request, CommitRequest(r)
        PROVE  Outbox!Next \/ UNCHANGED Outbox!vars
    <3>1. /\ \A j \in Job : row'[j] = IF j[1] = r /\ j[2] \in mails[r] THEN NewRow ELSE row[j]
          /\ accepted' = accepted
          /\ txn[r] = "open"
      BY <2>2 DEF CommitRequest, historyVars
    <3>2. \A j \in Job : j[1] = r => row[j].status = "absent" /\ accepted[j] = 0
      BY <3>1 DEF OnlyCommittedRows, TypeOK
    <3>3. PICK to \in SUBSET Recipient : to = mails[r]
      BY DEF TypeOK
    <3>4. Q' = Q \cup ({r} \X to) /\ S' = S
      <4>1. {r} \X to = {j \in Job : j[1] = r /\ j[2] \in to}
        BY <3>3 DEF TypeOK, Job
      <4> QED
        BY <3>1, <3>2, <3>3, <4>1 DEF NewRow
    <3>5. CASE to = {}
      BY <3>4, <3>5 DEF Outbox!vars
    <3>6. CASE to # {}
      <4>1. \A m \in Q \cup S : m[1] # r
        BY <3>2
      <4>2. Outbox!Publish(r, to)
        BY <3>4, <3>6, <4>1 DEF Outbox!Publish
      <4> QED
        BY <4>2 DEF Outbox!Next
    <3> QED
      BY <3>5, <3>6
  <2>3. ASSUME NEW w \in Worker, Send(w) \/ SendRaises(w)
        PROVE  Outbox!Next \/ UNCHANGED Outbox!vars
    <3>1. PICK k \in Job : k = job[w] /\ row[k].status = "pending"
      BY <2>3 DEF Send, SendRaises, LocksPending, TypeOK, Busy, Locking
    <3>2. PICK copies \in {0, 1} : accepted' = [accepted EXCEPT ![k] = @ + copies]
      BY <2>3, <3>1 DEF Send, SendRaises
    <3>3. row' = row
      BY <2>3 DEF Send, SendRaises
    <3>4. CASE copies = 0 \/ accepted[k] > 0
      <4>1. Q' = Q /\ S' = S
        BY <3>1, <3>2, <3>3, <3>4 DEF TypeOK
      <4> QED
        BY <4>1 DEF Outbox!vars
    <3>5. CASE copies = 1 /\ accepted[k] = 0
      <4>1. k \in Q /\ Q' = Q \ {k} /\ S' = S \cup {k}
        BY <3>1, <3>2, <3>3, <3>5 DEF TypeOK
      <4>2. k \in Outbox!Mail
        BY AudienceAssumption DEF Outbox!Mail, Job
      <4>3. Outbox!Deliver(k)
        BY <4>1 DEF Outbox!Deliver
      <4>4. \E m \in Outbox!Mail : Outbox!Deliver(m)
        BY <4>2, <4>3 DEF Outbox!Mail
      <4> QED
        BY <4>4 DEF Outbox!Next
    <3> QED
      BY <3>4, <3>5 DEF TypeOK
  <2>4. ASSUME NEW w \in Worker,
               \/ Claim(w) \/ PollEmpty(w) \/ Commit(w) \/ CommitRaises(w)
               \/ LoadFailed(w) \/ RecordFailure(w) \/ Crash(w) \/ Restart(w)
        PROVE  UNCHANGED Outbox!vars
    <3>1. accepted' = accepted
      BY <2>4 DEF Claim, PollEmpty, Commit, CommitRaises, LoadFailed, RecordFailure, Crash,
         Restart, historyVars
    <3> QED
      BY <2>0, <2>4, <3>1, WorkerStep
  <2>5. CASE UNCHANGED vars
    BY <2>0, <2>5 DEF vars, historyVars
  <2> QED
    BY <2>1, <2>2, <2>3, <2>4, <2>5 DEF Next
<1> QED
  BY <1>1, <1>2, Invariance, PTL DEF Spec, Outbox!SafetySpec
=============================================================================
