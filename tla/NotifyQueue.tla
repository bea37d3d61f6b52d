---------------------------- MODULE NotifyQueue ----------------------------
(***************************************************************************)
(* The outbound e-mail queue: app/services/notify_jobs.py, the half of     *)
(* notifications.notify_many that feeds it, and the worker process         *)
(* scripts/notify_worker.py.                                               *)
(*                                                                         *)
(* The queue is the Postgres table NotifyJob under READ COMMITTED.  row    *)
(* holds the COMMITTED rows.  What a worker has flushed but not committed  *)
(* (status "processing", lockedAt, attempts + 1) lives in that worker's    *)
(* own transaction, so it is part of pc[w] and job[w], together with the   *)
(* row lock of SELECT ... FOR UPDATE SKIP LOCKED.  No transaction commits  *)
(* a row as "processing": that status has no committed form here, and the  *)
(* UPDATE of reclaim_stale_jobs, which looks for it, matches no row.       *)
(***************************************************************************)
EXTENDS Naturals, FiniteSets

CONSTANTS
  Worker,       \* notify_worker processes
  Once,         \* those started with --once
  Request,      \* HTTP requests that call notify_many
  Recipient,    \* users with an e-mail address
  Audience,     \* the users each request may notify (creator, assignee)
  NoJob,        \* "no job claimed"
  MaxAttempts,  \* maxAttempts of a job, DEFAULT_MAX_ATTEMPTS in the code
  MaxFaults     \* bound: provider errors, failed commits and crashes

ASSUME WorkerAssumption == IsFiniteSet(Worker)
ASSUME OnceAssumption == Once \subseteq Worker
ASSUME MaxAttemptsAssumption == MaxAttempts \in Nat \ {0}
ASSUME MaxFaultsAssumption == MaxFaults \in Nat

Job == {j \in Request \X Recipient : j[2] \in Audience[j[1]]}

ASSUME AudienceAssumption == Audience \in [Request -> SUBSET Recipient]
ASSUME NoJobAssumption == NoJob \notin Job

VARIABLES
  txn,       \* state of the transaction of each request
  clock,     \* next value of now(), the server default of createdAt
  stamp,     \* createdAt of the jobs of each request
  mails,     \* the recipients for whom a request has flushed a job
  row,       \* the committed NotifyJob rows
  pc,        \* where each worker stands in process_one
  job,       \* the job_id each worker is busy with
  seen,      \* the row the second session of a worker has loaded
  accepted,  \* history: how often the relay took the mail of a job
  budget,    \* how many more faults the bound MaxFaults allows
  faults     \* history: what went wrong while a worker was busy with a job

requestVars == <<txn, clock, stamp, mails>>
workerVars == <<pc, job, seen>>
historyVars == <<accepted, budget, faults>>
vars == <<requestVars, row, workerVars, historyVars>>

Status == {"absent", "pending", "done", "failed"}
Row == [status : Status, attempts : Nat]
AbsentRow == [status |-> "absent", attempts |-> 0]
NewRow == [status |-> "pending", attempts |-> 0]

\* The row locks: a worker holds the lock of its job from the claim to the
\* end of its first transaction.
Locking == {"claimed", "sent"}
Busy == Locking \cup {"failing", "recording"}
Holds(w, j) == job[w] = j /\ pc[w] \in Locking
Locked(j) == \E w \in Worker : Holds(w, j)

Init ==
  /\ txn = [r \in Request |-> "idle"]
  /\ clock = 0
  /\ stamp = [r \in Request |-> 0]
  /\ mails = [r \in Request |-> {}]
  /\ row = [j \in Job |-> AbsentRow]
  /\ pc = [w \in Worker |-> "poll"]
  /\ job = [w \in Worker |-> NoJob]
  /\ seen = [w \in Worker |-> AbsentRow]
  /\ accepted = [j \in Job |-> 0]
  /\ budget = MaxFaults
  /\ faults = [j \in Job |-> 0]

-----------------------------------------------------------------------------
(* Requests: notify_many flushes one job per recipient with an address;    *)
(* the service that called it commits the ticket change and the jobs.      *)

\* Mutant: the job is committed by itself, not with its parent transaction.
NotifyManyCommits(r) ==
  /\ txn[r] = "idle"
  /\ txn' = [txn EXCEPT ![r] = "open"]
  /\ clock' = clock + 1
  /\ stamp' = [stamp EXCEPT ![r] = clock]
  /\ mails' = [mails EXCEPT ![r] = Audience[r]]
  /\ row' = [j \in Job |-> IF j[1] = r THEN NewRow ELSE row[j]]
  /\ UNCHANGED <<workerVars, historyVars>>

NotifyMany(r) ==
  /\ txn[r] = "idle"
  /\ txn' = [txn EXCEPT ![r] = "open"]
  /\ clock' = clock + 1
  /\ stamp' = [stamp EXCEPT ![r] = clock]
  /\ \E to \in SUBSET Audience[r] : mails' = [mails EXCEPT ![r] = to]
  /\ UNCHANGED <<row, workerVars, historyVars>>

CommitRequest(r) ==
  /\ txn[r] = "open"
  /\ txn' = [txn EXCEPT ![r] = "committed"]
  /\ row' = [j \in Job |-> IF j[1] = r /\ j[2] \in mails[r] THEN NewRow ELSE row[j]]
  /\ UNCHANGED <<clock, stamp, mails, workerVars, historyVars>>

RollbackRequest(r) ==
  /\ txn[r] = "open"
  /\ txn' = [txn EXCEPT ![r] = "rolledback"]
  /\ UNCHANGED <<clock, stamp, mails, row, workerVars, historyVars>>

-----------------------------------------------------------------------------
(* process_one, first session.                                             *)

Pending == {j \in Job : row[j].status = "pending"}
\* Mutant: the SELECT of claim_next_job takes no lock.
ClaimableUnlocked == Pending
\* Mutant: a row that used its attempts is skipped, although still pending.
ClaimableAttemptsLeft == {j \in Pending : ~Locked(j) /\ row[j].attempts < MaxAttempts}
Claimable == {j \in Pending : ~Locked(j)}

\* claim_next_job: the oldest pending row nobody has locked.
Claim(w) ==
  /\ pc[w] = "poll"
  /\ \E j \in Claimable :
       /\ \A k \in Claimable : stamp[j[1]] <= stamp[k[1]]
       /\ job' = [job EXCEPT ![w] = j]
  /\ pc' = [pc EXCEPT ![w] = "claimed"]
  /\ UNCHANGED <<requestVars, row, seen, historyVars>>

\* process_one returns False: --once returns, the daemon sleeps and polls.
PollEmpty(w) ==
  /\ pc[w] = "poll"
  /\ Claimable = {}
  /\ pc' = [pc EXCEPT ![w] = IF w \in Once THEN "exited" ELSE "poll"]
  /\ UNCHANGED <<requestVars, row, job, seen, historyVars>>

\* The worker is through with its job, or dead: its locals are gone.
End(w, state) ==
  /\ pc' = [pc EXCEPT ![w] = state]
  /\ job' = [job EXCEPT ![w] = NoJob]
  /\ seen' = [seen EXCEPT ![w] = AbsentRow]

Fault(j) ==
  /\ budget > 0
  /\ budget' = budget - 1
  /\ faults' = [faults EXCEPT ![j] = @ + 1]

\* mailer.send returns.
Send(w) ==
  /\ pc[w] = "claimed"
  /\ accepted' = [accepted EXCEPT ![job[w]] = @ + 1]
  /\ pc' = [pc EXCEPT ![w] = "sent"]
  /\ UNCHANGED <<requestVars, row, job, seen, budget, faults>>

\* mailer.send raises, before or after the relay took the mail (smtplib can
\* fail on the reply to DATA or on QUIT); the transaction is rolled back.
SendRaises(w) ==
  /\ pc[w] = "claimed"
  /\ Fault(job[w])
  /\ \E copies \in {0, 1} :
       accepted' = [accepted EXCEPT ![job[w]] = @ + copies]
  /\ pc' = [pc EXCEPT ![w] = "failing"]
  /\ UNCHANGED <<requestVars, row, job, seen>>

\* Mutant: complete_job changes no status.
CompletedPending(r) == [status |-> "pending", attempts |-> r.attempts + 1]
Completed(r) == [status |-> "done", attempts |-> r.attempts + 1]

\* complete_job and the commit, which also makes claim's attempts + 1 durable.
Commit(w) ==
  /\ pc[w] = "sent"
  /\ row' = [row EXCEPT ![job[w]] = Completed(@)]
  /\ End(w, "poll")
  /\ UNCHANGED <<requestVars, historyVars>>

\* The commit raises: nothing was written, or everything was and only the
\* answer was lost.
CommitRaises(w) ==
  /\ pc[w] = "sent"
  /\ Fault(job[w])
  /\ \/ UNCHANGED row
     \/ row' = [row EXCEPT ![job[w]] = Completed(@)]
  /\ pc' = [pc EXCEPT ![w] = "failing"]
  /\ UNCHANGED <<requestVars, job, seen, accepted>>

-----------------------------------------------------------------------------
(* process_one, second session.                                            *)

\* The SELECT takes no lock and reads the committed row.
LoadFailed(w) ==
  /\ pc[w] = "failing"
  /\ seen' = [seen EXCEPT ![w] = row[job[w]]]
  /\ pc' = [pc EXCEPT ![w] = "recording"]
  /\ UNCHANGED <<requestVars, row, job, historyVars>>

\* Mutants: fail_job gives up one attempt early, or at once.
FailStatusEarly(r) == IF r.attempts + 1 >= MaxAttempts THEN "failed" ELSE "pending"
FailStatusAtOnce(r) == "failed"

\* fail_job, on the attributes of the loaded row.
FailStatus(r) == IF r.attempts >= MaxAttempts THEN "failed" ELSE "pending"

\* The UPDATE waits for a worker that holds the row, and writes the status
\* only where fail_job changed the loaded value: the ORM leaves an attribute
\* whose value did not change out of the statement.
RecordFailure(w) ==
  /\ pc[w] = "recording"
  /\ ~Locked(job[w])
  /\ LET status == FailStatus(seen[w])
     IN  row' = IF status = seen[w].status THEN row
                ELSE [row EXCEPT ![job[w]].status = status]
  /\ End(w, "poll")
  /\ UNCHANGED <<requestVars, accepted, budget, faults>>

\* The process dies (or an exception of the second session ends it): the
\* server rolls its transaction back and the row lock goes with it.
Crash(w) ==
  /\ pc[w] \in Busy
  /\ Fault(job[w])
  /\ End(w, "down")
  /\ UNCHANGED <<requestVars, row, accepted>>

Restart(w) ==
  /\ pc[w] = "down"
  /\ pc' = [pc EXCEPT ![w] = "poll"]
  /\ UNCHANGED <<requestVars, row, job, seen, historyVars>>

-----------------------------------------------------------------------------

Next ==
  \/ \E r \in Request : NotifyMany(r) \/ CommitRequest(r) \/ RollbackRequest(r)
  \/ \E w \in Worker :
       \/ Claim(w) \/ PollEmpty(w) \/ Send(w) \/ SendRaises(w)
       \/ Commit(w) \/ CommitRaises(w) \/ LoadFailed(w) \/ RecordFailure(w)
       \/ Crash(w) \/ Restart(w)

\* A running worker keeps taking the steps of its loop, and someone restarts
\* a worker that died.  A request, a provider error or a crash is never owed.
Progress(w) ==
  \/ Claim(w) \/ Send(w) \/ Commit(w) \/ LoadFailed(w) \/ RecordFailure(w)
  \/ Restart(w)

Fairness == \A w \in Worker : WF_vars(Progress(w)) /\ WF_vars(PollEmpty(w))

Spec == Init /\ [][Next]_vars /\ Fairness

-----------------------------------------------------------------------------
(* Properties.                                                             *)

\* Every variable stays in its domain.
TypeOK ==
  /\ txn \in [Request -> {"idle", "open", "committed", "rolledback"}]
  /\ clock \in Nat
  /\ stamp \in [Request -> Nat]
  /\ mails \in [Request -> SUBSET Recipient]
  /\ \A r \in Request : mails[r] \subseteq Audience[r]
  /\ row \in [Job -> Row]
  /\ pc \in [Worker -> {"poll", "exited", "down"} \cup Busy]
  /\ job \in [Worker -> Job \cup {NoJob}]
  /\ \A w \in Worker : pc[w] \in Busy => job[w] \in Job
  /\ seen \in [Worker -> Row]
  /\ accepted \in [Job -> Nat]
  /\ budget \in Nat
  /\ faults \in [Job -> Nat]

\* Two workers never send the same mail at the same time, whatever was
\* reclaimed, re-queued or recorded in between (notify_jobs.claim_next_job).
NoConcurrentSend ==
  \A v, w \in Worker : \A j \in Job : Holds(v, j) /\ Holds(w, j) => v = w

\* One fault costs at most two extra copies of a mail: a send that raised
\* after the relay took it, followed by a fail_job that puts a job another
\* worker has meanwhile completed back to pending (notify_worker.process_one).
DuplicatesBounded == \A j \in Job : accepted[j] <= 1 + 2 * faults[j]

\* No mail is given up before it went out: "done" and "failed" rows were
\* delivered, and "failed" is only reached by a job delivered maxAttempts
\* times, because an attempt that failed is never counted (fail_job).
SettledWasDelivered ==
  \A j \in Job :
    /\ row[j].status \in {"done", "failed"} => accepted[j] >= 1
    /\ row[j].status = "failed" => accepted[j] >= MaxAttempts

\* Nothing is mailed about a change that was rolled back: the jobs of a
\* request become visible only with its commit (notify_many, "Caller commits
\* with the parent transaction").
OnlyCommittedMail ==
  \A j \in Job :
    accepted[j] > 0 => txn[j[1]] = "committed" /\ j[2] \in mails[j[1]]

\* Once requests stop and the faults are spent, the worker's loop drains the
\* table: no committed job is left pending for ever (run_worker).
Quiet == \A j \in Job : row[j].status # "pending"
QueueSettles == []<>Quiet

\* The abstract queue: a mail is queued from the commit of its request until
\* the relay first takes it.
Outbox == INSTANCE MailOutbox WITH
  queued <- {j \in Job : row[j].status # "absent" /\ accepted[j] = 0},
  sent <- {j \in Job : accepted[j] > 0}

\* The table and the workers implement the promise of MailOutbox, its
\* liveness included: every published mail is eventually accepted.
ImplementsOutbox == Outbox!Spec
=============================================================================
