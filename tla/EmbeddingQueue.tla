--------------------------- MODULE EmbeddingQueue ---------------------------
(***************************************************************************)
(* The embedding queue of the knowledge base: app/services/                *)
(* embedding_jobs.py, the writers of app/services/kb.py and                *)
(* scripts/ingest_kb.py that feed it, and scripts/embedding_worker.py.     *)
(*                                                                         *)
(* Postgres under READ COMMITTED.  content, vector and job are the         *)
(* COMMITTED rows; what a transaction has written and not committed is in  *)
(* the state of the worker or writer that runs it, with its row locks.  As *)
(* in NotifyQueue, "processing" is never committed, so a claimed job is    *)
(* one whose row lock a worker holds and reclaim_stale_jobs matches none.  *)
(*                                                                         *)
(* A FAQ text is its version number, a vector the version it was computed  *)
(* from; 0 is "no such row" and "NULL".                                    *)
(***************************************************************************)
EXTENDS Naturals

CONSTANTS
  Worker,       \* embedding_worker processes
  Writer,       \* transactions that enqueue: ingest runs, reembed requests
  Faq,          \* FaqEntry ids
  NoFaq,        \* "no entry at hand"
  Poison,       \* entries whose text the embedder always rejects
  MaxAttempts,  \* maxAttempts of a job
  MaxFaults,    \* bound: provider errors, failed commits, crashes
  MaxRuns,      \* bound: writer transactions
  MaxVersion,   \* bound: versions of the text of an entry
  MaxJobs       \* bound: EmbeddingJob rows of an entry

ASSUME NoFaqAssumption == NoFaq \notin Faq
ASSUME PoisonAssumption == Poison \subseteq Faq
ASSUME BoundsAssumption ==
  {MaxAttempts, MaxFaults, MaxRuns, MaxVersion, MaxJobs} \subseteq Nat

VARIABLES
  content,   \* committed text of each FaqEntry
  vector,    \* committed embedding of each FaqEntry
  job,       \* committed EmbeddingJob rows: job[f][n] is the n-th of entry f
  pc,        \* where each worker stands in process_one
  claim,     \* the job <<f, n>> each worker is busy with
  text,      \* the text a worker has read, the input of the embedder
  seen,      \* the row the second session of a worker has loaded
  tx,        \* the open transaction of each writer
  runs,      \* writer transactions started so far, the clock of createdAt
  outrun,    \* history: workers whose text is older than what --sync wrote since
  spoilt,    \* history: entries whose vector --sync and another writer left stale
  budget     \* faults still allowed

rowVars == <<content, vector, job>>
workerVars == <<pc, claim, text, seen>>
writerVars == <<tx, runs>>
historyVars == <<outrun, spoilt>>
vars == <<rowVars, workerVars, writerVars, historyVars, budget>>

JobId == Faq \X (1..MaxJobs)
NoJob == <<NoFaq, 0>>
Row == [status : {"absent", "pending", "done", "failed"}, attempts : Nat, created : Nat]
AbsentRow == [status |-> "absent", attempts |-> 0, created |-> 0]

RowOf(j) == job[j[1]][j[2]]
Active(j) == RowOf(j).status = "pending"
ActiveJobs(f) == {n \in 1..MaxJobs : job[f][n].status = "pending"}

\* phase of a writer's transaction; the entries it has yet to enqueue; the
\* entry at hand, its text as --sync loaded it and its job; and what it holds:
\* entries rewritten, jobs updated, jobs inserted (by their entry).
Transaction ==
  [phase : {"idle", "find", "write", "sync"}, todo : SUBSET Faq, created : Nat,
   at : Faq \cup {NoFaq}, loaded : Nat, found : JobId \cup {NoJob},
   rewritten : SUBSET Faq, touched : SUBSET JobId, inserted : SUBSET Faq]
NoTransaction ==
  [phase |-> "idle", todo |-> {}, created |-> 0, at |-> NoFaq, loaded |-> 0, found |-> NoJob,
   rewritten |-> {}, touched |-> {}, inserted |-> {}]

Locking == {"claimed", "embedding", "writing"}
Busy == Locking \cup {"failing", "recording"}

HeldByWorker(j) == \E w \in Worker : claim[w] = j /\ pc[w] \in Locking
HeldByWriter(j) == \E e \in Writer : j \in tx[e].touched
EntryHeld(f) == \E e \in Writer : f \in tx[e].rewritten

\* An empty knowledge base, or one that was ingested with --sync.
Init ==
  /\ content \in [Faq -> {0, 1}]
  /\ vector = content
  /\ job = [f \in Faq |-> [n \in 1..MaxJobs |-> AbsentRow]]
  /\ pc = [w \in Worker |-> "poll"]
  /\ claim = [w \in Worker |-> NoJob]
  /\ text = [w \in Worker |-> 0]
  /\ seen = [w \in Worker |-> AbsentRow]
  /\ tx = [e \in Writer |-> NoTransaction]
  /\ runs = 0
  /\ outrun = {} /\ spoilt = {}
  /\ budget = MaxFaults

-----------------------------------------------------------------------------
(* Writers.                                                                *)

\* The job table after entry f got a new pending row.
FreeSlot(f, n) == job[f][n].status = "absent" /\ \A m \in 1..(n - 1) : job[f][m].status # "absent"
HasFreeSlot(f) == \E n \in 1..MaxJobs : FreeSlot(f, n)
WithNewJob(f, created) ==
  [n \in 1..MaxJobs |-> IF FreeSlot(f, n)
                          THEN [status |-> "pending", attempts |-> 0, created |-> created]
                          ELSE job[f][n]]

StartRun == runs < MaxRuns /\ runs' = runs + 1

\* create_faq: the entry, under a fresh id, and its job in one transaction.
CreateFaq(f) ==
  /\ StartRun
  /\ content[f] = 0 /\ ~EntryHeld(f) /\ HasFreeSlot(f)
  /\ content' = [content EXCEPT ![f] = 1]
  /\ job' = [job EXCEPT ![f] = WithNewJob(f, runs)]
  /\ UNCHANGED <<vector, workerVars, tx, historyVars, budget>>

\* ingest(sync=True) has embedded the corpus and loads an entry of it.  No
\* lock is taken and nothing looks for workers: that --sync is for the case
\* that none runs is left to the operator.  The model follows one entry.
BeginSync(e) ==
  /\ tx[e].phase = "idle"
  /\ StartRun
  /\ \E f \in Faq :
       tx' = [tx EXCEPT ![e].phase = "sync", ![e].at = f, ![e].loaded = content[f]]
  /\ UNCHANGED <<rowVars, workerVars, historyVars, budget>>

Reading(w) == pc[w] \in {"embedding", "writing"}

\* The flush and the commit of --sync: vector becomes that of the corpus, and
\* the text too where it differs from the one loaded.  An INSERT whose row
\* has appeared since raises, which leaves only Abort.
CommitSync(e) ==
  LET f == tx[e].at
      loaded == tx[e].loaded
  IN
  /\ tx[e].phase = "sync" /\ ~EntryHeld(f)
  /\ \/ /\ content[f] < MaxVersion /\ loaded = 0 => content[f] = 0
        /\ content' = [content EXCEPT ![f] = @ + 1]
        /\ vector' = [vector EXCEPT ![f] = content[f] + 1]
     \/ /\ loaded > 0
        /\ vector' = [vector EXCEPT ![f] = loaded]
        /\ UNCHANGED content
  /\ outrun' = outrun \cup
       {w \in Worker : Reading(w) /\ claim[w][1] = f /\ text[w] < vector'[f]}
  /\ spoilt' = IF vector'[f] < content'[f] THEN spoilt \cup {f} ELSE spoilt \ {f}
  /\ tx' = [tx EXCEPT ![e] = NoTransaction]
  /\ UNCHANGED <<job, workerVars, runs, budget>>

\* ingest(sync=False) over the corpus, or enqueue_reembed over a set of
\* existing entries (all, or those without a vector).
BeginEnqueue(e) ==
  /\ tx[e].phase = "idle"
  /\ StartRun
  /\ \E todo \in SUBSET Faq :
       /\ todo # {}
       /\ tx' = [tx EXCEPT ![e].phase = "find", ![e].todo = todo, ![e].created = runs]
  /\ UNCHANGED <<rowVars, workerVars, historyVars, budget>>

\* The entry of the corpus at hand: ingest's upsert_faq_entry where the text
\* differs (an UPDATE or INSERT, which takes the entry's row lock), or an
\* entry whose row is not written; then the SELECT of enqueue_embedding.
Find(e) ==
  /\ tx[e].phase = "find"
  /\ \E f \in tx[e].todo, rewrite \in BOOLEAN :
       /\ IF rewrite THEN content[f] < MaxVersion /\ ~EntryHeld(f) ELSE content[f] > 0
       /\ \E n \in IF ActiveJobs(f) = {} THEN {0} ELSE ActiveJobs(f) :
            tx' = [tx EXCEPT ![e].phase = "write",
                             ![e].at = f,
                             ![e].found = IF n = 0 THEN NoJob ELSE <<f, n>>,
                             ![e].rewritten = IF rewrite THEN @ \cup {f} ELSE @]
  /\ UNCHANGED <<rowVars, workerVars, runs, historyVars, budget>>

\* The rest of the transaction once the entry at hand is enqueued.
Enqueued(t) ==
  [t EXCEPT !.phase = "find", !.todo = @ \ {t.at}, !.at = NoFaq, !.found = NoJob]

\* Mutant: an active job is taken for enough and its row is left alone, so
\* the writer does not wait for the worker that holds it.
TouchNothing(e) ==
  /\ tx[e].phase = "write" /\ tx[e].found # NoJob
  /\ tx' = [tx EXCEPT ![e] = Enqueued(tx[e])]
  /\ UNCHANGED <<rowVars, workerVars, runs, historyVars, budget>>

\* enqueue_embedding found an active job.  Its status was loaded "pending",
\* so the ORM writes none: the UPDATE of updatedAt waits for the row and
\* leaves the status as the holder of the lock left it.
Touch(e) ==
  /\ tx[e].phase = "write" /\ tx[e].found # NoJob
  /\ ~HeldByWorker(tx[e].found)
  /\ \A other \in Writer \ {e} : tx[e].found \notin tx[other].touched
  /\ tx' = [tx EXCEPT ![e] = Enqueued([tx[e] EXCEPT !.touched = @ \cup {tx[e].found}])]
  /\ UNCHANGED <<rowVars, workerVars, runs, historyVars, budget>>

\* Mutant: no unique index over the active jobs.
InsertUnchecked(e) ==
  /\ tx[e].phase = "write" /\ tx[e].found = NoJob
  /\ HasFreeSlot(tx[e].at)
  /\ tx' = [tx EXCEPT ![e] = Enqueued([tx[e] EXCEPT !.inserted = @ \cup {tx[e].at}])]
  /\ UNCHANGED <<rowVars, workerVars, runs, historyVars, budget>>

\* enqueue_embedding found none.  Unique index uq_EmbeddingJob_active_faq:
\* the INSERT waits for another transaction's insert and raises if there is
\* an active row by then, which leaves the transaction only Abort.
Insert(e) ==
  /\ tx[e].phase = "write" /\ tx[e].found = NoJob
  /\ ActiveJobs(tx[e].at) = {} /\ HasFreeSlot(tx[e].at)
  /\ \A other \in Writer \ {e} : tx[e].at \notin tx[other].inserted
  /\ tx' = [tx EXCEPT ![e] = Enqueued([tx[e] EXCEPT !.inserted = @ \cup {tx[e].at}])]
  /\ UNCHANGED <<rowVars, workerVars, runs, historyVars, budget>>

CommitEnqueue(e) ==
  /\ tx[e].phase = "find" /\ tx[e].todo = {}
  /\ content' = [f \in Faq |-> IF f \in tx[e].rewritten THEN content[f] + 1 ELSE content[f]]
  /\ job' = [f \in Faq |-> IF f \in tx[e].inserted THEN WithNewJob(f, tx[e].created)
                           ELSE job[f]]
  /\ tx' = [tx EXCEPT ![e] = NoTransaction]
  /\ spoilt' = spoilt \ tx[e].rewritten
  /\ UNCHANGED <<vector, workerVars, runs, outrun, budget>>

\* The transaction ends without effect: unique violation, victim of the
\* deadlock detector, lost connection, killed script.
Abort(e) ==
  /\ tx[e].phase # "idle"
  /\ tx' = [tx EXCEPT ![e] = NoTransaction]
  /\ UNCHANGED <<rowVars, workerVars, runs, historyVars, budget>>

-----------------------------------------------------------------------------
(* process_one, first session.                                             *)

\* A worker is through with its job, or dead: its locals are gone.
End(w, state) ==
  /\ pc' = [pc EXCEPT ![w] = state]
  /\ claim' = [claim EXCEPT ![w] = NoJob]
  /\ text' = [text EXCEPT ![w] = 0]
  /\ seen' = [seen EXCEPT ![w] = AbsentRow]
  /\ outrun' = outrun \ {w}

\* Mutant: the SELECT of claim_next_job takes no lock.
ClaimableUnlocked == {j \in JobId : Active(j)}
Claimable == {j \in JobId : Active(j) /\ ~HeldByWorker(j) /\ ~HeldByWriter(j)}

\* claim_next_job: the oldest pending row nobody has locked.
Claim(w) ==
  /\ pc[w] = "poll"
  /\ \E j \in Claimable :
       /\ \A k \in Claimable : RowOf(j).created <= RowOf(k).created
       /\ claim' = [claim EXCEPT ![w] = j]
  /\ pc' = [pc EXCEPT ![w] = "claimed"]
  /\ UNCHANGED <<rowVars, text, seen, writerVars, historyVars, budget>>

\* process_one returns False; the daemon sleeps and polls again.
PollEmpty(w) == pc[w] = "poll" /\ Claimable = {} /\ UNCHANGED vars

\* The entry is read without a lock.  It exists: the job row references it
\* and nothing deletes entries.
ReadEntry(w) ==
  /\ pc[w] = "claimed"
  /\ text' = [text EXCEPT ![w] = content[claim[w][1]]]
  /\ pc' = [pc EXCEPT ![w] = "embedding"]
  /\ UNCHANGED <<rowVars, claim, seen, writerVars, historyVars, budget>>

\* The embedder returns and complete_job has changed both objects.
Embed(w) ==
  /\ pc[w] = "embedding" /\ claim[w][1] \notin Poison
  /\ pc' = [pc EXCEPT ![w] = "writing"]
  /\ UNCHANGED <<rowVars, claim, text, seen, writerVars, historyVars, budget>>

Fault == budget > 0 /\ budget' = budget - 1

\* The embedder raises; the transaction is rolled back.
EmbedRaises(w) ==
  /\ pc[w] = "embedding"
  /\ IF claim[w][1] \in Poison THEN UNCHANGED budget ELSE Fault
  /\ pc' = [pc EXCEPT ![w] = "failing"]
  /\ UNCHANGED <<rowVars, claim, seen, writerVars, historyVars>>
  /\ text' = [text EXCEPT ![w] = 0]

\* Whether the vector of f is stale after worker w wrote it.
Spoils(w, f) == spoilt' = IF w \in outrun THEN spoilt \cup {f} ELSE spoilt \ {f}

\* Mutants: complete_job leaves the claim's status; it forgets the vector.
CompleteProcessing(w) ==
  LET f == claim[w][1] n == claim[w][2] IN
  /\ ~EntryHeld(f)
  /\ vector' = [vector EXCEPT ![f] = text[w]]
  /\ job' = [job EXCEPT ![f][n].status = "processing", ![f][n].attempts = @ + 1]
  /\ Spoils(w, f)
CompleteWithoutVector(w) ==
  LET f == claim[w][1] n == claim[w][2] IN
  /\ ~EntryHeld(f)
  /\ vector' = vector
  /\ job' = [job EXCEPT ![f][n].status = "done", ![f][n].attempts = @ + 1]
  /\ Spoils(w, f)

\* What the flush and commit of complete_job write.
Complete(w) ==
  LET f == claim[w][1] n == claim[w][2] IN
  /\ ~EntryHeld(f)
  /\ vector' = [vector EXCEPT ![f] = text[w]]
  /\ job' = [job EXCEPT ![f][n].status = "done", ![f][n].attempts = @ + 1]
  /\ Spoils(w, f)

Commit(w) ==
  /\ pc[w] = "writing"
  /\ Complete(w)
  /\ End(w, "poll")
  /\ UNCHANGED <<content, writerVars, budget>>

\* The commit raises: nothing was written, or only the answer was lost.
CommitRaises(w) ==
  /\ pc[w] = "writing"
  /\ Fault
  /\ UNCHANGED <<vector, job, spoilt>> \/ Complete(w)
  /\ pc' = [pc EXCEPT ![w] = "failing"]
  /\ UNCHANGED <<content, claim, text, seen, writerVars, outrun>>

\* The worker holds its job and waits for the entry, a writer holds the
\* entry and waits for the job: the server makes the worker's flush raise
\* (the writer being the victim is its Abort).
DeadlockVictim(w) ==
  /\ pc[w] = "writing"
  /\ \E e \in Writer : claim[w][1] \in tx[e].rewritten /\ tx[e].found = claim[w]
  /\ pc' = [pc EXCEPT ![w] = "failing"]
  /\ UNCHANGED <<rowVars, claim, text, seen, writerVars, historyVars, budget>>

-----------------------------------------------------------------------------
(* process_one, second session.                                            *)

LoadFailed(w) ==
  /\ pc[w] = "failing"
  /\ seen' = [seen EXCEPT ![w] = RowOf(claim[w])]
  /\ pc' = [pc EXCEPT ![w] = "recording"]
  /\ UNCHANGED <<rowVars, claim, text, writerVars, historyVars, budget>>

\* fail_job, on the attributes of the loaded row.
FailStatus(r) == IF r.attempts >= MaxAttempts THEN "failed" ELSE "pending"

\* The UPDATE waits for the row.  It writes the status only where fail_job
\* changed the loaded value, and raises, outside any handler, when that
\* would make a second active row of the entry: the worker process ends.
RecordFailure(w) ==
  LET f == claim[w][1]
      n == claim[w][2]
      status == FailStatus(seen[w])
      writes == status # seen[w].status
      duplicate == writes /\ status = "pending" /\ ActiveJobs(f) \ {n} # {}
  IN
  /\ pc[w] = "recording"
  /\ ~HeldByWorker(claim[w]) /\ ~HeldByWriter(claim[w])
  /\ status = "pending" /\ writes => \A e \in Writer : f \notin tx[e].inserted
  /\ job' = IF writes /\ ~duplicate THEN [job EXCEPT ![f][n].status = status] ELSE job
  /\ End(w, IF duplicate THEN "down" ELSE "poll")
  /\ UNCHANGED <<content, vector, writerVars, spoilt, budget>>

Crash(w) ==
  /\ pc[w] \in Busy \cup {"poll"}
  /\ Fault
  /\ End(w, "down")
  /\ UNCHANGED <<rowVars, writerVars, spoilt>>

Restart(w) ==
  /\ pc[w] = "down"
  /\ pc' = [pc EXCEPT ![w] = "poll"]
  /\ UNCHANGED <<rowVars, claim, text, seen, writerVars, historyVars, budget>>

-----------------------------------------------------------------------------

Next ==
  \/ \E f \in Faq : CreateFaq(f)
  \/ \E e \in Writer :
       \/ BeginEnqueue(e) \/ Find(e) \/ Touch(e) \/ Insert(e)
       \/ CommitEnqueue(e) \/ BeginSync(e) \/ CommitSync(e) \/ Abort(e)
  \/ \E w \in Worker :
       \/ Claim(w) \/ PollEmpty(w) \/ ReadEntry(w) \/ Embed(w) \/ EmbedRaises(w)
       \/ Commit(w) \/ CommitRaises(w) \/ DeadlockVictim(w)
       \/ LoadFailed(w) \/ RecordFailure(w) \/ Crash(w) \/ Restart(w)

\* A running worker and an open transaction keep going, a blocked one is
\* ended by the deadlock detector, and someone restarts a dead worker.
WorkerProgress(w) ==
  \/ Claim(w) \/ ReadEntry(w) \/ Embed(w) \/ Commit(w) \/ DeadlockVictim(w)
  \/ LoadFailed(w) \/ RecordFailure(w) \/ Restart(w)
WriterProgress(e) ==
  Find(e) \/ Touch(e) \/ Insert(e) \/ CommitEnqueue(e) \/ CommitSync(e) \/ Abort(e)

Fairness ==
  /\ \A w \in Worker : WF_vars(WorkerProgress(w))
  /\ \A e \in Writer : WF_vars(WriterProgress(e))

Spec == Init /\ [][Next]_vars /\ Fairness

-----------------------------------------------------------------------------
(* Properties.                                                             *)

\* Every variable stays in its domain.
TypeOK ==
  /\ content \in [Faq -> Nat]
  /\ vector \in [Faq -> Nat]
  /\ job \in [Faq -> [1..MaxJobs -> Row]]
  /\ pc \in [Worker -> {"poll", "down"} \cup Busy]
  /\ claim \in [Worker -> JobId \cup {NoJob}]
  /\ \A w \in Worker : pc[w] \in Busy => claim[w] \in JobId
  /\ text \in [Worker -> Nat]
  /\ seen \in [Worker -> Row]
  /\ tx \in [Writer -> Transaction]
  /\ \A e \in Writer : tx[e].phase \in {"write", "sync"} => tx[e].at \in Faq
  /\ runs \in Nat
  /\ outrun \subseteq Worker
  /\ spoilt \subseteq Faq
  /\ budget \in Nat

\* A FAQ whose vector does not match its text is never forgotten: it has a
\* pending job, or one given up after maxAttempts completed runs.  Neither a
\* text rewritten while a worker embeds the old one, nor a job touched
\* instead of reset, breaks it (enqueue_embedding, complete_job).  Only --sync
\* beside a worker or another ingest does: it looks for neither, and its own
\* write or the worker's then leaves a stale vector with no job (ingest_kb.py).
StaleIsQueued ==
  \A f \in Faq \ spoilt : vector[f] # content[f] =>
    \E n \in 1..MaxJobs :
      \/ job[f][n].status = "pending"
      \/ job[f][n].status = "failed" /\ job[f][n].attempts >= MaxAttempts

\* Two workers never embed the same FAQ at the same time, although a done
\* job can be put back to pending (row lock and unique index together).
OneEmbedderPerFaq ==
  \A v, w \in Worker :
    v # w /\ pc[v] \in Locking /\ pc[w] \in Locking => claim[v][1] # claim[w][1]

\* A vector is overwritten by one of an older text only where --sync ran
\* beside its writer: by a worker whose text --sync replaced after it was
\* read, or by a --sync whose own text was replaced after it was loaded.  In
\* every other order, with two workers, re-queued jobs or an ingest that
\* rewrites the text while the embedder runs, a slow worker never does.
VectorNeverOlder == [][\A f \in Faq : vector'[f] < vector[f] => f \in spoilt']_vars

\* Once writers stop and the faults are spent, every FAQ is searchable by a
\* vector of its current text, unless its job was given up or --sync ran
\* beside another writer of its vector.
GivenUp(f) == \E n \in 1..MaxJobs : job[f][n].status = "failed"
EventuallyFresh ==
  []<>(\A f \in Faq : vector[f] = content[f] \/ GivenUp(f) \/ f \in spoilt)

\* What fail_job promises ("re-queue as pending until attempts are
\* exhausted"): an entry the embedder always rejects stops being queued.
RetriesExhausted == \A f \in Poison : []<>(ActiveJobs(f) = {})
=============================================================================
