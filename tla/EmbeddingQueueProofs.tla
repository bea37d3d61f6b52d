------------------------- MODULE EmbeddingQueueProofs -------------------------
(***************************************************************************)
(* What EmbeddingQueue guarantees for any number of workers, writers,      *)
(* entries, job rows and versions of a text.                               *)
(***************************************************************************)
EXTENDS EmbeddingQueue, TLAPS

Pending(f, n) == job[f][n].status = "pending"
Failed(f, n) == job[f][n].status = "failed" /\ job[f][n].attempts >= MaxAttempts
Abandoned(f) == \E n \in 1..MaxJobs : Failed(f, n)

\* The entry of a worker's job.
EntryOf(w) == claim[w][1]

\* The unique index over active rows.
OneActive ==
  \A f \in Faq : \A m, n \in 1..MaxJobs : Pending(f, m) /\ Pending(f, n) => m = n

\* Row locks: a locked job is pending, and locked by one worker or touched by
\* writers.
LocksHold ==
  \A w \in Worker : pc[w] \in Locking =>
    /\ Active(claim[w])
    /\ \A v \in Worker \ {w} : pc[v] \in Locking => claim[v] # claim[w]
    /\ \A e \in Writer : claim[w] \notin tx[e].touched

\* An insert that waits for its commit keeps its entry free of active rows.
InsertsHold ==
  \A e \in Writer : \A f \in tx[e].inserted :
    /\ \A n \in 1..MaxJobs : ~Pending(f, n)
    /\ HasFreeSlot(f)
    /\ \A d \in Writer \ {e} : f \notin tx[d].inserted
    /\ content[f] > 0 \/ f \in tx[e].rewritten

\* What a writer is about to enqueue is an entry that exists by then, and
\* what --sync has loaded is no newer than the text.
WritersKnown ==
  \A e \in Writer :
    /\ tx[e].phase = "idle" => tx[e] = NoTransaction
    /\ tx[e].phase = "find" => tx[e].at = NoFaq
    /\ tx[e].phase = "write" => tx[e].at \in tx[e].todo
    /\ tx[e].phase = "write" => content[tx[e].at] > 0 \/ tx[e].at \in tx[e].rewritten
    /\ tx[e].phase = "write" /\ tx[e].found # NoJob => tx[e].found[1] = tx[e].at
    /\ \A f \in tx[e].todo : f \in tx[e].rewritten => tx[e].phase = "write" /\ tx[e].at = f
    /\ tx[e].phase = "sync" => tx[e].loaded <= content[tx[e].at]

\* Only entries have jobs, and only rows that exist are worked on.
JobsKnown ==
  /\ \A f \in Faq, n \in 1..MaxJobs : content[f] = 0 => job[f][n].status = "absent"
  /\ \A w \in Worker : pc[w] \in Busy => RowOf(claim[w]).status # "absent"
  /\ \A w \in Worker : pc[w] = "recording" => seen[w].attempts <= RowOf(claim[w]).attempts

\* A text rewritten by an open transaction is already covered by a row that
\* will be there when it commits.
Good(f, n) == Pending(f, n) \/ Failed(f, n)
Covered(e, f) ==
  IF tx[e].at = f
  THEN tx[e].found # NoJob => Good(f, tx[e].found[2])
  ELSE f \in tx[e].inserted \/ \E n \in 1..MaxJobs : <<f, n>> \in tx[e].touched /\ Good(f, n)
RewritesCovered == \A e \in Writer : \A f \in tx[e].rewritten : Covered(e, f)

\* What a worker has read is the committed text, or the entry has a job that
\* was given up, and it is no older than the vector, unless --sync has
\* replaced it since.
Current(w) ==
  /\ vector[EntryOf(w)] <= text[w]
  /\ text[w] = content[EntryOf(w)] \/ Abandoned(EntryOf(w))
ReadingCurrent ==
  \A w \in Worker : Reading(w) =>
    /\ text[w] <= content[EntryOf(w)]
    /\ w \in outrun \/ Current(w)

VectorNotAhead == \A f \in Faq : vector[f] <= content[f]

Inductive ==
  /\ TypeOK
  /\ OneActive /\ LocksHold /\ InsertsHold
  /\ WritersKnown /\ JobsKnown /\ RewritesCovered
  /\ ReadingCurrent /\ VectorNotAhead /\ StaleIsQueued
-----------------------------------------------------------------------------
(* Helpers.                                                                *)

\* A busy worker has a job of an entry.
LEMMA ClaimIs ==
  ASSUME TypeOK, NEW w \in Worker, pc[w] \in Busy
  PROVE  /\ EntryOf(w) \in Faq /\ claim[w][2] \in 1..MaxJobs
         /\ claim[w] = <<EntryOf(w), claim[w][2]>>
         /\ RowOf(claim[w]) = job[EntryOf(w)][claim[w][2]]
BY DEF TypeOK, EntryOf, RowOf, JobId

\* WithNewJob writes one row, the first that was absent.
LEMMA NewJobIs ==
  ASSUME TypeOK, NEW f \in Faq, NEW created \in Nat
  PROVE  /\ WithNewJob(f, created) \in [1..MaxJobs -> Row]
         /\ \A n \in 1..MaxJobs :
              job[f][n].status # "absent" => WithNewJob(f, created)[n] = job[f][n]
         /\ HasFreeSlot(f) =>
              \E n \in 1..MaxJobs :
                /\ job[f][n].status = "absent"
                /\ WithNewJob(f, created)[n].status = "pending"
                /\ \A m \in 1..MaxJobs \ {n} : WithNewJob(f, created)[m] = job[f][m]
<1> DEFINE new == [status |-> "pending", attempts |-> 0, created |-> created]
<1>1. job[f] \in [1..MaxJobs -> Row] /\ MaxJobs \in Nat
  BY BoundsAssumption DEF TypeOK
<1>2. new \in Row
  BY DEF Row
<1>3. \A n \in 1..MaxJobs : WithNewJob(f, created)[n] = IF FreeSlot(f, n) THEN new ELSE job[f][n]
  BY DEF WithNewJob
<1>4. WithNewJob(f, created) \in [1..MaxJobs -> Row]
  BY <1>1, <1>2 DEF WithNewJob
<1>5. \A n \in 1..MaxJobs : FreeSlot(f, n) => job[f][n].status = "absent"
  BY DEF FreeSlot
<1>6. ASSUME HasFreeSlot(f)
      PROVE  \E n \in 1..MaxJobs :
                /\ job[f][n].status = "absent"
                /\ WithNewJob(f, created)[n].status = "pending"
                /\ \A m \in 1..MaxJobs \ {n} : WithNewJob(f, created)[m] = job[f][m]
  <2>1. PICK n \in 1..MaxJobs : FreeSlot(f, n)
    BY <1>6 DEF HasFreeSlot
  <2>2. \A m \in 1..MaxJobs \ {n} : ~FreeSlot(f, m)
    BY <1>1, <2>1 DEF FreeSlot
  <2> QED
    BY <1>3, <1>5, <2>1, <2>2
<1> QED
  BY <1>3, <1>4, <1>5, <1>6

\* The two updates of a row.
LEMMA RowIs ==
  ASSUME NEW r \in Row, NEW status \in {"failed", "pending"}
  PROVE  /\ LET done == [r EXCEPT !.status = "done", !.attempts = @ + 1] IN
            done \in Row /\ done.status = "done" /\ done.attempts = r.attempts + 1
         /\ LET put == [r EXCEPT !.status = status] IN
            put \in Row /\ put.status = status /\ put.attempts = r.attempts
<1>1. /\ r.attempts \in Nat /\ r.created \in Nat
      /\ r = [status |-> r.status, attempts |-> r.attempts, created |-> r.created]
  BY DEF Row
<1>2. /\ [r EXCEPT !.status = "done"]
           = [status |-> "done", attempts |-> r.attempts, created |-> r.created]
      /\ [r EXCEPT !.status = status]
           = [status |-> status, attempts |-> r.attempts, created |-> r.created]
  BY DEF Row
<1>3. [[status |-> "done", attempts |-> r.attempts, created |-> r.created]
          EXCEPT !.attempts = r.attempts + 1]
        = [status |-> "done", attempts |-> r.attempts + 1, created |-> r.created]
  BY <1>1
<1>4. [r EXCEPT !.status = "done", !.attempts = @ + 1]
        = [status |-> "done", attempts |-> r.attempts + 1, created |-> r.created]
  BY <1>2, <1>3, Zenon
<1>5. /\ [status |-> "done", attempts |-> r.attempts + 1, created |-> r.created] \in Row
      /\ [status |-> status, attempts |-> r.attempts, created |-> r.created] \in Row
  BY <1>1 DEF Row
<1> QED
  BY <1>2, <1>4, <1>5

\* What a writer's transaction becomes when an entry is enqueued.
LEMMA EnqueuedIs ==
  ASSUME NEW t \in Transaction
  PROVE  /\ Enqueued(t) \in Transaction
         /\ Enqueued(t).phase = "find" /\ Enqueued(t).at = NoFaq /\ Enqueued(t).found = NoJob
         /\ Enqueued(t).todo = t.todo \ {t.at}
         /\ Enqueued(t).rewritten = t.rewritten
         /\ Enqueued(t).touched = t.touched /\ Enqueued(t).inserted = t.inserted
BY DEF Enqueued, Transaction

\* Touching a row adds it to what the transaction holds, and nothing else.
LEMMA TouchesMore ==
  ASSUME NEW t \in Transaction, NEW j \in JobId
  PROVE  LET u == [t EXCEPT !.touched = @ \cup {j}] IN
         /\ u \in Transaction /\ u.touched = t.touched \cup {j}
         /\ u.inserted = t.inserted /\ u.rewritten = t.rewritten
         /\ u.at = t.at /\ u.todo = t.todo
BY DEF Transaction

\* Inserting adds the entry, and nothing else.
LEMMA InsertsMore ==
  ASSUME NEW t \in Transaction, NEW f \in Faq
  PROVE  LET u == [t EXCEPT !.inserted = @ \cup {f}] IN
         /\ u \in Transaction /\ u.inserted = t.inserted \cup {f}
         /\ u.touched = t.touched /\ u.rewritten = t.rewritten
         /\ u.at = t.at /\ u.todo = t.todo
BY SMTT(60) DEF Transaction

\* complete_job writes the row and the vector.
LEMMA CompleteIs ==
  ASSUME TypeOK, NEW w \in Worker, pc[w] = "writing", Complete(w)
  PROVE  LET f == EntryOf(w) n == claim[w][2] IN
         /\ f \in Faq /\ n \in 1..MaxJobs /\ RowOf(claim[w]) = job[f][n]
         /\ ~EntryHeld(f)
         /\ vector' \in [Faq -> Nat] /\ job' \in [Faq -> [1..MaxJobs -> Row]]
         /\ vector'[f] = text[w] /\ \A g \in Faq \ {f} : vector'[g] = vector[g]
         /\ job'[f][n].status = "done" /\ job'[f][n].attempts = job[f][n].attempts + 1
         /\ \A g \in Faq, m \in 1..MaxJobs : <<g, m>> # <<f, n>> => job'[g][m] = job[g][m]
         /\ spoilt' = IF w \in outrun THEN spoilt \cup {f} ELSE spoilt \ {f}
<1> DEFINE f == EntryOf(w)
           n == claim[w][2]
           new == [job[f][n] EXCEPT !.status = "done", !.attempts = @ + 1]
<1>1. f \in Faq /\ n \in 1..MaxJobs /\ RowOf(claim[w]) = job[f][n]
  BY ClaimIs DEF Busy, Locking
<1>2. /\ vector \in [Faq -> Nat] /\ text[w] \in Nat
      /\ job \in [Faq -> [1..MaxJobs -> Row]] /\ job[f] \in [1..MaxJobs -> Row]
      /\ job[f][n] \in Row
  <2>1. vector \in [Faq -> Nat] /\ text[w] \in Nat /\ job \in [Faq -> [1..MaxJobs -> Row]]
    BY DEF TypeOK
  <2> QED
    BY <1>1, <2>1, ZenonT(60)
<1>3. new \in Row /\ new.status = "done" /\ new.attempts = job[f][n].attempts + 1
  BY <1>2, RowIs, ZenonT(60)
<1>4. /\ ~EntryHeld(f)
      /\ vector' = [vector EXCEPT ![f] = text[w]]
      /\ job' = [job EXCEPT ![f][n].status = "done", ![f][n].attempts = @ + 1]
      /\ spoilt' = IF w \in outrun THEN spoilt \cup {f} ELSE spoilt \ {f}
  BY DEF Complete, Spoils, EntryOf
<1>5. job' = [job EXCEPT ![f] = [job[f] EXCEPT ![n] = new]]
  BY <1>1, <1>2, <1>4
<1> HIDE DEF f, n, new
<1>6. [job[f] EXCEPT ![n] = new] \in [1..MaxJobs -> Row]
  BY <1>1, <1>2, <1>3
<1>7. /\ job' \in [Faq -> [1..MaxJobs -> Row]] /\ job'[f][n] = new
      /\ \A g \in Faq, m \in 1..MaxJobs : <<g, m>> # <<f, n>> => job'[g][m] = job[g][m]
  BY <1>1, <1>2, <1>5, <1>6
<1>8. vector' \in [Faq -> Nat] /\ vector'[f] = text[w] /\ \A g \in Faq \ {f} : vector'[g] = vector[g]
  BY <1>1, <1>2, <1>4
<1> QED
  BY <1>1, <1>3, <1>4, <1>7, <1>8 DEF f, n

\* fail_job writes the status of one row, or nothing.
LEMMA FailureIs ==
  ASSUME TypeOK, NEW w \in Worker, RecordFailure(w)
  PROVE  LET f == EntryOf(w) n == claim[w][2] IN
         /\ f \in Faq /\ n \in 1..MaxJobs /\ RowOf(claim[w]) = job[f][n]
         /\ job' \in [Faq -> [1..MaxJobs -> Row]]
         /\ job'[f][n].attempts = job[f][n].attempts
         /\ \A g \in Faq, m \in 1..MaxJobs : <<g, m>> # <<f, n>> => job'[g][m] = job[g][m]
         /\ \/ job'[f][n] = job[f][n]
            \/ job'[f][n].status = "failed" /\ seen[w].attempts >= MaxAttempts
            \/ /\ job'[f][n].status = "pending"
               /\ ActiveJobs(f) \ {n} = {} /\ \A e \in Writer : f \notin tx[e].inserted
<1> DEFINE f == EntryOf(w)
           n == claim[w][2]
           status == FailStatus(seen[w])
           new == [job[f][n] EXCEPT !.status = status]
<1>1. f \in Faq /\ n \in 1..MaxJobs /\ RowOf(claim[w]) = job[f][n]
  <2>1. pc[w] \in Busy
    BY DEF RecordFailure, Busy
  <2> QED
    BY <2>1, ClaimIs
<1>2. /\ job \in [Faq -> [1..MaxJobs -> Row]] /\ job[f] \in [1..MaxJobs -> Row]
      /\ job[f][n] \in Row
  BY <1>1 DEF TypeOK
<1>3. status \in {"failed", "pending"} /\ (status = "failed" => seen[w].attempts >= MaxAttempts)
  BY DEF FailStatus
<1>4. new \in Row /\ new.status = status /\ new.attempts = job[f][n].attempts
  BY <1>2, <1>3, RowIs, ZenonT(60)
<1>5. \/ job' = job
      \/ /\ job' = [job EXCEPT ![f][n].status = status]
         /\ status = "pending" =>
              ActiveJobs(f) \ {n} = {} /\ \A e \in Writer : f \notin tx[e].inserted
  BY <1>3 DEF RecordFailure, EntryOf
<1>6. CASE job' = job
  BY <1>1, <1>2, <1>6
<1>7. CASE /\ job' = [job EXCEPT ![f][n].status = status]
           /\ status = "pending" =>
                ActiveJobs(f) \ {n} = {} /\ \A e \in Writer : f \notin tx[e].inserted
  <2>1. job' = [job EXCEPT ![f] = [job[f] EXCEPT ![n] = new]]
    BY <1>1, <1>2, <1>7
  <2> HIDE DEF f, n, new, status
  <2>2. [job[f] EXCEPT ![n] = new] \in [1..MaxJobs -> Row]
    BY <1>1, <1>2, <1>4
  <2>3. /\ job' \in [Faq -> [1..MaxJobs -> Row]] /\ job'[f][n] = new
        /\ \A g \in Faq, m \in 1..MaxJobs : <<g, m>> # <<f, n>> => job'[g][m] = job[g][m]
    BY <1>1, <1>2, <2>1, <2>2
  <2> QED
    BY <1>1, <1>3, <1>4, <1>7, <2>3 DEF f, n
<1> QED
  BY <1>5, <1>6, <1>7

-----------------------------------------------------------------------------
(* Types.                                                                  *)

\* Every step keeps every variable in its domain.
LEMMA TypeStep == TypeOK /\ [Next]_vars => TypeOK'
<1> SUFFICES ASSUME TypeOK, [Next]_vars
             PROVE  TypeOK'
  OBVIOUS
<1>1. ASSUME NEW f \in Faq, CreateFaq(f)
      PROVE  TypeOK'
  <2>1. runs \in Nat /\ job \in [Faq -> [1..MaxJobs -> Row]] /\ content \in [Faq -> Nat]
    BY DEF TypeOK
  <2>2. WithNewJob(f, runs) \in [1..MaxJobs -> Row]
    BY <2>1, NewJobIs
  <2> QED
    BY <1>1, <2>1, <2>2 DEF CreateFaq, StartRun, workerVars, historyVars, TypeOK
<1>2. ASSUME NEW e \in Writer, BeginSync(e)
      PROVE  TypeOK'
  <2>1. /\ tx[e] \in Transaction /\ tx \in [Writer -> Transaction]
        /\ UNCHANGED <<content, vector, job, pc, claim, text, seen, outrun, spoilt, budget>>
        /\ runs \in Nat /\ runs' = runs + 1 /\ content \in [Faq -> Nat]
    BY <1>2 DEF BeginSync, StartRun, rowVars, workerVars, historyVars, TypeOK
  <2>2. PICK f \in Faq :
          tx' = [tx EXCEPT ![e].phase = "sync", ![e].at = f, ![e].loaded = content[f]]
    BY <1>2 DEF BeginSync
  <2>3. tx' \in [Writer -> Transaction]
    BY <2>1, <2>2, ZenonT(60) DEF Transaction
  <2>4. \A d \in Writer : tx'[d].phase \in {"write", "sync"} => tx'[d].at \in Faq
    BY <2>1, <2>2 DEF TypeOK, Transaction
  <2> QED
    BY <2>1, <2>3, <2>4 DEF TypeOK
<1>17. ASSUME NEW e \in Writer, CommitSync(e)
       PROVE  TypeOK'
  <2>1. /\ tx[e] \in Transaction /\ NoTransaction \in Transaction /\ tx[e].at \in Faq
        /\ NoTransaction.phase = "idle" /\ tx[e].loaded \in Nat
    BY <1>17 DEF CommitSync, TypeOK, Transaction, NoTransaction
  <2>2. content' \in [Faq -> Nat] /\ vector' \in [Faq -> Nat]
    <3>1. content \in [Faq -> Nat] /\ vector \in [Faq -> Nat]
      BY DEF TypeOK
    <3>2. content[tx[e].at] \in Nat /\ content[tx[e].at] + 1 \in Nat
      BY <2>1, <3>1
    <3>3. \/ /\ content' = [content EXCEPT ![tx[e].at] = content[tx[e].at] + 1]
             /\ vector' = [vector EXCEPT ![tx[e].at] = content[tx[e].at] + 1]
          \/ vector' = [vector EXCEPT ![tx[e].at] = tx[e].loaded] /\ content' = content
      BY <1>17, Zenon DEF CommitSync
    <3> QED
      BY <2>1, <3>1, <3>2, <3>3
  <2>3. /\ tx' \in [Writer -> Transaction]
        /\ \A d \in Writer : tx'[d].phase \in {"write", "sync"} => tx'[d].at \in Faq
    BY <1>17, <2>1 DEF CommitSync, TypeOK
  <2>4. outrun' \subseteq Worker /\ spoilt' \subseteq Faq
    BY <1>17, <2>1 DEF CommitSync, TypeOK
  <2> QED
    BY <1>17, <2>2, <2>3, <2>4 DEF CommitSync, workerVars, TypeOK
<1>3. ASSUME NEW e \in Writer, BeginEnqueue(e)
      PROVE  TypeOK'
  <2>1. /\ tx[e] \in Transaction /\ tx \in [Writer -> Transaction] /\ runs \in Nat
        /\ UNCHANGED <<content, vector, job, pc, claim, text, seen, outrun, spoilt, budget>>
        /\ runs' = runs + 1
    BY <1>3 DEF BeginEnqueue, StartRun, rowVars, workerVars, historyVars, TypeOK
  <2>2. PICK todo \in SUBSET Faq :
          tx' = [tx EXCEPT ![e].phase = "find", ![e].todo = todo, ![e].created = runs]
    BY <1>3 DEF BeginEnqueue
  <2>3. tx' \in [Writer -> Transaction]
    BY <2>1, <2>2 DEF Transaction
  <2>4. \A d \in Writer : tx'[d].phase \in {"write", "sync"} => tx'[d].at \in Faq
    BY <2>1, <2>2 DEF TypeOK, Transaction
  <2> QED
    BY <2>1, <2>3, <2>4 DEF TypeOK
<1>4. ASSUME NEW e \in Writer, Find(e)
      PROVE  TypeOK'
  <2>1. /\ tx[e] \in Transaction /\ tx \in [Writer -> Transaction]
        /\ UNCHANGED <<content, vector, job, pc, claim, text, seen, runs, outrun, spoilt, budget>>
    BY <1>4 DEF Find, rowVars, workerVars, historyVars, TypeOK
  <2>2. PICK f \in tx[e].todo, rewrite \in BOOLEAN :
          \E n \in IF ActiveJobs(f) = {} THEN {0} ELSE ActiveJobs(f) :
            tx' = [tx EXCEPT ![e].phase = "write",
                             ![e].at = f,
                             ![e].found = IF n = 0 THEN NoJob ELSE <<f, n>>,
                             ![e].rewritten = IF rewrite THEN @ \cup {f} ELSE @]
    BY <1>4, ZenonT(60) DEF Find
  <2>3. f \in Faq
    BY <2>1 DEF Transaction
  <2>4. PICK n \in IF ActiveJobs(f) = {} THEN {0} ELSE ActiveJobs(f) :
            tx' = [tx EXCEPT ![e].phase = "write",
                             ![e].at = f,
                             ![e].found = IF n = 0 THEN NoJob ELSE <<f, n>>,
                             ![e].rewritten = IF rewrite THEN @ \cup {f} ELSE @]
    BY <2>2
  <2>5. (IF n = 0 THEN NoJob ELSE <<f, n>>) \in JobId \cup {NoJob}
    BY <2>4, <2>3 DEF ActiveJobs, JobId
  <2> DEFINE found == IF n = 0 THEN NoJob ELSE <<f, n>>
             rewritten == IF rewrite THEN tx[e].rewritten \cup {f} ELSE tx[e].rewritten
             held == [tx[e] EXCEPT !.phase = "write", !.at = f, !.found = found,
                                   !.rewritten = rewritten]
  <2>8. rewritten \in SUBSET Faq /\ found \in JobId \cup {NoJob}
    BY <2>1, <2>3, <2>5 DEF Transaction
  <2>9. tx' = [tx EXCEPT ![e] = held]
    BY <2>1, <2>4
  <2> HIDE DEF found, rewritten
  <2>10. held \in Transaction /\ held.at = f
    BY <2>1, <2>3, <2>8 DEF Transaction
  <2> HIDE DEF held
  <2>6. tx' \in [Writer -> Transaction]
    BY <2>1, <2>9, <2>10
  <2>7. \A d \in Writer : tx'[d].phase \in {"write", "sync"} => tx'[d].at \in Faq
    BY <2>1, <2>3, <2>9, <2>10 DEF TypeOK
  <2> QED
    BY <2>1, <2>6, <2>7 DEF TypeOK
<1>5. ASSUME NEW e \in Writer, Touch(e) \/ Insert(e)
      PROVE  TypeOK'
  <2>1. /\ tx[e] \in Transaction /\ tx \in [Writer -> Transaction]
        /\ UNCHANGED <<content, vector, job, pc, claim, text, seen, runs, outrun, spoilt, budget>>
    BY <1>5 DEF Touch, Insert, rowVars, workerVars, historyVars, TypeOK
  <2>2. tx[e].found \in JobId \cup {NoJob} /\ tx[e].at \in Faq
    BY <1>5, <2>1 DEF Touch, Insert, TypeOK, Transaction
  <2>3. PICK t \in Transaction : t.phase = "find" /\ tx' = [tx EXCEPT ![e] = t]
    <3>1. CASE Touch(e)
      <4>1. tx[e].found \in JobId
        BY <2>2, <3>1 DEF Touch
      <4>2. Enqueued([tx[e] EXCEPT !.touched = @ \cup {tx[e].found}]) \in Transaction
        BY <2>1, <4>1, TouchesMore, EnqueuedIs
      <4>3. Enqueued([tx[e] EXCEPT !.touched = @ \cup {tx[e].found}]).phase = "find"
        BY <2>1, <4>1, TouchesMore, EnqueuedIs
      <4> QED
        BY <3>1, <4>2, <4>3 DEF Touch
    <3>2. CASE Insert(e)
      <4>1. Enqueued([tx[e] EXCEPT !.inserted = @ \cup {tx[e].at}]) \in Transaction
        BY <2>1, <2>2, InsertsMore, EnqueuedIs
      <4>2. Enqueued([tx[e] EXCEPT !.inserted = @ \cup {tx[e].at}]).phase = "find"
        BY <2>1, <2>2, InsertsMore, EnqueuedIs
      <4> QED
        BY <3>2, <4>1, <4>2 DEF Insert
    <3> QED
      BY <1>5, <3>1, <3>2
  <2>4. tx' \in [Writer -> Transaction]
    BY <2>1, <2>3
  <2>5. \A d \in Writer : tx'[d].phase \in {"write", "sync"} => tx'[d].at \in Faq
    BY <2>1, <2>3 DEF TypeOK
  <2> QED
    BY <2>1, <2>4, <2>5 DEF TypeOK
<1>6. ASSUME NEW e \in Writer, CommitEnqueue(e)
      PROVE  TypeOK'
  <2>1. tx[e] \in Transaction /\ NoTransaction \in Transaction
    BY DEF TypeOK, Transaction, NoTransaction
  <2>2. tx[e].created \in Nat
    BY <2>1 DEF Transaction
  <2>3. job' \in [Faq -> [1..MaxJobs -> Row]]
    <3>1. \A f \in Faq : WithNewJob(f, tx[e].created) \in [1..MaxJobs -> Row]
      BY <2>2, NewJobIs
    <3> QED
      BY <1>6, <3>1 DEF CommitEnqueue, TypeOK
  <2> QED
    BY <1>6, <2>1, <2>3 DEF CommitEnqueue, workerVars, TypeOK, NoTransaction
<1>7. ASSUME NEW e \in Writer, Abort(e)
      PROVE  TypeOK'
  BY <1>7 DEF Abort, rowVars, workerVars, historyVars, TypeOK, Transaction, NoTransaction
<1>8. ASSUME NEW w \in Worker, Claim(w)
      PROVE  TypeOK'
  BY <1>8 DEF Claim, Claimable, rowVars, writerVars, historyVars, TypeOK, Busy, Locking
<1>9. ASSUME NEW w \in Worker, ReadEntry(w) \/ Embed(w) \/ EmbedRaises(w) \/ DeadlockVictim(w)
      PROVE  TypeOK'
  <2>1. EntryOf(w) \in Faq
    <3>1. pc[w] \in Busy
      BY <1>9 DEF ReadEntry, Embed, EmbedRaises, DeadlockVictim, Busy, Locking
    <3> QED
      BY <3>1, ClaimIs
  <2>2. /\ pc' \in [Worker -> {"poll", "down"} \cup Busy]
        /\ \A v \in Worker : pc'[v] \in Busy => claim[v] \in JobId
        /\ UNCHANGED <<content, vector, job, claim, seen, tx, runs, outrun, spoilt>>
    BY <1>9 DEF ReadEntry, Embed, EmbedRaises, DeadlockVictim, rowVars, writerVars, historyVars, TypeOK, Busy, Locking
  <2>3. text' \in [Worker -> Nat] /\ budget' \in Nat
    BY <1>9, <2>1 DEF ReadEntry, Embed, EmbedRaises, DeadlockVictim, Fault, EntryOf, TypeOK
  <2> QED
    BY <2>2, <2>3 DEF TypeOK
<1>10. ASSUME NEW w \in Worker, Complete(w), pc[w] = "writing"
       PROVE  /\ vector' \in [Faq -> Nat] /\ job' \in [Faq -> [1..MaxJobs -> Row]]
              /\ spoilt' \subseteq Faq
  <2>1. spoilt \subseteq Faq
    BY DEF TypeOK
  <2> QED
    BY <1>10, <2>1, CompleteIs
<1>11. ASSUME NEW w \in Worker, Commit(w)
       PROVE  TypeOK'
  <2>1. pc[w] = "writing" /\ Complete(w) /\ End(w, "poll") /\ UNCHANGED <<content, tx, runs, budget>>
    BY <1>11 DEF Commit, writerVars
  <2> QED
    BY <1>10, <2>1 DEF End, TypeOK, AbsentRow, Row, Busy, Locking
<1>12. ASSUME NEW w \in Worker, CommitRaises(w)
       PROVE  TypeOK'
  <2>1. /\ pc[w] = "writing" /\ budget' = budget - 1 /\ budget > 0
        /\ UNCHANGED <<content, claim, text, seen, tx, runs, outrun>>
        /\ pc' = [pc EXCEPT ![w] = "failing"]
        /\ UNCHANGED <<vector, job, spoilt>> \/ Complete(w)
    BY <1>12 DEF CommitRaises, Fault, writerVars
  <2>2. vector' \in [Faq -> Nat] /\ job' \in [Faq -> [1..MaxJobs -> Row]] /\ spoilt' \subseteq Faq
    BY <1>10, <2>1 DEF TypeOK
  <2> QED
    BY <2>1, <2>2 DEF TypeOK, Busy, Locking
<1>13. ASSUME NEW w \in Worker, LoadFailed(w)
       PROVE  TypeOK'
  <2>1. pc[w] \in Busy
    BY <1>13 DEF LoadFailed, Busy
  <2>2. RowOf(claim[w]) \in Row
    <3>1. EntryOf(w) \in Faq /\ claim[w][2] \in 1..MaxJobs
          /\ RowOf(claim[w]) = job[EntryOf(w)][claim[w][2]]
      BY <2>1, ClaimIs
    <3>2. job \in [Faq -> [1..MaxJobs -> Row]]
      BY DEF TypeOK
    <3>3. job[EntryOf(w)] \in [1..MaxJobs -> Row]
      BY <3>1, <3>2
    <3>4. job[EntryOf(w)][claim[w][2]] \in Row
      BY <3>1, <3>3
    <3> QED
      BY <3>1, <3>4
  <2> QED
    BY <1>13, <2>2 DEF LoadFailed, rowVars, writerVars, historyVars, TypeOK, Busy, Locking
<1>14. ASSUME NEW w \in Worker, RecordFailure(w)
       PROVE  TypeOK'
  <2>2. job' \in [Faq -> [1..MaxJobs -> Row]]
    BY <1>14, FailureIs
  <2> QED
    BY <1>14, <2>2 DEF RecordFailure, End, AbsentRow, Row, writerVars, TypeOK, Busy, Locking
<1>15. ASSUME NEW w \in Worker, Crash(w) \/ Restart(w)
       PROVE  TypeOK'
  <2>1. CASE Crash(w)
    BY <2>1 DEF Crash, Fault, End, AbsentRow, Row, rowVars, writerVars, TypeOK, Busy, Locking
  <2>2. CASE Restart(w)
    BY <2>2 DEF Restart, rowVars, writerVars, historyVars, TypeOK, Busy, Locking
  <2> QED
    BY <1>15, <2>1, <2>2
<1>16. ASSUME UNCHANGED vars
       PROVE  TypeOK'
  BY <1>16 DEF vars, rowVars, workerVars, writerVars, historyVars, TypeOK
<1> QED
  BY <1>1, <1>2, <1>3, <1>4, <1>5, <1>6, <1>7, <1>8, <1>9, <1>11, <1>12, <1>13, <1>14, <1>15, <1>16, <1>17
  DEF Next, PollEmpty

\* The initial states are typed.
LEMMA InitTyped == Init => TypeOK
<1> SUFFICES ASSUME Init
             PROVE  TypeOK
  OBVIOUS
<1>1. content \in [Faq -> Nat] /\ vector \in [Faq -> Nat] /\ runs \in Nat /\ budget \in Nat
  BY BoundsAssumption DEF Init
<1>2. AbsentRow \in Row /\ NoTransaction \in Transaction
  BY DEF AbsentRow, Row, NoTransaction, Transaction
<1>3. job \in [Faq -> [1..MaxJobs -> Row]] /\ tx \in [Writer -> Transaction]
  BY <1>2 DEF Init
<1> QED
  BY <1>1, <1>2, <1>3 DEF Init, TypeOK, Busy, Locking, NoTransaction

\* Type correctness of the embedding queue.
THEOREM TypeCorrect == Spec => []TypeOK
BY InitTyped, TypeStep, PTL DEF Spec

-----------------------------------------------------------------------------
(* The steps.                                                              *)

\* create_faq adds an entry with its first job.
LEMMA CreateKeeps ==
  ASSUME Inductive, NEW f \in Faq, CreateFaq(f)
  PROVE  Inductive'
<1>1. /\ TypeOK /\ runs \in Nat /\ content[f] = 0 /\ HasFreeSlot(f) /\ ~EntryHeld(f)
      /\ content' = [content EXCEPT ![f] = 1]
      /\ job' = [job EXCEPT ![f] = WithNewJob(f, runs)]
      /\ vector' = vector /\ pc' = pc /\ claim' = claim /\ text' = text /\ seen' = seen
      /\ tx' = tx /\ budget' = budget /\ runs' = runs + 1 /\ outrun' = outrun /\ spoilt' = spoilt
  BY DEF Inductive, CreateFaq, StartRun, workerVars, historyVars, TypeOK
<1>2. TypeOK'
  BY <1>1, TypeStep DEF Next
<1>3. \A n \in 1..MaxJobs : job[f][n].status = "absent"
  BY <1>1 DEF Inductive, JobsKnown
<1>4. PICK slot \in 1..MaxJobs :
        /\ job'[f][slot].status = "pending"
        /\ \A m \in 1..MaxJobs \ {slot} : job'[f][m] = job[f][m]
  <2>1. job'[f] = WithNewJob(f, runs)
    BY <1>1 DEF TypeOK
  <2>2. \E n \in 1..MaxJobs :
          /\ WithNewJob(f, runs)[n].status = "pending"
          /\ \A m \in 1..MaxJobs \ {n} : WithNewJob(f, runs)[m] = job[f][m]
    BY <1>1, NewJobIs, SMTT(60)
  <2> QED
    BY <2>1, <2>2
<1>5. \A g \in Faq \ {f} : job'[g] = job[g] /\ content'[g] = content[g]
  BY <1>1 DEF TypeOK
<1>6. \A w \in Worker : pc[w] \in Busy => EntryOf(w) # f /\ RowOf(claim[w])' = RowOf(claim[w])
  BY <1>1, <1>3, <1>5, ClaimIs DEF Inductive, JobsKnown, RowOf, EntryOf
<1>7. \A e \in Writer : f \notin tx[e].inserted /\ f \notin tx[e].rewritten
  BY <1>1 DEF Inductive, InsertsHold, EntryHeld
<1>8. OneActive'
  BY <1>3, <1>4, <1>5 DEF Inductive, OneActive, Pending
<1>9. LocksHold'
  BY <1>1, <1>6 DEF Inductive, LocksHold, Active, Busy
<1>10. InsertsHold'
  BY <1>1, <1>5, <1>7 DEF Inductive, InsertsHold, Pending, HasFreeSlot, FreeSlot, TypeOK, Transaction
<1>11. WritersKnown'
  BY <1>1 DEF Inductive, WritersKnown, TypeOK, Transaction
<1>12. JobsKnown'
  BY <1>1, <1>5, <1>6 DEF Inductive, JobsKnown, Busy, TypeOK
<1>13. RewritesCovered'
  <2>1. \A e \in Writer, g \in Faq \ {f} : Covered(e, g) => Covered(e, g)'
    <3>1. \A g \in Faq \ {f} : \A n : Good(g, n) <=> Good(g, n)'
      BY <1>5 DEF Good, Pending, Failed
    <3> QED
      BY <1>1, <3>1 DEF Covered
  <2>2. \A e \in Writer : tx[e].rewritten \subseteq Faq /\ tx'[e] = tx[e]
    BY <1>1 DEF TypeOK, Transaction
  <2> QED
    BY <1>7, <2>1, <2>2 DEF Inductive, RewritesCovered
<1>14. ReadingCurrent'
  BY <1>1, <1>5, <1>6, ClaimIs DEF Inductive, ReadingCurrent, Current, Reading, EntryOf, Abandoned, Failed, Busy, Locking
<1>15. VectorNotAhead'
  BY <1>1 DEF Inductive, VectorNotAhead, TypeOK
<1>16. StaleIsQueued'
  BY <1>1, <1>4, <1>5 DEF Inductive, StaleIsQueued
<1> QED
  BY <1>2, <1>8, <1>9, <1>10, <1>11, <1>12, <1>13, <1>14, <1>15, <1>16 DEF Inductive

\* What an open transaction does leaves the committed rows and the workers
\* alone.
LEMMA WriterFrame ==
  ASSUME Inductive, UNCHANGED rowVars, UNCHANGED workerVars, UNCHANGED historyVars
  PROVE  OneActive' /\ JobsKnown' /\ ReadingCurrent' /\ VectorNotAhead' /\ StaleIsQueued'
<1>1. UNCHANGED <<content, vector, job, pc, claim, text, seen, outrun, spoilt>>
  BY DEF rowVars, workerVars, historyVars
<1> QED
  BY <1>1 DEF Inductive, OneActive, JobsKnown, ReadingCurrent, Current, VectorNotAhead, StaleIsQueued,
              Pending, RowOf, Reading, EntryOf, Abandoned, Failed

\* What the properties of writers say of one of them.
WriterHolds(e) ==
  /\ \A f \in tx[e].inserted :
       /\ \A n \in 1..MaxJobs : ~Pending(f, n)
       /\ HasFreeSlot(f)
       /\ \A d \in Writer \ {e} : f \notin tx[d].inserted
       /\ content[f] > 0 \/ f \in tx[e].rewritten
  /\ tx[e].phase = "idle" => tx[e] = NoTransaction
  /\ tx[e].phase = "find" => tx[e].at = NoFaq
  /\ tx[e].phase = "write" => tx[e].at \in tx[e].todo
  /\ tx[e].phase = "write" => content[tx[e].at] > 0 \/ tx[e].at \in tx[e].rewritten
  /\ tx[e].phase = "write" /\ tx[e].found # NoJob => tx[e].found[1] = tx[e].at
  /\ \A f \in tx[e].todo : f \in tx[e].rewritten => tx[e].phase = "write" /\ tx[e].at = f
  /\ \A f \in tx[e].rewritten : Covered(e, f)
  /\ tx[e].phase = "sync" => tx[e].loaded <= content[tx[e].at]

\* A step of one writer's open transaction keeps everything if it keeps what
\* concerns this writer, and takes no row that a worker has locked and no
\* entry another writer inserts for.
LEMMA WriterKeeps ==
  ASSUME Inductive, TypeOK', NEW e \in Writer,
         UNCHANGED rowVars, UNCHANGED workerVars, UNCHANGED historyVars,
         \A d \in Writer \ {e} : tx'[d] = tx[d],
         \A j \in tx'[e].touched \ tx[e].touched : ~HeldByWorker(j),
         \A d \in Writer \ {e} : \A f \in tx'[e].inserted \ tx[e].inserted : f \notin tx[d].inserted,
         WriterHolds(e)'
  PROVE  Inductive'
<1>1. UNCHANGED <<content, vector, job, pc, claim, text, seen>>
  BY DEF rowVars, workerVars
<1>2. LocksHold'
  BY <1>1 DEF Inductive, LocksHold, Active, RowOf, HeldByWorker
<1>3. InsertsHold'
  BY <1>1 DEF Inductive, InsertsHold, WriterHolds, Pending, HasFreeSlot, FreeSlot
<1>4. WritersKnown'
  BY <1>1 DEF Inductive, WritersKnown, WriterHolds
<1>5. RewritesCovered'
  <2>1. \A g, n : Good(g, n) <=> Good(g, n)'
    BY <1>1 DEF Good, Pending, Failed
  <2>2. \A d \in Writer \ {e} : \A f : Covered(d, f) <=> Covered(d, f)'
    BY <2>1 DEF Covered
  <2>3. \A d \in Writer \ {e} : \A f \in tx'[d].rewritten : Covered(d, f)'
    BY <2>2 DEF Inductive, RewritesCovered
  <2>4. \A f \in tx'[e].rewritten : Covered(e, f)'
    BY DEF WriterHolds
  <2> QED
    BY <2>3, <2>4 DEF RewritesCovered
<1> QED
  BY <1>2, <1>3, <1>4, <1>5, WriterFrame DEF Inductive

\* The same, of the state before the step.
LEMMA WriterHeld ==
  ASSUME Inductive, NEW e \in Writer
  PROVE  WriterHolds(e) /\ tx[e] \in Transaction
BY DEF Inductive, InsertsHold, WritersKnown, RewritesCovered, WriterHolds, TypeOK

\* A transaction begins and holds nothing.
LEMMA BeginKeeps ==
  ASSUME Inductive, NEW e \in Writer, BeginEnqueue(e)
  PROVE  Inductive'
<1>1. /\ tx[e] = NoTransaction /\ tx \in [Writer -> Transaction]
      /\ UNCHANGED rowVars /\ UNCHANGED workerVars /\ UNCHANGED historyVars
  BY WriterHeld DEF BeginEnqueue, WriterHolds, Inductive, TypeOK
<1>2. TypeOK'
  BY TypeStep DEF Inductive, Next
<1>3. PICK todo \in SUBSET Faq :
        tx' = [tx EXCEPT ![e].phase = "find", ![e].todo = todo, ![e].created = runs]
  BY DEF BeginEnqueue
<1>4. /\ tx'[e].phase = "find" /\ tx'[e].at = NoFaq /\ tx'[e].rewritten = {}
      /\ tx'[e].touched = {} /\ tx'[e].inserted = {}
      /\ \A d \in Writer \ {e} : tx'[d] = tx[d]
  BY <1>1, <1>3 DEF NoTransaction
<1>5. WriterHolds(e)'
  BY <1>4 DEF WriterHolds
<1> QED
  BY <1>1, <1>2, <1>4, <1>5, WriterKeeps

\* --sync has loaded a text.
LEMMA BeginSyncKeeps ==
  ASSUME Inductive, NEW e \in Writer, BeginSync(e)
  PROVE  Inductive'
<1>1. /\ tx[e] = NoTransaction /\ tx \in [Writer -> Transaction] /\ content \in [Faq -> Nat]
      /\ UNCHANGED rowVars /\ UNCHANGED workerVars /\ UNCHANGED historyVars /\ content' = content
  BY WriterHeld DEF BeginSync, WriterHolds, rowVars, Inductive, TypeOK
<1>2. TypeOK'
  BY TypeStep DEF Inductive, Next
<1>3. PICK f \in Faq :
        tx' = [tx EXCEPT ![e].phase = "sync", ![e].at = f, ![e].loaded = content[f]]
  BY DEF BeginSync
<1>4. /\ tx'[e].phase = "sync" /\ tx'[e].at = f /\ tx'[e].loaded = content[f]
      /\ tx'[e].todo = {} /\ tx'[e].rewritten = {} /\ tx'[e].touched = {} /\ tx'[e].inserted = {}
      /\ \A d \in Writer \ {e} : tx'[d] = tx[d]
  BY <1>1, <1>3 DEF NoTransaction
<1>5. WriterHolds(e)'
  BY <1>1, <1>4 DEF WriterHolds
<1> QED
  BY <1>1, <1>2, <1>4, <1>5, WriterKeeps

\* --sync writes a vector, with its text or for the text it loaded; who reads
\* an older text is outrun from here on.
LEMMA CommitSyncKeeps ==
  ASSUME Inductive, NEW e \in Writer, CommitSync(e)
  PROVE  Inductive'
<1> DEFINE f == tx[e].at
<1>1. /\ TypeOK /\ f \in Faq /\ ~EntryHeld(f)
      /\ content \in [Faq -> Nat] /\ vector \in [Faq -> Nat] /\ tx \in [Writer -> Transaction]
      /\ tx[e].loaded \in Nat /\ tx[e].loaded <= content[f]
      /\ tx' = [tx EXCEPT ![e] = NoTransaction]
      /\ UNCHANGED <<job, pc, claim, text, seen>>
      /\ outrun' = outrun \cup
           {w \in Worker : Reading(w) /\ claim[w][1] = f /\ text[w] < vector'[f]}
      /\ spoilt' = IF vector'[f] < content'[f] THEN spoilt \cup {f} ELSE spoilt \ {f}
  BY DEF CommitSync, workerVars, Inductive, WritersKnown, TypeOK, Transaction
<1>2. TypeOK'
  BY <1>1, TypeStep DEF Next
<1>3. \A g \in Faq \ {f} : content'[g] = content[g] /\ vector'[g] = vector[g]
  BY <1>1 DEF CommitSync
<1>4. \/ content'[f] = content[f] + 1 /\ vector'[f] = content[f] + 1
      \/ content'[f] = content[f] /\ vector'[f] = tx[e].loaded
  BY <1>1 DEF CommitSync
<1> HIDE DEF f
<1>5. \A g \in Faq : content[g] \in Nat /\ content'[g] \in Nat /\ content'[g] >= content[g]
  BY <1>1, <1>3, <1>4
<1>6. /\ tx'[e] = NoTransaction /\ \A d \in Writer \ {e} : tx'[d] = tx[d]
      /\ NoTransaction.phase = "idle" /\ NoTransaction.todo = {} /\ NoTransaction.rewritten = {}
      /\ NoTransaction.touched = {} /\ NoTransaction.inserted = {}
  BY <1>1 DEF NoTransaction
<1>7. OneActive'
  BY <1>1 DEF Inductive, OneActive, Pending
<1>8. LocksHold'
  BY <1>1, <1>6 DEF Inductive, LocksHold, Active, RowOf
<1>9. InsertsHold'
  <2>1. \A d \in Writer : tx[d].inserted \subseteq Faq
    BY <1>1 DEF Transaction
  <2> QED
    BY <1>1, <1>5, <1>6, <2>1 DEF Inductive, InsertsHold, Pending, HasFreeSlot, FreeSlot
<1>10. WritersKnown'
  <2>1. \A d \in Writer : /\ tx[d].phase \in {"write", "sync"} => tx[d].at \in Faq
                          /\ tx[d].loaded \in Nat
    BY <1>1 DEF TypeOK, Transaction
  <2> QED
    BY <1>5, <1>6, <2>1 DEF Inductive, WritersKnown
<1>11. JobsKnown'
  BY <1>1, <1>5 DEF Inductive, JobsKnown, RowOf
<1>12. RewritesCovered'
  <2>1. \A g, n : Good(g, n) <=> Good(g, n)'
    BY <1>1 DEF Good, Pending, Failed
  <2>2. \A d \in Writer \ {e} : \A g : Covered(d, g) <=> Covered(d, g)'
    BY <1>6, <2>1 DEF Covered
  <2> QED
    BY <1>6, <2>2 DEF Inductive, RewritesCovered
<1>13. ReadingCurrent'
  <2> SUFFICES ASSUME NEW w \in Worker, Reading(w)
               PROVE  /\ text[w] <= content'[EntryOf(w)]
                      /\ w \in outrun' \/ Current(w)'
    BY <1>1 DEF ReadingCurrent, Reading, EntryOf
  <2>1. EntryOf(w) \in Faq /\ text[w] \in Nat
    BY <1>1, ClaimIs DEF Reading, Busy, Locking, TypeOK
  <2>2. text[w] <= content[EntryOf(w)] /\ (w \in outrun \/ Current(w))
    BY DEF Inductive, ReadingCurrent
  <2>3. text[w] <= content'[EntryOf(w)]
    BY <1>5, <2>1, <2>2
  <2>4. Abandoned(EntryOf(w)) <=> Abandoned(EntryOf(w))'
    BY <1>1 DEF Abandoned, Failed, EntryOf
  <2>5. EntryOf(w)' = EntryOf(w) /\ text'[w] = text[w]
    BY <1>1 DEF EntryOf
  <2>6. CASE EntryOf(w) # f
    BY <1>1, <1>3, <2>1, <2>2, <2>3, <2>4, <2>5, <2>6 DEF Current
  <2>7. CASE EntryOf(w) = f /\ text[w] < vector'[f]
    BY <1>1, <2>3, <2>7 DEF EntryOf
  <2>8. CASE EntryOf(w) = f /\ ~(text[w] < vector'[f])
    <3>1. vector'[f] = tx[e].loaded /\ content'[f] = content[f] /\ vector'[f] <= text[w]
      BY <1>1, <1>4, <2>1, <2>2, <2>8
    <3> QED
      BY <1>1, <2>2, <2>3, <2>4, <2>5, <2>8, <3>1 DEF Current
  <2> QED
    BY <2>6, <2>7, <2>8
<1>14. VectorNotAhead'
  <2>1. \A g \in Faq : vector[g] <= content[g]
    BY DEF Inductive, VectorNotAhead
  <2> QED
    BY <1>1, <1>3, <1>4, <2>1 DEF VectorNotAhead
<1>15. StaleIsQueued'
  <2>1. \A g \in Faq \ spoilt' : g = f \/ g \in Faq \ spoilt
    BY <1>1
  <2>2. f \notin spoilt' => vector'[f] = content'[f]
    BY <1>1, <1>4
  <2> QED
    BY <1>1, <1>3, <2>1, <2>2 DEF Inductive, StaleIsQueued
<1> QED
  BY <1>2, <1>7, <1>8, <1>9, <1>10, <1>11, <1>12, <1>13, <1>14, <1>15 DEF Inductive

\* The entry at hand may be rewritten: from here to the commit, the row found
\* for it is active.
LEMMA FindKeeps ==
  ASSUME Inductive, NEW e \in Writer, Find(e)
  PROVE  Inductive'
<1>1. /\ tx \in [Writer -> Transaction] /\ tx[e] \in Transaction /\ tx[e].phase = "find"
      /\ UNCHANGED rowVars /\ UNCHANGED workerVars /\ UNCHANGED historyVars
      /\ content' = content /\ job' = job
  BY DEF Find, rowVars, Inductive, TypeOK
<1>2. TypeOK'
  BY TypeStep DEF Inductive, Next
<1>3. PICK f \in tx[e].todo, rewrite \in BOOLEAN :
        /\ IF rewrite THEN content[f] < MaxVersion /\ ~EntryHeld(f) ELSE content[f] > 0
        /\ \E n \in IF ActiveJobs(f) = {} THEN {0} ELSE ActiveJobs(f) :
             tx' = [tx EXCEPT ![e].phase = "write",
                              ![e].at = f,
                              ![e].found = IF n = 0 THEN NoJob ELSE <<f, n>>,
                              ![e].rewritten = IF rewrite THEN @ \cup {f} ELSE @]
  BY DEF Find
<1>4. PICK n \in IF ActiveJobs(f) = {} THEN {0} ELSE ActiveJobs(f) :
             tx' = [tx EXCEPT ![e].phase = "write",
                              ![e].at = f,
                              ![e].found = IF n = 0 THEN NoJob ELSE <<f, n>>,
                              ![e].rewritten = IF rewrite THEN @ \cup {f} ELSE @]
  BY <1>3
<1>5. /\ tx'[e].phase = "write" /\ tx'[e].at = f /\ tx'[e].todo = tx[e].todo
      /\ tx'[e].found = (IF n = 0 THEN NoJob ELSE <<f, n>>)
      /\ tx'[e].rewritten = (IF rewrite THEN tx[e].rewritten \cup {f} ELSE tx[e].rewritten)
      /\ tx'[e].touched = tx[e].touched /\ tx'[e].inserted = tx[e].inserted
      /\ \A d \in Writer \ {e} : tx'[d] = tx[d]
  BY <1>1, <1>4 DEF Transaction
<1>6. f \in Faq /\ f \notin tx[e].rewritten /\ tx[e].at = NoFaq
      /\ tx[e].rewritten \subseteq Faq
  BY <1>1, <1>3, WriterHeld DEF WriterHolds, Transaction
<1>7. n # 0 => n \in 1..MaxJobs /\ Pending(f, n)
  BY <1>4, SMTT(60) DEF ActiveJobs, Pending
<1>8. tx'[e].found # NoJob => n # 0 /\ tx'[e].found[1] = f /\ tx'[e].found[2] = n
  BY <1>5, SMTT(60)
<1>9. WriterHolds(e)'
  <2>1. \A g \in tx'[e].inserted :
          /\ \A m \in 1..MaxJobs : ~Pending(g, m)'
          /\ HasFreeSlot(g)'
          /\ \A d \in Writer \ {e} : g \notin tx'[d].inserted
          /\ content'[g] > 0 \/ g \in tx'[e].rewritten
    BY <1>1, <1>5, WriterHeld DEF WriterHolds, Pending, HasFreeSlot, FreeSlot
  <2>2. content'[f] > 0 \/ f \in tx'[e].rewritten
    BY <1>1, <1>3, <1>5
  <2>3. \A g \in tx'[e].todo : g \in tx'[e].rewritten => tx'[e].phase = "write" /\ tx'[e].at = g
    BY <1>1, <1>5, WriterHeld DEF WriterHolds
  <2>4. \A g \in tx'[e].rewritten : Covered(e, g)'
    <3>1. (tx'[e].found # NoJob) => Good(f, tx[e].found[2])'
      BY <1>1, <1>7, <1>8 DEF Good, Pending
    <3>2. \A g \in tx[e].rewritten :
            \/ g \in tx[e].inserted
            \/ \E m \in 1..MaxJobs : <<g, m>> \in tx[e].touched /\ Good(g, m)'
      BY <1>1, <1>6, NoFaqAssumption, WriterHeld DEF WriterHolds, Covered, Good, Pending, Failed
    <3> QED
      BY <1>5, <1>6, <3>1, <3>2 DEF Covered
  <2> QED
    BY <1>3, <1>5, <1>8, <2>1, <2>2, <2>3, <2>4 DEF WriterHolds
<1> QED
  BY <1>1, <1>2, <1>5, <1>9, WriterKeeps

\* The row found is locked, and with it the entry is covered.
LEMMA TouchKeeps ==
  ASSUME Inductive, NEW e \in Writer, Touch(e)
  PROVE  Inductive'
<1> DEFINE t == [tx[e] EXCEPT !.touched = @ \cup {tx[e].found}]
           f == tx[e].at
<1>1. /\ tx \in [Writer -> Transaction] /\ tx[e] \in Transaction
      /\ tx[e].phase = "write" /\ tx[e].found # NoJob
      /\ UNCHANGED rowVars /\ UNCHANGED workerVars /\ UNCHANGED historyVars
      /\ content' = content /\ job' = job
      /\ ~HeldByWorker(tx[e].found)
      /\ tx' = [tx EXCEPT ![e] = Enqueued(t)]
  BY DEF Touch, rowVars, Inductive, TypeOK
<1>2. TypeOK'
  BY TypeStep DEF Inductive, Next
<1>3. tx[e].found \in JobId /\ tx[e].rewritten \subseteq Faq
  BY <1>1 DEF Transaction
<1>4. /\ t \in Transaction /\ t.touched = tx[e].touched \cup {tx[e].found}
      /\ t.inserted = tx[e].inserted /\ t.rewritten = tx[e].rewritten
      /\ t.at = f /\ t.todo = tx[e].todo
  BY <1>1, <1>3, TouchesMore
<1> HIDE DEF t
<1>5. /\ tx'[e].phase = "find" /\ tx'[e].at = NoFaq /\ tx'[e].todo = tx[e].todo \ {f}
      /\ tx'[e].rewritten = tx[e].rewritten /\ tx'[e].inserted = tx[e].inserted
      /\ tx'[e].touched = tx[e].touched \cup {tx[e].found}
      /\ \A d \in Writer \ {e} : tx'[d] = tx[d]
  BY <1>1, <1>4, EnqueuedIs
<1>6. tx[e].found = <<f, tx[e].found[2]>> /\ tx[e].found[2] \in 1..MaxJobs
  BY <1>1, <1>3, WriterHeld DEF WriterHolds, JobId
<1>7. WriterHolds(e)'
  <2>1. \A g \in tx'[e].inserted :
          /\ \A m \in 1..MaxJobs : ~Pending(g, m)'
          /\ HasFreeSlot(g)'
          /\ \A d \in Writer \ {e} : g \notin tx'[d].inserted
          /\ content'[g] > 0 \/ g \in tx'[e].rewritten
    BY <1>1, <1>5, WriterHeld DEF WriterHolds, Pending, HasFreeSlot, FreeSlot
  <2>2. \A g \in tx'[e].todo : g \notin tx'[e].rewritten
    BY <1>5, WriterHeld DEF WriterHolds
  <2>3. \A g \in tx'[e].rewritten :
          \/ g \in tx'[e].inserted
          \/ \E m \in 1..MaxJobs : <<g, m>> \in tx'[e].touched /\ Good(g, m)'
    <3>1. \A g, m : Good(g, m) => Good(g, m)'
      BY <1>1 DEF Good, Pending, Failed
    <3>2. \A g \in tx[e].rewritten : Covered(e, g)
      BY WriterHeld DEF WriterHolds
    <3>3. ASSUME NEW g \in tx[e].rewritten, g = f
          PROVE  <<g, tx[e].found[2]>> \in tx'[e].touched /\ Good(g, tx[e].found[2])
      BY <1>1, <1>5, <1>6, <3>2, <3>3 DEF Covered
    <3>4. ASSUME NEW g \in tx[e].rewritten, g # f
          PROVE  \/ g \in tx[e].inserted
                 \/ \E m \in 1..MaxJobs : <<g, m>> \in tx[e].touched /\ Good(g, m)
      BY <3>2, <3>4 DEF Covered
    <3> QED
      BY <1>5, <1>6, <3>1, <3>3, <3>4
  <2> QED
    BY <1>3, <1>5, <2>1, <2>2, <2>3, NoFaqAssumption DEF WriterHolds, Covered
<1> QED
  BY <1>1, <1>2, <1>5, <1>7, WriterKeeps

\* There was no active row: the insert covers the entry.
LEMMA InsertKeeps ==
  ASSUME Inductive, NEW e \in Writer, Insert(e)
  PROVE  Inductive'
<1> DEFINE f == tx[e].at
           t == [tx[e] EXCEPT !.inserted = @ \cup {f}]
<1>1. /\ tx \in [Writer -> Transaction] /\ tx[e] \in Transaction
      /\ tx[e].phase = "write" /\ f \in Faq
      /\ UNCHANGED rowVars /\ UNCHANGED workerVars /\ UNCHANGED historyVars
      /\ content' = content /\ job' = job
      /\ ActiveJobs(f) = {} /\ HasFreeSlot(f)
      /\ \A d \in Writer \ {e} : f \notin tx[d].inserted
      /\ tx' = [tx EXCEPT ![e] = Enqueued(t)]
  BY DEF Insert, rowVars, Inductive, TypeOK
<1>2. TypeOK'
  BY TypeStep DEF Inductive, Next
<1>3. tx[e].rewritten \subseteq Faq
  BY <1>1 DEF Transaction
<1>4. /\ t \in Transaction /\ t.inserted = tx[e].inserted \cup {f}
      /\ t.touched = tx[e].touched /\ t.rewritten = tx[e].rewritten
      /\ t.at = f /\ t.todo = tx[e].todo
  BY <1>1, InsertsMore
<1> HIDE DEF t
<1>5. /\ tx'[e].phase = "find" /\ tx'[e].at = NoFaq /\ tx'[e].todo = tx[e].todo \ {f}
      /\ tx'[e].rewritten = tx[e].rewritten /\ tx'[e].touched = tx[e].touched
      /\ tx'[e].inserted = tx[e].inserted \cup {f}
      /\ \A d \in Writer \ {e} : tx'[d] = tx[d]
  BY <1>1, <1>4, EnqueuedIs
<1>6. WriterHolds(e)'
  <2>1. \A g \in tx'[e].inserted :
          /\ \A m \in 1..MaxJobs : ~Pending(g, m)'
          /\ HasFreeSlot(g)'
          /\ \A d \in Writer \ {e} : g \notin tx'[d].inserted
          /\ content'[g] > 0 \/ g \in tx'[e].rewritten
    BY <1>1, <1>5, WriterHeld DEF WriterHolds, Pending, HasFreeSlot, FreeSlot, ActiveJobs
  <2>2. \A g \in tx'[e].todo : g \notin tx'[e].rewritten
    BY <1>5, WriterHeld DEF WriterHolds
  <2>3. \A g \in tx'[e].rewritten :
          \/ g \in tx'[e].inserted
          \/ \E m \in 1..MaxJobs : <<g, m>> \in tx'[e].touched /\ Good(g, m)'
    BY <1>1, <1>5, WriterHeld DEF WriterHolds, Covered, Good, Pending, Failed
  <2> QED
    BY <1>3, <1>5, <2>1, <2>2, <2>3, NoFaqAssumption DEF WriterHolds, Covered
<1> QED
  BY <1>1, <1>2, <1>5, <1>6, WriterKeeps

\* Nothing of the transaction remains.
LEMMA AbortKeeps ==
  ASSUME Inductive, NEW e \in Writer, Abort(e)
  PROVE  Inductive'
<1>1. /\ tx \in [Writer -> Transaction] /\ tx' = [tx EXCEPT ![e] = NoTransaction]
      /\ UNCHANGED rowVars /\ UNCHANGED workerVars /\ UNCHANGED historyVars
  BY DEF Abort, Inductive, TypeOK
<1>2. TypeOK'
  BY TypeStep DEF Inductive, Next
<1>3. tx'[e] = NoTransaction /\ \A d \in Writer \ {e} : tx'[d] = tx[d]
  BY <1>1
<1>4. /\ tx'[e].phase = "idle" /\ tx'[e].todo = {} /\ tx'[e].rewritten = {}
      /\ tx'[e].touched = {} /\ tx'[e].inserted = {}
  BY <1>3 DEF NoTransaction
<1>5. WriterHolds(e)'
  BY <1>3, <1>4 DEF WriterHolds
<1> QED
  BY <1>1, <1>2, <1>3, <1>4, <1>5, WriterKeeps

\* The rewritten texts and inserted jobs appear together.  A worker that is
\* reading an entry holds its active row, which the writer could not touch: a
\* text it rewrote is covered by another, given-up row.
LEMMA CommitEnqueueKeeps ==
  ASSUME Inductive, NEW e \in Writer, CommitEnqueue(e)
  PROVE  Inductive'
<1> DEFINE ins == tx[e].inserted
           rew == tx[e].rewritten
<1>1. /\ TypeOK /\ tx[e] \in Transaction /\ tx[e].phase = "find" /\ tx[e].created \in Nat
      /\ content' = [f \in Faq |-> IF f \in rew THEN content[f] + 1 ELSE content[f]]
      /\ job' = [f \in Faq |-> IF f \in ins THEN WithNewJob(f, tx[e].created) ELSE job[f]]
      /\ tx' = [tx EXCEPT ![e] = NoTransaction]
      /\ spoilt' = spoilt \ rew
      /\ UNCHANGED <<vector, pc, claim, text, seen, budget, runs, outrun>>
  BY DEF CommitEnqueue, workerVars, Inductive, TypeOK, Transaction
<1>2. TypeOK'
  BY TypeStep DEF Inductive, Next
<1>3. /\ tx'[e] = NoTransaction /\ \A d \in Writer \ {e} : tx'[d] = tx[d]
      /\ tx[e].at = NoFaq /\ ins \subseteq Faq /\ rew \subseteq Faq
      /\ \A d \in Writer : tx[d].inserted \subseteq Faq /\ tx[d].rewritten \subseteq Faq
  <2>1. tx \in [Writer -> Transaction]
    BY <1>1 DEF TypeOK
  <2>2. tx'[e] = NoTransaction /\ \A d \in Writer \ {e} : tx'[d] = tx[d]
    BY <1>1, <2>1
  <2>3. tx[e].at = NoFaq
    BY <1>1, WriterHeld DEF WriterHolds
  <2>4. \A d \in Writer : tx[d].inserted \subseteq Faq /\ tx[d].rewritten \subseteq Faq
    BY <2>1 DEF Transaction
  <2> QED
    BY <2>2, <2>3, <2>4
<1>4. /\ NoTransaction.phase = "idle" /\ NoTransaction.todo = {} /\ NoTransaction.rewritten = {}
      /\ NoTransaction.touched = {} /\ NoTransaction.inserted = {}
  BY DEF NoTransaction
<1>5. \A f \in Faq : /\ content[f] \in Nat /\ content'[f] \in Nat
                     /\ content'[f] >= content[f] /\ (f \notin rew => content'[f] = content[f])
                     /\ f \in rew => content'[f] = content[f] + 1
  BY <1>1 DEF TypeOK
<1>6. \A f \in Faq \ ins : job'[f] = job[f]
  BY <1>1
<1>7. \A f \in Faq, n \in 1..MaxJobs : job[f][n].status # "absent" => job'[f][n] = job[f][n]
  BY <1>1, NewJobIs
<1>8. \A f \in ins : \E n \in 1..MaxJobs :
        job'[f][n].status = "pending" /\ \A m \in 1..MaxJobs \ {n} : job'[f][m] = job[f][m]
  <2> SUFFICES ASSUME NEW f \in ins
               PROVE  \E n \in 1..MaxJobs :
                        /\ job'[f][n].status = "pending"
                        /\ \A m \in 1..MaxJobs \ {n} : job'[f][m] = job[f][m]
    OBVIOUS
  <2>1. HasFreeSlot(f) /\ f \in Faq /\ job'[f] = WithNewJob(f, tx[e].created)
    <3>1. HasFreeSlot(f)
      BY WriterHeld DEF WriterHolds
    <3>2. f \in Faq
      BY <1>3
    <3> QED
      BY <1>1, <3>1, <3>2
  <2>2. PICK n \in 1..MaxJobs :
          /\ WithNewJob(f, tx[e].created)[n].status = "pending"
          /\ \A m \in 1..MaxJobs \ {n} : WithNewJob(f, tx[e].created)[m] = job[f][m]
    BY <1>1, <2>1, NewJobIs, ZenonT(60)
  <2> QED
    BY <2>1, <2>2
<1>9. \A f \in ins, n \in 1..MaxJobs : ~Pending(f, n)
  BY WriterHeld DEF WriterHolds
<1>10. \A f \in rew : f \in ins \/ \E n \in 1..MaxJobs : <<f, n>> \in tx[e].touched /\ Good(f, n)
  BY <1>3, NoFaqAssumption, WriterHeld DEF WriterHolds, Covered
<1>11. \A w \in Worker : pc[w] \in Busy =>
         /\ EntryOf(w) \in Faq /\ claim[w][2] \in 1..MaxJobs /\ claim[w] = <<EntryOf(w), claim[w][2]>>
         /\ RowOf(claim[w]) = job[EntryOf(w)][claim[w][2]]
         /\ RowOf(claim[w]).status # "absent"
         /\ RowOf(claim[w])' = RowOf(claim[w])
  <2> SUFFICES ASSUME NEW w \in Worker, pc[w] \in Busy
               PROVE  /\ EntryOf(w) \in Faq /\ claim[w][2] \in 1..MaxJobs
                      /\ claim[w] = <<EntryOf(w), claim[w][2]>>
                      /\ RowOf(claim[w]) = job[EntryOf(w)][claim[w][2]]
                      /\ RowOf(claim[w]).status # "absent"
                      /\ RowOf(claim[w])' = RowOf(claim[w])
    OBVIOUS
  <2>1. /\ EntryOf(w) \in Faq /\ claim[w][2] \in 1..MaxJobs /\ claim[w] = <<EntryOf(w), claim[w][2]>>
        /\ RowOf(claim[w]) = job[EntryOf(w)][claim[w][2]]
    BY <1>1, ClaimIs
  <2>2. RowOf(claim[w]).status # "absent"
    BY DEF Inductive, JobsKnown
  <2>3. RowOf(claim[w])' = job'[EntryOf(w)][claim[w][2]]
    BY <1>1 DEF RowOf, EntryOf
  <2> QED
    BY <1>7, <2>1, <2>2, <2>3
<1>12. OneActive'
  BY <1>3, <1>6, <1>8, <1>9 DEF Inductive, OneActive, Pending
<1>13. LocksHold'
  BY <1>1, <1>3, <1>4, <1>11 DEF Inductive, LocksHold, Active, Busy
<1>14. InsertsHold'
  <2>1. ASSUME NEW d \in Writer \ {e}, NEW f \in tx[d].inserted
        PROVE  /\ f \in Faq /\ f \notin ins
               /\ \A n \in 1..MaxJobs : ~Pending(f, n)
               /\ HasFreeSlot(f)
               /\ \A c \in Writer \ {d} : f \notin tx[c].inserted
               /\ content[f] > 0 \/ f \in tx[d].rewritten
    BY <1>3 DEF Inductive, InsertsHold
  <2>2. ASSUME NEW d \in Writer \ {e}, NEW f \in tx[d].inserted
        PROVE  /\ \A n \in 1..MaxJobs : ~Pending(f, n)'
               /\ HasFreeSlot(f)'
               /\ content'[f] > 0 \/ f \in tx[d].rewritten
    BY <1>5, <1>6, <2>1 DEF Pending, HasFreeSlot, FreeSlot
  <2> QED
    BY <1>3, <1>4, <2>1, <2>2 DEF InsertsHold
<1>15. WritersKnown'
  <2>1. \A d \in Writer : /\ tx[d].phase \in {"write", "sync"} => tx[d].at \in Faq
                          /\ tx[d].loaded \in Nat
    BY <1>1 DEF TypeOK, Transaction
  <2> QED
    BY <1>3, <1>4, <1>5, <2>1 DEF Inductive, WritersKnown
<1>16. JobsKnown'
  <2>1. \A f \in Faq : content'[f] = 0 => content[f] = 0 /\ f \notin ins
    BY <1>5, WriterHeld DEF WriterHolds
  <2> QED
    BY <1>1, <1>6, <1>11, <2>1 DEF Inductive, JobsKnown, Busy
<1>17. RewritesCovered'
  <2>1. \A f \in Faq, n \in 1..MaxJobs : Good(f, n) => Good(f, n)'
    BY <1>7 DEF Good, Pending, Failed
  <2>2. ASSUME NEW d \in Writer \ {e}, NEW f \in tx[d].rewritten
        PROVE  Covered(d, f)'
    <3>1. f \in Faq /\ tx[d] \in Transaction
      BY <1>1, <1>3 DEF TypeOK
    <3>2. tx[d].found # NoJob => tx[d].found[2] \in 1..MaxJobs
      BY <3>1 DEF Transaction, JobId
    <3> QED
      BY <1>3, <2>1, <3>1, <3>2 DEF Inductive, RewritesCovered, Covered
  <2> QED
    BY <1>3, <1>4, <2>2 DEF RewritesCovered
<1>18. ReadingCurrent'
  <2> SUFFICES ASSUME NEW w \in Worker, Reading(w)
               PROVE  /\ text[w] <= content'[EntryOf(w)]
                      /\ \/ w \in outrun
                         \/ /\ vector[EntryOf(w)] <= text[w]
                            /\ \/ text[w] = content'[EntryOf(w)]
                               \/ \E m \in 1..MaxJobs :
                                    /\ job'[EntryOf(w)][m].status = "failed"
                                    /\ job'[EntryOf(w)][m].attempts >= MaxAttempts
    BY <1>1 DEF ReadingCurrent, Current, Reading, EntryOf, Abandoned, Failed
  <2> DEFINE f == EntryOf(w)
             n == claim[w][2]
  <2>1. pc[w] \in Locking /\ pc[w] \in Busy
    BY DEF Reading, Locking, Busy
  <2>2. f \in Faq /\ n \in 1..MaxJobs /\ claim[w] = <<f, n>> /\ Pending(f, n)
    <3>1. Active(claim[w])
      BY <2>1 DEF Inductive, LocksHold
    <3> QED
      BY <1>11, <2>1, <3>1 DEF Active, Pending
  <2>3. /\ text[w] <= content[f] /\ text[w] \in Nat
        /\ w \in outrun \/ (vector[f] <= text[w] /\ (text[w] = content[f] \/ Abandoned(f)))
    BY <1>1 DEF Inductive, ReadingCurrent, Current, TypeOK
  <2> HIDE DEF f
  <2>4. \A m \in 1..MaxJobs : Failed(f, m) =>
          job'[f][m].status = "failed" /\ job'[f][m].attempts >= MaxAttempts
    BY <1>7, <2>2 DEF Failed
  <2>5. CASE f \notin rew
    BY <1>5, <2>2, <2>3, <2>4, <2>5 DEF Abandoned, f
  <2>6. CASE f \in rew
    <3>1. PICK m \in 1..MaxJobs : <<f, m>> \in tx[e].touched /\ Good(f, m)
      BY <1>9, <1>10, <2>2, <2>6
    <3>2. m # n
      BY <2>1, <2>2, <3>1 DEF Inductive, LocksHold
    <3>3. Failed(f, m)
      BY <2>2, <3>1, <3>2 DEF Inductive, OneActive, Good
    <3>4. text[w] <= content'[f]
      BY <1>1, <1>5, <2>2, <2>3 DEF TypeOK
    <3> QED
      BY <2>3, <2>4, <3>3, <3>4 DEF f
  <2> QED
    BY <2>5, <2>6, SMTT(60)
<1>19. VectorNotAhead'
  BY <1>1, <1>5 DEF Inductive, VectorNotAhead, TypeOK
<1>20. StaleIsQueued'
  <2> SUFFICES ASSUME NEW f \in Faq, f \notin spoilt \ rew, vector[f] # content'[f]
               PROVE  \E n \in 1..MaxJobs : Good(f, n)'
    BY <1>1 DEF StaleIsQueued, Good, Pending, Failed
  <2>1. \A n \in 1..MaxJobs : Good(f, n) => Good(f, n)'
    BY <1>7 DEF Good, Pending, Failed
  <2>2. CASE f \in ins
    BY <1>8, <2>2 DEF Good, Pending
  <2>3. CASE f \in rew \ ins
    BY <1>10, <2>1, <2>3
  <2>4. CASE f \notin rew
    BY <1>5, <2>1, <2>4 DEF Inductive, StaleIsQueued, Good, Pending, Failed
  <2> QED
    BY <2>2, <2>3, <2>4
<1> QED
  BY <1>2, <1>12, <1>13, <1>14, <1>15, <1>16, <1>17, <1>18, <1>19, <1>20 DEF Inductive

-----------------------------------------------------------------------------
(* Workers.                                                                *)

\* What is known of one worker.
WorkerHolds(w) ==
  /\ pc[w] \in Locking =>
       /\ Active(claim[w])
       /\ \A v \in Worker \ {w} : pc[v] \in Locking => claim[v] # claim[w]
       /\ \A e \in Writer : claim[w] \notin tx[e].touched
  /\ pc[w] \in Busy => RowOf(claim[w]).status # "absent"
  /\ pc[w] = "recording" => seen[w].attempts <= RowOf(claim[w]).attempts
  /\ Reading(w) =>
       /\ text[w] <= content[EntryOf(w)]
       /\ w \in outrun \/ Current(w)

\* The same, of the state before the step.
LEMMA WorkerHeld ==
  ASSUME Inductive, NEW w \in Worker
  PROVE  WorkerHolds(w)
BY DEF Inductive, LocksHold, JobsKnown, ReadingCurrent, WorkerHolds

\* A step of one worker that commits nothing keeps everything if it keeps
\* what concerns this worker.
LEMMA WorkerKeeps ==
  ASSUME Inductive, TypeOK', NEW w \in Worker,
         UNCHANGED rowVars, UNCHANGED writerVars, spoilt' = spoilt,
         \A v \in Worker \ {w} :
           /\ pc'[v] = pc[v] /\ claim'[v] = claim[v] /\ text'[v] = text[v] /\ seen'[v] = seen[v]
           /\ v \in outrun => v \in outrun',
         WorkerHolds(w)'
  PROVE  Inductive'
<1>1. UNCHANGED <<content, vector, job, tx>>
  BY SMTT(60) DEF rowVars, writerVars
<1>2. OneActive' /\ InsertsHold' /\ WritersKnown' /\ RewritesCovered' /\ VectorNotAhead' /\ StaleIsQueued'
  BY <1>1 DEF Inductive, OneActive, InsertsHold, WritersKnown, RewritesCovered, Covered, VectorNotAhead,
              StaleIsQueued, Good, Pending, Failed, HasFreeSlot, FreeSlot
<1>3. LocksHold'
  BY <1>1 DEF Inductive, LocksHold, WorkerHolds, Active, RowOf
<1>4. JobsKnown'
  BY <1>1 DEF Inductive, JobsKnown, WorkerHolds, RowOf
<1>5. ReadingCurrent'
  BY <1>1 DEF Inductive, ReadingCurrent, Current, WorkerHolds, Reading, EntryOf, Abandoned, Failed
<1> QED
  BY <1>2, <1>3, <1>4, <1>5 DEF Inductive

\* The claimed row is pending, and locked by nobody else.
LEMMA ClaimKeeps ==
  ASSUME Inductive, NEW w \in Worker, Claim(w)
  PROVE  Inductive'
<1>1. /\ TypeOK /\ UNCHANGED rowVars /\ UNCHANGED writerVars
      /\ UNCHANGED <<content, vector, job, tx, text, seen, outrun, spoilt>>
      /\ pc' = [pc EXCEPT ![w] = "claimed"] /\ pc[w] = "poll"
  BY DEF Claim, rowVars, writerVars, historyVars, Inductive
<1>2. PICK j \in Claimable : claim' = [claim EXCEPT ![w] = j]
  BY DEF Claim
<1>3. TypeOK'
  BY <1>1, TypeStep DEF Next
<1>4. /\ pc'[w] = "claimed" /\ claim'[w] = j
      /\ \A v \in Worker \ {w} : pc'[v] = pc[v] /\ claim'[v] = claim[v]
  BY <1>1, <1>2 DEF TypeOK
<1>5. Active(j) /\ ~HeldByWorker(j) /\ ~HeldByWriter(j)
  BY <1>2 DEF Claimable
<1>6. WorkerHolds(w)'
  BY <1>1, <1>4, <1>5 DEF WorkerHolds, Active, RowOf, HeldByWorker, HeldByWriter, Reading, Locking, Busy
<1> QED
  BY <1>1, <1>3, <1>4, <1>6, WorkerKeeps

\* What is read is the committed text.
LEMMA ReadEntryKeeps ==
  ASSUME Inductive, NEW w \in Worker, ReadEntry(w)
  PROVE  Inductive'
<1>1. /\ TypeOK /\ UNCHANGED rowVars /\ UNCHANGED writerVars
      /\ UNCHANGED <<content, vector, job, tx, claim, seen, outrun, spoilt>>
      /\ pc' = [pc EXCEPT ![w] = "embedding"] /\ pc[w] = "claimed"
      /\ text' = [text EXCEPT ![w] = content[EntryOf(w)]]
  BY DEF ReadEntry, rowVars, writerVars, historyVars, Inductive, EntryOf
<1>2. TypeOK'
  BY <1>1, TypeStep DEF Next
<1>3. /\ pc'[w] = "embedding" /\ text'[w] = content[EntryOf(w)]
      /\ \A v \in Worker \ {w} : pc'[v] = pc[v] /\ text'[v] = text[v]
  BY <1>1 DEF TypeOK
<1>4. EntryOf(w) \in Faq /\ vector[EntryOf(w)] <= content[EntryOf(w)] /\ content[EntryOf(w)] \in Nat
  BY <1>1, ClaimIs DEF Inductive, VectorNotAhead, TypeOK, Busy, Locking
<1>5. WorkerHolds(w)'
  <2>1. pc[w] \in Locking /\ pc[w] \in Busy /\ pc'[w] \in Locking /\ pc'[w] # "recording"
    BY <1>1, <1>3 DEF Locking, Busy
  <2>2. /\ RowOf(claim[w])' = RowOf(claim[w]) /\ EntryOf(w)' = EntryOf(w)
        /\ Active(claim[w])' <=> Active(claim[w])
    BY <1>1 DEF Active, RowOf, EntryOf
  <2>3. \A v \in Worker \ {w} : pc'[v] \in Locking => claim'[v] # claim'[w]
    BY <1>1, <1>3, <2>1, WorkerHeld DEF WorkerHolds
  <2> QED
    BY <1>1, <1>3, <1>4, <2>1, <2>2, <2>3, WorkerHeld DEF WorkerHolds, Current
<1> QED
  BY <1>1, <1>2, <1>3, <1>5, WorkerKeeps

\* The steps that leave the embedder, or with nothing committed the session.
LEMMA LeaveKeeps ==
  ASSUME Inductive, NEW w \in Worker,
         \/ Embed(w) \/ EmbedRaises(w) \/ DeadlockVictim(w) \/ LoadFailed(w)
         \/ CommitRaises(w) /\ UNCHANGED <<vector, job, spoilt>>
  PROVE  Inductive'
<1>1. /\ TypeOK /\ UNCHANGED rowVars /\ UNCHANGED writerVars
      /\ UNCHANGED <<content, vector, job, tx, claim, outrun, spoilt>>
      /\ \A v \in Worker \ {w} :
           pc'[v] = pc[v] /\ claim'[v] = claim[v] /\ text'[v] = text[v] /\ seen'[v] = seen[v]
  BY DEF Embed, EmbedRaises, DeadlockVictim, LoadFailed, CommitRaises, rowVars, writerVars, historyVars,
         Inductive, TypeOK
<1>2. TypeOK'
  BY <1>1, TypeStep DEF Next
<1>3. WorkerHolds(w)'
  <2>1. CASE Embed(w)
    <3>1. pc[w] = "embedding" /\ pc'[w] = "writing" /\ text'[w] = text[w]
      BY <1>1, <2>1 DEF Embed, TypeOK
    <3> QED
      BY <1>1, <3>1, WorkerHeld DEF WorkerHolds, Current, Active, RowOf, Reading, EntryOf, Abandoned, Failed,
                                   Locking, Busy
  <2>2. CASE EmbedRaises(w) \/ DeadlockVictim(w) \/ CommitRaises(w)
    <3>1. pc[w] \in Busy /\ pc'[w] = "failing"
      BY <1>1, <2>2, SMTT(60) DEF EmbedRaises, DeadlockVictim, CommitRaises, TypeOK, Busy, Locking
    <3> QED
      BY <1>1, <3>1, WorkerHeld, SMTT(60) DEF WorkerHolds, RowOf, Reading, Locking, Busy
  <2>3. CASE LoadFailed(w)
    <3>1. pc[w] = "failing" /\ pc'[w] = "recording" /\ seen'[w] = RowOf(claim[w])
      BY <1>1, <2>3 DEF LoadFailed, TypeOK
    <3>2. pc[w] \in Busy
      BY <3>1 DEF Busy
    <3>3. job \in [Faq -> [1..MaxJobs -> Row]] /\ RowOf(claim[w]) = job[EntryOf(w)][claim[w][2]]
          /\ EntryOf(w) \in Faq /\ claim[w][2] \in 1..MaxJobs
      BY <1>1, <3>2, ClaimIs DEF TypeOK
    <3>4. RowOf(claim[w]).attempts \in Nat
      BY <3>3, ZenonT(60) DEF Row
    <3> QED
      BY <1>1, <3>1, <3>2, <3>4, WorkerHeld DEF WorkerHolds, RowOf, Reading, Locking, Busy
  <2> QED
    BY <2>1, <2>2, <2>3
<1> QED
  BY <1>1, <1>2, <1>3, WorkerKeeps

\* A dead worker holds nothing.
LEMMA DownKeeps ==
  ASSUME Inductive, NEW w \in Worker, Crash(w) \/ Restart(w)
  PROVE  Inductive'
<1>1. /\ TypeOK /\ UNCHANGED rowVars /\ UNCHANGED writerVars /\ spoilt' = spoilt
      /\ \A v \in Worker \ {w} :
           /\ pc'[v] = pc[v] /\ claim'[v] = claim[v] /\ text'[v] = text[v] /\ seen'[v] = seen[v]
           /\ v \in outrun => v \in outrun'
      /\ pc'[w] \in {"poll", "down"}
  BY DEF Crash, Restart, End, rowVars, writerVars, historyVars, Inductive, TypeOK
<1>2. TypeOK'
  BY <1>1, TypeStep DEF Next
<1>3. WorkerHolds(w)'
  BY <1>1 DEF WorkerHolds, Reading, Locking, Busy
<1> QED
  BY <1>1, <1>2, <1>3, WorkerKeeps

\* complete_job has committed, whether its worker knows or not.
LEMMA CompleteKeeps ==
  ASSUME Inductive, TypeOK', NEW w \in Worker, pc[w] = "writing", Complete(w),
         UNCHANGED <<content, tx>>,
         pc'[w] \in {"poll", "failing"},
         pc'[w] = "failing" => claim'[w] = claim[w],
         \A v \in Worker \ {w} :
           /\ pc'[v] = pc[v] /\ claim'[v] = claim[v] /\ text'[v] = text[v] /\ seen'[v] = seen[v]
           /\ v \in outrun => v \in outrun'
  PROVE  Inductive'
<1> DEFINE f == EntryOf(w)
           n == claim[w][2]
<1>1. /\ TypeOK /\ f \in Faq /\ n \in 1..MaxJobs /\ RowOf(claim[w]) = job[f][n] /\ ~EntryHeld(f)
      /\ vector'[f] = text[w] /\ (\A g \in Faq \ {f} : vector'[g] = vector[g])
      /\ job'[f][n].status = "done" /\ job'[f][n].attempts = job[f][n].attempts + 1
      /\ \A g \in Faq, m \in 1..MaxJobs : <<g, m>> # <<f, n>> => job'[g][m] = job[g][m]
      /\ spoilt' = IF w \in outrun THEN spoilt \cup {f} ELSE spoilt \ {f}
  BY CompleteIs DEF Inductive
<1>2. /\ claim[w] = <<f, n>> /\ Pending(f, n)
      /\ \A v \in Worker \ {w} : pc[v] \in Locking => claim[v] # claim[w]
      /\ text[w] <= content[f]
      /\ w \in outrun \/ (vector[f] <= text[w] /\ (text[w] = content[f] \/ Abandoned(f)))
  BY <1>1, ClaimIs, WorkerHeld DEF WorkerHolds, Current, Active, Pending, Reading, Locking, Busy
<1>3. \A g \in Faq, m \in 1..MaxJobs : Pending(g, m)' => Pending(g, m)
  BY <1>1 DEF Pending
<1>4. \A v \in Worker \ {w} : pc[v] \in Busy =>
        /\ EntryOf(v) \in Faq /\ claim[v][2] \in 1..MaxJobs /\ claim[v] = <<EntryOf(v), claim[v][2]>>
        /\ RowOf(claim[v]) = job[EntryOf(v)][claim[v][2]]
        /\ RowOf(claim[v])' = job'[EntryOf(v)][claim[v][2]]
  <2>1. \A v \in Worker \ {w} : RowOf(claim[v])' = job'[EntryOf(v)][claim[v][2]]
    BY DEF RowOf, EntryOf
  <2> QED
    BY <1>1, <2>1, ClaimIs
<1>5. \A v \in Worker \ {w} : pc[v] \in Locking =>
        EntryOf(v) # f /\ EntryOf(v) \in Faq /\ RowOf(claim[v])' = RowOf(claim[v])
  <2> SUFFICES ASSUME NEW v \in Worker \ {w}, pc[v] \in Locking
               PROVE  EntryOf(v) # f /\ EntryOf(v) \in Faq /\ RowOf(claim[v])' = RowOf(claim[v])
    OBVIOUS
  <2>1. pc[v] \in Busy
    BY DEF Busy
  <2>2. Pending(EntryOf(v), claim[v][2])
    BY <1>4, <2>1, WorkerHeld DEF WorkerHolds, Active, Pending
  <2>3. EntryOf(v) # f
    BY <1>1, <1>2, <1>4, <2>1, <2>2 DEF Inductive, OneActive
  <2> QED
    BY <1>1, <1>4, <2>1, <2>3
<1>6. OneActive'
  BY <1>3 DEF Inductive, OneActive
<1>7. LocksHold'
  BY <1>5 DEF Inductive, LocksHold, Active, Locking
<1>8. InsertsHold'
  <2>1. \A e \in Writer : tx[e].inserted \subseteq Faq
    BY <1>1 DEF TypeOK, Transaction
  <2>2. \A g \in Faq : HasFreeSlot(g) => HasFreeSlot(g)'
    <3>1. \A g \in Faq, m \in 1..MaxJobs :
            job'[g][m].status = "absent" <=> job[g][m].status = "absent"
      BY <1>1, <1>2 DEF Pending
    <3>2. \A m \in 1..MaxJobs : 1..(m - 1) \subseteq 1..MaxJobs
      BY BoundsAssumption
    <3> QED
      BY <3>1, <3>2 DEF HasFreeSlot, FreeSlot
  <2> QED
    BY <1>3, <2>1, <2>2 DEF Inductive, InsertsHold
<1>9. WritersKnown'
  BY DEF Inductive, WritersKnown
<1>10. JobsKnown'
  <2>1. \A g \in Faq, m \in 1..MaxJobs : content[g] = 0 => job'[g][m].status = "absent"
    BY <1>1, <1>2 DEF Inductive, JobsKnown, Pending
  <2>2. \A g \in Faq, m \in 1..MaxJobs :
          /\ job[g][m].status # "absent" => job'[g][m].status # "absent"
          /\ job[g][m].attempts \in Nat /\ job[g][m].attempts <= job'[g][m].attempts
    <3>1. \A g \in Faq, m \in 1..MaxJobs : job[g][m] \in Row
      <4>1. job \in [Faq -> [1..MaxJobs -> Row]]
        BY <1>1 DEF TypeOK
      <4> QED
        BY <4>1
    <3>2. \A g \in Faq, m \in 1..MaxJobs : job[g][m].attempts \in Nat
      BY <3>1 DEF Row
    <3> QED
      BY <1>1, <3>2
  <2>3. \A v \in Worker \ {w} : pc[v] \in Busy => RowOf(claim[v])'.status # "absent"
    BY <1>4, <2>2, WorkerHeld DEF WorkerHolds
  <2>4. \A v \in Worker \ {w} : pc[v] = "recording" => seen[v].attempts <= RowOf(claim[v])'.attempts
    <3>1. \A v \in Worker : seen[v] \in Row /\ seen[v].attempts \in Nat
      BY <1>1 DEF TypeOK, Row
    <3>2. \A v \in Worker : pc[v] = "recording" => seen[v].attempts <= RowOf(claim[v]).attempts
      BY WorkerHeld DEF WorkerHolds
    <3>3. \A v \in Worker \ {w} : pc[v] = "recording" =>
            /\ RowOf(claim[v]).attempts \in Nat /\ RowOf(claim[v])'.attempts \in Nat
            /\ RowOf(claim[v]).attempts <= RowOf(claim[v])'.attempts
      BY <1>1, <1>4, <2>2, SMTT(60) DEF Busy
    <3> QED
      BY <3>1, <3>2, <3>3
  <2>5. pc'[w] \in Busy => RowOf(claim[w])'.status # "absent"
    BY <1>1, <1>2 DEF RowOf, Busy, Locking
  <2> QED
    BY <2>1, <2>3, <2>4, <2>5 DEF JobsKnown
<1>11. RewritesCovered'
  <2>1. \A e \in Writer : f \notin tx[e].rewritten /\ tx[e].rewritten \subseteq Faq
    BY <1>1 DEF EntryHeld, TypeOK, Transaction
  <2>2. \A g \in Faq \ {f}, m \in 1..MaxJobs : Good(g, m) => Good(g, m)'
    BY <1>1 DEF Good, Pending, Failed
  <2>3. \A e \in Writer : tx[e].found # NoJob => tx[e].found[2] \in 1..MaxJobs
    BY <1>1 DEF TypeOK, Transaction, JobId
  <2> QED
    BY <2>1, <2>2, <2>3 DEF Inductive, RewritesCovered, Covered
<1>12. ReadingCurrent'
  <2> SUFFICES ASSUME NEW v \in Worker \ {w}, Reading(v)
               PROVE  /\ text[v] <= content[EntryOf(v)]
                      /\ v \in outrun' \/
                           /\ vector'[EntryOf(v)] <= text[v]
                           /\ text[v] = content[EntryOf(v)] \/ Abandoned(EntryOf(v))'
    BY DEF ReadingCurrent, Current, Reading, EntryOf
  <2>1. pc[v] \in Locking
    BY DEF Reading, Locking
  <2>2. EntryOf(v) \in Faq \ {f}
    BY <1>5, <2>1, SMTT(60)
  <2>3. Abandoned(EntryOf(v)) => Abandoned(EntryOf(v))'
    BY <1>1, <2>2 DEF Abandoned, Failed, EntryOf
  <2> QED
    BY <1>1, <2>2, <2>3, WorkerHeld DEF WorkerHolds, Current
<1>13. VectorNotAhead'
  BY <1>1, <1>2 DEF Inductive, VectorNotAhead
<1>14. StaleIsQueued'
  <2> DEFINE Kept(g, m) ==
        \/ job'[g][m].status = "pending"
        \/ job'[g][m].status = "failed" /\ job'[g][m].attempts >= MaxAttempts
  <2> SUFFICES ASSUME NEW g \in Faq, g \notin spoilt', vector'[g] # content[g]
               PROVE  \E m \in 1..MaxJobs : Kept(g, m)
    BY DEF StaleIsQueued
  <2>1. \A m \in 1..MaxJobs : Good(g, m) /\ <<g, m>> # <<f, n>> => Kept(g, m)
    BY <1>1 DEF Good, Pending, Failed
  <2>2. CASE g # f
    <3>1. vector[g] # content[g] /\ g \notin spoilt
      BY <1>1, <2>2
    <3>2. \E m \in 1..MaxJobs : Good(g, m)
      BY <3>1 DEF Inductive, StaleIsQueued, Good, Pending, Failed
    <3> QED
      BY <2>1, <2>2, <3>2
  <2>3. CASE g = f
    <3>1. PICK m \in 1..MaxJobs : Failed(g, m)
      BY <1>1, <1>2, <2>3 DEF Abandoned
    <3>2. m # n /\ Good(g, m)
      BY <1>2, <2>3, <3>1 DEF Failed, Pending, Good
    <3> QED
      BY <2>1, <3>2
  <2> QED
    BY <2>2, <2>3
<1> QED
  BY <1>6, <1>7, <1>8, <1>9, <1>10, <1>11, <1>12, <1>13, <1>14 DEF Inductive

\* fail_job puts a row back or gives it up.  Where it puts one back, nobody
\* is reading for that entry: a reader would hold another active row of it.
LEMMA FailureKeeps ==
  ASSUME Inductive, TypeOK', NEW w \in Worker, RecordFailure(w)
  PROVE  Inductive'
<1> DEFINE f == EntryOf(w)
           n == claim[w][2]
<1>1. /\ TypeOK /\ f \in Faq /\ n \in 1..MaxJobs /\ RowOf(claim[w]) = job[f][n]
      /\ job'[f][n].attempts = job[f][n].attempts
      /\ \A g \in Faq, m \in 1..MaxJobs : <<g, m>> # <<f, n>> => job'[g][m] = job[g][m]
      /\ \/ job'[f][n] = job[f][n]
         \/ job'[f][n].status = "failed" /\ seen[w].attempts >= MaxAttempts
         \/ /\ job'[f][n].status = "pending"
            /\ ActiveJobs(f) \ {n} = {} /\ \A e \in Writer : f \notin tx[e].inserted
  BY FailureIs, SMTT(60) DEF Inductive
<1>2. /\ pc[w] = "recording" /\ pc'[w] \in {"poll", "down"}
      /\ ~HeldByWorker(claim[w]) /\ ~HeldByWriter(claim[w])
      /\ UNCHANGED <<content, vector, tx, spoilt>>
      /\ \A v \in Worker \ {w} :
           /\ pc'[v] = pc[v] /\ claim'[v] = claim[v] /\ text'[v] = text[v] /\ seen'[v] = seen[v]
           /\ v \in outrun => v \in outrun'
  BY DEF RecordFailure, End, writerVars, Inductive, TypeOK
<1>3. claim[w] = <<f, n>> /\ job[f][n].status # "absent" /\ seen[w].attempts <= job[f][n].attempts
  BY <1>1, <1>2, ClaimIs, WorkerHeld DEF WorkerHolds, Busy
<1>4. /\ seen[w].attempts \in Nat /\ MaxAttempts \in Nat
      /\ \A g \in Faq, m \in 1..MaxJobs : job[g][m].attempts \in Nat
  <2>1. seen \in [Worker -> Row] /\ job \in [Faq -> [1..MaxJobs -> Row]]
    BY <1>1 DEF TypeOK
  <2>2. seen[w] \in Row /\ \A g \in Faq, m \in 1..MaxJobs : job[g][m] \in Row
    BY <2>1
  <2> QED
    BY <2>2, BoundsAssumption DEF Row
<1>5. \A v \in Worker \ {w} : pc[v] \in Busy =>
        /\ EntryOf(v) \in Faq /\ claim[v][2] \in 1..MaxJobs /\ claim[v] = <<EntryOf(v), claim[v][2]>>
        /\ RowOf(claim[v]) = job[EntryOf(v)][claim[v][2]]
        /\ RowOf(claim[v])' = job'[EntryOf(v)][claim[v][2]]
  <2>1. \A v \in Worker \ {w} : RowOf(claim[v])' = job'[EntryOf(v)][claim[v][2]]
    BY <1>2 DEF RowOf, EntryOf
  <2> QED
    BY <1>1, <2>1, ClaimIs
<1>6. \A v \in Worker \ {w} : pc[v] \in Locking =>
        claim[v] # <<f, n>> /\ RowOf(claim[v])' = RowOf(claim[v])
  <2> SUFFICES ASSUME NEW v \in Worker \ {w}, pc[v] \in Locking
               PROVE  claim[v] # <<f, n>> /\ RowOf(claim[v])' = RowOf(claim[v])
    OBVIOUS
  <2>1. claim[v] # <<f, n>> /\ pc[v] \in Busy
    BY <1>2, <1>3 DEF HeldByWorker, Busy
  <2> QED
    BY <1>1, <1>5, <2>1
<1>7. \A g \in Faq, m \in 1..MaxJobs : job'[g][m].status = "absent" <=> job[g][m].status = "absent"
  BY <1>1, <1>3
<1>8. \A g \in Faq, m \in 1..MaxJobs : Good(g, m) =>
        \/ job'[g][m].status = "pending"
        \/ job'[g][m].status = "failed" /\ job'[g][m].attempts >= MaxAttempts
  <2>1. job'[f][n].status = "failed" /\ seen[w].attempts >= MaxAttempts => job'[f][n].attempts >= MaxAttempts
    BY <1>1, <1>3, <1>4
  <2> QED
    BY <1>1, <2>1 DEF Good, Pending, Failed
<1>9. OneActive'
  <2> SUFFICES ASSUME NEW g \in Faq, NEW l \in 1..MaxJobs, NEW m \in 1..MaxJobs,
                      job'[g][l].status = "pending", job'[g][m].status = "pending"
               PROVE  l = m
    BY DEF OneActive, Pending
  <2>1. CASE job[g][l].status = "pending" /\ job[g][m].status = "pending"
    BY <2>1 DEF Inductive, OneActive, Pending
  <2>2. CASE ~(job[g][l].status = "pending" /\ job[g][m].status = "pending")
    BY <1>1, <2>2 DEF ActiveJobs
  <2> QED
    BY <2>1, <2>2
<1>10. LocksHold'
  <2> SUFFICES ASSUME NEW v \in Worker, pc'[v] \in Locking
               PROVE  /\ RowOf(claim[v])'.status = "pending"
                      /\ \A u \in Worker \ {v} : pc'[u] \in Locking => claim'[u] # claim'[v]
                      /\ \A e \in Writer : claim'[v] \notin tx'[e].touched
    BY DEF LocksHold, Active
  <2>1. v # w /\ pc[v] \in Locking
    BY <1>2 DEF Locking
  <2>2. /\ RowOf(claim[v]).status = "pending"
        /\ \A u \in Worker \ {v} : pc[u] \in Locking => claim[u] # claim[v]
        /\ \A e \in Writer : claim[v] \notin tx[e].touched
    BY <2>1 DEF Inductive, LocksHold, Active
  <2>3. \A u \in Worker : pc'[u] \in Locking => u # w /\ pc[u] \in Locking /\ claim'[u] = claim[u]
    BY <1>2 DEF Locking
  <2> QED
    BY <1>2, <1>6, <2>1, <2>2, <2>3
<1>11. InsertsHold'
  <2> SUFFICES ASSUME NEW e \in Writer, NEW g \in tx[e].inserted
               PROVE  /\ \A m \in 1..MaxJobs : job'[g][m].status # "pending"
                      /\ HasFreeSlot(g)'
                      /\ \A d \in Writer \ {e} : g \notin tx[d].inserted
                      /\ content[g] > 0 \/ g \in tx[e].rewritten
    BY <1>2 DEF InsertsHold, Pending
  <2>1. g \in Faq
    BY <1>1 DEF TypeOK, Transaction
  <2>2. /\ \A m \in 1..MaxJobs : job[g][m].status # "pending"
        /\ HasFreeSlot(g)
        /\ \A d \in Writer \ {e} : g \notin tx[d].inserted
        /\ content[g] > 0 \/ g \in tx[e].rewritten
    BY DEF Inductive, InsertsHold, Pending
  <2>3. \A m \in 1..MaxJobs : job'[g][m].status # "pending"
    BY <1>1, <2>1, <2>2
  <2>4. HasFreeSlot(g)'
    <3>1. \A m \in 1..MaxJobs : 1..(m - 1) \subseteq 1..MaxJobs
      BY BoundsAssumption
    <3> QED
      BY <1>7, <2>1, <2>2, <3>1 DEF HasFreeSlot, FreeSlot
  <2> QED
    BY <2>2, <2>3, <2>4
<1>12. WritersKnown'
  BY <1>2 DEF Inductive, WritersKnown
<1>13. JobsKnown'
  <2>1. \A g \in Faq, m \in 1..MaxJobs : content[g] = 0 => job'[g][m].status = "absent"
    BY <1>7 DEF Inductive, JobsKnown
  <2>2. \A v \in Worker : pc'[v] \in Busy => v # w /\ pc[v] \in Busy
    BY <1>2 DEF Busy, Locking
  <2>3. \A v \in Worker \ {w} : pc[v] \in Busy => RowOf(claim[v])'.status # "absent"
    BY <1>5, <1>7, WorkerHeld DEF WorkerHolds
  <2>4. \A v \in Worker \ {w} : pc[v] = "recording" => seen[v].attempts <= RowOf(claim[v])'.attempts
    <3>1. \A g \in Faq, m \in 1..MaxJobs : job'[g][m].attempts = job[g][m].attempts
      BY <1>1
    <3> QED
      BY <1>5, <3>1, WorkerHeld DEF WorkerHolds, Busy
  <2>5. \A v \in Worker : pc'[v] = "recording" => v # w /\ pc[v] = "recording"
    BY <1>2
  <2>6. \A v \in Worker \ {w} : seen'[v] = seen[v]
    BY <1>2
  <2> QED
    BY <1>2, <2>1, <2>2, <2>3, <2>4, <2>5, <2>6 DEF JobsKnown
<1>14. RewritesCovered'
  <2>1. \A e \in Writer : tx[e].rewritten \subseteq Faq
    BY <1>1 DEF TypeOK, Transaction
  <2>2. \A e \in Writer : tx[e].found # NoJob => tx[e].found[2] \in 1..MaxJobs
    BY <1>1, SMTT(60) DEF TypeOK, Transaction, JobId
  <2>3. \A g \in Faq, m \in 1..MaxJobs : Good(g, m) => Good(g, m)'
    BY <1>8 DEF Good, Pending, Failed
  <2> QED
    BY <1>2, <2>1, <2>2, <2>3 DEF Inductive, RewritesCovered, Covered
<1>15. ReadingCurrent'
  <2> SUFFICES ASSUME NEW v \in Worker \ {w}, Reading(v)
               PROVE  /\ text[v] <= content[EntryOf(v)]
                      /\ \/ v \in outrun
                         \/ /\ vector[EntryOf(v)] <= text[v]
                            /\ \/ text[v] = content[EntryOf(v)]
                               \/ \E m \in 1..MaxJobs :
                                    /\ job'[EntryOf(v)][m].status = "failed"
                                    /\ job'[EntryOf(v)][m].attempts >= MaxAttempts
    BY <1>2 DEF ReadingCurrent, Current, Reading, EntryOf, Abandoned, Failed
  <2> DEFINE g == EntryOf(v)
  <2>1. pc[v] \in Locking /\ pc[v] \in Busy
    BY DEF Reading, Locking, Busy
  <2>2. /\ g \in Faq /\ claim[v][2] \in 1..MaxJobs
        /\ claim[v] = <<g, claim[v][2]>> /\ claim[v] # <<f, n>>
        /\ job[g][claim[v][2]].status = "pending"
    <3>1. Active(claim[v])
      BY <2>1 DEF Inductive, LocksHold
    <3> QED
      BY <1>5, <1>6, <2>1, <3>1 DEF Active
  <2>3. /\ text[v] <= content[g]
        /\ v \in outrun \/ (vector[g] <= text[v] /\ (text[v] = content[g] \/ Abandoned(g)))
    BY DEF Inductive, ReadingCurrent, Current
  <2> HIDE DEF g
  <2>4. job'[f][n].status = "pending" => job'[f][n] = job[f][n] \/ g # f
    BY <1>1, <2>2 DEF ActiveJobs
  <2>5. \A m \in 1..MaxJobs : Failed(g, m) =>
          job'[g][m].status = "failed" /\ job'[g][m].attempts >= MaxAttempts
    BY <1>1, <2>2, <2>4 DEF Failed
  <2> QED
    BY <2>3, <2>5 DEF Abandoned, g
<1>16. VectorNotAhead'
  BY <1>2 DEF Inductive, VectorNotAhead
<1>17. StaleIsQueued'
  <2>1. \A g \in Faq \ spoilt : vector[g] # content[g] => \E m \in 1..MaxJobs : Good(g, m)
    BY DEF Inductive, StaleIsQueued, Good, Pending, Failed
  <2> QED
    BY <1>2, <1>8, <2>1 DEF StaleIsQueued
<1> QED
  BY <1>9, <1>10, <1>11, <1>12, <1>13, <1>14, <1>15, <1>16, <1>17 DEF Inductive

\* A commit, known or not, or none at all.
LEMMA CommitKeeps ==
  ASSUME Inductive, TypeOK', NEW w \in Worker, Commit(w) \/ CommitRaises(w)
  PROVE  Inductive'
<1>1. CASE CommitRaises(w) /\ UNCHANGED <<vector, job, spoilt>>
  BY <1>1, LeaveKeeps
<1>2. CASE Commit(w) \/ (CommitRaises(w) /\ Complete(w))
  <2>1. /\ pc[w] = "writing" /\ Complete(w) /\ UNCHANGED <<content, tx>>
        /\ pc'[w] \in {"poll", "failing"}
        /\ pc'[w] = "failing" => claim'[w] = claim[w]
        /\ \A v \in Worker \ {w} :
             /\ pc'[v] = pc[v] /\ claim'[v] = claim[v] /\ text'[v] = text[v] /\ seen'[v] = seen[v]
             /\ v \in outrun => v \in outrun'
    BY <1>2 DEF Commit, CommitRaises, End, writerVars, Inductive, TypeOK
  <2> QED
    BY <2>1, CompleteKeeps
<1>3. CommitRaises(w) => UNCHANGED <<vector, job, spoilt>> \/ Complete(w)
  BY DEF CommitRaises
<1> QED
  BY <1>1, <1>2, <1>3

\* The invariant is inductive.
LEMMA StepKeeps == Inductive /\ [Next]_vars => Inductive'
<1> SUFFICES ASSUME Inductive, [Next]_vars
             PROVE  Inductive'
  OBVIOUS
<1>1. TypeOK'
  BY TypeStep DEF Inductive
<1>2. CASE UNCHANGED vars
  <2> USE <1>2 DEF vars, rowVars, workerVars, writerVars, historyVars
  <2>1. OneActive' /\ LocksHold' /\ WritersKnown' /\ VectorNotAhead' /\ StaleIsQueued'
    BY DEF Inductive, OneActive, LocksHold, WritersKnown, VectorNotAhead, StaleIsQueued,
           Pending, Active, RowOf
  <2>2. InsertsHold'
    BY DEF Inductive, InsertsHold, Pending, HasFreeSlot, FreeSlot
  <2>3. JobsKnown'
    BY DEF Inductive, JobsKnown, RowOf
  <2>4. RewritesCovered'
    BY DEF Inductive, RewritesCovered, Covered, Good, Pending, Failed
  <2>5. ReadingCurrent'
    BY DEF Inductive, ReadingCurrent, Current, Reading, EntryOf, Abandoned, Failed
  <2> QED
    BY <1>1, <2>1, <2>2, <2>3, <2>4, <2>5 DEF Inductive
<1>3. CASE \E f \in Faq : CreateFaq(f)
  BY <1>3, CreateKeeps
<1>4. CASE \E e \in Writer :
             \/ BeginEnqueue(e) \/ Find(e) \/ Touch(e) \/ Insert(e)
             \/ CommitEnqueue(e) \/ BeginSync(e) \/ CommitSync(e) \/ Abort(e)
  BY <1>4, BeginKeeps, FindKeeps, TouchKeeps, InsertKeeps, CommitEnqueueKeeps, BeginSyncKeeps,
     CommitSyncKeeps, AbortKeeps
<1>5. CASE \E w \in Worker :
             \/ Claim(w) \/ ReadEntry(w) \/ Embed(w) \/ EmbedRaises(w)
             \/ Commit(w) \/ CommitRaises(w) \/ DeadlockVictim(w)
             \/ LoadFailed(w) \/ RecordFailure(w) \/ Crash(w) \/ Restart(w)
  BY <1>1, <1>5, ClaimKeeps, ReadEntryKeeps, LeaveKeeps, CommitKeeps, FailureKeeps, DownKeeps
<1> QED
  BY <1>2, <1>3, <1>4, <1>5 DEF Next, PollEmpty

\* The invariant holds at first.
LEMMA InitHolds == Init => Inductive
<1> SUFFICES ASSUME Init
             PROVE  Inductive
  OBVIOUS
<1>1. TypeOK
  BY InitTyped
<1>2. /\ \A w \in Worker : pc[w] = "poll"
      /\ \A e \in Writer : tx[e] = NoTransaction
      /\ \A f \in Faq, n \in 1..MaxJobs : job[f][n] = AbsentRow
      /\ vector = content /\ \A f \in Faq : content[f] \in Nat
  BY <1>1 DEF Init, TypeOK
<1>3. AbsentRow.status = "absent"
  BY DEF AbsentRow
<1>4. OneActive
  BY <1>2, <1>3 DEF OneActive, Pending
<1>5. LocksHold /\ JobsKnown /\ ReadingCurrent
  BY <1>2, <1>3 DEF LocksHold, JobsKnown, ReadingCurrent, Reading, Locking, Busy
<1>6. InsertsHold /\ WritersKnown /\ RewritesCovered
  BY <1>2, SMTT(60) DEF InsertsHold, WritersKnown, RewritesCovered, NoTransaction
<1>7. VectorNotAhead /\ StaleIsQueued
  BY <1>2 DEF VectorNotAhead, StaleIsQueued
<1> QED
  BY <1>1, <1>4, <1>5, <1>6, <1>7 DEF Inductive

-----------------------------------------------------------------------------
(* The theorems.                                                           *)

\* A FAQ whose vector is out of date has a pending job or one that was given
\* up, for any number of workers, writers, entries and rewrites: a text
\* rewritten while a worker embeds the old one is embedded again.  The only
\* exception is a vector that --sync and a worker or writer beside it spoilt.
THEOREM NothingForgotten == Spec => []StaleIsQueued
<1>1. Inductive => StaleIsQueued
  BY DEF Inductive
<1> QED
  BY <1>1, InitHolds, StepKeeps, PTL DEF Spec

\* No two workers ever embed the same entry: row locks keep them off one row,
\* the unique index keeps an entry from having two.
THEOREM SingleEmbedder == Spec => []OneEmbedderPerFaq
<1>1. Inductive => OneEmbedderPerFaq
  <2> SUFFICES ASSUME Inductive, NEW v \in Worker, NEW w \in Worker, v # w,
                      pc[v] \in Locking, pc[w] \in Locking, EntryOf(v) = EntryOf(w)
               PROVE  FALSE
    BY DEF OneEmbedderPerFaq, EntryOf
  <2>1. TypeOK /\ pc[v] \in Busy /\ pc[w] \in Busy
    BY DEF Inductive, Busy
  <2>2. Active(claim[v]) /\ Active(claim[w]) /\ claim[v] # claim[w]
    BY DEF Inductive, LocksHold
  <2>3. /\ EntryOf(v) \in Faq /\ claim[v][2] \in 1..MaxJobs
        /\ claim[v] = <<EntryOf(v), claim[v][2]>> /\ RowOf(claim[v]) = job[EntryOf(v)][claim[v][2]]
    BY <2>1, ClaimIs
  <2>4. /\ EntryOf(w) \in Faq /\ claim[w][2] \in 1..MaxJobs
        /\ claim[w] = <<EntryOf(w), claim[w][2]>> /\ RowOf(claim[w]) = job[EntryOf(w)][claim[w][2]]
    BY <2>1, ClaimIs
  <2>5. Pending(EntryOf(v), claim[v][2]) /\ Pending(EntryOf(v), claim[w][2])
    BY <2>2, <2>3, <2>4 DEF Active, Pending
  <2>6. claim[v][2] = claim[w][2]
    BY <2>3, <2>4, <2>5 DEF Inductive, OneActive
  <2> QED
    BY <2>2, <2>3, <2>4, <2>6
<1> QED
  BY <1>1, InitHolds, StepKeeps, PTL DEF Spec

\* A vector is replaced by one of an older text only by a worker that --sync
\* outran, or by a --sync that another writer outran: however long the
\* embedder took, whatever ingest rewrote and whoever re-queued the job
\* meanwhile, every other write of a vector keeps or advances its version.
THEOREM VectorsAdvance == Spec => VectorNeverOlder
<1>1. Inductive /\ [Next]_vars => [\A f \in Faq : vector'[f] < vector[f] => f \in spoilt']_vars
  <2> SUFFICES ASSUME Inductive, Next
               PROVE  \A f \in Faq : vector'[f] < vector[f] => f \in spoilt'
    OBVIOUS
  <2>1. TypeOK /\ vector \in [Faq -> Nat] /\ content \in [Faq -> Nat] /\ \A f \in Faq : vector[f] <= content[f]
    BY DEF Inductive, VectorNotAhead, TypeOK
  <2>2. CASE vector' = vector
    BY <2>1, <2>2
  <2>3. ASSUME NEW e \in Writer, CommitSync(e)
        PROVE  \A g \in Faq : vector'[g] < vector[g] => g \in spoilt'
    <3> DEFINE f == tx[e].at
    <3>1. f \in Faq /\ \A g \in Faq \ {f} : vector'[g] = vector[g]
      BY <2>1, <2>3 DEF CommitSync, TypeOK
    <3>2. \/ vector'[f] = content[f] + 1
          \/ content'[f] = content[f]
      BY <2>1, <2>3, <3>1 DEF CommitSync
    <3>3. vector'[f] < content'[f] => f \in spoilt'
      BY <2>3 DEF CommitSync
    <3> HIDE DEF f
    <3>4. vector'[f] < vector[f] => f \in spoilt'
      <4>1. vector'[f] \in Nat /\ vector[f] \in Nat /\ content[f] \in Nat /\ vector[f] <= content[f]
        <5>1. TypeOK'
          BY <2>1, TypeStep
        <5> QED
          BY <2>1, <3>1, <5>1 DEF TypeOK
      <4> QED
        BY <3>2, <3>3, <4>1
    <3> QED
      BY <2>1, <3>1, <3>4
  <2>4. ASSUME NEW w \in Worker, pc[w] = "writing", Complete(w)
        PROVE  \A g \in Faq : vector'[g] < vector[g] => g \in spoilt'
    <3>1. /\ EntryOf(w) \in Faq /\ vector'[EntryOf(w)] = text[w]
          /\ \A g \in Faq \ {EntryOf(w)} : vector'[g] = vector[g]
          /\ w \in outrun => EntryOf(w) \in spoilt'
      BY <2>1, <2>4, CompleteIs, SMTT(60)
    <3>2. text[w] \in Nat /\ (w \in outrun \/ vector[EntryOf(w)] <= text[w])
      BY <2>1, <2>4, SMTT(60) DEF Inductive, ReadingCurrent, Current, Reading, TypeOK
    <3> QED
      BY <2>1, <3>1, <3>2
  <2>5. \/ vector' = vector
        \/ \E e \in Writer : CommitSync(e)
        \/ \E w \in Worker : pc[w] = "writing" /\ Complete(w)
    BY ZenonT(60) DEF Next, CreateFaq, BeginEnqueue, Find, Touch, Insert, CommitEnqueue, BeginSync, Abort, Claim,
           PollEmpty, ReadEntry, Embed, EmbedRaises, Commit, CommitRaises, DeadlockVictim, LoadFailed,
           RecordFailure, Crash, Restart, rowVars, vars
  <2> QED
    BY <2>2, <2>3, <2>4, <2>5
<1> QED
  BY <1>1, InitHolds, StepKeeps, PTL DEF Spec, VectorNeverOlder
=============================================================================
