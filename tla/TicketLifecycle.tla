-------------------------- MODULE TicketLifecycle --------------------------
(***************************************************************************)
(* The life of one ticket: app/services/tickets.py with the SLA clock of   *)
(* app/services/sla.py and the in-app notes of notifications.py.           *)
(*                                                                         *)
(* A handler loads the ticket without a lock, decides on the loaded copy   *)
(* and commits.  The ORM then updates just the columns whose value in the  *)
(* copy changed, whatever the row holds by that time: two handlers on one  *)
(* ticket can interleave between load and commit.  The arguments and the   *)
(* actor of a request are chosen at its commit; nothing before depends on  *)
(* them.  The ticket is created by the ticket form, or by the escalation   *)
(* of a chat (chat.escalate_to_ticket), which logs and clocks nothing.     *)
(*                                                                         *)
(* Left out: subject, description, category, and the department with the   *)
(* access checks on it, which no action here reads.                        *)
(***************************************************************************)
EXTENDS Integers, Sequences, FiniteSets

CONSTANTS
  Request,   \* HTTP requests, each used once
  Student,   \* the student who created the ticket
  Staff,     \* users with role STAFF or ADMIN
  Nobody,    \* no assignee
  Unset,     \* a field the PATCH body does not carry
  Priority,  \* the priorities in use, of {"LOW", "MEDIUM", "HIGH"}
  MaxTime    \* bound: days the clock runs

ASSUME PeopleAssumption ==
  /\ Student \notin Staff /\ Nobody \notin Staff /\ Unset \notin Staff
  /\ Nobody # Unset
ASSUME PriorityAssumption ==
  Priority \subseteq {"LOW", "MEDIUM", "HIGH"} /\ "MEDIUM" \in Priority /\ Unset \notin Priority
ASSUME MaxTimeAssumption == MaxTime \in Nat

VARIABLES
  ticket,   \* the committed row
  version,  \* history: how often the row was written
  log,      \* the committed TicketStatusHistory rows, in commit order
  start,    \* history: the status that the first of them has to start from
  notes,    \* in-app notifications of each user
  replies,  \* public comments of the student
  now,      \* the clock, in days
  pc,       \* where each request stands
  copy,     \* the ticket object a request works on
  base,     \* history: the version its copy was loaded from
  raced     \* history: some request wrote over a version it had not loaded

rowVars == <<ticket, version, log, start, notes, replies>>
requestVars == <<pc, copy, base>>
vars == <<rowVars, now, requestVars, raced>>

Status == {"OPEN", "IN_PROGRESS", "RESOLVED", "CLOSED"}
Terminal == {"RESOLVED", "CLOSED"}
User == Staff \cup {Student}
NoDue == -1
Ticket ==
  [status : Status \cup {"absent"}, priority : Priority,
   assignedTo : Staff \cup {Nobody}, due : Nat \cup {NoDue}, breached : BOOLEAN]
LogRow == [from : Status \cup {"none"}, to : Status, by : User]
AbsentTicket ==
  [status |-> "absent", priority |-> "MEDIUM",
   assignedTo |-> Nobody, due |-> NoDue, breached |-> FALSE]

-----------------------------------------------------------------------------
(* sla.py                                                                  *)

DaysForPriority == [LOW |-> 5, MEDIUM |-> 3, HIGH |-> 1]

Overdue(t) == t.due # NoDue /\ now >= t.due

RefreshBreach(t) ==
  [t EXCEPT !.breached = @ \/ (t.status \notin Terminal /\ Overdue(t))]

\* Mutant: the reset moves the due time and keeps the stamp.
RestartClockOnly(t) == [t EXCEPT !.due = now + DaysForPriority[t.priority]]

\* apply_sla_clock(reset=True): a fresh due time; the stamp is cleared.
RestartClock(t) ==
  [t EXCEPT !.due = now + DaysForPriority[t.priority], !.breached = FALSE]

-----------------------------------------------------------------------------
(* What a commit writes.                                                   *)

\* Mutant: the UPDATE writes every column of the copy.
MergeWholeRow(row, old, new, restarted) == new

\* The UPDATE sets the columns that differ between the copy as loaded and
\* the copy as left by the handler.  A restarted clock always differs: the
\* code's clock is finer than a day.
Merge(row, old, new, restarted) ==
  LET Column(was, is, stored) == IF is # was THEN is ELSE stored IN
  [status |-> Column(old.status, new.status, row.status),
   priority |-> Column(old.priority, new.priority, row.priority),
   assignedTo |-> Column(old.assignedTo, new.assignedTo, row.assignedTo),
   due |-> IF restarted THEN new.due ELSE row.due,
   breached |-> Column(old.breached, new.breached, row.breached)]

Fresh(q) == base[q] = version

WriteTicket(q, new, restarted) ==
  /\ ticket' = Merge(ticket, copy[q], new, restarted)
  /\ version' = IF new = copy[q] THEN version ELSE version + 1
  /\ raced' = (raced \/ (new # copy[q] /\ ~Fresh(q)))

\* Mutant: the previous status is read after the new one was assigned.
LogMoveLate(q, new, by) ==
  log' = IF new.status = copy[q].status THEN log
         ELSE Append(log, [from |-> new.status, to |-> new.status, by |-> by])

\* _record_status_change: one row when the status differs from the loaded one.
LogMove(q, new, by) ==
  log' = IF new.status = copy[q].status THEN log
         ELSE Append(log, [from |-> copy[q].status, to |-> new.status, by |-> by])

\* Mutant: the self-notification test is inverted.
NotifyActorOnly(to, actor) ==
  notes' = [u \in User |-> notes[u] + Cardinality({n \in DOMAIN to : to[n] = u /\ u = actor})]

\* create_in_app drops a note to the actor; notify_many adds the others.
Notify(to, actor) ==
  notes' = [u \in User |-> notes[u] + Cardinality({n \in DOMAIN to : to[n] = u /\ u # actor})]

Finish(q) ==
  /\ pc' = [pc EXCEPT ![q] = "done"]
  /\ copy' = [copy EXCEPT ![q] = AbsentTicket]
  /\ base' = [base EXCEPT ![q] = 0]

-----------------------------------------------------------------------------

Init ==
  /\ ticket = AbsentTicket
  /\ version = 0
  /\ log = <<>>
  /\ start = "absent"
  /\ notes = [u \in User |-> 0]
  /\ replies = 0
  /\ now = 0
  /\ pc = [q \in Request |-> "idle"]
  /\ copy = [q \in Request |-> AbsentTicket]
  /\ base = [q \in Request |-> 0]
  /\ raced = FALSE

\* create_ticket: the row, its clock and its first log entry in one commit.
CreateTicket(p) ==
  /\ ticket.status = "absent"
  /\ ticket' = RestartClock([AbsentTicket EXCEPT !.status = "OPEN", !.priority = p])
  /\ version' = version + 1
  /\ log' = <<[from |-> "none", to |-> "OPEN", by |-> Student]>>
  /\ start' = "none"
  /\ UNCHANGED <<notes, replies, now, requestVars, raced>>

\* escalate_to_ticket: an open ticket of the default priority, no due time,
\* no log entry.
EscalateToTicket ==
  /\ ticket.status = "absent"
  /\ ticket' = [AbsentTicket EXCEPT !.status = "OPEN"]
  /\ version' = version + 1
  /\ start' = "OPEN"
  /\ UNCHANGED <<log, notes, replies, now, requestVars, raced>>

\* get_ticket (and list_tickets): load and refresh_breach; a new stamp is
\* committed on its own before the handler goes on.
GetTicket(q) ==
  /\ pc[q] = "idle" /\ ticket.status # "absent"
  /\ copy' = [copy EXCEPT ![q] = ticket]
  /\ base' = [base EXCEPT ![q] = version]
  /\ pc' = [pc EXCEPT ![q] = IF RefreshBreach(ticket) = ticket THEN "loaded" ELSE "stamping"]
  /\ UNCHANGED <<rowVars, now, raced>>

CommitBreach(q) ==
  /\ pc[q] = "stamping"
  /\ LET new == [copy[q] EXCEPT !.breached = TRUE] IN
       /\ WriteTicket(q, new, FALSE)
       /\ copy' = [copy EXCEPT ![q] = new]
  /\ base' = [base EXCEPT ![q] = IF Fresh(q) THEN version + 1 ELSE @]
  /\ pc' = [pc EXCEPT ![q] = "loaded"]
  /\ UNCHANGED <<log, start, notes, replies, now>>

\* A read-only request, one refused after get_ticket, or one that failed.
Leave(q) ==
  /\ pc[q] \in {"stamping", "loaded"}
  /\ Finish(q)
  /\ UNCHANGED <<rowVars, now, raced>>

Given(value, default) == IF value = Unset THEN default ELSE value

\* update_ticket: apply the fields, log and announce a status change,
\* announce a new assignee, restart the clock on a priority change unless
\* the ticket is settled, else refresh the stamp.
UpdateTicket(q) ==
  /\ pc[q] = "loaded"
  /\ \E actor \in Staff, status \in Status \cup {Unset}, priority \in Priority \cup {Unset},
        assignee \in Staff \cup {Nobody, Unset} :
       LET old == copy[q]
           set == [old EXCEPT !.status = Given(status, @), !.priority = Given(priority, @),
                              !.assignedTo = Given(assignee, @)]
           repriced == set.priority # old.priority
           restarted == repriced /\ set.status \notin Terminal
           new == IF restarted THEN RestartClock(set)
                  ELSE IF repriced THEN set ELSE RefreshBreach(set)
           moved == IF set.status = old.status THEN <<>> ELSE <<Student>>
           assigned == IF set.assignedTo \in {old.assignedTo, Nobody} THEN <<>>
                       ELSE <<set.assignedTo>>
       IN  /\ WriteTicket(q, new, restarted)
           /\ LogMove(q, new, actor)
           /\ Notify(moved \o assigned, actor)
  /\ Finish(q)
  /\ UNCHANGED <<start, replies, now>>

\* Mutant: any reply is taken for one on an open ticket.
StudentReplyNeverReopens(q) ==
  /\ pc[q] = "loaded"
  /\ UNCHANGED <<ticket, version, log, raced>>
  /\ Notify(IF copy[q].assignedTo = Nobody THEN <<>> ELSE <<copy[q].assignedTo>>, Student)
  /\ replies' = replies + 1
  /\ Finish(q)
  /\ UNCHANGED <<start, now>>

\* add_comment by the student, always public: reopen a RESOLVED ticket with
\* a fresh clock, notify the assignee.
StudentReply(q) ==
  /\ pc[q] = "loaded"
  /\ LET old == copy[q]
         reopens == old.status = "RESOLVED"
         new == IF reopens THEN RestartClock([old EXCEPT !.status = "OPEN"]) ELSE old
     IN  /\ WriteTicket(q, new, reopens)
         /\ LogMove(q, new, Student)
         /\ Notify(IF old.assignedTo = Nobody THEN <<>> ELSE <<old.assignedTo>>, Student)
  /\ replies' = replies + 1
  /\ Finish(q)
  /\ UNCHANGED <<start, now>>

\* add_comment by staff: a public one notifies the creator, an internal note
\* nobody.
StaffComment(q) ==
  /\ pc[q] = "loaded"
  /\ \E actor \in Staff, internal \in BOOLEAN :
       Notify(IF internal THEN <<>> ELSE <<Student>>, actor)
  /\ Finish(q)
  /\ UNCHANGED <<ticket, version, log, start, replies, now, raced>>

Tick ==
  /\ now < MaxTime
  /\ now' = now + 1
  /\ UNCHANGED <<rowVars, requestVars, raced>>

Next ==
  \/ \E p \in Priority : CreateTicket(p)
  \/ EscalateToTicket
  \/ \E q \in Request :
       \/ GetTicket(q) \/ CommitBreach(q) \/ Leave(q)
       \/ UpdateTicket(q) \/ StudentReply(q) \/ StaffComment(q)
  \/ Tick

Spec == Init /\ [][Next]_vars

-----------------------------------------------------------------------------
(* Properties.                                                             *)

\* Every variable stays in its domain.
TypeOK ==
  /\ ticket \in Ticket
  /\ version \in Nat
  /\ log \in Seq(LogRow)
  /\ start \in {"absent", "none", "OPEN"}
  /\ notes \in [User -> Nat]
  /\ replies \in Nat
  /\ now \in Nat
  /\ pc \in [Request -> {"idle", "stamping", "loaded", "done"}]
  /\ copy \in [Request -> Ticket]
  /\ base \in [Request -> Nat]
  /\ raced \in BOOLEAN

\* In commit order the status log ends at the ticket's status, whatever the
\* interleaving: no handler writes a status it does not log.  The log of a
\* ticket made of a chat is empty until the ticket first moves.
LogEnd == IF log = <<>> THEN start ELSE log[Len(log)].to
LogEndsAtStatus == ticket.status = LogEnd

\* The log is a chain (each move starts where the one before ended) unless
\* a handler wrote over a version of the row it had not loaded.
IsChain ==
  \A i \in 1..Len(log) : log[i].from = IF i = 1 THEN start ELSE log[i - 1].to
ChainUnlessRaced == ~raced => IsChain

\* A breach stamp means the due time of the running clock has passed, again
\* unless a handler wrote over a version it had not loaded.
BreachMeansOverdue == ticket.breached => Overdue(ticket)
BreachUnlessRaced == ~raced => BreachMeansOverdue

\* A status change by staff never stays unannounced to the student.
MovesAnnounced ==
  Cardinality({i \in 1..Len(log) : log[i].by # Student}) <= notes[Student]

\* A student's reply that commits on the version it has loaded leaves the
\* ticket unresolved and reaches the person the ticket is assigned to.
ReplyCommits(q) == replies' # replies /\ pc[q] = "loaded" /\ pc'[q] = "done"
ReplyHeardUnlessRaced ==
  [][\A q \in Request : ReplyCommits(q) /\ Fresh(q) =>
       /\ ticket'.status # "RESOLVED"
       /\ ticket.assignedTo # Nobody =>
            notes'[ticket.assignedTo] > notes[ticket.assignedTo]]_vars
=============================================================================
