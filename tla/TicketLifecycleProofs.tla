----------------------- MODULE TicketLifecycleProofs -----------------------
(***************************************************************************)
(* What TicketLifecycle guarantees for any number of requests, members of  *)
(* staff and days.                                                         *)
(***************************************************************************)
EXTENDS TicketLifecycle, FiniteSetTheorems, SequenceTheorems, TLAPS

Active == {"stamping", "loaded"}

\* A request that is past get_ticket works on a ticket that exists; as long
\* as nobody wrote the row since, its copy is the row.
CopiesKnown ==
  \A q \in Request : pc[q] \in Active =>
    /\ ticket.status # "absent"
    /\ copy[q].status # "absent"
    /\ base[q] <= version
    /\ Fresh(q) => copy[q] = ticket

\* A request is about to commit a breach stamp only for an unstamped copy
\* that was due when it was loaded.
StampIsDue ==
  \A q \in Request : pc[q] = "stamping" => ~copy[q].breached /\ Overdue(copy[q])

Inductive ==
  /\ TypeOK
  /\ CopiesKnown
  /\ StampIsDue
  /\ LogEndsAtStatus
  /\ ChainUnlessRaced
  /\ BreachUnlessRaced

-----------------------------------------------------------------------------
(* sla.py, and what a commit writes.                                       *)

\* refresh_breach changes nothing but the stamp, and sets it only when due.
LEMMA RefreshBreachIs ==
  ASSUME NEW t \in Ticket, TypeOK
  PROVE  /\ RefreshBreach(t) \in Ticket
         /\ RefreshBreach(t).status = t.status
         /\ RefreshBreach(t).due = t.due
         /\ RefreshBreach(t).breached => t.breached \/ Overdue(t)
         /\ RefreshBreach(t) # t => ~t.breached /\ Overdue(t)
<1> DEFINE overdue == t.status \notin Terminal /\ Overdue(t)
<1>1. t.breached \in BOOLEAN
  BY DEF Ticket
<1>2. CASE t.breached \/ overdue
  <2>1. (t.breached \/ overdue) = TRUE
    BY <1>1, <1>2
  <2>2. RefreshBreach(t) = [t EXCEPT !.breached = TRUE]
    BY <2>1 DEF RefreshBreach
  <2>3. t.breached => RefreshBreach(t) = t
    BY <1>1, <2>2 DEF Ticket
  <2> QED
    BY <1>2, <2>2, <2>3 DEF Ticket
<1>3. CASE ~(t.breached \/ overdue)
  <2>1. (t.breached \/ overdue) = FALSE
    BY <1>3
  <2>2. RefreshBreach(t) = [t EXCEPT !.breached = FALSE]
    BY <2>1 DEF RefreshBreach
  <2>3. RefreshBreach(t) = t
    BY <1>1, <1>3, <2>2 DEF Ticket
  <2> QED
    BY <1>3, <2>3
<1> QED
  BY <1>2, <1>3

\* apply_sla_clock(reset=True) changes the due time and clears the stamp.
LEMMA RestartClockIs ==
  ASSUME NEW t \in Ticket, TypeOK
  PROVE  /\ RestartClock(t) \in Ticket
         /\ RestartClock(t).status = t.status
         /\ RestartClock(t).priority = t.priority
         /\ ~RestartClock(t).breached
<1>1. t.priority \in {"LOW", "MEDIUM", "HIGH"}
  BY PriorityAssumption DEF Ticket
<1>2. now + DaysForPriority[t.priority] \in Nat
  BY <1>1 DEF DaysForPriority, TypeOK
<1> QED
  BY <1>2 DEF RestartClock, Ticket

\* The UPDATE of a copy that is current leaves the row as the handler left
\* the copy; one of an unchanged copy leaves the row alone; in between, the
\* status follows the copy exactly when the handler changed it.
LEMMA WriteIs ==
  ASSUME TypeOK, CopiesKnown, NEW q \in Request, pc[q] \in Active,
         NEW new \in Ticket, NEW restarted \in BOOLEAN,
         restarted => new # copy[q],
         ~restarted => new.due = copy[q].due,
         WriteTicket(q, new, restarted)
  PROVE  /\ ticket' \in Ticket /\ version' \in Nat /\ raced' \in BOOLEAN
         /\ new = copy[q] => ticket' = ticket /\ version' = version /\ raced' = raced
         /\ new # copy[q] => version' = version + 1
         /\ Fresh(q) => ticket' = new /\ raced' = raced
         /\ ~Fresh(q) /\ new # copy[q] => raced'
         /\ raced => raced'
         /\ ticket'.status = IF new.status = copy[q].status THEN ticket.status ELSE new.status
<1>1. ticket \in Ticket /\ copy[q] \in Ticket /\ version \in Nat /\ raced \in BOOLEAN
  BY DEF TypeOK
<1>2. ticket' = Merge(ticket, copy[q], new, restarted)
  BY DEF WriteTicket
<1>3. /\ ticket' \in Ticket
      /\ ticket'.status = IF new.status = copy[q].status THEN ticket.status ELSE new.status
  BY <1>1, <1>2 DEF Merge, Ticket
<1>4. new = copy[q] => ticket' = ticket
  BY <1>1, <1>2 DEF Merge, Ticket
<1>5. Fresh(q) => ticket' = new
  BY <1>1, <1>2 DEF CopiesKnown, Merge, Ticket
<1>6. version' = IF new = copy[q] THEN version ELSE version + 1
  BY DEF WriteTicket
<1>7. raced' = (raced \/ (new # copy[q] /\ ~Fresh(q)))
  BY DEF WriteTicket
<1>8. /\ raced' \in BOOLEAN
      /\ new = copy[q] => raced' = raced
      /\ Fresh(q) => raced' = raced
      /\ ~Fresh(q) /\ new # copy[q] => raced'
      /\ raced => raced'
  BY <1>1, <1>7, Zenon
<1>9. version' \in Nat
  BY <1>1, <1>6
<1> QED
  BY <1>3, <1>4, <1>5, <1>6, <1>8, <1>9

\* notify_many adds a number of notes per user.
LEMMA NotifyIs ==
  ASSUME TypeOK, NEW to \in Seq(User), NEW actor, Notify(to, actor)
  PROVE  notes' \in [User -> Nat]
<1>1. ASSUME NEW u \in User
      PROVE  Cardinality({n \in DOMAIN to : to[n] = u /\ u # actor}) \in Nat
  <2>1. DOMAIN to = 1..Len(to) /\ Len(to) \in Nat
    OBVIOUS
  <2>2. IsFiniteSet(DOMAIN to)
    BY <2>1, FS_Interval
  <2>3. {n \in DOMAIN to : to[n] = u /\ u # actor} \in SUBSET DOMAIN to
    OBVIOUS
  <2> QED
    BY <2>2, <2>3, FS_Subset, FS_CardinalityType
<1>2. \A u \in User : notes[u] \in Nat
  BY DEF TypeOK
<1> QED
  BY <1>1, <1>2 DEF Notify

-----------------------------------------------------------------------------

\* What every handler that writes the ticket does to the invariant: the row,
\* its log and the copies of the other requests.
LEMMA SafeWrite ==
  ASSUME Inductive, NEW q \in Request, pc[q] \in Active,
         NEW new \in Ticket, NEW restarted \in BOOLEAN, NEW by \in User,
         new.status # "absent",
         restarted => new # copy[q],
         ~restarted => new.due = copy[q].due,
         new.breached => Overdue(new) \/ (copy[q].breached /\ new.due = copy[q].due),
         WriteTicket(q, new, restarted), LogMove(q, new, by), now' = now, start' = start
  PROVE  /\ log' \in Seq(LogRow)
         /\ ticket'.status # "absent"
         /\ LogEndsAtStatus' /\ ChainUnlessRaced' /\ BreachUnlessRaced'
         /\ \A p \in Request : pc[p] \in Active /\ base[p] = version' => copy[p] = ticket'
<1> USE DEF Inductive
<1>1. /\ ticket' \in Ticket /\ version' \in Nat /\ raced' \in BOOLEAN
      /\ new = copy[q] => ticket' = ticket /\ version' = version /\ raced' = raced
      /\ new # copy[q] => version' = version + 1
      /\ Fresh(q) => ticket' = new /\ raced' = raced
      /\ ~Fresh(q) /\ new # copy[q] => raced'
      /\ raced => raced'
      /\ ticket'.status = IF new.status = copy[q].status THEN ticket.status ELSE new.status
  BY WriteIs
<1>2. /\ ticket \in Ticket /\ copy[q] \in Ticket /\ log \in Seq(LogRow)
      /\ ticket.status # "absent" /\ copy[q].status # "absent"
      /\ version \in Nat /\ now \in Nat
      /\ Fresh(q) => copy[q] = ticket
  BY DEF TypeOK, CopiesKnown
<1>3. LogEnd = ticket.status /\ start \in {"absent", "none", "OPEN"}
  BY DEF LogEndsAtStatus, TypeOK
<1>4. ticket'.status # "absent"
  BY <1>1, <1>2
<1>5. ASSUME new.status = copy[q].status
      PROVE  log' \in Seq(LogRow) /\ LogEndsAtStatus' /\ ChainUnlessRaced'
  <2>1. log' = log
    BY <1>5 DEF LogMove
  <2>2. LogEndsAtStatus'
    BY <1>1, <1>3, <1>5, <2>1 DEF LogEndsAtStatus, LogEnd
  <2>3. ChainUnlessRaced'
    BY <1>1, <2>1 DEF ChainUnlessRaced, IsChain
  <2> QED
    BY <1>2, <2>1, <2>2, <2>3
<1>6. ASSUME new.status # copy[q].status
      PROVE  log' \in Seq(LogRow) /\ LogEndsAtStatus' /\ ChainUnlessRaced'
  <2> DEFINE entry == [from |-> copy[q].status, to |-> new.status, by |-> by]
  <2>1. log' = Append(log, entry) /\ entry \in LogRow
    BY <1>2, <1>6 DEF LogMove, LogRow, Ticket
  <2>2. /\ log' \in Seq(LogRow) /\ Len(log') = Len(log) + 1 /\ Len(log) \in Nat
        /\ log'[Len(log')] = entry
        /\ \A i \in 1..Len(log) : log'[i] = log[i]
    BY <1>2, <2>1
  <2>3. LogEndsAtStatus'
    BY <1>1, <1>6, <2>2 DEF LogEndsAtStatus, LogEnd
  <2>4. ChainUnlessRaced'
    <3> SUFFICES ASSUME ~raced', NEW i \in 1..Len(log')
                 PROVE  log'[i].from = IF i = 1 THEN start ELSE log'[i - 1].to
      BY DEF ChainUnlessRaced, IsChain
    <3>1. ~raced /\ IsChain /\ Fresh(q)
      BY <1>1, <1>6 DEF ChainUnlessRaced
    <3>2. copy[q].status = LogEnd
      BY <1>2, <1>3, <3>1
    <3>3. CASE i \in 1..Len(log)
      BY <2>2, <3>1, <3>3, SMTT(60) DEF IsChain
    <3>4. CASE i = Len(log) + 1
      <4>1. log = <<>> <=> Len(log) = 0
        BY <1>2
      <4> QED
        BY <2>2, <3>2, <3>4, <4>1 DEF LogEnd
    <3> QED
      BY <2>2, <3>3, <3>4
  <2> QED
    BY <2>2, <2>3, <2>4
<1>7. BreachUnlessRaced'
  <2> SUFFICES ASSUME ~raced', ticket'.breached PROVE Overdue(ticket')
    BY DEF BreachUnlessRaced, BreachMeansOverdue, Overdue
  <2>1. ~raced
    BY <1>1
  <2>2. CASE new = copy[q]
    BY <1>1, <2>1, <2>2 DEF BreachUnlessRaced, BreachMeansOverdue
  <2>3. CASE new # copy[q]
    <3>1. Fresh(q) /\ ticket' = new /\ copy[q] = ticket
      BY <1>1, <1>2, <2>3
    <3> QED
      BY <2>1, <3>1 DEF BreachUnlessRaced, BreachMeansOverdue, Overdue
  <2> QED
    BY <2>2, <2>3
<1>8. ASSUME NEW p \in Request, pc[p] \in Active, base[p] = version' PROVE copy[p] = ticket'
  <2>1. base[p] <= version /\ base[p] \in Nat
    BY <1>8 DEF CopiesKnown, TypeOK
  <2>2. version' = version /\ ticket' = ticket
    BY <1>1, <1>2, <1>8, <2>1
  <2> QED
    BY <1>8, <2>2 DEF CopiesKnown, Fresh
<1> QED
  BY <1>4, <1>5, <1>6, <1>7, <1>8

\* Every request starts with no ticket at hand.
LEMMA AbsentTicketType == AbsentTicket \in Ticket
  BY PriorityAssumption DEF AbsentTicket, Ticket

LEMMA InductiveInit == Init => Inductive
<1> SUFFICES ASSUME Init PROVE Inductive
  OBVIOUS
<1>1. TypeOK
  BY AbsentTicketType, EmptySeq DEF Init, TypeOK
<1>2. CopiesKnown /\ StampIsDue
  BY DEF Init, CopiesKnown, StampIsDue, Active
<1>3. LogEndsAtStatus /\ BreachUnlessRaced
  BY DEF Init, LogEndsAtStatus, LogEnd, BreachUnlessRaced, BreachMeansOverdue, AbsentTicket
<1>4. ChainUnlessRaced
  BY DEF Init, ChainUnlessRaced, IsChain
<1> QED
  BY <1>1, <1>2, <1>3, <1>4 DEF Inductive

\* create_ticket finds no request past get_ticket: there was no ticket.
LEMMA CreateStep ==
  ASSUME Inductive, NEW p \in Priority, CreateTicket(p)
  PROVE  Inductive'
<1> USE DEF Inductive
<1> DEFINE opened == [AbsentTicket EXCEPT !.status = "OPEN", !.priority = p]
           first == [from |-> "none", to |-> "OPEN", by |-> Student]
<1>1. opened \in Ticket /\ opened.status = "OPEN"
  BY AbsentTicketType DEF Ticket, Status
<1>2. ticket' \in Ticket /\ ticket'.status = "OPEN" /\ ~ticket'.breached
  BY <1>1, RestartClockIs DEF CreateTicket
<1>3. log' = <<first>> /\ first \in LogRow
  BY DEF CreateTicket, LogRow, User, Status
<1>4. log' \in Seq(LogRow) /\ Len(log') = 1 /\ log'[1] = first /\ log' # <<>>
  BY <1>3
<1>5. \A q \in Request : pc[q] \notin Active
  BY DEF CreateTicket, CopiesKnown
<1>6. UNCHANGED <<notes, replies, now, pc, copy, base, raced>> /\ version' = version + 1
      /\ start' = "none"
  BY DEF CreateTicket, requestVars
<1>7. TypeOK'
  BY <1>2, <1>4, <1>6 DEF TypeOK
<1>8. CopiesKnown' /\ StampIsDue'
  BY <1>5, <1>6 DEF CopiesKnown, StampIsDue, Active
<1>9. LogEndsAtStatus' /\ BreachUnlessRaced'
  BY <1>2, <1>4 DEF LogEndsAtStatus, LogEnd, BreachUnlessRaced, BreachMeansOverdue
<1>10. ChainUnlessRaced'
  BY <1>4, <1>6 DEF ChainUnlessRaced, IsChain
<1> QED
  BY <1>7, <1>8, <1>9, <1>10

\* escalate_to_ticket finds no request either; its ticket has an empty log.
LEMMA EscalateStep == ASSUME Inductive, EscalateToTicket PROVE Inductive'
<1> USE DEF Inductive
<1>1. ticket' \in Ticket /\ ticket'.status = "OPEN" /\ ~ticket'.breached
  BY AbsentTicketType DEF EscalateToTicket, AbsentTicket, Ticket, Status
<1>2. \A q \in Request : pc[q] \notin Active
  BY DEF EscalateToTicket, CopiesKnown
<1>3. /\ UNCHANGED <<log, notes, replies, now, pc, copy, base, raced>>
      /\ version' = version + 1 /\ start' = "OPEN"
  BY DEF EscalateToTicket, requestVars
<1>4. log = <<>>
  <2>1. log # <<>> => log[Len(log)] \in LogRow
    <3>1. log # <<>> => Len(log) \in 1..Len(log)
      BY DEF TypeOK
    <3> QED
      BY <3>1 DEF TypeOK
  <2>2. log # <<>> => log[Len(log)].to = "absent"
    BY DEF EscalateToTicket, LogEndsAtStatus, LogEnd
  <2> QED
    BY <2>1, <2>2 DEF LogRow, Status
<1>5. TypeOK'
  BY <1>1, <1>3 DEF TypeOK
<1>6. CopiesKnown' /\ StampIsDue'
  BY <1>2, <1>3 DEF CopiesKnown, StampIsDue, Active
<1>7. LogEndsAtStatus' /\ BreachUnlessRaced'
  BY <1>1, <1>3, <1>4 DEF LogEndsAtStatus, LogEnd, BreachUnlessRaced, BreachMeansOverdue
<1>8. ChainUnlessRaced'
  BY <1>3, <1>4 DEF ChainUnlessRaced, IsChain
<1> QED
  BY <1>5, <1>6, <1>7, <1>8

\* get_ticket loads the row as it is.
LEMMA GetStep ==
  ASSUME Inductive, NEW q \in Request, GetTicket(q)
  PROVE  Inductive'
<1> USE DEF Inductive
<1>1. /\ UNCHANGED <<ticket, version, log, start, notes, replies, now, raced>>
      /\ ticket.status # "absent" /\ ticket \in Ticket /\ version \in Nat
      /\ copy' = [copy EXCEPT ![q] = ticket]
      /\ base' = [base EXCEPT ![q] = version]
      /\ pc' = [pc EXCEPT ![q] = IF RefreshBreach(ticket) = ticket THEN "loaded" ELSE "stamping"]
  BY DEF GetTicket, rowVars, TypeOK
<1>2. TypeOK'
  BY <1>1 DEF TypeOK
<1>3. CopiesKnown'
  BY <1>1 DEF CopiesKnown, Fresh, TypeOK
<1>4. StampIsDue'
  <2>1. RefreshBreach(ticket) # ticket => ~ticket.breached /\ Overdue(ticket)
    BY <1>1, RefreshBreachIs
  <2> QED
    BY <1>1, <2>1 DEF StampIsDue, Overdue, TypeOK
<1>5. LogEndsAtStatus' /\ ChainUnlessRaced' /\ BreachUnlessRaced'
  BY <1>1 DEF LogEndsAtStatus, LogEnd, ChainUnlessRaced, IsChain, BreachUnlessRaced,
     BreachMeansOverdue, Overdue
<1> QED
  BY <1>2, <1>3, <1>4, <1>5

\* The commit of a breach stamp on its own leaves the request with the row
\* it wrote, if its copy was current.
LEMMA StampStep ==
  ASSUME Inductive, NEW q \in Request, CommitBreach(q)
  PROVE  Inductive'
<1> USE DEF Inductive
<1> DEFINE new == [copy[q] EXCEPT !.breached = TRUE]
<1>1. /\ pc[q] = "stamping" /\ pc[q] \in Active
      /\ copy[q] \in Ticket /\ copy[q].status # "absent"
      /\ base[q] \in Nat /\ version \in Nat /\ base[q] <= version
      /\ ~copy[q].breached /\ Overdue(copy[q])
  BY DEF CommitBreach, TypeOK, CopiesKnown, StampIsDue, Active
<1>2. new \in Ticket /\ new # copy[q] /\ new.status = copy[q].status /\ new.due = copy[q].due
  BY <1>1 DEF Ticket
<1>3. /\ WriteTicket(q, new, FALSE)
      /\ UNCHANGED <<log, start, notes, replies, now>>
      /\ copy' = [copy EXCEPT ![q] = new]
      /\ base' = [base EXCEPT ![q] = IF Fresh(q) THEN version + 1 ELSE @]
      /\ pc' = [pc EXCEPT ![q] = "loaded"]
  BY DEF CommitBreach
<1>4. LogMove(q, new, Student)
  BY <1>2, <1>3 DEF LogMove
<1>5. /\ log' \in Seq(LogRow) /\ ticket'.status # "absent"
      /\ LogEndsAtStatus' /\ ChainUnlessRaced' /\ BreachUnlessRaced'
      /\ \A p \in Request : pc[p] \in Active /\ base[p] = version' => copy[p] = ticket'
  BY <1>1, <1>2, <1>3, <1>4, SafeWrite DEF User, Overdue
<1>6. /\ ticket' \in Ticket /\ version' = version + 1 /\ raced' \in BOOLEAN
      /\ Fresh(q) => ticket' = new
  BY <1>1, <1>2, <1>3, WriteIs
<1>7. TypeOK'
  BY <1>1, <1>2, <1>3, <1>5, <1>6 DEF TypeOK
<1>8. CopiesKnown'
  <2> SUFFICES ASSUME NEW p \in Request, pc'[p] \in Active
               PROVE  /\ ticket'.status # "absent" /\ copy'[p].status # "absent"
                      /\ base'[p] <= version'
                      /\ base'[p] = version' => copy'[p] = ticket'
    BY DEF CopiesKnown, Fresh
  <2>1. CASE p = q
    BY <1>1, <1>2, <1>3, <1>5, <1>6, <2>1 DEF TypeOK, Fresh
  <2>2. CASE p # q
    <3>1. pc'[p] = pc[p] /\ copy'[p] = copy[p] /\ base'[p] = base[p] /\ base[p] \in Nat
      BY <1>3, <2>2 DEF TypeOK
    <3> QED
      BY <1>1, <1>5, <1>6, <3>1 DEF CopiesKnown
  <2> QED
    BY <2>1, <2>2
<1>9. StampIsDue'
  BY <1>3 DEF StampIsDue, Overdue, TypeOK
<1> QED
  BY <1>5, <1>7, <1>8, <1>9

\* The handlers that write a ticket and are then through.
LEMMA FinishedWrite ==
  ASSUME Inductive, NEW q \in Request, pc[q] = "loaded",
         NEW new \in Ticket, NEW restarted \in BOOLEAN, NEW by \in User,
         new.status # "absent",
         restarted => new # copy[q],
         ~restarted => new.due = copy[q].due,
         new.breached => Overdue(new) \/ (copy[q].breached /\ new.due = copy[q].due),
         WriteTicket(q, new, restarted), LogMove(q, new, by), now' = now, start' = start,
         Finish(q),
         notes' \in [User -> Nat], replies' \in Nat
  PROVE  Inductive'
<1> USE DEF Inductive
<1>1. pc[q] \in Active
  BY DEF Active
<1>2. /\ log' \in Seq(LogRow) /\ ticket'.status # "absent"
      /\ LogEndsAtStatus' /\ ChainUnlessRaced' /\ BreachUnlessRaced'
      /\ \A p \in Request : pc[p] \in Active /\ base[p] = version' => copy[p] = ticket'
  BY <1>1, SafeWrite
<1>3. /\ ticket' \in Ticket /\ version' \in Nat /\ raced' \in BOOLEAN
      /\ version' = version \/ version' = version + 1
  BY <1>1, WriteIs
<1>4. /\ pc' = [pc EXCEPT ![q] = "done"]
      /\ copy' = [copy EXCEPT ![q] = AbsentTicket]
      /\ base' = [base EXCEPT ![q] = 0]
  BY DEF Finish
<1>5. TypeOK'
  BY <1>2, <1>3, <1>4, AbsentTicketType DEF TypeOK
<1>6. ASSUME NEW p \in Request, pc'[p] \in Active
      PROVE  /\ p # q /\ pc'[p] = pc[p] /\ copy'[p] = copy[p]
             /\ base'[p] = base[p] /\ base[p] \in Nat
  BY <1>4, <1>6 DEF Active, TypeOK
<1>7. CopiesKnown'
  <2> SUFFICES ASSUME NEW p \in Request, pc'[p] \in Active
               PROVE  /\ ticket'.status # "absent" /\ copy'[p].status # "absent"
                      /\ base'[p] <= version'
                      /\ base'[p] = version' => copy'[p] = ticket'
    BY DEF CopiesKnown, Fresh
  <2>1. version \in Nat /\ base[p] <= version /\ copy[p].status # "absent"
    BY <1>6 DEF CopiesKnown, TypeOK
  <2> QED
    BY <1>2, <1>3, <1>6, <2>1
<1>8. StampIsDue'
  BY <1>6 DEF StampIsDue, Overdue, Active
<1> QED
  BY <1>2, <1>5, <1>7, <1>8

\* update_ticket writes what FinishedWrite allows: a restarted clock has no
\* stamp, and a stamp appears only on the due time it was compared with.
LEMMA UpdateStep ==
  ASSUME Inductive, NEW q \in Request, UpdateTicket(q)
  PROVE  Inductive'
<1> USE DEF Inductive
<1>1. /\ pc[q] = "loaded" /\ Finish(q) /\ UNCHANGED <<replies, now, start>>
      /\ copy[q] \in Ticket /\ copy[q].status # "absent"
  BY DEF UpdateTicket, TypeOK, CopiesKnown, Active
<1>2. PICK actor \in Staff, status \in Status \cup {Unset}, priority \in Priority \cup {Unset},
           assignee \in Staff \cup {Nobody, Unset} :
        LET old == copy[q]
            set == [old EXCEPT !.status = Given(status, @), !.priority = Given(priority, @),
                               !.assignedTo = Given(assignee, @)]
            repriced == set.priority # old.priority
            restarted == repriced /\ set.status \notin Terminal
            new == IF restarted THEN RestartClock(set)
                   ELSE IF repriced THEN set ELSE RefreshBreach(set)
            moved == IF set.status = old.status THEN <<>> ELSE <<Student>>
            assigned == IF set.assignedTo \in {old.assignedTo, Nobody} THEN <<>>
                        ELSE <<set.assignedTo>>
        IN  /\ WriteTicket(q, new, restarted)
            /\ LogMove(q, new, actor)
            /\ Notify(moved \o assigned, actor)
  BY DEF UpdateTicket
<1> DEFINE old == copy[q]
           set == [old EXCEPT !.status = Given(status, @), !.priority = Given(priority, @),
                              !.assignedTo = Given(assignee, @)]
           repriced == set.priority # old.priority
           restarted == repriced /\ set.status \notin Terminal
           new == IF restarted THEN RestartClock(set)
                  ELSE IF repriced THEN set ELSE RefreshBreach(set)
           moved == IF set.status = old.status THEN <<>> ELSE <<Student>>
           assigned == IF set.assignedTo \in {old.assignedTo, Nobody} THEN <<>>
                       ELSE <<set.assignedTo>>
<1>3. WriteTicket(q, new, restarted) /\ LogMove(q, new, actor) /\ Notify(moved \o assigned, actor)
  BY <1>2
<1>4. /\ set \in Ticket /\ set.status # "absent"
      /\ set.due = old.due /\ set.breached = old.breached
  BY <1>1, PeopleAssumption, PriorityAssumption, ZenonT(60) DEF Given, Ticket, Status
<1>5. RestartClock(set) \in Ticket /\ RestartClock(set).status = set.status
      /\ RestartClock(set).priority = set.priority /\ ~RestartClock(set).breached
  BY <1>4, RestartClockIs
<1>6. /\ RefreshBreach(set) \in Ticket /\ RefreshBreach(set).status = set.status
      /\ RefreshBreach(set).due = set.due
      /\ RefreshBreach(set).breached => set.breached \/ Overdue(set)
  BY <1>4, RefreshBreachIs
<1> HIDE DEF set
<1>7. new \in Ticket /\ new.status # "absent"
  BY <1>4, <1>5, <1>6
<1>8. restarted => new # copy[q]
  BY <1>5
<1>9. ~restarted => new.due = copy[q].due
  BY <1>4, <1>6
<1>10. new.breached => Overdue(new) \/ (copy[q].breached /\ new.due = copy[q].due)
  BY <1>4, <1>5, <1>6 DEF Overdue
<1>11. notes' \in [User -> Nat]
  <2>1. moved \in Seq(User)
    <3>1. Student \in User
      BY DEF User
    <3>2. <<Student>> \in Seq(User) /\ <<>> \in Seq(User)
      BY <3>1
    <3> QED
      BY <3>2
  <2>2. assigned \in Seq(User)
    <3>1. set.assignedTo \in Staff \cup {Nobody}
      BY <1>4 DEF Ticket
    <3>2. set.assignedTo # Nobody => <<set.assignedTo>> \in Seq(User)
      BY <3>1 DEF User
    <3> QED
      BY <3>2
  <2>3. moved \o assigned \in Seq(User)
    BY <2>1, <2>2
  <2> QED
    BY <1>3, <2>3, NotifyIs
<1>12. actor \in User /\ replies' \in Nat /\ restarted \in BOOLEAN
  BY <1>1 DEF User, TypeOK
<1> HIDE DEF new, restarted
<1> QED
  BY <1>1, <1>3, <1>7, <1>8, <1>9, <1>10, <1>11, <1>12, FinishedWrite

\* A student's reply writes the ticket only to reopen it with a fresh clock.
LEMMA ReplyStep ==
  ASSUME Inductive, NEW q \in Request, StudentReply(q)
  PROVE  Inductive'
<1> USE DEF Inductive
<1> DEFINE old == copy[q]
           reopens == old.status = "RESOLVED"
           reopened == [old EXCEPT !.status = "OPEN"]
           new == IF reopens THEN RestartClock(reopened) ELSE old
           to == IF old.assignedTo = Nobody THEN <<>> ELSE <<old.assignedTo>>
<1>1. /\ pc[q] = "loaded" /\ Finish(q) /\ now' = now /\ start' = start /\ replies' = replies + 1
      /\ old \in Ticket /\ old.status # "absent"
  BY DEF StudentReply, TypeOK, CopiesKnown, Active
<1>2. WriteTicket(q, new, reopens) /\ LogMove(q, new, Student) /\ Notify(to, Student)
  BY DEF StudentReply
<1>3. reopened \in Ticket /\ reopened.status = "OPEN"
  BY <1>1 DEF Ticket, Status
<1>4. /\ RestartClock(reopened) \in Ticket /\ RestartClock(reopened).status = "OPEN"
      /\ ~RestartClock(reopened).breached
  BY <1>3, RestartClockIs
<1>5. to \in Seq(User)
  <2>1. old.assignedTo # Nobody => old.assignedTo \in User
    BY <1>1 DEF Ticket, User
  <2> QED
    BY <2>1
<1>6. notes' \in [User -> Nat]
  BY <1>2, <1>5, NotifyIs
<1>7. Student \in User /\ replies' \in Nat /\ reopens \in BOOLEAN
  BY <1>1 DEF User, TypeOK
<1> HIDE DEF reopened
<1>8. /\ new \in Ticket /\ new.status # "absent"
      /\ reopens => new # copy[q]
      /\ ~reopens => new.due = copy[q].due
      /\ new.breached => Overdue(new) \/ (copy[q].breached /\ new.due = copy[q].due)
  BY <1>1, <1>4
<1> HIDE DEF new, reopens
<1> QED
  BY <1>1, <1>2, <1>6, <1>7, <1>8, FinishedWrite

\* A comment by staff and a request that ends without writing leave the
\* ticket and its log alone.
LEMMA QuietStep ==
  ASSUME Inductive, NEW q \in Request, StaffComment(q) \/ Leave(q)
  PROVE  Inductive'
<1> USE DEF Inductive
<1>1. Finish(q) /\ UNCHANGED <<ticket, version, log, start, replies, now, raced>>
  BY DEF StaffComment, Leave, rowVars
<1>2. /\ pc' = [pc EXCEPT ![q] = "done"]
      /\ copy' = [copy EXCEPT ![q] = AbsentTicket]
      /\ base' = [base EXCEPT ![q] = 0]
  BY <1>1 DEF Finish
<1>3. notes' \in [User -> Nat]
  <2>1. CASE StaffComment(q)
    <3>1. PICK actor \in Staff, internal \in BOOLEAN :
            Notify(IF internal THEN <<>> ELSE <<Student>>, actor)
      BY <2>1 DEF StaffComment
    <3>2. (IF internal THEN <<>> ELSE <<Student>>) \in Seq(User)
      <4>1. Student \in User
        BY DEF User
      <4>2. <<Student>> \in Seq(User) /\ <<>> \in Seq(User)
        BY <4>1
      <4> QED
        BY <4>2
    <3> QED
      BY <3>1, <3>2, NotifyIs
  <2>2. CASE Leave(q)
    BY <2>2 DEF Leave, rowVars, TypeOK
  <2> QED
    BY <2>1, <2>2
<1>4. TypeOK'
  BY <1>1, <1>2, <1>3, AbsentTicketType DEF TypeOK
<1>5. CopiesKnown' /\ StampIsDue'
  BY <1>1, <1>2 DEF CopiesKnown, StampIsDue, Overdue, Fresh, Active, TypeOK
<1>6. LogEndsAtStatus' /\ ChainUnlessRaced' /\ BreachUnlessRaced'
  BY <1>1 DEF LogEndsAtStatus, LogEnd, ChainUnlessRaced, IsChain, BreachUnlessRaced,
     BreachMeansOverdue, Overdue
<1> QED
  BY <1>4, <1>5, <1>6

\* Time only makes more tickets overdue.
LEMMA TickStep == ASSUME Inductive, Tick PROVE Inductive'
<1> USE DEF Inductive
<1>1. /\ now' = now + 1 /\ now \in Nat
      /\ UNCHANGED <<ticket, version, log, start, notes, replies, pc, copy, base, raced>>
  BY DEF Tick, rowVars, requestVars, TypeOK
<1>2. TypeOK'
  BY <1>1 DEF TypeOK
<1>3. CopiesKnown'
  BY <1>1 DEF CopiesKnown, Fresh
<1>4. StampIsDue'
  <2>1. \A q \in Request : copy[q].due \in Nat \cup {NoDue}
    BY DEF TypeOK, Ticket
  <2> QED
    BY <1>1, <2>1 DEF StampIsDue, Overdue, NoDue
<1>5. LogEndsAtStatus' /\ ChainUnlessRaced'
  BY <1>1 DEF LogEndsAtStatus, LogEnd, ChainUnlessRaced, IsChain
<1>6. BreachUnlessRaced'
  <2>1. ticket.due \in Nat \cup {NoDue}
    BY DEF TypeOK, Ticket
  <2> QED
    BY <1>1, <2>1 DEF BreachUnlessRaced, BreachMeansOverdue, Overdue, NoDue
<1> QED
  BY <1>2, <1>3, <1>4, <1>5, <1>6

-----------------------------------------------------------------------------
(* Who is told.                                                            *)

Moved(rows) == {i \in 1..Len(rows) : rows[i].by # Student}

\* Notes only come, and whoever is addressed and is not the actor gets one.
LEMMA NotifyReaches ==
  ASSUME TypeOK, NEW to \in Seq(User), NEW actor, Notify(to, actor), NEW u \in User
  PROVE  /\ notes[u] \in Nat /\ notes'[u] \in Nat /\ notes'[u] >= notes[u]
         /\ u # actor /\ (\E n \in DOMAIN to : to[n] = u) => notes'[u] >= notes[u] + 1
<1> DEFINE D == {n \in DOMAIN to : to[n] = u /\ u # actor}
<1>1. IsFiniteSet(D) /\ Cardinality(D) \in Nat
  <2>1. DOMAIN to = 1..Len(to) /\ Len(to) \in Nat
    OBVIOUS
  <2>2. IsFiniteSet(DOMAIN to) /\ D \in SUBSET DOMAIN to
    BY <2>1, FS_Interval
  <2> QED
    BY <2>2, FS_Subset, FS_CardinalityType
<1>2. notes[u] \in Nat /\ notes'[u] = notes[u] + Cardinality(D)
  BY DEF TypeOK, Notify
<1>3. ASSUME u # actor, \E n \in DOMAIN to : to[n] = u
      PROVE  Cardinality(D) # 0
  <2>1. D # {}
    BY <1>3
  <2> QED
    BY <1>1, <2>1, FS_EmptySet
<1> HIDE DEF D
<1> QED
  BY <1>1, <1>2, <1>3

\* A row of the log counts once, and not at all if it is the student's.
LEMMA AppendMoved ==
  ASSUME NEW rows \in Seq(LogRow), NEW row \in LogRow
  PROVE  /\ Cardinality(Moved(rows)) \in Nat /\ Cardinality(Moved(Append(rows, row))) \in Nat
         /\ Cardinality(Moved(Append(rows, row))) <= Cardinality(Moved(rows)) + 1
         /\ row.by = Student => Moved(Append(rows, row)) = Moved(rows)
<1> DEFINE m == Append(rows, row)
<1>1. /\ Len(rows) \in Nat /\ Len(m) = Len(rows) + 1 /\ m[Len(rows) + 1] = row
      /\ \A i \in 1..Len(rows) : m[i] = rows[i]
  OBVIOUS
<1>2. IsFiniteSet(Moved(rows)) /\ Cardinality(Moved(rows)) \in Nat
  <2>1. IsFiniteSet(1..Len(rows))
    BY <1>1, FS_Interval, SMTT(60)
  <2>2. Moved(rows) \in SUBSET (1..Len(rows))
    BY DEF Moved
  <2> QED
    BY <2>1, <2>2, FS_Subset, FS_CardinalityType
<1>3. CASE row.by = Student
  <2>1. Moved(m) = Moved(rows)
    BY <1>1, <1>3 DEF Moved
  <2> QED
    BY <1>2, <1>3, <2>1
<1>4. CASE row.by # Student
  <2>1. Moved(m) = Moved(rows) \cup {Len(rows) + 1} /\ Len(rows) + 1 \notin Moved(rows)
    BY <1>1, <1>4 DEF Moved
  <2>2. Cardinality(Moved(m)) = Cardinality(Moved(rows)) + 1
    BY <1>2, <2>1, FS_AddElement
  <2> QED
    BY <1>2, <1>4, <2>2
<1> HIDE DEF m
<1> QED
  BY <1>3, <1>4 DEF m

\* A step that tells the student of its move, if it is one by staff, keeps
\* the moves announced.
LEMMA MovesStep ==
  ASSUME Inductive, Inductive', MovesAnnounced, [Next]_vars
  PROVE  MovesAnnounced'
<1> USE DEF Inductive
<1>1. Student \in User /\ notes[Student] \in Nat /\ log \in Seq(LogRow)
  BY DEF User, TypeOK
<1>2. Cardinality(Moved(log)) <= notes[Student] /\ Cardinality(Moved(log)) \in Nat
  <2>1. IsFiniteSet(Moved(log))
    BY <1>1, FS_Interval, FS_Subset DEF Moved
  <2> QED
    BY <2>1, FS_CardinalityType DEF MovesAnnounced, Moved
<1>3. SUFFICES Cardinality(Moved(log')) <= notes'[Student]
  BY DEF MovesAnnounced, Moved
<1>4. ASSUME NEW p \in Priority, CreateTicket(p)
      PROVE  Cardinality(Moved(log')) <= notes'[Student]
  <2>1. log' = <<[from |-> "none", to |-> "OPEN", by |-> Student]>> /\ notes' = notes
    BY <1>4 DEF CreateTicket
  <2>2. Len(log') = 1 /\ log'[1].by = Student
    BY <2>1
  <2>3. Moved(log') = {}
    BY <2>2 DEF Moved
  <2>4. Cardinality(Moved(log')) = 0
    BY <2>3, FS_EmptySet
  <2> QED
    BY <1>1, <2>1, <2>4
<1>5. ASSUME NEW q \in Request, UpdateTicket(q)
      PROVE  Cardinality(Moved(log')) <= notes'[Student]
  <2>1. copy[q] \in Ticket /\ copy[q].status # "absent"
    BY <1>5 DEF UpdateTicket, TypeOK, CopiesKnown, Active
  <2>2. PICK actor \in Staff, status \in Status \cup {Unset}, priority \in Priority \cup {Unset},
             assignee \in Staff \cup {Nobody, Unset} :
          LET old == copy[q]
              set == [old EXCEPT !.status = Given(status, @), !.priority = Given(priority, @),
                                 !.assignedTo = Given(assignee, @)]
              repriced == set.priority # old.priority
              restarted == repriced /\ set.status \notin Terminal
              new == IF restarted THEN RestartClock(set)
                     ELSE IF repriced THEN set ELSE RefreshBreach(set)
              moved == IF set.status = old.status THEN <<>> ELSE <<Student>>
              assigned == IF set.assignedTo \in {old.assignedTo, Nobody} THEN <<>>
                          ELSE <<set.assignedTo>>
          IN  /\ WriteTicket(q, new, restarted)
              /\ LogMove(q, new, actor)
              /\ Notify(moved \o assigned, actor)
    BY <1>5 DEF UpdateTicket
  <2> DEFINE old == copy[q]
             set == [old EXCEPT !.status = Given(status, @), !.priority = Given(priority, @),
                                !.assignedTo = Given(assignee, @)]
             repriced == set.priority # old.priority
             restarted == repriced /\ set.status \notin Terminal
             new == IF restarted THEN RestartClock(set)
                    ELSE IF repriced THEN set ELSE RefreshBreach(set)
             moved == IF set.status = old.status THEN <<>> ELSE <<Student>>
             assigned == IF set.assignedTo \in {old.assignedTo, Nobody} THEN <<>>
                         ELSE <<set.assignedTo>>
  <2>3. LogMove(q, new, actor) /\ Notify(moved \o assigned, actor)
    BY <2>2
  <2>4. set \in Ticket
    BY <2>1, PeopleAssumption, PriorityAssumption, ZenonT(60) DEF Given, Ticket, Status
  <2>5. new.status = set.status
    <3>1. RestartClock(set).status = set.status /\ RefreshBreach(set).status = set.status
      BY <2>4, RestartClockIs, RefreshBreachIs
    <3> QED
      BY <3>1
  <2>6. moved \in Seq(User) /\ assigned \in Seq(User) /\ moved \o assigned \in Seq(User)
    <3>1. set.assignedTo # Nobody => set.assignedTo \in User
      BY <2>4 DEF Ticket, User
    <3> HIDE DEF set
    <3>2. moved \in Seq(User) /\ assigned \in Seq(User)
      BY <1>1, <3>1
    <3> HIDE DEF moved, assigned
    <3> QED
      BY <3>2
  <2> HIDE DEF new, set
  <2>7. CASE new.status = old.status
    <3>1. log' = log
      BY <2>3, <2>7 DEF LogMove
    <3>2. notes'[Student] \in Nat /\ notes'[Student] >= notes[Student]
      BY <1>1, <2>3, <2>6, NotifyReaches
    <3> QED
      BY <1>1, <1>2, <3>1, <3>2
  <2>8. CASE new.status # old.status
    <3> DEFINE row == [from |-> old.status, to |-> new.status, by |-> actor]
    <3>1. log' = Append(log, row)
      BY <2>3, <2>8 DEF LogMove
    <3>2. row \in LogRow
      BY <2>1, <2>4, <2>5, <2>8 DEF LogRow, Ticket, User, Status, new, set, Given
    <3>3. moved = <<Student>> /\ Student # actor
      BY <2>5, <2>8, PeopleAssumption
    <3>4. 1 \in DOMAIN (moved \o assigned) /\ (moved \o assigned)[1] = Student
      BY <2>6, <3>3
    <3>5. notes'[Student] \in Nat /\ notes'[Student] >= notes[Student] + 1
      <4> HIDE DEF moved, assigned
      <4> QED
        BY <1>1, <2>3, <2>6, <3>3, <3>4, NotifyReaches
    <3>6. /\ Cardinality(Moved(log')) \in Nat
          /\ Cardinality(Moved(log')) <= Cardinality(Moved(log)) + 1
      BY <1>1, <3>1, <3>2, AppendMoved
    <3> QED
      BY <1>1, <1>2, <3>5, <3>6
  <2> QED
    BY <2>7, <2>8
<1>6. ASSUME NEW q \in Request, StudentReply(q)
      PROVE  Cardinality(Moved(log')) <= notes'[Student]
  <2> DEFINE old == copy[q]
             reopens == old.status = "RESOLVED"
             new == IF reopens THEN RestartClock([old EXCEPT !.status = "OPEN"]) ELSE old
             to == IF old.assignedTo = Nobody THEN <<>> ELSE <<old.assignedTo>>
  <2>1. /\ LogMove(q, new, Student) /\ Notify(to, Student)
        /\ old \in Ticket /\ old.status # "absent"
    BY <1>6 DEF StudentReply, TypeOK, CopiesKnown, Active
  <2>2. to \in Seq(User)
    <3>1. old.assignedTo # Nobody => old.assignedTo \in User
      BY <2>1 DEF Ticket, User
    <3> QED
      BY <3>1
  <2>3. notes'[Student] \in Nat /\ notes'[Student] >= notes[Student]
    BY <1>1, <2>1, <2>2, NotifyReaches
  <2>4. Moved(log') = Moved(log)
    <3> HIDE DEF new
    <3>1. CASE new.status = old.status
      BY <2>1, <3>1 DEF LogMove
    <3>2. CASE new.status # old.status
      <4>1. new.status = "OPEN"
        <5>1. [old EXCEPT !.status = "OPEN"] \in Ticket
          BY <2>1 DEF Ticket, Status
        <5>2. RestartClock([old EXCEPT !.status = "OPEN"]).status = "OPEN"
          BY <2>1, <5>1, RestartClockIs DEF Ticket
        <5> QED
          BY <3>2, <5>2 DEF new
      <4>2. [from |-> old.status, to |-> new.status, by |-> Student] \in LogRow
        BY <1>1, <2>1, <4>1 DEF LogRow, Ticket, Status
      <4> QED
        BY <1>1, <2>1, <3>2, <4>2, AppendMoved DEF LogMove
    <3> QED
      BY <3>1, <3>2
  <2> QED
    BY <1>1, <1>2, <2>3, <2>4
<1>7. ASSUME NEW q \in Request, StaffComment(q)
      PROVE  Cardinality(Moved(log')) <= notes'[Student]
  <2>1. PICK actor \in Staff, internal \in BOOLEAN :
          Notify(IF internal THEN <<>> ELSE <<Student>>, actor)
    BY <1>7 DEF StaffComment
  <2>2. (IF internal THEN <<>> ELSE <<Student>>) \in Seq(User)
    <3>1. <<Student>> \in Seq(User) /\ <<>> \in Seq(User)
      BY <1>1
    <3> QED
      BY <3>1
  <2>3. notes'[Student] \in Nat /\ notes'[Student] >= notes[Student] /\ log' = log
    BY <1>1, <1>7, <2>1, <2>2, NotifyReaches DEF StaffComment
  <2> QED
    BY <1>1, <1>2, <2>3
<1>8. ASSUME log' = log, notes' = notes
      PROVE  Cardinality(Moved(log')) <= notes'[Student]
  BY <1>2, <1>8
<1> QED
  BY <1>4, <1>5, <1>6, <1>7, <1>8
     DEF Next, EscalateToTicket, GetTicket, CommitBreach, Leave, Tick, rowVars, vars

\* The reply that commits is the one of the request that ends.
LEMMA ReplyReaches ==
  ASSUME Inductive, [Next]_vars, NEW q \in Request, ReplyCommits(q), Fresh(q)
  PROVE  /\ ticket'.status # "RESOLVED"
         /\ ticket.assignedTo # Nobody =>
              notes'[ticket.assignedTo] > notes[ticket.assignedTo]
<1> USE DEF Inductive
<1>1. PICK p \in Request : StudentReply(p)
  BY DEF ReplyCommits, Next, CreateTicket, EscalateToTicket, GetTicket, CommitBreach, Leave,
     UpdateTicket, StaffComment, Tick, rowVars, vars
<1>2. p = q
  BY <1>1 DEF ReplyCommits, StudentReply, Finish, TypeOK
<1> DEFINE old == copy[q]
           reopens == old.status = "RESOLVED"
           reopened == [old EXCEPT !.status = "OPEN"]
           new == IF reopens THEN RestartClock(reopened) ELSE old
           to == IF old.assignedTo = Nobody THEN <<>> ELSE <<old.assignedTo>>
<1>3. /\ WriteTicket(q, new, reopens) /\ Notify(to, Student) /\ pc[q] = "loaded"
      /\ old \in Ticket /\ old = ticket
  BY <1>1, <1>2 DEF StudentReply, TypeOK, CopiesKnown, Active
<1>4. reopened \in Ticket /\ reopened.status = "OPEN" /\ old.due \in Nat \cup {NoDue}
  BY <1>3 DEF Ticket, Status
<1>5. /\ RestartClock(reopened) \in Ticket /\ RestartClock(reopened).status = "OPEN"
  BY <1>4, RestartClockIs
<1> HIDE DEF reopened
<1>6. /\ new \in Ticket /\ new.status # "RESOLVED"
      /\ reopens => new # old
      /\ ~reopens => new.due = old.due
  BY <1>3, <1>5
<1>7. ticket' = new
  BY <1>3, <1>6, WriteIs DEF Active
<1>8. ASSUME old.assignedTo # Nobody
      PROVE  notes'[old.assignedTo] > notes[old.assignedTo]
  <2>1. old.assignedTo \in Staff /\ old.assignedTo \in User /\ old.assignedTo # Student
    BY <1>3, <1>8, PeopleAssumption DEF Ticket, User
  <2>2. to = <<old.assignedTo>> /\ to \in Seq(User)
    BY <1>8, <2>1
  <2>3. \E n \in DOMAIN to : to[n] = old.assignedTo
    BY <2>2
  <2> HIDE DEF to
  <2>4. /\ notes[old.assignedTo] \in Nat /\ notes'[old.assignedTo] \in Nat
        /\ notes'[old.assignedTo] >= notes[old.assignedTo] + 1
    BY <1>3, <2>1, <2>2, <2>3, NotifyReaches
  <2> QED
    BY <2>4
<1> QED
  BY <1>3, <1>6, <1>7, <1>8

-----------------------------------------------------------------------------
(* The theorems.                                                           *)

\* The strengthened invariant holds at first and is kept by every step.
THEOREM Invariance == Spec => []Inductive
<1>1. Inductive /\ UNCHANGED vars => Inductive'
  BY DEF vars, rowVars, requestVars, Inductive, TypeOK, CopiesKnown, Fresh, StampIsDue,
     LogEndsAtStatus, LogEnd, ChainUnlessRaced, IsChain, BreachUnlessRaced, BreachMeansOverdue,
     Overdue
<1>2. Inductive /\ [Next]_vars => Inductive'
  BY <1>1, CreateStep, EscalateStep, GetStep, StampStep, UpdateStep, ReplyStep, QuietStep, TickStep DEF Next
<1> QED
  BY <1>2, InductiveInit, PTL DEF Spec

\* Every variable keeps its type.
THEOREM TypeCorrect == Spec => []TypeOK
<1>1. Inductive => TypeOK
  BY DEF Inductive
<1> QED
  BY <1>1, Invariance, PTL

\* The status log of a ticket ends at the ticket's status, in commit order,
\* whatever handlers interleave: a status is written exactly when logged.
THEOREM LogIsCurrent == Spec => []LogEndsAtStatus
<1>1. Inductive => LogEndsAtStatus
  BY DEF Inductive
<1> QED
  BY <1>1, Invariance, PTL

\* Only a write over an unloaded version can break the chain of the log.
THEOREM LogIsChain == Spec => []ChainUnlessRaced
<1>1. Inductive => ChainUnlessRaced
  BY DEF Inductive
<1> QED
  BY <1>1, Invariance, PTL

\* Only a write over an unloaded version can leave a stamp on a ticket that
\* is not due.
THEOREM StampsAreDue == Spec => []BreachUnlessRaced
<1>1. Inductive => BreachUnlessRaced
  BY DEF Inductive
<1> QED
  BY <1>1, Invariance, PTL

\* A status change by staff is never without its note to the student,
\* whatever handlers interleave.
THEOREM MovesAreAnnounced == Spec => []MovesAnnounced
<1>1. Init => MovesAnnounced
  <2> SUFFICES ASSUME Init PROVE MovesAnnounced
    OBVIOUS
  <2>1. {i \in 1..Len(log) : log[i].by # Student} = {} /\ notes[Student] = 0
    BY DEF Init, User
  <2> QED
    BY <2>1, FS_EmptySet DEF MovesAnnounced
<1>2. Inductive /\ Inductive' /\ MovesAnnounced /\ [Next]_vars => MovesAnnounced'
  BY MovesStep
<1> QED
  BY <1>1, <1>2, Invariance, PTL DEF Spec

\* A student's reply that commits on the row it was decided on reopens a
\* resolved ticket and reaches its assignee.
THEOREM RepliesAreHeard == Spec => ReplyHeardUnlessRaced
<1>1. Inductive /\ [Next]_vars =>
        [\A q \in Request : ReplyCommits(q) /\ Fresh(q) =>
           /\ ticket'.status # "RESOLVED"
           /\ ticket.assignedTo # Nobody =>
                notes'[ticket.assignedTo] > notes[ticket.assignedTo]]_vars
  BY ReplyReaches
<1> QED
  BY <1>1, Invariance, PTL DEF Spec, ReplyHeardUnlessRaced
=============================================================================
