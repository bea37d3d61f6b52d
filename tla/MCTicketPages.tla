---------------------------- MODULE MCTicketPages ----------------------------
(* Bounded instances of TicketPages.                                        *)
EXTENDS TicketPages, TLC

CONSTANTS t1, t2, t3, me, student

MCOwner == (t1 :> me) @@ (t2 :> student) @@ (t3 :> me)

Row(s, u) == [status |-> s, dept |-> "it", assignee |-> u, comments |-> <<>>, files |-> <<>>]

Mixed == (t1 :> Row("open", me)) @@ (t2 :> Row("closed", NoUser)) @@ (t3 :> Row("open", NoUser))
Open == (t1 :> Row("open", me)) @@ (t2 :> Row("open", NoUser)) @@ (t3 :> Row("open", NoUser))

\* Lists, filters, page turns and bulk actions of an admin.
Browsing ==
  [role |-> "admin", ordered |-> TRUE, faults |-> {"refuse"},
   statuses |-> {"open", "closed"}, existing |-> {t1, t2, t3}, rows |-> Mixed,
   places |-> {At("agentHome"), At("queue"), At("mine"), At("logTicket")},
   moves |-> {"visit", "status", "turn", "log"}, events |-> 4]
Bulking ==
  [Browsing EXCEPT !.faults = {"refuse", "lose"}, !.rows = Open,
     !.places = {At("queue")}, !.events = 5,
     !.moves = {"visit", "pick", "assign", "close", "assignee"}]

\* Two tickets in the hands of an agent.
Working ==
  [role |-> "agent", ordered |-> TRUE, faults |-> {"refuse"},
   statuses |-> {"open", "resolved"}, existing |-> {t1, t2, t3}, rows |-> Open,
   places |-> {DetailOf(t1), DetailOf(t2), At("queue")}, events |-> 3,
   moves |-> {"visit", "status", "reassign", "reply", "upload", "remove", "resolve"}]
Racing ==
  [Working EXCEPT !.ordered = FALSE, !.faults = {"refuse", "lose", "others"},
     !.places = {DetailOf(t1), DetailOf(t2)},
     !.moves = {"visit", "status", "reassign", "reply"}]

\* A student's own tickets, t3 still to be created.
Studying ==
  [role |-> "student", ordered |-> TRUE, faults |-> {"refuse"},
   statuses |-> {"open"}, existing |-> {t1, t2},
   rows |-> [Open EXCEPT ![t1].status = "resolved"],
   places |-> {At("home"), At("mine"), At("create"), DetailOf(t1)}, events |-> 4,
   moves |-> {"visit", "submit", "upload", "remove", "reply"}]

MCSessions == {Browsing, Bulking, Working, Racing, Studying}
==============================================================================
