----------------------------- MODULE TicketPages -----------------------------
(* The pages over the ticket store: dashboards, My tickets, the staff queue *)
(* with its selection and bulk actions, the ticket page with its routing    *)
(* panel, reply box and files, and the two create forms.                    *)
(*                                                                          *)
(* JavaScript runs to completion: a store change re-renders a list page and *)
(* its effect fetches again before the browser takes another event, so      *)
(* every other step waits while RefetchDue.                                 *)
EXTENDS TicketStore

CONSTANTS
  MaxCalls,                \* bound: requests in flight
  HomeSize, AgentHomeSize  \* rows the dashboards ask for

At(page) == [page |-> page, ticket |-> NoTicket]
DetailOf(t) == [page |-> "detail", ticket |-> t]

ASSUME PagesAssumption ==
  /\ {MaxCalls, HomeSize, AgentHomeSize} \subseteq Nat \ {0}
  /\ \A s \in Sessions :
       /\ s.existing \subseteq Tickets /\ IsFiniteSet(s.existing)
       /\ s.places \subseteq {At(page) : page \in {"home", "mine", "create", "agentHome",
                                                "queue", "logTicket"}}
                           \cup {DetailOf(t) : t \in Tickets}
       /\ s.rows \in [Tickets -> [status : Statuses, dept : Depts,
                                 assignee : Users \cup {NoUser},
                                 comments : {<<>>}, files : {<<>>}]]
       /\ s.events \in Nat

VARIABLES
  place,   \* the page on the screen
  seen,    \* what the list page's effect last ran with, <<>> elsewhere
  picked,  \* QueuePage: the ticked tickets, in the order they were ticked
  moves    \* events of users so far

pages == <<place, seen, picked, moves>>
vars == <<rows, recency, store, calls, session, pages>>

\* A session also says where the user goes and what there is at first.
Places == session.places    \* the pages the user visits, [page, ticket]
Moves == session.moves      \* what the user does there
MaxMoves == session.events  \* bound: events of users

ListPages == {"mine", "queue"}
OnList == place.page \in ListPages

\* Mutant: the effect's dependencies have one too many.
DepsError(s) == <<s.filters, s.page, s.pageSize, s.scope, s.error>>

Deps(s) == <<s.filters, s.page, s.pageSize, s.scope>>

RefetchDue == OnList /\ seen # Deps(store)

ParamsOf(s) == ListParams(s, s.page, s.pageSize)

(***************************************************************************)
(* Mounting a page: its effects, and the request they send.                *)
(***************************************************************************)
HomeFilters(s, fields) ==
  [setPage(s, 1) EXCEPT
     !.filters = [f \in DOMAIN @ |-> IF f \in fields THEN "all" ELSE @[f]]]

MountSet(s, p) ==
  CASE p.page = "mine"      -> setScope(s, "mine")
    [] p.page = "queue"     -> setScope(s, "queue")
    [] p.page = "home"      -> HomeFilters(setScope(s, "mine"), {"status"})
    [] p.page = "agentHome" ->
         HomeFilters(setScope(s, "queue"), {"status", "assignee"})
    [] OTHER                -> s

Mounted(s, p) ==
  CASE p.page \in ListPages \cup {"home", "agentHome"} -> fetchList(MountSet(s, p))
    [] p.page = "detail" -> fetchById(s)
    [] OTHER             -> s

MountCalls(s, p) ==
  CASE p.page \in ListPages -> <<ListCall(ParamsOf(MountSet(s, p)))>>
    [] p.page = "home"      -> <<ListCall(ListParams(MountSet(s, p), 1, HomeSize))>>
    [] p.page = "agentHome" -> <<ListCall(ListParams(MountSet(s, p), 1, AgentHomeSize))>>
    [] p.page = "detail"    -> <<DetailCall(p.ticket)>>
    [] OTHER                -> <<>>

\* A bulk action that outlives its page no longer has a selection to set.
Orphaned(cs) ==
  [i \in DOMAIN cs |->
     IF cs[i].op = "bulk" THEN [cs[i] EXCEPT !.here = FALSE] ELSE cs[i]]

Enter(s, cs, p) ==
  IF p = place
  THEN /\ store' = s /\ calls' = cs
       /\ UNCHANGED <<place, seen, picked>>
  ELSE /\ place' = p
       /\ store' = Mounted(s, p)
       /\ calls' = Orphaned(cs) \o MountCalls(s, p)
       /\ seen' = IF p.page \in ListPages THEN Deps(s) ELSE <<>>
       /\ picked' = <<>>

\* The effect of TicketListPage and QueuePage on [filters, page, pageSize, scope].
Refetch ==
  /\ RefetchDue
  /\ store' = fetchList(store)
  /\ calls' = Append(calls, ListCall(ParamsOf(store)))
  /\ seen' = Deps(store)
  /\ UNCHANGED <<rows, recency, place, picked, moves, session>>

(***************************************************************************)
(* User events.                                                            *)
(***************************************************************************)
Move(m) ==
  /\ m \in Moves
  /\ ~RefetchDue
  /\ moves < MaxMoves
  /\ Len(calls) + 2 <= MaxCalls
  /\ moves' = moves + 1
  /\ UNCHANGED <<rows, recency, session>>

OnPage(page) == place.page = page

Stay == UNCHANGED <<place, seen, picked>>

Visit(p) == Move("visit") /\ p # place /\ Enter(store, calls, p)

\* The status filter of My tickets, and the tabs and filters of the queue.
FilterMine(status) ==
  /\ OnPage("mine")
  /\ Move("status")
  /\ store' = setFilters(store, "status", status)
  /\ UNCHANGED calls /\ Stay

FilterQueue(field, value) ==
  /\ OnPage("queue")
  /\ Move(field)
  /\ store' = setFilters(store, field, value)
  /\ UNCHANGED calls /\ Stay

Turn(page) ==
  /\ OnList /\ ~store.loading
  /\ Move("turn")
  /\ store' = setPage(store, page)
  /\ UNCHANGED calls /\ Stay

PrevPage == store.page > 1 /\ Turn(store.page - 1)

NextPage == store.page * store.pageSize < store.total /\ Turn(store.page + 1)

\* The lines of the queue's table.
Lines == IF store.loading THEN {} ELSE ToSet(store.items)

toggle(t) ==
  /\ OnPage("queue")
  /\ Move("pick")
  /\ picked' = IF Contains(picked, t) THEN Without(picked, t) ELSE Append(picked, t)
  /\ UNCHANGED <<store, calls, place, seen>>

ClearSelection ==
  /\ OnPage("queue") /\ picked # <<>>
  /\ Move("pick")
  /\ picked' = <<>>
  /\ UNCHANGED <<store, calls, place, seen>>

\* The bar of bulk actions shows while tickets are ticked.
BulkBar == OnPage("queue") /\ picked # <<>> /\ ~store.mutating

Bulk(m, patch) ==
  /\ BulkBar
  /\ Move(m)
  /\ store' = StartMutation(store)
  /\ calls' = Append(calls, BulkCall(picked, patch))
  /\ Stay

\* The fields of a PATCH; name is not sent, it is what reassignTicket is to
\* write.
NoChange == [status |-> Keep, assignee |-> Keep, dept |-> Keep, name |-> Keep]

assignTo(u) == Bulk("assign", [NoChange EXCEPT !.assignee = u])

closeSelected == Bulk("close", [NoChange EXCEPT !.status = "closed"])

Shown == store.selected.id
OnTicket == OnPage("detail") /\ Shown # NoTicket

Mutate(m, op, want) ==
  /\ Move(m)
  /\ store' = StartMutation(store)
  /\ calls' = Append(calls, MutationCall(op, Shown, want))
  /\ Stay

\* The status and priority selects stay enabled while a change is in flight.
SelectStatus(s) ==
  OnTicket /\ Role # "student" /\ Mutate("status", "update", [NoChange EXCEPT !.status = s])

Resolve ==
  /\ OnTicket /\ Role # "student" /\ ~store.mutating
  /\ Mutate("resolve", "update", [NoChange EXCEPT !.status = "resolved"])

\* RoutingPanel.reassignTicket looks the name up in the list of the staff,
\* which may have failed to load.
Reassign(u, d) ==
  /\ OnTicket /\ Role # "student" /\ ~store.mutating
  /\ \E name \in {u, NoUser} :
       Mutate("reassign", "update", [NoChange EXCEPT !.assignee = u, !.dept = d, !.name = name])

Unused(c) ==
  /\ \A t \in Tickets : c \notin ToSet(rows[t].comments)
  /\ \A i \in DOMAIN calls : calls[i].op = "comment" => calls[i].want # c

CanReply == OnTicket /\ ~store.mutating

Reply(c) == CanReply /\ Unused(c) /\ Mutate("reply", "comment", c)

Upload(f) ==
  /\ OnTicket /\ ~store.mutating
  /\ \A t \in Tickets : f \notin ToSet(rows[t].files)
  /\ Mutate("upload", "upload", f)

RemoveFile(f) ==
  /\ OnTicket /\ ~store.mutating
  /\ Contains(store.selected.files, f)
  /\ Mutate("remove", "remove", f)

\* TicketCreatePage.onSubmit, with or without a file.
SubmitTicket(f) ==
  /\ OnPage("create") /\ ~store.mutating
  /\ \E t \in Tickets : ~Exists(t) /\ Owner[t] = Me
  /\ Move("submit")
  /\ store' = StartMutation(store)
  /\ calls' = Append(calls, MutationCall("create", NoTicket, f))
  /\ Stay

\* AgentCreateTicketPage.onSubmit.
LogTicket ==
  /\ OnPage("logTicket")
  /\ Move("log")
  /\ Enter(store, calls, At("queue"))

(***************************************************************************)
(* Answers.                                                                *)
(***************************************************************************)
Taken(i, op) ==
  /\ ~RefetchDue
  /\ calls[i].op = op /\ calls[i].state # "sent"
  /\ InOrder => i = 1
  /\ UNCHANGED <<rows, recency, moves, session>>

Ok(i) == calls[i].state = "ok"
Others(i) == RemoveAt(calls, i)

TakeList(i) ==
  /\ Taken(i, "list")
  /\ store' = IF Ok(i) THEN ListAnswered(store, calls[i]) ELSE ListFailed(store)
  /\ calls' = Others(i) /\ Stay

\* getById ends with assertTicketVisible on what the answer says.
Visible(x) ==
  /\ Role = "student" => Owner[x.id] = Me
  /\ Role = "agent" => x.dept = MyDept

TakeDetail(i) ==
  /\ Taken(i, "detail")
  /\ store' = IF Ok(i) /\ Visible(calls[i].got)
              THEN DetailAnswered(store, calls[i]) ELSE DetailFailed(store)
  /\ calls' = Others(i) /\ Stay

\* After the form's ticket exists the page goes to My tickets, wherever the
\* user is by then.
TakeCreate(i) ==
  LET c == calls[i]
  IN /\ Taken(i, "create")
     /\ IF ~Ok(i)
        THEN store' = MutationFailed(store, "create") /\ calls' = Others(i) /\ Stay
        ELSE IF c.want = NoFile
        THEN Enter(Created(store, c.got, store.error), Others(i), At("mine"))
        ELSE /\ calls' = Append(Others(i),
                  [MutationCall("uploadNew", c.got.id, c.want) EXCEPT !.got = c.got])
             /\ UNCHANGED store /\ Stay

TakeUploadNew(i) ==
  LET c == calls[i]
      x == IF Ok(i) THEN [c.got EXCEPT !.files = Append(@, c.want)] ELSE c.got
      e == IF Ok(i) THEN store.error ELSE "uploadNew"
  IN Taken(i, "uploadNew") /\ Enter(Created(store, x, e), Others(i), At("mine"))

\* reassignTicket then writes the name it looked up before the request.
Renamed(s, c) ==
  IF c.want.name # Keep /\ s.selected.id = c.on
  THEN [s EXCEPT !.selected.name = c.want.name] ELSE s

TakeUpdate(i) ==
  /\ Taken(i, "update")
  /\ store' = IF Ok(i) THEN Renamed(TicketUpdated(store, calls[i].got), calls[i])
              ELSE MutationFailed(store, "update")
  /\ calls' = Others(i) /\ Stay

TakeComment(i) ==
  /\ Taken(i, "comment")
  /\ store' = IF Ok(i) THEN CommentAdded(store, calls[i].on, calls[i].want)
              ELSE MutationFailed(store, "comment")
  /\ calls' = Others(i) /\ Stay

TakeFile(i) ==
  LET c == calls[i]
  IN /\ \/ /\ Taken(i, "upload")
           /\ store' = IF Ok(i) THEN FileUploaded(store, c.on, c.want)
                       ELSE MutationFailed(store, "upload")
        \/ /\ Taken(i, "remove")
           /\ store' = IF Ok(i) THEN FileRemoved(store, c.on, c.want)
                       ELSE MutationFailed(store, "remove")
     /\ calls' = Others(i) /\ Stay

\* ... then the failed tickets stay ticked and the list is fetched again.
TakeBulk(i) ==
  LET c == calls[i]
      s == BulkAnswered(store, c)
  IN /\ Taken(i, "bulk")
     /\ picked' = IF c.here THEN BulkFailed(c) ELSE picked
     /\ store' = fetchList(s)
     /\ calls' = Append(Others(i), ListCall(ParamsOf(s)))
     /\ UNCHANGED <<place, seen>>

Take(i) ==
  \/ TakeList(i) \/ TakeDetail(i) \/ TakeCreate(i) \/ TakeUploadNew(i)
  \/ TakeUpdate(i) \/ TakeComment(i) \/ TakeFile(i) \/ TakeBulk(i)

(***************************************************************************)
(* The specification.                                                      *)
(***************************************************************************)
Act ==
  \/ \E p \in Places : Visit(p)
  \/ \E s \in StatusChoices \cup {"all"} : FilterMine(s) \/ FilterQueue("status", s)
  \/ \E a \in {"all", "me", "unassigned"} : FilterQueue("assignee", a)
  \/ PrevPage
  \/ NextPage
  \/ \E x \in Lines : toggle(x.id)
  \/ ClearSelection
  \/ \E u \in Users \cup {NoUser} : assignTo(u)
  \/ closeSelected
  \/ \E s \in StatusChoices : SelectStatus(s)
  \/ Resolve
  \/ \E u \in Users \cup {NoUser}, d \in Depts : Reassign(u, d)
  \/ \E c \in Comments : Reply(c)
  \/ \E f \in Files : Upload(f) \/ RemoveFile(f)
  \/ \E f \in Files \cup {NoFile} : SubmitTicket(f)
  \/ LogTicket

ServeAny == ~RefetchDue /\ \E i \in DOMAIN calls : Serve(i) /\ UNCHANGED pages
TakeAny == \E i \in DOMAIN calls : Take(i)

\* What other accounts do counts against the bound on events.
OthersMove ==
  /\ ~RefetchDue
  /\ moves < MaxMoves /\ moves' = moves + 1
  /\ OthersAct
  /\ Stay

Init ==
  /\ session \in Sessions
  /\ rows = session.rows
  /\ recency = SetToSeq(session.existing)
  /\ store = InitStore
  /\ calls = <<>>
  /\ place = At("start") /\ seen = <<>> /\ picked = <<>> /\ moves = 0

Next ==
  \/ Act \/ Refetch \/ ServeAny \/ TakeAny
  \/ OthersMove

\* The browser runs its effects, and every request is answered or times out.
Fairness == WF_vars(Refetch) /\ WF_vars(ServeAny) /\ WF_vars(TakeAny)

Spec == Init /\ [][Next]_vars /\ Fairness

(***************************************************************************)
(* Properties.                                                             *)
(***************************************************************************)
InFlight(ops) == \E i \in DOMAIN calls : calls[i].op \in ops
Quiet == calls = <<>> /\ ~RefetchDue

TicketType ==
  [id : Tickets \cup {NoTicket}, status : Statuses, dept : Depts,
   assignee : Users \cup {NoUser}, name : Users \cup {NoUser},
   comments : Seq(Comments), files : Seq(Files)]

RowType ==
  [status : Statuses, dept : Depts, assignee : Users \cup {NoUser},
   comments : Seq(Comments), files : Seq(Files)]

FilterType == [status : Statuses \cup {"all"}, assignee : {"all", "me", "unassigned"}]

StoreType ==
  [items : Seq({x \in TicketType : x.id # NoTicket}), total : Nat, page : Nat, pageSize : Nat,
   scope : {"mine", "queue"}, filters : FilterType, selected : TicketType,
   loading : BOOLEAN, detailLoading : BOOLEAN, mutating : BOOLEAN,
   error : {"none", "list", "detail"} \cup Mutations]

\* The types of the rows, the store and the page state.
TypeOK ==
  /\ session \in Sessions
  /\ rows \in [Tickets -> RowType]
  /\ recency \in Seq(Tickets)
  /\ store \in StoreType
  /\ picked \in Seq(Tickets)
  /\ place \in Places \cup {At("start"), At("mine"), At("queue")}
  /\ moves \in 0..MaxMoves

\* No spinner and no disabled button outlives its request: loading,
\* detailLoading and mutating are set only while a request that will clear
\* them is in flight, whatever fails and in whatever order answers come.
SpinnersHaveCause ==
  /\ store.loading => InFlight({"list"})
  /\ store.detailLoading => InFlight({"detail"})
  /\ store.mutating => InFlight(Mutations)

\* A comment is never shown under another ticket than the one it was posted
\* to, and never before the server has it.
ThreadsBelong ==
  \A x \in ToSet(store.items) \cup {store.selected} :
    x.id # NoTicket => ToSet(x.comments) \subseteq ToSet(rows[x.id].comments)

\* The name beside the ticket is never that of another than its assignee.
NameMatches == store.selected.name \in {store.selected.assignee, NoUser}

\* What the browser holds is consistent at every moment: types, spinners,
\* threads and names.
Consistent == TypeOK /\ SpinnersHaveCause /\ ThreadsBelong /\ NameMatches

\* What is on the ticket page stays there while the page shows that ticket:
\* only another fetch of the ticket may take comments away.
ThreadStays ==
  [][ \/ \E i \in DOMAIN calls : TakeDetail(i)
      \/ ~OnPage("detail") \/ place' # place
      \/ store'.selected.id # store.selected.id
      \/ IsPrefix(store.selected.comments, store'.selected.comments) ]_vars

\* Tickets are changed by the bulk actions and the create forms only.
SingleHanded ==
  "others" \notin Faults /\ \A p \in Places : p.page # "detail"

\* ... and the list pages are all that puts tickets on them.
Undisturbed == SingleHanded /\ \A p \in Places : p.page # "create"

\* What the endpoint lists for the one signed in.
CurrentList ==
  LET raw == [k \in DOMAIN recency |-> Listed(recency[k])]
  IN EntriesAt(raw, {k \in DOMAIN raw : Accessible(raw[k].id)})

\* When nothing is in flight and no error is shown, a list page shows the
\* server's tickets for the filters and the page it displays, however often
\* its effect had to ask and whatever a bulk action did.  Not held to it are
\* answers that overtake each other, and those to a change of another page:
\* they put their ticket into the list, whatever it shows by then.
ListSettled ==
  LET now == paginate(filterTickets(CurrentList, ParamsOf(store)), store.page, store.pageSize)
  IN (InOrder /\ Undisturbed /\ Quiet /\ OnList /\ store.error = "none") =>
       store.items = now.items /\ store.total = now.total

\* x is t with this row.  A student's reply reopens a resolved ticket, and the
\* page goes on to call it resolved; a reassignment may have found no name.
UpToDate(x, t, row) ==
  LET now == [Ticket(t, row, row.comments, row.files) EXCEPT !.name = x.name]
  IN /\ x.name \in {row.assignee, NoUser}
     /\ \/ x = now
        \/ Role = "student" /\ row.status = "open" /\ x = [now EXCEPT !.status = "resolved"]

\* ... and the ticket page shows the ticket of its address as the server has
\* it, after any changes, replies and files.  Not held to it is a change whose
\* answer was lost, once the next one has cleared the error.
DetailSettled ==
  (/\ InOrder /\ {"others", "lose"} \cap Faults = {}
   /\ Quiet /\ OnPage("detail") /\ store.error = "none") =>
     UpToDate(store.selected, place.ticket, rows[place.ticket])

\* At rest the screen is the server's.
Settled == ListSettled /\ DetailSettled

\* A ticket that a bulk action takes off the selection has the value that was
\* asked for; one the server refused stays ticked.  Only another account, or
\* the same one on the ticket page, can have changed it by then.
BulkHonest ==
  [][ SingleHanded =>
        \A i \in DOMAIN calls :
          TakeBulk(i) /\ calls[i].here =>
            \A t \in ToSet(calls[i].on) \ ToSet(picked') :
              Patched(rows[t], calls[i].want) = rows[t] ]_vars

\* Two lists are in flight that will set page or page size differently.
Disagree ==
  \E i, j \in DOMAIN calls :
    /\ calls[i].op = "list" /\ calls[j].op = "list"
    /\ \/ calls[i].want.page # calls[j].want.page
       \/ calls[i].want.size # calls[j].want.size

\* Once the user stops, buttons and pages come to rest, and the list pages
\* stop asking; only two lists that set the page or its size in turn can keep
\* the effect fetching.
ComesToRest ==
  /\ <>[](~store.mutating /\ ~store.detailLoading)
  /\ <>[]~InFlight({"list"}) \/ []<>Disagree
==============================================================================
