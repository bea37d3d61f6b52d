----------------------------- MODULE TicketStore -----------------------------
(* The browser's ticket store (stores/ticketStore.ts) over the ticket calls *)
(* of lib/api/tickets.ts and the rows of the server.                        *)
(*                                                                          *)
(* The store is one record, and each function of the store is split where   *)
(* it awaits: an operator for the set() before the request, which also says *)
(* which request leaves, and one for each set() after the answer.  Requests *)
(* in flight are a sequence in the order they left; the server works on     *)
(* them (Serve), and the pages take the answers (module TicketPages).       *)
EXTENDS Naturals, Sequences, FiniteSets, SequencesExt

CONSTANTS
  Tickets, NoTicket,     \* ticket ids, and the id of no ticket
  Users, Me, NoUser,     \* accounts, the one signed in, "unassigned"
  MyDept,                \* the department of the one signed in
  Owner,                 \* Owner[t]: who created t
  Statuses, Depts, Keep, \* Keep: a field a PATCH leaves out
  Comments, Files, NoFile,
  DefaultSize,           \* rows of a page
  Sessions               \* what a session can be, see below

ASSUME StoreAssumption ==
  /\ NoTicket \notin Tickets
  /\ Me \in Users /\ NoUser \notin Users
  /\ Owner \in [Tickets -> Users]
  /\ Keep \notin Statuses \cup Depts \cup Users \cup {NoUser}
  /\ NoFile \notin Files
  /\ {"open", "resolved", "closed"} \subseteq Statuses /\ "all" \notin Statuses
  /\ MyDept \in Depts
  /\ DefaultSize \in Nat \ {0}
  /\ \A s \in Sessions :
       /\ s.role \in {"student", "agent", "admin"}
       /\ s.ordered \in BOOLEAN
       /\ s.faults \subseteq {"refuse", "lose", "others"}
       /\ s.statuses \subseteq Statuses

VARIABLES
  rows,     \* rows[t]: the server's row, its comments and its files
  recency,  \* the tickets that exist, the last updated one first
  store,    \* the state of useTicketStore
  calls,    \* the requests in flight, oldest first
  session   \* a member of Sessions, chosen at the start

\* A session says whose it is and what the network and the others do in it.
Role == session.role
InOrder == session.ordered      \* requests are served and answered in order
Faults == session.faults
StatusChoices == session.statuses  \* the statuses that people set

(***************************************************************************)
(* Tickets as the browser holds them (toTicket).                           *)
(***************************************************************************)
Ticket(t, row, comments, files) ==
  [id |-> t, status |-> row.status, dept |-> row.dept,
   assignee |-> row.assignee, name |-> row.assignee,
   comments |-> comments, files |-> files]

Nothing ==
  Ticket(NoTicket, [status |-> "open", dept |-> MyDept, assignee |-> NoUser],
         <<>>, <<>>)

Listed(t) == Ticket(t, rows[t], <<>>, <<>>)

NoFilter == [status |-> "all", assignee |-> "all"]

InitStore ==
  [items |-> <<>>, total |-> 0, page |-> 1, pageSize |-> DefaultSize,
   scope |-> "mine", filters |-> NoFilter, selected |-> Nothing,
   loading |-> FALSE, detailLoading |-> FALSE, mutating |-> FALSE,
   error |-> "none"]

(***************************************************************************)
(* Lists: the endpoint has no parameters, the browser filters and cuts.    *)
(***************************************************************************)
Passes(x, p) ==
  /\ p.mine => Owner[x.id] = Me
  /\ Role = "agent" => x.dept = MyDept
  /\ p.status # "all" => x.status = p.status
  /\ p.assignee = "me" => x.assignee = Me
  /\ p.assignee = "unassigned" => x.assignee = NoUser

\* The entries of a list at these places, in their order.
EntriesAt(list, places) ==
  LET nth(k) == CHOOSE i \in places : Cardinality({j \in places : j <= i}) = k
  IN [k \in 1..Cardinality(places) |-> list[nth(k)]]

Without(list, x) == EntriesAt(list, {i \in DOMAIN list : list[i] # x})

filterTickets(source, p) == EntriesAt(source, {i \in DOMAIN source : Passes(source[i], p)})

paginate(list, page, size) ==
  LET safePage == IF page < 1 THEN 1 ELSE page
      start    == (safePage - 1) * size
      end      == IF start + size > Len(list) THEN Len(list) ELSE start + size
  IN [items |-> SubSeq(list, start + 1, end), total |-> Len(list),
      page |-> safePage, pageSize |-> size]

\* The first with its id is replaced (findIndex).
upsertTicket(items, x) ==
  LET same == {i \in DOMAIN items : items[i].id = x.id}
  IN IF same = {} THEN <<x>> \o items
     ELSE [items EXCEPT ![CHOOSE i \in same : \A j \in same : i <= j] = x]

(***************************************************************************)
(* The store's functions: before the request ...                           *)
(***************************************************************************)
setScope(s, scope) == [s EXCEPT !.scope = scope]

setFilters(s, field, value) ==
  [s EXCEPT !.filters = [@ EXCEPT ![field] = value], !.page = 1]

setPage(s, page) == [s EXCEPT !.page = IF page < 1 THEN 1 ELSE page]

\* fetchList() and fetchList({ page, pageSize }).
ListParams(s, page, size) ==
  [mine |-> s.scope = "mine", status |-> s.filters.status,
   assignee |-> s.filters.assignee, page |-> page, size |-> size]

ListCall(params) ==
  [op |-> "list", want |-> params, state |-> "sent", got |-> <<>>]

fetchList(s) == [s EXCEPT !.loading = TRUE, !.error = "none"]

DetailCall(t) ==
  [op |-> "detail", on |-> t, state |-> "sent",
   left |-> {"row", "comments", "files"}, got |-> Nothing]

fetchById(s) == [s EXCEPT !.detailLoading = TRUE, !.error = "none"]

\* createTicket, updateTicket, addComment, uploadAttachment,
\* deleteAttachment and bulkUpdate start alike.
StartMutation(s) == [s EXCEPT !.mutating = TRUE, !.error = "none"]

Mutations ==
  {"create", "uploadNew", "update", "comment", "upload", "remove", "bulk"}

MutationCall(op, t, want) ==
  [op |-> op, on |-> t, want |-> want, state |-> "sent", got |-> Nothing]

BulkCall(ids, patch) ==
  [op |-> "bulk", on |-> ids, want |-> patch, state |-> "sent",
   left |-> ToSet(ids), got |-> [t \in ToSet(ids) |-> Nothing], here |-> TRUE]

(***************************************************************************)
(* ... and after the answer.                                               *)
(***************************************************************************)
ListAnswered(s, c) ==
  LET result == paginate(filterTickets(c.got, c.want), c.want.page, c.want.size)
  IN [s EXCEPT !.items = result.items, !.total = result.total,
               !.page = result.page, !.pageSize = result.pageSize,
               !.loading = FALSE]

ListFailed(s) == [s EXCEPT !.loading = FALSE, !.error = "list"]

DetailAnswered(s, c) ==
  [s EXCEPT !.selected = c.got, !.items = upsertTicket(@, c.got),
            !.detailLoading = FALSE]

DetailFailed(s) ==
  [s EXCEPT !.selected = Nothing, !.detailLoading = FALSE, !.error = "detail"]

Created(s, x, error) ==
  [s EXCEPT !.items = <<x>> \o @, !.total = @ + 1, !.selected = x,
            !.mutating = FALSE, !.error = error]

MutationFailed(s, op) == [s EXCEPT !.mutating = FALSE, !.error = op]

\* Mutant: the answer of a PATCH replaces the ticket.
MergeNothing(x, previous) == x

\* PATCH answers omit the thread and the files: the selected copy keeps its own.
Merge(x, previous) ==
  [x EXCEPT !.comments = IF x.comments = <<>> THEN previous.comments ELSE @,
            !.name = IF x.name # NoUser THEN @
                     ELSE IF x.assignee = previous.assignee THEN previous.name
                     ELSE @,
            !.files = IF x.files = <<>> THEN previous.files ELSE @]

\* Mutant: the list gets the new ticket, the open ticket stays as it was.
ListOnlyUpdated(s, x) ==
  [s EXCEPT !.items = upsertTicket(@, x), !.mutating = FALSE]

TicketUpdated(s, x) ==
  LET same   == s.selected.id = x.id
      merged == IF same THEN Merge(x, s.selected) ELSE x
  IN [s EXCEPT !.items = upsertTicket(@, merged),
               !.selected = IF same THEN merged ELSE @,
               !.mutating = FALSE]

\* Mutant: the comment goes to whatever ticket is open.
CommentAnywhere(s, t, comment) ==
  [s EXCEPT !.selected = IF @.id = NoTicket THEN @
                         ELSE [@ EXCEPT !.comments = Append(@, comment)],
            !.mutating = FALSE]

CommentAdded(s, t, comment) ==
  LET selected == IF s.selected.id = t
                  THEN [s.selected EXCEPT !.comments = Append(@, comment)]
                  ELSE s.selected
      Patched(x) == IF x.id = t /\ selected.id # NoTicket THEN selected ELSE x
  IN [s EXCEPT !.selected = selected,
               !.items = [i \in DOMAIN @ |-> Patched(@[i])],
               !.mutating = FALSE]

\* uploadAttachment and deleteAttachment patch both copies of the ticket.
FilesPatched(s, t, Patch(_)) ==
  LET Patched(x) == IF x.id = t THEN [x EXCEPT !.files = Patch(@)] ELSE x
  IN [s EXCEPT !.selected = Patched(@),
               !.items = [i \in DOMAIN @ |-> Patched(@[i])],
               !.mutating = FALSE]

FileUploaded(s, t, file) ==
  FilesPatched(s, t, LAMBDA files : Append(files, file))

FileRemoved(s, t, file) ==
  FilesPatched(s, t, LAMBDA files : Without(files, file))

\* Mutant: the outcome of the single requests is not looked at.
BulkNoneFailed(c) == <<>>

BulkFailed(c) == EntriesAt(c.on, {k \in DOMAIN c.on : c.got[c.on[k]] = Nothing})

\* Promise.all keeps the order of the ids, reduce upserts one after another.
BulkAnswered(s, c) ==
  LET done == EntriesAt(c.on, {k \in DOMAIN c.on : c.got[c.on[k]] # Nothing})
      after[k \in 0..Len(done)] ==
        IF k = 0 THEN s.items ELSE upsertTicket(after[k - 1], c.got[done[k]])
  IN [s EXCEPT !.items = after[Len(done)],
               !.mutating = FALSE,
               !.error = IF BulkFailed(c) = <<>> THEN "none" ELSE "bulk"]

(***************************************************************************)
(* The server.                                                             *)
(***************************************************************************)
Exists(t) == \E i \in DOMAIN recency : recency[i] = t

Accessible(t) ==
  /\ Exists(t)
  /\ Role = "student" => Owner[t] = Me
  /\ Role = "agent" => rows[t].dept = MyDept

Touched(t) == <<t>> \o Without(recency, t)

InTurn(i) == InOrder => \A j \in 1..(i - 1) : calls[j].state # "sent"

\* The server does its work and the answer is on its way; or it refuses; or
\* the work is done and the answer is lost (the browser times out).
Answer(i, good, newRows, newRecency) ==
  \/ /\ rows' = newRows /\ recency' = newRecency
     /\ calls' = [calls EXCEPT ![i] = good]
  \/ /\ "refuse" \in Faults
     /\ calls' = [calls EXCEPT ![i].state = "error"]
     /\ UNCHANGED <<rows, recency>>
  \/ /\ "lose" \in Faults
     /\ rows' = newRows /\ recency' = newRecency
     /\ calls' = [calls EXCEPT ![i].state = "error"]

Forbidden(i) ==
  /\ calls' = [calls EXCEPT ![i].state = "error"]
  /\ UNCHANGED <<rows, recency>>

ServeList(i) ==
  LET raw == [k \in DOMAIN recency |-> Listed(recency[k])]
  IN /\ calls[i].op = "list"
     /\ Answer(i, [calls[i] EXCEPT !.state = "ok",
                    !.got = EntriesAt(raw, {k \in DOMAIN raw : Accessible(raw[k].id)})],
              rows, recency)

\* getById is three GETs whose answers may come from different moments;
\* the first that fails rejects the whole (Promise.all).
ServeDetail(i) ==
  LET c == calls[i]
      t == c.on
      got(part) ==
        CASE part = "row"      -> [c.got EXCEPT !.id = t, !.name = rows[t].assignee,
                                     !.status = rows[t].status, !.dept = rows[t].dept,
                                     !.assignee = rows[t].assignee]
          [] part = "comments" -> [c.got EXCEPT !.comments = rows[t].comments]
          [] part = "files"    -> [c.got EXCEPT !.files = rows[t].files]
  IN /\ c.op = "detail"
     /\ \E part \in c.left :
          IF Accessible(t)
          THEN Answer(i, [c EXCEPT !.left = @ \ {part}, !.got = got(part),
                           !.state = IF c.left = {part} THEN "ok" ELSE "sent"],
                     rows, recency)
          ELSE Forbidden(i)

Patched(row, p) ==
  [row EXCEPT !.status = IF p.status = Keep THEN @ ELSE p.status,
              !.assignee = IF p.assignee = Keep THEN @ ELSE p.assignee,
              !.dept = IF p.dept = Keep THEN @ ELSE p.dept]

ServeUpdate(i) ==
  LET c   == calls[i]
      t   == c.on
      row == Patched(rows[t], c.want)
  IN /\ c.op = "update"
     /\ IF Accessible(t)
        THEN Answer(i, [c EXCEPT !.state = "ok", !.got = Ticket(t, row, <<>>, <<>>)],
                   [rows EXCEPT ![t] = row], Touched(t))
        ELSE Forbidden(i)

\* Each PATCH of a bulk action is served and answered by itself.
ServeBulk(i) ==
  LET c == calls[i]
      row(t) == Patched(rows[t], c.want)
      rest(t) == [c EXCEPT !.left = @ \ {t},
                           !.state = IF c.left = {t} THEN "ok" ELSE "sent"]
  IN /\ c.op = "bulk"
     /\ \E t \in c.left :
          \/ /\ Accessible(t)
             /\ rows' = [rows EXCEPT ![t] = row(t)]
             /\ recency' = Touched(t)
             /\ \/ calls' = [calls EXCEPT ![i] =
                       [rest(t) EXCEPT !.got[t] = Ticket(t, row(t), <<>>, <<>>)]]
                \/ /\ "lose" \in Faults
                   /\ calls' = [calls EXCEPT ![i] = rest(t)]
          \/ /\ ~Accessible(t) \/ "refuse" \in Faults
             /\ calls' = [calls EXCEPT ![i] = rest(t)]
             /\ UNCHANGED <<rows, recency>>

ServeComment(i) ==
  LET c   == calls[i]
      t   == c.on
      row == [rows[t] EXCEPT !.comments = Append(@, c.want),
                !.status = IF Role = "student" /\ @ = "resolved" THEN "open" ELSE @]
  IN /\ c.op = "comment"
     /\ IF Accessible(t)
        THEN Answer(i, [c EXCEPT !.state = "ok"], [rows EXCEPT ![t] = row],
                   IF row.status = rows[t].status THEN recency ELSE Touched(t))
        ELSE Forbidden(i)

ServeFiles(i) ==
  LET c == calls[i]
      t == c.on
      files == IF c.op = "remove"
               THEN Without(rows[t].files, c.want)
               ELSE Append(rows[t].files, c.want)
  IN /\ c.op \in {"upload", "uploadNew", "remove"}
     /\ IF Accessible(t) /\ (c.op = "remove" => c.want \in ToSet(rows[t].files))
        THEN Answer(i, [c EXCEPT !.state = "ok"],
                   [rows EXCEPT ![t].files = files], recency)
        ELSE Forbidden(i)

ServeCreate(i) ==
  /\ calls[i].op = "create"
  /\ \E t \in Tickets :
       /\ ~Exists(t) /\ Owner[t] = Me
       /\ Answer(i, [calls[i] EXCEPT !.state = "ok", !.got = Listed(t)],
                rows, Touched(t))

Serve(i) ==
  /\ calls[i].state = "sent"
  /\ InTurn(i)
  /\ \/ ServeList(i) \/ ServeDetail(i) \/ ServeUpdate(i) \/ ServeBulk(i)
     \/ ServeComment(i) \/ ServeFiles(i) \/ ServeCreate(i)
  /\ UNCHANGED <<store, session>>

\* Another account changes a ticket.
OthersAct ==
  /\ "others" \in Faults
  /\ \E t \in Tickets, s \in StatusChoices, u \in Users \cup {NoUser} :
       /\ Exists(t)
       /\ <<s, u>> # <<rows[t].status, rows[t].assignee>>
       /\ rows' = [rows EXCEPT ![t].status = s, ![t].assignee = u]
       /\ recency' = Touched(t)
  /\ UNCHANGED <<store, calls, session>>
==============================================================================
