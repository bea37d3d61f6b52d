--------------------------- MODULE NotificationStore ---------------------------
(* The inbox in the browser: stores/notificationStore.ts under the bell       *)
(* (NotificationCenter) and NotificationsPage, against the inbox of           *)
(* app/services/notifications.py.  New rows come, another device reads, and   *)
(* answers are lost, refused or, where the network allows it, overtake each   *)
(* other.                                                                     *)
EXTENDS Naturals, Sequences, FiniteSets, SequencesExt

CONSTANTS
  Notes,               \* notifications that exist or will
  Faults,              \* subset of {"lose", "refuse", "device"}
  MaxMoves, MaxFlight  \* bounds: user events, requests in flight

ASSUME InboxAssumption ==
  /\ Faults \subseteq {"lose", "refuse", "device"}
  /\ MaxMoves \in Nat /\ MaxFlight \in Nat \ {0}

VARIABLES
  inbox,    \* the server: rows of the user, newest first
  items,    \* the store
  loading,
  error,
  page,     \* "away", "inbox" (NotificationsPage) or "ticket"
  panel,    \* the bell's panel is open
  flight,   \* requests and answers in the order they were sent
  ordered,  \* they are served and answered in that order
  moves

vars == <<inbox, items, loading, error, page, panel, flight, ordered, moves>>

Item(n, read) == [id |-> n, read |-> read]
ItemsOf(rows) == {rows[i].id : i \in DOMAIN rows}
unreadCount == Cardinality({i \in DOMAIN items : ~items[i].read})

\* Every row that is to be read, or the one with this id.
MarkIn(rows, n) ==
  [i \in DOMAIN rows |-> IF rows[i].id = n THEN Item(n, TRUE) ELSE rows[i]]
MarkAllIn(rows) == [i \in DOMAIN rows |-> Item(rows[i].id, TRUE)]

(***************************************************************************)
(* Calls.                                                                  *)
(***************************************************************************)
Call(kind, on, select) ==
  [kind |-> kind, on |-> on, select |-> select, state |-> "sent", got |-> <<>>]

Move == moves < MaxMoves /\ moves' = moves + 1 /\ UNCHANGED ordered

Push(call) == Len(flight) < MaxFlight /\ flight' = Append(flight, call)

fetchAll == Push(Call("list", {}, FALSE)) /\ loading' = TRUE /\ error' = FALSE

\* NotificationsPage asks for the list whenever it is opened.
OpenPage ==
  /\ Move
  /\ page # "inbox"
  /\ fetchAll
  /\ page' = "inbox" /\ panel' = FALSE
  /\ UNCHANGED <<inbox, items>>

LeavePage ==
  /\ Move
  /\ page = "inbox"
  /\ page' = "away"
  /\ UNCHANGED <<inbox, items, loading, error, panel, flight>>

TogglePanel ==
  /\ Move
  /\ panel' = ~panel
  /\ UNCHANGED <<inbox, items, loading, error, page, flight>>

markRead(n) ==
  /\ Move
  /\ page = "inbox"
  /\ Item(n, FALSE) \in Range(items)
  /\ Push(Call("read", {n}, FALSE))
  /\ UNCHANGED <<inbox, items, loading, error, page, panel>>

\* Mark all read, on the page or in the panel.
markAllRead ==
  /\ Move
  /\ page = "inbox" \/ panel
  /\ ~loading /\ unreadCount > 0
  /\ Push(Call("all", {}, FALSE))
  /\ UNCHANGED <<inbox, items, loading, error, page, panel>>

\* handleSelect: an unread item is marked first, then its ticket is opened.
handleSelect(n) ==
  /\ Move
  /\ panel
  /\ n \in ItemsOf(items)
  /\ IF Item(n, FALSE) \in Range(items)
     THEN /\ Push(Call("read", {n}, TRUE))
          /\ UNCHANGED <<page, panel>>
     ELSE /\ page' = "ticket" /\ panel' = FALSE
          /\ UNCHANGED flight
  /\ UNCHANGED <<inbox, items, loading, error>>

(***************************************************************************)
(* The server.                                                             *)
(***************************************************************************)
Answered(i, got) == flight' = [flight EXCEPT ![i].state = "ok", ![i].got = got]

\* mark_all_read: every row of the user that is there by now.
ServeOk(i) ==
  LET call == flight[i]
      rows == CASE call.kind = "list" -> inbox
                [] call.kind = "read" -> [j \in DOMAIN inbox |->
                     IF inbox[j].id \in call.on THEN Item(inbox[j].id, TRUE) ELSE inbox[j]]
                [] call.kind = "all" -> MarkAllIn(inbox)
  IN /\ inbox' = rows
     /\ \/ Answered(i, IF call.kind = "list" THEN rows ELSE <<>>)
        \/ "lose" \in Faults /\ flight' = [flight EXCEPT ![i].state = "failed"]

Serve(i) ==
  /\ flight[i].state = "sent"
  /\ ordered => \A j \in 1..(i - 1) : flight[j].state # "sent"
  /\ \/ ServeOk(i)
     \/ /\ "refuse" \in Faults
        /\ flight' = [flight EXCEPT ![i].state = "failed"]
        /\ UNCHANGED inbox
  /\ UNCHANGED <<items, loading, error, page, panel, ordered, moves>>

\* create_in_app for this user, by whatever happens to their tickets.
Arrive(n) ==
  /\ n \notin ItemsOf(inbox)
  /\ inbox' = <<Item(n, FALSE)>> \o inbox
  /\ UNCHANGED <<items, loading, error, page, panel, flight, ordered, moves>>

OtherDevice(n) ==
  /\ "device" \in Faults
  /\ n \in ItemsOf(inbox)
  /\ inbox' = MarkIn(inbox, n)
  /\ UNCHANGED <<items, loading, error, page, panel, flight, ordered, moves>>

ListFailed == items' = items /\ error' = TRUE /\ loading' = FALSE

TakeList(call) ==
  IF call.state = "ok" THEN items' = call.got /\ loading' = FALSE /\ UNCHANGED error
  ELSE ListFailed

\* Mutant: a call that failed is shown as if it had been done.
ShowMarkedAnyway(call) ==
  /\ items' = [i \in DOMAIN items |->
       IF call.kind = "all" \/ items[i].id \in call.on THEN Item(items[i].id, TRUE) ELSE items[i]]
  /\ UNCHANGED <<loading, error>>

\* Items of the store that are there by now are shown as read.
ShowMarked(call) ==
  /\ IF call.state = "ok"
     THEN /\ items' = [i \in DOMAIN items |->
               IF call.kind = "all" \/ items[i].id \in call.on
               THEN Item(items[i].id, TRUE) ELSE items[i]]
          /\ UNCHANGED error
     ELSE error' = TRUE /\ UNCHANGED items
  /\ UNCHANGED loading

\* Mutant: the ticket is opened only if the item could be marked.
OpenIfMarked(call) ==
  IF call.select /\ call.state = "ok"
  THEN page' = "ticket" /\ panel' = FALSE
  ELSE UNCHANGED <<page, panel>>

\* markRead has caught its error: the ticket is opened either way.
OpenChosen(call) ==
  IF call.select
  THEN page' = "ticket" /\ panel' = FALSE
  ELSE UNCHANGED <<page, panel>>

Take(i) ==
  LET call == flight[i]
  IN /\ call.state # "sent"
     /\ ordered => i = 1
     /\ flight' = RemoveAt(flight, i)
     /\ IF call.kind = "list" THEN TakeList(call) ELSE ShowMarked(call)
     /\ OpenChosen(call)
     /\ UNCHANGED <<inbox, ordered, moves>>

(***************************************************************************)
(* The specification.  The bell is mounted with the layout and has asked.  *)
(***************************************************************************)
Init ==
  /\ inbox \in {<<>>} \cup {<<Item(n, FALSE)>> : n \in Notes}
  /\ items = <<>> /\ loading = TRUE /\ error = FALSE
  /\ page = "away" /\ panel = FALSE
  /\ flight = <<Call("list", {}, FALSE)>>
  /\ ordered \in BOOLEAN /\ moves = 0

UserActs ==
  \/ OpenPage \/ LeavePage \/ TogglePanel \/ markAllRead
  \/ \E n \in Notes : markRead(n) \/ handleSelect(n)

Network == \E i \in DOMAIN flight : Serve(i) \/ Take(i)

Next == UserActs \/ Network \/ \E n \in Notes : Arrive(n) \/ OtherDevice(n)

\* A request is answered or times out.
Fairness == WF_vars(Network)

Spec == Init /\ [][Next]_vars /\ Fairness

(***************************************************************************)
(* Properties.                                                             *)
(***************************************************************************)
\* Types, and that the list has every row once (the id is its key).
TypeOK ==
  /\ {items[i].id : i \in DOMAIN items} \subseteq Notes
  /\ Cardinality(ItemsOf(items)) = Len(items)
  /\ \A i \in DOMAIN items : items[i].read \in BOOLEAN
  /\ {loading, error, panel, ordered} \subseteq BOOLEAN
  /\ page \in {"away", "inbox", "ticket"}
  /\ Len(flight) <= MaxFlight
  /\ moves \in 0..MaxMoves

\* The loading sign, which also disables the button of the panel and the page,
\* is on only while a list is on its way.
LoadingHasCause == loading => \E i \in DOMAIN flight : flight[i].kind = "list"

ServerRead(n) == Item(n, TRUE) \in Range(inbox)

\* What is shown as read is read at the server, so nothing is lost from the
\* count of the bell, unless answers overtake each other.
ShownReadIsRead ==
  ordered => \A i \in DOMAIN items : items[i].read => ServerRead(items[i].id)

\* What the browser holds is consistent at every moment.
Consistent == TypeOK /\ LoadingHasCause /\ ShownReadIsRead

\* Whoever marks an item and sees it marked does not find it unread again,
\* unless answers overtake each other.
ReadStaysRead ==
  [][ \A i \in DOMAIN items : ordered /\ items[i].read =>
        ~\E j \in DOMAIN items' : items'[j].id = items[i].id /\ ~items'[j].read ]_vars

\* A selection of the panel ends with the ticket's page, marked or not.
SelectionsOpen == (\E i \in DOMAIN flight : flight[i].select) ~> page = "ticket"
==============================================================================
