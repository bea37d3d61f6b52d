----------------------- MODULE NotificationStoreProofs -----------------------
(* What NotificationStore guarantees for any notifications and faults.      *)
EXTENDS NotificationStore, FiniteSetTheorems, TLAPS

Row == [id : Notes, read : BOOLEAN]

CallRec ==
  [kind : {"list", "read", "all"}, on : SUBSET Notes, select : BOOLEAN,
   state : {"sent", "ok", "failed"}, got : Seq(Row)]

Distinct(rows) == \A i, j \in DOMAIN rows : rows[i].id = rows[j].id => i = j
Read(rows, n) == \E i \in DOMAIN rows : rows[i].id = n /\ rows[i].read
Unread(rows, n) == \E i \in DOMAIN rows : rows[i].id = n /\ ~rows[i].read

\* The rows with those of a set marked.
Marked(rows, S) ==
  [i \in DOMAIN rows |-> IF rows[i].id \in S THEN Item(rows[i].id, TRUE) ELSE rows[i]]

Served(i, kind) == flight[i].kind = kind /\ flight[i].state = "ok"

\* What the user sees or will see as read by the answers before the i-th:
\* shown by now, listed, marked, or marked with all that is listed before.
Sure(n, i) ==
  \/ Read(items, n)
  \/ \E j \in 1..(i - 1) : Served(j, "list") /\ Read(flight[j].got, n)
  \/ \E j \in 1..(i - 1) : Served(j, "read") /\ n \in flight[j].on
  \/ \E j \in 1..(i - 1) : Served(j, "all") /\ n \in ItemsOf(items)
  \/ \E j \in 1..(i - 1) : \E k \in 1..(j - 1) :
       Served(j, "all") /\ Served(k, "list") /\ n \in ItemsOf(flight[k].got)

Types ==
  /\ inbox \in Seq(Row) /\ items \in Seq(Row)
  /\ flight \in Seq(CallRec) /\ Len(flight) <= MaxFlight
  /\ {loading, error, panel, ordered} \subseteq BOOLEAN
  /\ page \in {"away", "inbox", "ticket"}
  /\ moves \in 0..MaxMoves

\* Every list has a row once, and only rows of the inbox.
Once ==
  /\ Distinct(inbox) /\ Distinct(items)
  /\ \A i \in DOMAIN flight : Distinct(flight[i].got)

Known ==
  /\ ItemsOf(items) \subseteq ItemsOf(inbox)
  /\ \A i \in DOMAIN flight : ItemsOf(flight[i].got) \cup flight[i].on \subseteq ItemsOf(inbox)

ServedInOrder ==
  \A i \in DOMAIN flight : \A j \in 1..(i - 1) :
    flight[i].state # "sent" => flight[j].state # "sent"

\* What is shown as read, or will be, is read at the server.
SureIsRead == \A n \in Notes : Sure(n, Len(flight) + 1) => Read(inbox, n)

\* No list brings an item back unread that the answers before it show as read.
ListsAreNewer ==
  \A i \in DOMAIN flight : \A n \in Notes :
    Served(i, "list") /\ Sure(n, i) => ~Unread(flight[i].got, n)

Inductive ==
  /\ Types /\ Once /\ Known /\ LoadingHasCause
  /\ ordered => ServedInOrder /\ SureIsRead /\ ListsAreNewer

\* The step leaves what is shown as read.
NoneUnread ==
  \A i \in DOMAIN items : ordered /\ items[i].read =>
    ~\E j \in DOMAIN items' : items'[j].id = items[i].id /\ ~items'[j].read
-----------------------------------------------------------------------------
(* Helpers.                                                                *)

\* A row of a list.
LEMMA RowIs ==
  ASSUME NEW rows \in Seq(Row)
  PROVE  \A i \in DOMAIN rows : rows[i].id \in Notes /\ rows[i].read \in BOOLEAN /\ rows[i] \in Row
<1> TAKE i \in DOMAIN rows
<1>1. rows[i] \in Row
  OBVIOUS
<1> QED
  BY <1>1 DEF Row

\* Marking keeps the rows and reads what it marks.
LEMMA MarkedIs ==
  ASSUME NEW rows \in Seq(Row), NEW S
  PROVE  /\ Marked(rows, S) \in Seq(Row)
         /\ DOMAIN Marked(rows, S) = DOMAIN rows
         /\ ItemsOf(Marked(rows, S)) = ItemsOf(rows)
         /\ Distinct(rows) => Distinct(Marked(rows, S))
         /\ \A n : Read(Marked(rows, S), n) <=>
                     Read(rows, n) \/ (n \in S /\ n \in ItemsOf(rows))
         /\ \A n : Unread(Marked(rows, S), n) => Unread(rows, n)
<1> DEFINE m == Marked(rows, S)
<1>1. \A i \in DOMAIN rows : rows[i].id \in Notes /\ rows[i].read \in BOOLEAN /\ rows[i] \in Row
  BY RowIs
<1>2. DOMAIN rows = 1..Len(rows) /\ Len(rows) \in Nat
  OBVIOUS
<1>3. /\ DOMAIN m = DOMAIN rows
      /\ \A i \in DOMAIN rows : m[i] = IF rows[i].id \in S THEN Item(rows[i].id, TRUE) ELSE rows[i]
  BY DEF Marked
<1> HIDE DEF m
<1>4. ASSUME NEW i \in DOMAIN rows
      PROVE  /\ m[i] \in Row /\ m[i].id = rows[i].id
             /\ m[i].read <=> rows[i].read \/ rows[i].id \in S
  <2>1. CASE rows[i].id \in S
    <3>1. m[i] = [id |-> rows[i].id, read |-> TRUE]
      BY <1>3, <2>1 DEF Item
    <3> QED
      BY <1>1, <2>1, <3>1 DEF Row
  <2>2. CASE rows[i].id \notin S
    BY <1>1, <1>3, <2>2
  <2> QED
    BY <2>1, <2>2
<1>5. m \in Seq(Row)
  <2>1. m \in [1..Len(rows) -> Row]
    BY <1>2, <1>3, <1>4 DEF m, Marked
  <2> QED
    BY <1>2, <2>1
<1>6. ItemsOf(m) = ItemsOf(rows)
  BY <1>3, <1>4 DEF ItemsOf
<1>7. Distinct(rows) => Distinct(m)
  BY <1>3, <1>4 DEF Distinct
<1>8. \A n : Read(m, n) <=> Read(rows, n) \/ (n \in S /\ n \in ItemsOf(rows))
  BY <1>3, <1>4 DEF Read, ItemsOf
<1>9. \A n : Unread(m, n) => Unread(rows, n)
  BY <1>3, <1>4 DEF Unread
<1> QED
  BY <1>3, <1>5, <1>6, <1>7, <1>8, <1>9 DEF m

\* A request that has been answered is taken out.
LEMMA RemovedIs ==
  ASSUME NEW s \in Seq(CallRec), NEW i \in 1..Len(s)
  PROVE  /\ RemoveAt(s, i) \in Seq(CallRec)
         /\ Len(RemoveAt(s, i)) = Len(s) - 1
         /\ \A j \in 1..(Len(s) - 1) :
              RemoveAt(s, i)[j] = IF j < i THEN s[j] ELSE s[j + 1]
<1> DEFINE a == SubSeq(s, 1, i - 1)
           b == SubSeq(s, i + 1, Len(s))
<1>1. a \in Seq(CallRec) /\ Len(a) = i - 1 /\ \A j \in 1..(i - 1) : a[j] = s[j]
  OBVIOUS
<1>2. /\ b \in Seq(CallRec) /\ Len(b) = Len(s) - i
      /\ \A j \in 1..(Len(s) - i) : b[j] = s[j + i]
  OBVIOUS
<1>3. RemoveAt(s, i) = a \o b
  BY DEF RemoveAt
<1> HIDE DEF a, b
<1>4. RemoveAt(s, i) \in Seq(CallRec) /\ Len(RemoveAt(s, i)) = Len(s) - 1
  BY <1>1, <1>2, <1>3
<1>5. ASSUME NEW j \in 1..(Len(s) - 1)
      PROVE  RemoveAt(s, i)[j] = IF j < i THEN s[j] ELSE s[j + 1]
  <2>1. CASE j < i
    BY <1>1, <1>2, <1>3, <2>1
  <2>2. CASE ~(j < i)
    <3>1. j - (i - 1) \in 1..(Len(s) - i) /\ (j - (i - 1)) + i = j + 1
      BY <2>2
    <3>2. RemoveAt(s, i)[j] = b[j - (i - 1)]
      BY <1>1, <1>2, <1>3, <2>2
    <3> QED
      BY <1>2, <2>2, <3>1, <3>2
  <2> QED
    BY <2>1, <2>2
<1> QED
  BY <1>4, <1>5

\* A row in front of a list.
LEMMA FrontIs ==
  ASSUME NEW T, NEW x \in T, NEW s \in Seq(T)
  PROVE  /\ <<x>> \in Seq(T) /\ <<x>> \o s \in Seq(T) /\ <<>> \in Seq(T)
         /\ Len(<<x>>) = 1 /\ DOMAIN <<x>> = {1} /\ <<x>>[1] = x
<1>1. <<x>> \in Seq(T)
  OBVIOUS
<1> QED
  BY <1>1

\* ServerRead, without records.
LEMMA ServerReadIs ==
  ASSUME Types, NEW n \in Notes
  PROVE  ServerRead(n) <=> Read(inbox, n)
<1>1. \A i \in DOMAIN inbox : inbox[i].id \in Notes /\ inbox[i].read \in BOOLEAN /\ inbox[i] \in Row
  BY RowIs DEF Types
<1>2. \A i \in DOMAIN inbox : inbox[i] = Item(n, TRUE) <=> inbox[i].id = n /\ inbox[i].read
  BY <1>1 DEF Item, Row
<1> QED
  BY <1>2 DEF ServerRead, Read, Range

\* A request in flight.
LEMMA CallIs ==
  ASSUME Types
  PROVE  /\ DOMAIN flight = 1..Len(flight) /\ Len(flight) \in Nat
         /\ \A i \in DOMAIN flight :
              /\ flight[i] \in CallRec
              /\ flight[i].kind \in {"list", "read", "all"}
              /\ flight[i].on \in SUBSET Notes
              /\ flight[i].select \in BOOLEAN
              /\ flight[i].state \in {"sent", "ok", "failed"}
              /\ flight[i].got \in Seq(Row)
<1>1. DOMAIN flight = 1..Len(flight) /\ Len(flight) \in Nat
  BY DEF Types
<1>2. ASSUME NEW i \in DOMAIN flight
      PROVE  flight[i] \in CallRec
  BY <1>1 DEF Types
<1> QED
  BY <1>1, <1>2 DEF CallRec

\* What is sure at a place depends on the items and on what is before it.
LEMMA SureStays ==
  ASSUME NEW m \in Nat, items' = items, \A j \in 1..(m - 1) : flight'[j] = flight[j], NEW n
  PROVE  Sure(n, m)' <=> Sure(n, m)
BY DEF Sure, Served

\* A later place is sure of more.
LEMMA SureGrows ==
  ASSUME NEW m \in Nat, NEW l \in Nat, m <= l, NEW n, Sure(n, m)
  PROVE  Sure(n, l)
BY DEF Sure

\* Items that stay are shown as they were.
LEMMA SameItems ==
  ASSUME Inductive, items' = items
  PROVE  NoneUnread
BY DEF NoneUnread, Inductive, Once, Distinct

\* The server's rows only come and are read.
Grows ==
  /\ Distinct(inbox)' /\ ItemsOf(inbox) \subseteq ItemsOf(inbox)'
  /\ \A n \in Notes : Read(inbox, n) => Read(inbox, n)'
-----------------------------------------------------------------------------
(* The kinds of steps.                                                     *)

\* Requests and items stay.
LEMMA QuietStep ==
  ASSUME Inductive, Types', Grows, UNCHANGED <<items, flight, ordered, loading>>
  PROVE  Inductive' /\ NoneUnread
<1>1. Once' /\ Known'
  <2>1. Once'
    <3>1. Distinct(items)' /\ \A i \in DOMAIN flight' : Distinct(flight'[i].got)
      BY DEF Inductive, Once, Distinct
    <3> QED
      BY <3>1 DEF Once, Grows, Distinct
  <2>2. Known'
    <3>1. /\ ItemsOf(items)' = ItemsOf(items)
          /\ \A i \in DOMAIN flight : ItemsOf(flight[i].got)' = ItemsOf(flight[i].got)
      BY DEF ItemsOf
    <3>2. /\ ItemsOf(items)' \subseteq ItemsOf(inbox)'
          /\ \A i \in DOMAIN flight : ItemsOf(flight[i].got)' \cup flight[i].on \subseteq ItemsOf(inbox)'
      BY <3>1 DEF Inductive, Known, Grows
    <3> QED
      BY <3>2 DEF Known
  <2> QED
    BY <2>1, <2>2
<1>2. LoadingHasCause'
  BY DEF Inductive, LoadingHasCause
<1>3. \A n, m : Sure(n, m)' <=> Sure(n, m)
  BY DEF Sure, Served
<1>4. ordered' => ServedInOrder' /\ SureIsRead' /\ ListsAreNewer'
  <2>1. ordered => ServedInOrder' /\ ListsAreNewer'
    BY <1>3 DEF Inductive, ServedInOrder, ListsAreNewer, Served, Unread
  <2>2. ordered => SureIsRead'
    BY <1>3 DEF Inductive, SureIsRead, Grows
  <2> QED
    BY <2>1, <2>2
<1> QED
  BY <1>1, <1>2, <1>4, SameItems DEF Inductive

\* A request is sent.
LEMMA PushStep ==
  ASSUME Inductive, Types', NEW c \in CallRec, c.state = "sent", c.got = <<>>,
         c.on \subseteq ItemsOf(inbox), flight' = Append(flight, c),
         UNCHANGED <<inbox, items, ordered>>,
         loading' => loading \/ c.kind = "list"
  PROVE  Inductive' /\ NoneUnread
<1>1. /\ DOMAIN flight = 1..Len(flight) /\ Len(flight) \in Nat
      /\ flight \in Seq(CallRec)
  BY CallIs DEF Inductive, Types
<1>0. PICK k \in Nat \ {0} : k = Len(flight) + 1
  BY <1>1
<1>2. /\ Len(flight') = k /\ DOMAIN flight' = 1..k
      /\ flight'[k] = c /\ \A j \in 1..Len(flight) : flight'[j] = flight[j]
  BY <1>0, <1>1
<1>3. Once'
  <2>1. Distinct(c.got)
    BY DEF Distinct
  <2> QED
    BY <1>0, <1>1, <1>2, <2>1 DEF Inductive, Once, Distinct
<1>4. Known'
  <2>1. ItemsOf(c.got) = {}
    BY DEF ItemsOf
  <2>2. ASSUME NEW i \in 1..k
        PROVE  (ItemsOf(flight[i].got) \cup flight[i].on \subseteq ItemsOf(inbox))'
    <3>0. ItemsOf(flight[i].got)' = ItemsOf(flight'[i].got) /\ ItemsOf(inbox)' = ItemsOf(inbox)
      BY DEF ItemsOf
    <3>1. CASE i = k
      BY <1>2, <2>1, <3>0, <3>1
    <3>2. CASE i # k
      BY <1>0, <1>1, <1>2, <3>0, <3>2 DEF Inductive, Known
    <3> QED
      BY <3>1, <3>2
  <2>3. (ItemsOf(items) \subseteq ItemsOf(inbox))'
    <3>1. ItemsOf(items)' = ItemsOf(items) /\ ItemsOf(inbox)' = ItemsOf(inbox)
      BY DEF ItemsOf
    <3> QED
      BY <3>1 DEF Inductive, Known
  <2> QED
    BY <1>2, <2>2, <2>3 DEF Known
<1>5. LoadingHasCause'
  <2>1. CASE c.kind = "list"
    BY <1>0, <1>1, <1>2, <2>1 DEF LoadingHasCause
  <2>2. CASE c.kind # "list"
    BY <1>0, <1>1, <1>2, <2>2 DEF Inductive, LoadingHasCause
  <2> QED
    BY <2>1, <2>2
<1>6. ASSUME NEW n, NEW m \in 1..k
      PROVE  Sure(n, m)' <=> Sure(n, m)
  <2>1. m \in Nat /\ \A j \in 1..(m - 1) : flight'[j] = flight[j]
    BY <1>0, <1>1, <1>2
  <2> QED
    BY <2>1, SureStays
<1>7. ASSUME NEW n, Sure(n, k + 1)'
      PROVE  Sure(n, k)
  <2>1. flight'[k].state # "ok"
    BY <1>2
  <2>2. /\ \A j \in 1..((k + 1) - 1) : j # k => j \in 1..(k - 1)
        /\ \A j \in 1..(k - 1) : flight'[j] = flight[j]
        /\ k \in Nat
    BY <1>0, <1>1, <1>2
  <2>3. Sure(n, k)'
    BY <1>7, <2>1, <2>2, ZenonT(60) DEF Sure, Served
  <2> QED
    BY <2>2, <2>3, SureStays
<1>8. ASSUME ordered
      PROVE  ServedInOrder' /\ SureIsRead' /\ ListsAreNewer'
  <2>1. ServedInOrder'
    BY <1>0, <1>1, <1>2, <1>8 DEF Inductive, ServedInOrder
  <2>2. SureIsRead'
    <3>1. \A n \in Notes : Sure(n, k + 1)' => Read(inbox, n)'
      BY <1>0, <1>7, <1>8 DEF Inductive, SureIsRead, Read
    <3> QED
      BY <1>2, <3>1 DEF SureIsRead
  <2>3. ListsAreNewer'
    BY <1>0, <1>1, <1>2, <1>6, <1>8 DEF Inductive, ListsAreNewer, Served, Unread
  <2> QED
    BY <2>1, <2>2, <2>3
<1> QED
  BY <1>3, <1>4, <1>5, <1>8, SameItems DEF Inductive

\* A request is served, or refused.
LEMMA ServeStep ==
  ASSUME Inductive, Types', Grows, UNCHANGED <<items, loading, ordered>>,
         NEW i \in DOMAIN flight, NEW c \in CallRec, flight[i].state = "sent",
         ordered => \A j \in 1..(i - 1) : flight[j].state # "sent",
         Len(flight') = Len(flight), DOMAIN flight' = DOMAIN flight,
         flight'[i] = c, \A j \in DOMAIN flight : j # i => flight'[j] = flight[j],
         c.kind = flight[i].kind, c.on = flight[i].on, c.state # "sent",
         c.got \in {flight[i].got, <<>>, inbox'},
         c.state = "ok" /\ c.kind = "list" => c.got = inbox' /\ inbox' = inbox,
         c.state = "ok" /\ c.kind \in {"read", "all"} => \A n \in Notes :
            n \in ItemsOf(inbox) /\ (c.kind = "all" \/ n \in c.on) => Read(inbox, n)'
  PROVE  Inductive' /\ NoneUnread
<1>1. /\ DOMAIN flight = 1..Len(flight) /\ Len(flight) \in Nat /\ i \in 1..Len(flight)
      /\ c.kind \in {"list", "read", "all"}
  BY CallIs, SMTT(60) DEF Inductive, CallRec
<1>2. PICK k \in Nat : k = Len(flight)
  BY <1>1
<1>3. Once'
  <2>1. Distinct(c.got)
    BY <1>1 DEF Grows, Inductive, Once, Distinct
  <2> QED
    BY <2>1 DEF Inductive, Once, Grows, Distinct
<1>4. Known'
  <2>1. ItemsOf(items)' = ItemsOf(items) /\ ItemsOf(inbox)' = ItemsOf(inbox')
    BY DEF ItemsOf
  <2>2. ItemsOf(flight[i].got) \subseteq ItemsOf(inbox)
    BY DEF Inductive, Known
  <2>3. ItemsOf(<<>>) = {}
    BY DEF ItemsOf
  <2>4. ItemsOf(c.got) \subseteq ItemsOf(inbox')
    BY <2>1, <2>2, <2>3 DEF Grows
  <2>5. ASSUME NEW j \in DOMAIN flight
        PROVE  (ItemsOf(flight[j].got) \cup flight[j].on \subseteq ItemsOf(inbox))'
    <3>1. ItemsOf(flight[j].got)' = ItemsOf(flight'[j].got)
      BY DEF ItemsOf
    <3>2. flight[j].on \subseteq ItemsOf(inbox) /\ ItemsOf(flight[j].got) \subseteq ItemsOf(inbox)
      BY DEF Inductive, Known
    <3>3. CASE j = i
      BY <2>1, <2>4, <3>1, <3>2, <3>3 DEF Grows
    <3>4. CASE j # i
      BY <3>1, <3>2, <3>4 DEF Grows
    <3> QED
      BY <3>3, <3>4
  <2>6. (ItemsOf(items) \subseteq ItemsOf(inbox))'
    BY <2>1 DEF Inductive, Known, Grows
  <2> QED
    BY <2>5, <2>6 DEF Known
<1>5. LoadingHasCause'
  BY DEF Inductive, LoadingHasCause
<1>6. ASSUME NEW n, NEW m \in 1..i
      PROVE  Sure(n, m)' <=> Sure(n, m)
  <2>1. m \in Nat /\ \A j \in 1..(m - 1) : flight'[j] = flight[j]
    BY <1>1
  <2> QED
    BY <2>1, SureStays
<1>7. ASSUME ordered
      PROVE  ServedInOrder' /\ SureIsRead' /\ ListsAreNewer'
  <2>1. \A j \in 1..k : j > i => flight[j].state = "sent" /\ flight'[j].state = "sent"
    BY <1>1, <1>2, <1>7 DEF Inductive, ServedInOrder
  <2>2. \A j \in 1..k : j < i => flight[j].state # "sent" /\ flight'[j] = flight[j]
    BY <1>1, <1>2, <1>7
  <2>3. ServedInOrder'
    BY <1>1, <1>2, <2>1, <2>2 DEF ServedInOrder
  <2>4. ASSUME NEW n \in Notes, Sure(n, i)
        PROVE  Read(inbox, n) /\ Read(inbox, n)'
    <3>1. Sure(n, k + 1)
      BY <1>1, <1>2, <2>4, SureGrows
    <3> QED
      BY <1>2, <1>7, <3>1 DEF Inductive, SureIsRead, Grows
  <2>5. ASSUME NEW n \in Notes, Sure(n, k + 1)'
        PROVE  Read(inbox, n)'
    <3>1. \/ Sure(n, i)
          \/ c.state = "ok" /\ c.kind = "list" /\ Read(c.got, n)
          \/ c.state = "ok" /\ c.kind = "read" /\ n \in c.on
          \/ c.state = "ok" /\ c.kind = "all" /\ n \in ItemsOf(items)
          \/ /\ c.state = "ok" /\ c.kind = "all"
             /\ \E j \in 1..(i - 1) : n \in ItemsOf(flight[j].got)
      <4>1. /\ \A j \in 1..((k + 1) - 1) : flight'[j].state = "ok" => j \in 1..(i - 1) \/ j = i
            /\ \A j \in 1..(i - 1) : flight'[j] = flight[j]
        BY <1>1, <1>2, <2>1
      <4>2. \A j \in 1..(i - 1) : ItemsOf(flight'[j].got) = ItemsOf(flight[j].got)
        BY <4>1
      <4>3. \/ Read(items, n)
            \/ \E j \in 1..((k + 1) - 1) :
                 flight'[j].kind = "list" /\ flight'[j].state = "ok" /\ Read(flight'[j].got, n)
            \/ \E j \in 1..((k + 1) - 1) :
                 flight'[j].kind = "read" /\ flight'[j].state = "ok" /\ n \in flight'[j].on
            \/ \E j \in 1..((k + 1) - 1) :
                 flight'[j].kind = "all" /\ flight'[j].state = "ok" /\ n \in ItemsOf(items)
            \/ \E j \in 1..((k + 1) - 1) : \E l \in 1..(j - 1) :
                 /\ flight'[j].kind = "all" /\ flight'[j].state = "ok"
                 /\ flight'[l].kind = "list" /\ flight'[l].state = "ok"
                 /\ n \in ItemsOf(flight'[l].got)
        BY <2>5 DEF Sure, Served, Read, ItemsOf
      <4> QED
        BY <1>1, <4>1, <4>2, <4>3 DEF Sure, Served
    <3>2. CASE Sure(n, i)
      BY <2>4, <3>2
    <3>3. CASE c.state = "ok" /\ c.kind = "list" /\ Read(c.got, n)
      BY <3>3 DEF Read
    <3>4. CASE c.state = "ok" /\ c.kind = "read" /\ n \in c.on
      BY <3>4 DEF Inductive, Known
    <3>5. CASE c.state = "ok" /\ c.kind = "all" /\ n \in ItemsOf(items)
      BY <3>5 DEF Inductive, Known
    <3>6. CASE /\ c.state = "ok" /\ c.kind = "all"
               /\ \E j \in 1..(i - 1) : n \in ItemsOf(flight[j].got)
      BY <1>1, <3>6 DEF Inductive, Known
    <3> QED
      BY <3>1, <3>2, <3>3, <3>4, <3>5, <3>6
  <2>6. SureIsRead'
    BY <1>2, <2>5 DEF SureIsRead
  <2>7. ASSUME NEW j \in DOMAIN flight, NEW n \in Notes, Served(j, "list")', Sure(n, j)'
        PROVE  ~Unread(flight'[j].got, n)
    <3>1. j \in 1..i
      BY <1>1, <1>2, <2>1, <2>7 DEF Served
    <3>2. Sure(n, j)
      BY <1>6, <2>7, <3>1
    <3>3. CASE j = i
      <4>1. c.got = inbox /\ Read(inbox, n)
        BY <2>4, <2>7, <3>2, <3>3 DEF Served
      <4> QED
        BY <3>3, <4>1 DEF Inductive, Once, Distinct, Read, Unread
    <3>4. CASE j # i
      BY <1>7, <2>7, <3>2, <3>4 DEF Inductive, ListsAreNewer, Served
    <3> QED
      BY <3>3, <3>4
  <2>8. ListsAreNewer'
    BY <2>7 DEF ListsAreNewer, Unread
  <2> QED
    BY <2>3, <2>6, <2>8
<1> QED
  BY <1>3, <1>4, <1>5, <1>7, SameItems, SMTT(60) DEF Inductive

\* What the answer that is taken shows.
Shown(i) ==
  \/ Served(i, "list") /\ items' = flight[i].got /\ ~loading'
  \/ flight[i].kind = "list" /\ items' = items /\ ~loading'
  \/ Served(i, "read") /\ items' = Marked(items, flight[i].on) /\ loading' = loading
  \/ Served(i, "all") /\ items' = Marked(items, Notes) /\ loading' = loading
  \/ flight[i].kind # "list" /\ items' = items /\ loading' = loading

\* Whatever the answer shows, its items are not unread if they were read and,
\* if it is the first, all that is read by then was sure before.
LEMMA ShownIs ==
  ASSUME Inductive, NEW i \in DOMAIN flight, Shown(i)
  PROVE  /\ Distinct(items') /\ ItemsOf(items') \subseteq ItemsOf(inbox)
         /\ \/ ItemsOf(items') \subseteq ItemsOf(items)
            \/ Served(i, "list") /\ items' = flight[i].got
         /\ \A n \in Notes : \/ ~Read(items', n) \/ Read(items, n)
                             \/ Served(i, "list") /\ Read(flight[i].got, n)
                             \/ Served(i, "read") /\ n \in flight[i].on
                             \/ Served(i, "all") /\ n \in ItemsOf(items)
         /\ \A n \in Notes : \/ ~Unread(items', n) \/ Unread(items, n)
                             \/ Served(i, "list") /\ Unread(flight[i].got, n)
<1>1. Distinct(items) /\ ItemsOf(items) \subseteq ItemsOf(inbox) /\ items \in Seq(Row)
  BY DEF Inductive, Once, Known, Types
<1>2. Distinct(flight[i].got) /\ ItemsOf(flight[i].got) \subseteq ItemsOf(inbox)
  BY DEF Inductive, Once, Known
<1>3. CASE Served(i, "list") /\ items' = flight[i].got
  BY <1>2, <1>3
<1>4. CASE items' = items
  BY <1>1, <1>4
<1>5. CASE Served(i, "read") /\ items' = Marked(items, flight[i].on)
  BY <1>1, <1>5, MarkedIs
<1>6. CASE Served(i, "all") /\ items' = Marked(items, Notes)
  BY <1>1, <1>6, MarkedIs
<1> QED
  BY <1>3, <1>4, <1>5, <1>6 DEF Shown

\* An answer arrives.
LEMMA TakeStep ==
  ASSUME Inductive, Types', UNCHANGED <<inbox, ordered>>,
         NEW i \in DOMAIN flight, flight[i].state # "sent", ordered => i = 1,
         flight' = RemoveAt(flight, i), Shown(i)
  PROVE  Inductive' /\ NoneUnread
<1>1. /\ DOMAIN flight = 1..Len(flight) /\ Len(flight) \in Nat /\ i \in 1..Len(flight)
      /\ flight \in Seq(CallRec)
  BY CallIs, SMTT(60) DEF Inductive, Types
<1>2. PICK k \in Nat : k + 1 = Len(flight) /\ k = Len(flight) - 1
  <2>1. Len(flight) - 1 \in Nat /\ (Len(flight) - 1) + 1 = Len(flight)
    BY <1>1
  <2> QED
    BY <2>1
<1>3. /\ Len(flight') = k /\ DOMAIN flight' = 1..k
      /\ \A j \in 1..k : flight'[j] = IF j < i THEN flight[j] ELSE flight[j + 1]
  <2>1. Len(flight') = k /\ \A j \in 1..k : flight'[j] = IF j < i THEN flight[j] ELSE flight[j + 1]
    <3>1. /\ Len(RemoveAt(flight, i)) = Len(flight) - 1
          /\ \A j \in 1..(Len(flight) - 1) :
               RemoveAt(flight, i)[j] = IF j < i THEN flight[j] ELSE flight[j + 1]
      BY <1>1, RemovedIs
    <3> QED
      BY <1>2, <3>1, SMTT(60)
  <2>2. DOMAIN flight' = 1..k
    BY <2>1 DEF Types
  <2> QED
    BY <2>1, <2>2, SMTT(60)
<1>4. \A j \in 1..k : \E l \in DOMAIN flight : flight'[j] = flight[l]
  BY <1>1, <1>2, <1>3, SMTT(60)
<1>5. Once'
  <2>1. Distinct(items)' /\ Distinct(inbox)'
    BY ShownIs DEF Inductive, Once, Distinct
  <2>2. \A j \in 1..k : Distinct(flight'[j].got)
    BY <1>4 DEF Inductive, Once
  <2> QED
    BY <1>3, <2>1, <2>2 DEF Once, Distinct
<1>6. Known'
  <2>1. (ItemsOf(items) \subseteq ItemsOf(inbox))'
    BY ShownIs DEF ItemsOf
  <2>2. ASSUME NEW j \in DOMAIN flight'
        PROVE  (ItemsOf(flight[j].got) \cup flight[j].on \subseteq ItemsOf(inbox))'
    <3>1. ItemsOf(flight[j].got)' = ItemsOf(flight'[j].got) /\ ItemsOf(inbox)' = ItemsOf(inbox)
      BY DEF ItemsOf
    <3> QED
      BY <1>3, <1>4, <3>1 DEF Inductive, Known
  <2> QED
    BY <2>1, <2>2 DEF Known
<1>7. LoadingHasCause'
  <2>1. ASSUME loading'
        PROVE  loading /\ flight[i].kind # "list"
    BY <2>1 DEF Shown, Served
  <2>2. ASSUME NEW l \in 1..(k + 1), l # i
        PROVE  \E j \in 1..k : flight'[j] = flight[l]
    <3>1. CASE l < i
      BY <1>1, <1>2, <1>3, <3>1
    <3>2. CASE l > i
      <4>1. l - 1 \in 1..k /\ ~(l - 1 < i) /\ (l - 1) + 1 = l
        BY <1>1, <1>2, <2>2, <3>2
      <4> QED
        BY <1>3, <4>1
    <3> QED
      BY <1>1, <1>2, <2>2, <3>1, <3>2
  <2> QED
    <3>1. SUFFICES ASSUME loading'
                   PROVE  \E j \in 1..k : flight'[j].kind = "list"
      BY <1>3 DEF LoadingHasCause
    <3>2. PICK l \in 1..(k + 1) : flight[l].kind = "list"
      BY <1>1, <1>2, <2>1, <3>1 DEF Inductive, LoadingHasCause
    <3> QED
      BY <2>1, <2>2, <3>1, <3>2
<1>8. ASSUME ordered
      PROVE  ServedInOrder' /\ SureIsRead' /\ ListsAreNewer' /\ NoneUnread
  <2>1. i = 1 /\ \A j \in 1..k : flight'[j] = flight[j + 1]
    BY <1>3, <1>8
  <2>2. ServedInOrder'
    <3>1. ASSUME NEW j \in 1..k, NEW l \in 1..(j - 1), flight'[j].state # "sent"
          PROVE  flight'[l].state # "sent"
      <4>1. /\ j + 1 \in DOMAIN flight /\ l + 1 \in 1..((j + 1) - 1) /\ l \in 1..k
        BY <1>1, <1>2
      <4> QED
        BY <1>8, <2>1, <3>1, <4>1 DEF Inductive, ServedInOrder
    <3> QED
      BY <1>3, <3>1 DEF ServedInOrder
  <2>3. ASSUME NEW n \in Notes, NEW m \in 1..(k + 1), Sure(n, m)'
        PROVE  Sure(n, m + 1)
    <3>1. \A j \in 1..(m - 1) : flight'[j] = flight[j + 1] /\ j + 1 \in 1..((m + 1) - 1)
      BY <2>1
    <3>2. 1 \in 1..((m + 1) - 1) /\ \A j \in 1..(m - 1) : 1 \in 1..((j + 1) - 1)
      OBVIOUS
    <3>3. \A j \in 1..(m - 1) : \A l \in 1..(j - 1) :
            flight'[l] = flight[l + 1] /\ l + 1 \in 1..((j + 1) - 1)
      BY <2>1
    <3>4. \/ Read(items', n)
          \/ \E j \in 1..(m - 1) :
               flight'[j].kind = "list" /\ flight'[j].state = "ok" /\ Read(flight'[j].got, n)
          \/ \E j \in 1..(m - 1) :
               flight'[j].kind = "read" /\ flight'[j].state = "ok" /\ n \in flight'[j].on
          \/ \E j \in 1..(m - 1) :
               flight'[j].kind = "all" /\ flight'[j].state = "ok" /\ n \in ItemsOf(items')
          \/ \E j \in 1..(m - 1) : \E l \in 1..(j - 1) :
               /\ flight'[j].kind = "all" /\ flight'[j].state = "ok"
               /\ flight'[l].kind = "list" /\ flight'[l].state = "ok"
               /\ n \in ItemsOf(flight'[l].got)
      BY <2>3 DEF Sure, Served, Read, ItemsOf
    <3>5. CASE Read(items', n)
      BY <2>1, <3>2, <3>5, ShownIs DEF Sure
    <3>6. CASE \E j \in 1..(m - 1) :
               flight'[j].kind = "list" /\ flight'[j].state = "ok" /\ Read(flight'[j].got, n)
      BY <3>1, <3>6 DEF Sure, Served
    <3>7. CASE \E j \in 1..(m - 1) :
               flight'[j].kind = "read" /\ flight'[j].state = "ok" /\ n \in flight'[j].on
      BY <3>1, <3>7 DEF Sure, Served
    <3>8. CASE \E j \in 1..(m - 1) :
               flight'[j].kind = "all" /\ flight'[j].state = "ok" /\ n \in ItemsOf(items')
      <4>1. PICK j \in 1..(m - 1) : Served(j + 1, "all") /\ j + 1 \in 1..((m + 1) - 1)
        BY <3>1, <3>8 DEF Served
      <4>2. n \in ItemsOf(items) \/ (Served(1, "list") /\ n \in ItemsOf(flight[1].got))
        BY <2>1, <3>8, ShownIs
      <4> QED
        BY <3>2, <4>1, <4>2 DEF Sure
    <3>9. CASE \E j \in 1..(m - 1) : \E l \in 1..(j - 1) :
               /\ flight'[j].kind = "all" /\ flight'[j].state = "ok"
               /\ flight'[l].kind = "list" /\ flight'[l].state = "ok"
               /\ n \in ItemsOf(flight'[l].got)
      <4>0. PICK j \in 1..(m - 1) : \E l \in 1..(j - 1) :
               /\ flight'[j].kind = "all" /\ flight'[j].state = "ok"
               /\ flight'[l].kind = "list" /\ flight'[l].state = "ok"
               /\ n \in ItemsOf(flight'[l].got)
        BY <3>9
      <4>1. PICK l \in 1..(j - 1) :
               /\ flight'[j].kind = "all" /\ flight'[j].state = "ok"
               /\ flight'[l].kind = "list" /\ flight'[l].state = "ok"
               /\ n \in ItemsOf(flight'[l].got)
        BY <4>0
      <4>2. /\ Served(j + 1, "all") /\ j + 1 \in 1..((m + 1) - 1)
            /\ Served(l + 1, "list") /\ l + 1 \in 1..((j + 1) - 1)
            /\ n \in ItemsOf(flight[l + 1].got)
        BY <3>1, <3>3, <4>1 DEF Served
      <4> QED
        BY <4>2 DEF Sure
    <3> QED
      BY <3>4, <3>5, <3>6, <3>7, <3>8, <3>9
  <2>4. SureIsRead'
    <3>1. \A n \in Notes : Sure(n, k + 1)' => Read(inbox, n)'
      BY <1>2, <1>8, <2>3 DEF Inductive, SureIsRead, Read
    <3> QED
      BY <1>3, <3>1 DEF SureIsRead
  <2>5. ASSUME NEW j \in 1..k, NEW n \in Notes, Served(j, "list")', Sure(n, j)'
        PROVE  ~Unread(flight'[j].got, n)
    <3>1. Sure(n, j + 1) /\ flight'[j] = flight[j + 1] /\ j + 1 \in DOMAIN flight
      BY <1>1, <1>2, <2>1, <2>3, <2>5
    <3> QED
      BY <1>8, <2>5, <3>1 DEF Inductive, ListsAreNewer, Served
  <2>6. ListsAreNewer'
    BY <1>3, <2>5 DEF ListsAreNewer, Unread
  <2>7. ASSUME NEW n \in Notes, Read(items, n)
        PROVE  ~Unread(items', n)
    <3>1. ~Unread(items, n)
      BY <2>7 DEF Inductive, Once, Distinct, Read, Unread
    <3>2. Sure(n, 1)
      BY <2>7 DEF Sure
    <3>3. ~(Served(1, "list") /\ Unread(flight[1].got, n))
      BY <1>8, <2>1, <3>2 DEF Inductive, ListsAreNewer
    <3> QED
      BY <2>1, <3>1, <3>3, ShownIs
  <2>8. NoneUnread
    <3>1. \A j \in DOMAIN items : items[j].id \in Notes
      BY RowIs DEF Inductive, Types
    <3> QED
      BY <2>7, <3>1 DEF NoneUnread, Read, Unread
  <2> QED
    BY <2>2, <2>4, <2>6, <2>8
<1>9. NoneUnread
  BY <1>8 DEF NoneUnread
<1> QED
  BY <1>5, <1>6, <1>7, <1>8, <1>9 DEF Inductive
-----------------------------------------------------------------------------
(* Every step of the program is of one of these kinds.                     *)

\* The three ways a request is made.
LEMMA NewCall ==
  ASSUME Types, NEW kind \in {"list", "read", "all"}, NEW on \in SUBSET Notes,
         NEW select \in BOOLEAN
  PROVE  /\ Call(kind, on, select) \in CallRec
         /\ Call(kind, on, select).kind = kind /\ Call(kind, on, select).on = on
         /\ Call(kind, on, select).state = "sent" /\ Call(kind, on, select).got = <<>>
BY DEF Call, CallRec

\* A push keeps the queue's types.
LEMMA PushIs ==
  ASSUME Types, NEW c \in CallRec, Push(c)
  PROVE  flight' \in Seq(CallRec) /\ Len(flight') <= MaxFlight
BY InboxAssumption DEF Types, Push

\* The row that is marked is one of the inbox.
LEMMA MarkedIsKnown ==
  ASSUME Inductive, NEW n \in Notes, Item(n, FALSE) \in Range(items)
  PROVE  {n} \subseteq ItemsOf(inbox)
<1>1. n \in ItemsOf(items)
  BY DEF Range, Item, ItemsOf
<1> QED
  BY <1>1 DEF Inductive, Known

\* Every move of the user keeps the invariant, and what is shown.
LEMMA UserStep ==
  ASSUME Inductive, UserActs
  PROVE  Inductive' /\ NoneUnread
<1>1. Types
  BY DEF Inductive
<1>2. moves' \in 0..MaxMoves
  <2>1. Move
    BY DEF UserActs, OpenPage, LeavePage, TogglePanel, markAllRead, markRead, handleSelect
  <2> QED
    BY <1>1, <2>1, InboxAssumption DEF Move, Types
<1>3. ASSUME NEW c \in CallRec, Push(c), c.state = "sent", c.got = <<>>,
             c.on \subseteq ItemsOf(inbox), UNCHANGED <<inbox, items, ordered>>,
             loading' => loading \/ c.kind = "list",
             {loading', error', panel'} \subseteq BOOLEAN,
             page' \in {"away", "inbox", "ticket"}
      PROVE  Inductive' /\ NoneUnread
  <2>1. Types'
    BY <1>1, <1>2, <1>3, PushIs DEF Types
  <2> QED
    BY <1>3, <2>1, PushStep DEF Push
<1>4. ASSUME UNCHANGED <<inbox, items, flight, loading, error, ordered>>,
             panel' \in BOOLEAN, page' \in {"away", "inbox", "ticket"}
      PROVE  Inductive' /\ NoneUnread
  <2>1. Types'
    BY <1>1, <1>2, <1>4 DEF Types
  <2>2. Grows
    BY <1>4 DEF Grows, Inductive, Once, Distinct, ItemsOf, Read
  <2> QED
    BY <1>4, <2>1, <2>2, QuietStep
<1>5. CASE OpenPage
  <2>1. /\ Call("list", {}, FALSE) \in CallRec /\ Call("list", {}, FALSE).kind = "list"
        /\ Call("list", {}, FALSE).on = {} /\ Call("list", {}, FALSE).state = "sent"
        /\ Call("list", {}, FALSE).got = <<>>
    BY DEF Call, CallRec
  <2> QED
    BY <1>3, <1>5, <2>1 DEF OpenPage, Move, fetchAll
<1>6. CASE LeavePage
  BY <1>1, <1>4, <1>6 DEF LeavePage, Move, Types
<1>7. CASE TogglePanel
  BY <1>1, <1>4, <1>7 DEF TogglePanel, Move, Types
<1>8. CASE markAllRead
  <2>1. /\ Call("all", {}, FALSE) \in CallRec /\ Call("all", {}, FALSE).kind = "all"
        /\ Call("all", {}, FALSE).on = {} /\ Call("all", {}, FALSE).state = "sent"
        /\ Call("all", {}, FALSE).got = <<>>
    BY <1>1, NewCall
  <2> QED
    BY <1>1, <1>3, <1>8, <2>1 DEF markAllRead, Move, Types
<1>9. ASSUME NEW n \in Notes, markRead(n)
      PROVE  Inductive' /\ NoneUnread
  <2>1. /\ Call("read", {n}, FALSE) \in CallRec /\ Call("read", {n}, FALSE).on = {n}
        /\ Call("read", {n}, FALSE).state = "sent" /\ Call("read", {n}, FALSE).got = <<>>
    BY <1>1, NewCall, ZenonT(60)
  <2>2. {n} \subseteq ItemsOf(inbox)
    BY <1>9, MarkedIsKnown DEF markRead
  <2>3. /\ Push(Call("read", {n}, FALSE))
        /\ UNCHANGED <<inbox, items, ordered, loading, error, panel, page>>
    BY <1>9 DEF markRead, Move
  <2>4. /\ {loading', error', panel'} \subseteq BOOLEAN
        /\ page' \in {"away", "inbox", "ticket"}
    BY <1>1, <2>3 DEF Types
  <2> QED
    BY <1>3, <2>1, <2>2, <2>3, <2>4
<1>10. ASSUME NEW n \in Notes, handleSelect(n)
       PROVE  Inductive' /\ NoneUnread
  <2>1. CASE Item(n, FALSE) \in Range(items)
    <3>1. /\ Call("read", {n}, TRUE) \in CallRec /\ Call("read", {n}, TRUE).on = {n}
          /\ Call("read", {n}, TRUE).state = "sent" /\ Call("read", {n}, TRUE).got = <<>>
      BY <1>1, NewCall, ZenonT(60)
    <3>2. {n} \subseteq ItemsOf(inbox)
      BY <2>1, MarkedIsKnown
    <3>3. /\ Push(Call("read", {n}, TRUE))
          /\ UNCHANGED <<inbox, items, ordered, loading, error, panel, page>>
      BY <1>10, <2>1 DEF handleSelect, Move
    <3>4. /\ {loading', error', panel'} \subseteq BOOLEAN
          /\ page' \in {"away", "inbox", "ticket"}
      BY <1>1, <3>3 DEF Types
    <3> QED
      BY <1>3, <3>1, <3>2, <3>3, <3>4
  <2>2. CASE Item(n, FALSE) \notin Range(items)
    BY <1>4, <1>10, <2>2 DEF handleSelect, Move
  <2> QED
    BY <2>1, <2>2
<1> QED
  BY <1>5, <1>6, <1>7, <1>8, <1>9, <1>10 DEF UserActs

\* Marking in the inbox is marking a set of its rows.
LEMMA MarkGrows ==
  ASSUME Inductive, NEW S, inbox' = Marked(inbox, S)
  PROVE  /\ Grows /\ inbox' \in Seq(Row)
         /\ \A n \in S : n \in ItemsOf(inbox) => Read(inbox, n)'
<1>1. inbox \in Seq(Row) /\ Distinct(inbox)
  BY DEF Inductive, Types, Once
<1>2. /\ inbox' \in Seq(Row) /\ Distinct(inbox') /\ ItemsOf(inbox') = ItemsOf(inbox)
      /\ \A n : Read(inbox', n) <=> Read(inbox, n) \/ (n \in S /\ n \in ItemsOf(inbox))
  BY <1>1, MarkedIs
<1>3. ItemsOf(inbox)' = ItemsOf(inbox')
  BY DEF ItemsOf
<1>4. \A n : Read(inbox, n)' <=> Read(inbox', n)
  BY DEF Read
<1>5. Distinct(inbox)'
  BY <1>2 DEF Distinct
<1> QED
  BY <1>2, <1>3, <1>4, <1>5 DEF Grows

\* A row arrives, or another device reads one.
LEMMA ServerStep ==
  ASSUME Inductive, NEW n \in Notes, Arrive(n) \/ OtherDevice(n)
  PROVE  Inductive' /\ NoneUnread
<1>1. UNCHANGED <<items, flight, ordered, loading, error, page, panel, moves>>
  BY DEF Arrive, OtherDevice
<1>2. inbox \in Seq(Row) /\ Distinct(inbox)
  BY DEF Inductive, Types, Once
<1>3. inbox' \in Seq(Row) /\ Grows
  <2>1. CASE Arrive(n)
    <3>1. Item(n, FALSE) \in Row /\ Item(n, FALSE).id = n
      BY DEF Item, Row
    <3>2. PICK k \in Nat : k = Len(inbox)
      BY <1>2
    <3>3. inbox' = <<Item(n, FALSE)>> \o inbox
      BY <2>1 DEF Arrive
    <3>4. inbox' \in Seq(Row)
      BY <1>2, <3>1, <3>3, FrontIs
    <3>5. /\ DOMAIN inbox' = 1..(k + 1) /\ DOMAIN inbox = 1..k
          /\ inbox'[1] = Item(n, FALSE)
          /\ \A i \in 1..k : inbox'[i + 1] = inbox[i]
      BY <1>2, <3>2, <3>3
    <3>6. \A i \in 1..(k + 1) : i = 1 \/ (i - 1 \in 1..k /\ inbox'[i] = inbox[i - 1])
      BY <3>5
    <3>7. \A i \in 1..k : inbox[i].id # n
      BY <2>1, <3>5 DEF Arrive, ItemsOf
    <3>8. Distinct(inbox')
      <4>1. ASSUME NEW i \in 1..(k + 1), NEW j \in 1..(k + 1), inbox'[i].id = inbox'[j].id
            PROVE  i = j
        <5>1. CASE i = 1 \/ j = 1
          BY <3>1, <3>5, <3>6, <3>7, <4>1, <5>1, ZenonT(60)
        <5>2. CASE i # 1 /\ j # 1
          <6>1. /\ i - 1 \in 1..k /\ inbox'[i] = inbox[i - 1]
                /\ j - 1 \in 1..k /\ inbox'[j] = inbox[j - 1]
            BY <3>6, <5>2
          <6>2. inbox[i - 1].id = inbox[j - 1].id
            BY <4>1, <6>1
          <6>3. \A x, y \in 1..k : inbox[x].id = inbox[y].id => x = y
            BY <1>2, <3>5 DEF Distinct
          <6>4. i - 1 = j - 1
            BY <6>1, <6>2, <6>3
          <6> QED
            BY <6>4
        <5> QED
          BY <5>1, <5>2
      <4> QED
        BY <3>5, <4>1 DEF Distinct
    <3>9. \A i \in 1..k : i + 1 \in DOMAIN inbox' /\ inbox'[i + 1] = inbox[i]
      BY <3>5
    <3>10. ItemsOf(inbox) \subseteq ItemsOf(inbox)'
      BY <3>5, <3>9 DEF ItemsOf
    <3>11. \A m : Read(inbox, m) => Read(inbox, m)'
      BY <3>5, <3>9 DEF Read
    <3> QED
      BY <3>4, <3>8, <3>10, <3>11 DEF Grows, Distinct
  <2>2. CASE OtherDevice(n)
    <3>1. inbox' = Marked(inbox, {n})
      BY <2>2 DEF OtherDevice, MarkIn, Marked
    <3> QED
      BY <3>1, MarkGrows
  <2> QED
    BY <2>1, <2>2
<1>4. Types'
  BY <1>1, <1>3 DEF Inductive, Types
<1> QED
  BY <1>1, <1>3, <1>4, QuietStep

\* Serving a request, with or without its answer, or refusing it.
LEMMA ServeKind ==
  ASSUME Inductive, NEW i \in DOMAIN flight, Serve(i)
  PROVE  Inductive' /\ NoneUnread
<1>1. Types
  BY DEF Inductive
<1>2. /\ DOMAIN flight = 1..Len(flight) /\ Len(flight) \in Nat /\ flight \in Seq(CallRec)
      /\ flight[i] \in CallRec /\ flight[i].kind \in {"list", "read", "all"}
      /\ flight[i].on \in SUBSET Notes /\ flight[i].got \in Seq(Row)
      /\ flight[i].select \in BOOLEAN
  BY <1>1, CallIs DEF Types
<1>3. /\ UNCHANGED <<items, loading, error, page, panel, ordered, moves>>
      /\ flight[i].state = "sent"
      /\ ordered => \A j \in 1..(i - 1) : flight[j].state # "sent"
  BY DEF Serve
<1>4. ASSUME NEW c \in CallRec, flight' = [flight EXCEPT ![i] = c], Grows, inbox' \in Seq(Row),
             c.kind = flight[i].kind, c.on = flight[i].on, c.state # "sent",
             c.got \in {flight[i].got, <<>>, inbox'},
             c.state = "ok" /\ c.kind = "list" => c.got = inbox' /\ inbox' = inbox,
             c.state = "ok" /\ c.kind \in {"read", "all"} => \A n \in Notes :
               n \in ItemsOf(inbox) /\ (c.kind = "all" \/ n \in c.on) => Read(inbox, n)'
      PROVE  Inductive' /\ NoneUnread
  <2>1. /\ flight' \in Seq(CallRec) /\ Len(flight') = Len(flight) /\ DOMAIN flight' = DOMAIN flight
        /\ flight'[i] = c /\ \A j \in DOMAIN flight : j # i => flight'[j] = flight[j]
    BY <1>2, <1>4
  <2>2. Types'
    BY <1>1, <1>3, <1>4, <2>1 DEF Types
  <2> QED
    BY <1>3, <1>4, <2>1, <2>2, ServeStep
<1>5. ASSUME NEW s \in {"ok", "failed"}, NEW g \in Seq(Row)
      PROVE  LET c == [flight[i] EXCEPT !.state = s, !.got = g]
             IN /\ c \in CallRec /\ c.kind = flight[i].kind /\ c.on = flight[i].on
                /\ c.state = s /\ c.got = g
  BY <1>2 DEF CallRec
<1>6. ASSUME ServeOk(i)
      PROVE  /\ Grows /\ inbox' \in Seq(Row)
             /\ flight[i].kind = "list" => inbox' = inbox
             /\ flight[i].kind # "list" => \A n \in Notes :
                  n \in ItemsOf(inbox) /\ (flight[i].kind = "all" \/ n \in flight[i].on)
                    => Read(inbox, n)'
  <2>1. CASE flight[i].kind = "list"
    <3>1. inbox' = inbox
      BY <1>6, <2>1 DEF ServeOk
    <3> QED
      BY <2>1, <3>1 DEF Grows, Inductive, Once, Types, Distinct, ItemsOf, Read
  <2>2. CASE flight[i].kind = "read"
    <3>1. inbox' = Marked(inbox, flight[i].on)
      BY <1>6, <2>2 DEF ServeOk, Marked
    <3> QED
      BY <2>2, <3>1, MarkGrows
  <2>3. CASE flight[i].kind = "all"
    <3>1. \A j \in DOMAIN inbox : inbox[j].id \in Notes
      BY <1>1, RowIs DEF Types
    <3>2. inbox' = Marked(inbox, Notes)
      BY <1>6, <2>3, <3>1 DEF ServeOk, MarkAllIn, Marked
    <3> QED
      BY <2>3, <3>2, MarkGrows
  <2> QED
    BY <1>2, <2>1, <2>2, <2>3
<1>7. ASSUME NEW s \in {"ok", "failed"}, NEW g \in Seq(Row)
      PROVE  /\ [flight EXCEPT ![i].state = s, ![i].got = g]
                  = [flight EXCEPT ![i] = [flight[i] EXCEPT !.state = s, !.got = g]]
             /\ [flight EXCEPT ![i].state = s]
                  = [flight EXCEPT ![i] = [flight[i] EXCEPT !.state = s, !.got = flight[i].got]]
  BY <1>2 DEF CallRec
<1>8. CASE ServeOk(i) /\ Answered(i, IF flight[i].kind = "list" THEN inbox' ELSE <<>>)
  <2>0. <<>> \in Seq(Row)
    OBVIOUS
  <2>1. PICK g \in Seq(Row) : g = IF flight[i].kind = "list" THEN inbox' ELSE <<>>
    <3>1. CASE flight[i].kind = "list"
      BY <1>6, <1>8, <3>1
    <3>2. CASE flight[i].kind # "list"
      BY <2>0, <3>2
    <3> QED
      BY <3>1, <3>2
  <2>2. PICK c \in CallRec : /\ flight' = [flight EXCEPT ![i] = c]
                             /\ c.kind = flight[i].kind /\ c.on = flight[i].on
                             /\ c.state = "ok" /\ c.got = g
    <3> DEFINE c == [flight[i] EXCEPT !.state = "ok", !.got = g]
    <3>1. flight' = [flight EXCEPT ![i].state = "ok", ![i].got = g]
      BY <1>8, <2>1 DEF Answered
    <3>2. flight' = [flight EXCEPT ![i] = c]
      BY <1>7, <3>1
    <3>3. /\ c \in CallRec /\ c.kind = flight[i].kind /\ c.on = flight[i].on
          /\ c.state = "ok" /\ c.got = g
      BY <1>5
    <3> HIDE DEF c
    <3> QED
      BY <3>2, <3>3
  <2> QED
    BY <1>4, <1>6, <1>8, <2>1, <2>2
<1>9. CASE /\ ServeOk(i) \/ inbox' = inbox
           /\ flight' = [flight EXCEPT ![i].state = "failed"]
  <2>1. PICK c \in CallRec : /\ flight' = [flight EXCEPT ![i] = c]
                             /\ c.kind = flight[i].kind /\ c.on = flight[i].on
                             /\ c.state = "failed" /\ c.got = flight[i].got
    <3>1. flight[i] \in CallRec /\ flight[i].got \in Seq(Row)
      BY <1>2 DEF CallRec
    <3> DEFINE c == [flight[i] EXCEPT !.state = "failed", !.got = flight[i].got]
    <3>2. flight' = [flight EXCEPT ![i] = c]
      BY <1>7, <1>9, <3>1
    <3>3. /\ c \in CallRec /\ c.kind = flight[i].kind /\ c.on = flight[i].on
          /\ c.state = "failed" /\ c.got = flight[i].got
      BY <1>5, <3>1
    <3> HIDE DEF c
    <3> QED
      BY <3>2, <3>3
  <2>2. Grows /\ inbox' \in Seq(Row)
    <3>1. CASE ServeOk(i)
      BY <1>6, <3>1
    <3>2. CASE inbox' = inbox
      BY <3>2 DEF Grows, Inductive, Once, Types, Distinct, ItemsOf, Read
    <3> QED
      BY <1>9, <3>1, <3>2
  <2> QED
    BY <1>4, <2>1, <2>2
<1>10. \/ ServeOk(i) /\ Answered(i, IF flight[i].kind = "list" THEN inbox' ELSE <<>>)
       \/ /\ ServeOk(i) \/ inbox' = inbox
          /\ flight' = [flight EXCEPT ![i].state = "failed"]
  <2>1. CASE ServeOk(i)
    BY <2>1 DEF ServeOk
  <2>2. CASE ~ServeOk(i)
    BY <2>2 DEF Serve
  <2> QED
    BY <2>1, <2>2
<1> QED
  BY <1>8, <1>9, <1>10

\* Taking an answer.
LEMMA TakeKind ==
  ASSUME Inductive, NEW i \in DOMAIN flight, Take(i)
  PROVE  Inductive' /\ NoneUnread
<1>1. Types
  BY DEF Inductive
<1>2. /\ DOMAIN flight = 1..Len(flight) /\ Len(flight) \in Nat /\ flight \in Seq(CallRec)
      /\ flight[i].kind \in {"list", "read", "all"} /\ flight[i].on \in SUBSET Notes
      /\ flight[i].state \in {"sent", "ok", "failed"} /\ flight[i].got \in Seq(Row)
  BY <1>1, CallIs DEF Types
<1>3. /\ flight[i].state # "sent" /\ (ordered => i = 1)
      /\ flight' = RemoveAt(flight, i) /\ UNCHANGED <<inbox, ordered, moves>>
      /\ IF flight[i].kind = "list" THEN TakeList(flight[i]) ELSE ShowMarked(flight[i])
      /\ OpenChosen(flight[i])
  BY DEF Take
<1>4. Shown(i) /\ error' \in BOOLEAN
  <2>1. CASE flight[i].kind = "list"
    BY <1>1, <1>3, <2>1 DEF TakeList, ListFailed, Shown, Served, Types
  <2>2. CASE flight[i].kind # "list" /\ flight[i].state # "ok"
    BY <1>3, <2>2 DEF ShowMarked, Shown
  <2>3. CASE flight[i].kind = "read" /\ flight[i].state = "ok"
    BY <1>1, <1>3, <2>3 DEF ShowMarked, Shown, Served, Marked, Types
  <2>4. CASE flight[i].kind = "all" /\ flight[i].state = "ok"
    <3>1. \A j \in DOMAIN items : items[j].id \in Notes
      BY <1>1, RowIs DEF Types
    <3> QED
      BY <1>1, <1>3, <2>4, <3>1 DEF ShowMarked, Shown, Served, Marked, Types
  <2> QED
    BY <1>2, <2>1, <2>2, <2>3, <2>4
<1>5. items' \in Seq(Row) /\ loading' \in BOOLEAN
  <2>1. Marked(items, flight[i].on) \in Seq(Row) /\ Marked(items, Notes) \in Seq(Row)
    BY <1>1, MarkedIs DEF Types
  <2>2. items' \in Seq(Row)
    BY <1>1, <1>2, <1>4, <2>1 DEF Shown, Types
  <2>3. loading' \in BOOLEAN
    BY <1>1, <1>3 DEF TakeList, ListFailed, ShowMarked, Types
  <2> QED
    BY <2>2, <2>3
<1>6. flight' \in Seq(CallRec) /\ Len(flight') <= MaxFlight
  <2>1. RemoveAt(flight, i) \in Seq(CallRec) /\ Len(RemoveAt(flight, i)) = Len(flight) - 1
    BY <1>2, RemovedIs
  <2> QED
    BY <1>1, <1>2, <1>3, <2>1, InboxAssumption, SMTT(60) DEF Types
<1>7. page' \in {"away", "inbox", "ticket"} /\ panel' \in BOOLEAN
  BY <1>1, <1>3 DEF OpenChosen, Types
<1>8. Types'
  BY <1>1, <1>3, <1>4, <1>5, <1>6, <1>7 DEF Types
<1> QED
  BY <1>3, <1>4, <1>8, TakeStep

\* Nothing happens.
LEMMA StutterStep ==
  ASSUME Inductive, UNCHANGED vars
  PROVE  Inductive' /\ NoneUnread
<1>1. Grows /\ Types'
  BY DEF Grows, Inductive, Once, Types, Distinct, ItemsOf, Read, vars
<1> QED
  BY <1>1, QuietStep DEF vars

\* The first request is on its way, and nothing is shown.
LEMMA InductiveInit == Init => Inductive
<1> SUFFICES ASSUME Init PROVE Inductive
  OBVIOUS
<1> DEFINE c == Call("list", {}, FALSE)
<1>1. c \in CallRec /\ c.kind = "list" /\ c.on = {} /\ c.state = "sent" /\ c.got = <<>>
  BY DEF Call, CallRec
<1>2. items = <<>> /\ flight = <<c>> /\ loading = TRUE
  BY DEF Init
<1> HIDE DEF c
<1>3. Len(flight) = 1 /\ DOMAIN flight = {1} /\ flight[1] = c /\ flight \in Seq(CallRec)
  BY <1>1, <1>2
<1>4. inbox \in Seq(Row) /\ Distinct(inbox)
  <2>1. CASE inbox = <<>>
    <3>1. <<>> \in Seq(Row)
      OBVIOUS
    <3> QED
      BY <2>1, <3>1 DEF Distinct
  <2>2. ASSUME NEW n \in Notes, inbox = <<Item(n, FALSE)>>
        PROVE  inbox \in Seq(Row) /\ Distinct(inbox)
    <3>1. Item(n, FALSE) \in Row
      BY DEF Item, Row
    <3>2. inbox \in Seq(Row) /\ DOMAIN inbox = {1}
      <4>1. <<>> \in Seq(Row)
        OBVIOUS
      <4> QED
        BY <2>2, <3>1, <4>1, FrontIs
    <3> QED
      BY <3>2 DEF Distinct
  <2> QED
    BY <2>1, <2>2 DEF Init
<1>5. Types
  <2>1. items \in Seq(Row)
    BY <1>2
  <2>2. 1 <= MaxFlight /\ 0 \in 0..MaxMoves
    BY InboxAssumption
  <2> QED
    BY <1>3, <1>4, <2>1, <2>2 DEF Init, Types
<1>6. Once
  BY <1>1, <1>2, <1>3, <1>4 DEF Once, Distinct
<1>7. Known
  BY <1>1, <1>2, <1>3 DEF Known, ItemsOf
<1>8. LoadingHasCause
  BY <1>1, <1>3 DEF LoadingHasCause
<1>9. ServedInOrder
  BY <1>1, <1>3 DEF ServedInOrder
<1>10. \A n : \A i \in 1..2 : ~Sure(n, i)
  BY <1>1, <1>2, <1>3 DEF Sure, Served, Read
<1>11. SureIsRead
  BY <1>3, <1>10 DEF SureIsRead
<1>12. ListsAreNewer
  BY <1>1, <1>3 DEF ListsAreNewer, Served
<1> QED
  BY <1>5, <1>6, <1>7, <1>8, <1>9, <1>11, <1>12 DEF Inductive

\* Every step keeps the invariant, and leaves what is shown as read.
LEMMA InductiveNext == Inductive /\ [Next]_vars => Inductive' /\ NoneUnread
<1> SUFFICES ASSUME Inductive, [Next]_vars PROVE Inductive' /\ NoneUnread
  OBVIOUS
<1>1. CASE UserActs
  BY <1>1, UserStep
<1>2. CASE Network
  BY <1>2, ServeKind, TakeKind DEF Network
<1>3. CASE \E n \in Notes : Arrive(n) \/ OtherDevice(n)
  BY <1>3, ServerStep
<1>4. CASE UNCHANGED vars
  BY <1>4, StutterStep
<1> QED
  BY <1>1, <1>2, <1>3, <1>4 DEF Next

\* A list without duplicates has as many ids as rows.
LEMMA OncePerRow ==
  ASSUME NEW rows \in Seq(Row), Distinct(rows)
  PROVE  Cardinality(ItemsOf(rows)) = Len(rows)
<1> DEFINE f == [i \in 1..Len(rows) |-> rows[i].id]
<1>1. DOMAIN rows = 1..Len(rows) /\ Len(rows) \in Nat
  OBVIOUS
<1>2. f \in Bijection(1..Len(rows), ItemsOf(rows))
  <2>1. f \in [1..Len(rows) -> ItemsOf(rows)]
    BY <1>1 DEF ItemsOf
  <2>2. f \in Injection(1..Len(rows), ItemsOf(rows))
    BY <1>1, <2>1 DEF Injection, IsInjective, Distinct
  <2>3. f \in Surjection(1..Len(rows), ItemsOf(rows))
    BY <1>1, <2>1 DEF Surjection, ItemsOf
  <2> QED
    BY <2>2, <2>3 DEF Bijection
<1>3. IsFiniteSet(1..Len(rows)) /\ Cardinality(1..Len(rows)) = Len(rows)
  BY <1>1, FS_Interval, SMTT(60)
<1> QED
  BY <1>2, <1>3, FS_Bijection DEF ExistsBijection

\* The invariant gives what the run checks.
LEMMA InductiveConsistent == Inductive => Consistent
<1> SUFFICES ASSUME Inductive PROVE Consistent
  OBVIOUS
<1>1. Types /\ LoadingHasCause /\ Distinct(items)
  BY DEF Inductive, Once
<1>2. \A i \in DOMAIN items : items[i].id \in Notes /\ items[i].read \in BOOLEAN
  BY <1>1, RowIs DEF Types
<1>3. TypeOK
  <2>1. Cardinality(ItemsOf(items)) = Len(items)
    BY <1>1, OncePerRow DEF Types
  <2> QED
    BY <1>1, <1>2, <2>1 DEF TypeOK, Types
<1>4. ShownReadIsRead
  <2>1. ASSUME ordered, NEW i \in DOMAIN items, items[i].read
        PROVE  ServerRead(items[i].id)
    <3>1. Sure(items[i].id, Len(flight) + 1)
      BY <2>1 DEF Sure, Read
    <3> QED
      BY <1>1, <1>2, <2>1, <3>1, ServerReadIs DEF Inductive, SureIsRead
  <2> QED
    BY <2>1 DEF ShownReadIsRead
<1> QED
  BY <1>1, <1>3, <1>4 DEF Consistent

\* The inbox is consistent at every moment: typed, with every row once, loading
\* only while a list is on its way, and, where answers keep their order,
\* nothing is shown as read that the server has not marked.
THEOREM ConsistentHolds == Spec => []Consistent
<1>1. Init => Inductive
  BY InductiveInit
<1>2. Inductive /\ [Next]_vars => Inductive'
  BY InductiveNext
<1>3. Inductive => Consistent
  BY InductiveConsistent
<1> QED
  BY <1>1, <1>2, <1>3, PTL DEF Spec

\* Where answers keep their order, no answer turns an item that is shown as
\* read back to unread, with any number of marks and lists in flight.
THEOREM ReadStaysReadHolds == Spec => ReadStaysRead
<1>1. Init => Inductive
  BY InductiveInit
<1>2. Inductive /\ [Next]_vars => Inductive'
  BY InductiveNext
<1>3. Inductive /\ [Next]_vars => NoneUnread
  BY InductiveNext
<1>4. [NoneUnread]_vars <=> [ \A i \in DOMAIN items : ordered /\ items[i].read =>
        ~\E j \in DOMAIN items' : items'[j].id = items[i].id /\ ~items'[j].read ]_vars
  BY DEF NoneUnread
<1> QED
  BY <1>1, <1>2, <1>3, <1>4, PTL DEF Spec, ReadStaysRead
=============================================================================
