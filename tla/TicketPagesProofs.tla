-------------------------- MODULE TicketPagesProofs --------------------------
(* Proofs about TicketPages, the ticket pages over the ticket store.          *)
EXTENDS TicketPages, FunctionTheorems, FiniteSetTheorems, WellFoundedInduction, TLAPS

-----------------------------------------------------------------------------
(* Lists.                                                                  *)

\* A set of numbers that is not empty has a least one.
LEMMA LeastNumber ==
  ASSUME NEW S \in SUBSET Nat, S # {}
  PROVE  \E x \in S : \A y \in S : x <= y
<1> DEFINE Less == OpToRel(<, Nat)
<1>1. IsWellFoundedOn(Less, Nat)
  BY NatLessThanWellFounded, Zenon
<1>2. \A m, n \in Nat : <<m, n>> \in Less <=> m < n
  BY Zenon DEF OpToRel
<1> HIDE DEF Less
<1>3. PICK x \in S : \A y \in S : ~(<<y, x>> \in Less)
  BY <1>1, WFMin, Zenon
<1>4. \A y \in S : ~(y < x)
  BY <1>2, <1>3
<1> QED
  BY <1>4

\* The k-th of some places is there, for each k there can be.
LEMMA PlaceIs ==
  ASSUME NEW n \in Nat, NEW places \in SUBSET (1..n),
         NEW k \in 1..Cardinality(places)
  PROVE  \E i \in places : Cardinality({j \in places : j <= i}) = k
<1> DEFINE upTo == [m \in 0..n |-> {j \in places : j <= m}]
           size == [m \in 0..n |-> Cardinality(upTo[m])]
           S == {m \in 0..n : size[m] >= k}
<1>0. ASSUME NEW m \in 0..n PROVE upTo[m] = {j \in places : j <= m}
  OBVIOUS
<1> HIDE DEF upTo
<1>1. IsFiniteSet(places) /\ Cardinality(places) \in Nat
  <2>1. IsFiniteSet(1..n)
    BY FS_Interval
  <2> QED
    BY <2>1, FS_Subset, FS_CardinalityType
<1>2. ASSUME NEW m \in 0..n
      PROVE  IsFiniteSet(upTo[m]) /\ size[m] \in Nat
  <2>1. upTo[m] \in SUBSET places
    BY <1>0
  <2>2. IsFiniteSet(upTo[m]) /\ Cardinality(upTo[m]) \in Nat
    BY <1>1, <2>1, FS_Subset, FS_CardinalityType
  <2> QED
    BY <2>2
<1>3. size[0] = 0 /\ size[n] = Cardinality(places)
  <2>1. upTo[0] = {} /\ upTo[n] = places
    <3>1. 0 \in 0..n /\ n \in 0..n
      OBVIOUS
    <3>2. \A j \in places : j <= n /\ ~(j <= 0)
      OBVIOUS
    <3>3. upTo[0] = {j \in places : j <= 0} /\ upTo[n] = {j \in places : j <= n}
      BY <1>0, <3>1
    <3> QED
      BY <3>2, <3>3
  <2> QED
    BY <2>1, FS_EmptySet
<1>4. ASSUME NEW m \in 1..n
      PROVE  size[m] = IF m \in places THEN size[m - 1] + 1 ELSE size[m - 1]
  <2>0. m - 1 \in 0..n /\ m \in 0..n
    OBVIOUS
  <2>1. m - 1 \in 0..n /\ m \in 0..n /\ m \notin upTo[m - 1]
    BY <1>0, <2>0
  <2>2. upTo[m] = IF m \in places THEN upTo[m - 1] \cup {m} ELSE upTo[m - 1]
    <3>1. /\ upTo[m] = {j \in places : j <= m}
          /\ upTo[m - 1] = {j \in places : j <= m - 1}
      BY <1>0, <2>0
    <3>2. \A j \in places : j <= m <=> (j <= m - 1 \/ j = m)
      OBVIOUS
    <3> QED
      BY <3>1, <3>2
  <2>3. IsFiniteSet(upTo[m - 1])
    BY <1>2, <2>1
  <2>4. Cardinality(upTo[m - 1] \cup {m}) = Cardinality(upTo[m - 1]) + 1
    BY <2>1, <2>3, FS_AddElement
  <2> QED
    BY <2>1, <2>2, <2>4
<1>5. PICK m \in S : \A y \in S : m <= y
  <2>1. S \in SUBSET Nat /\ n \in S
    BY <1>1, <1>3
  <2> QED
    BY <2>1, LeastNumber
<1>6. m \in places /\ size[m] = k
  <2> HIDE DEF size
  <2>1. m # 0
    BY <1>3, <1>5
  <2>2. m \in 1..n /\ m - 1 \in 0..n /\ m - 1 \notin S
    BY <1>5, <2>1
  <2>3. size[m - 1] \in Nat /\ size[m - 1] < k /\ size[m] >= k
    BY <1>2, <1>5, <2>2
  <2> QED
    BY <1>4, <2>2, <2>3
<1>7. Cardinality({j \in places : j <= m}) = k
  BY <1>0, <1>5, <1>6
<1> QED
  BY <1>6, <1>7

\* The entries of a list at some places are entries from those places.
LEMMA EntriesAre ==
  ASSUME NEW T, NEW list \in Seq(T), NEW places \in SUBSET (1..Len(list))
  PROVE  /\ EntriesAt(list, places) \in Seq(T)
         /\ \A k \in 1..Len(EntriesAt(list, places)) :
              \E i \in places : EntriesAt(list, places)[k] = list[i]
<1> DEFINE n == Cardinality(places)
           pick(k) == CHOOSE i \in places : Cardinality({j \in places : j <= i}) = k
           nth == [k \in 1..n |-> pick(k)]
           entries == [k \in 1..n |-> list[nth[k]]]
<1>1. n \in Nat
  <2>1. IsFiniteSet(1..Len(list))
    BY FS_Interval
  <2> QED
    BY <2>1, FS_Subset, FS_CardinalityType
<1>2. ASSUME NEW k \in 1..n PROVE nth[k] \in places
  <2>1. Len(list) \in Nat /\ k \in 1..Cardinality(places)
    OBVIOUS
  <2>2. \E i \in places : Cardinality({j \in places : j <= i}) = k
    BY <2>1, PlaceIs, Zenon
  <2>3. pick(k) \in places
    BY <2>2, Zenon
  <2> QED
    BY <2>3, Zenon
<1>3. EntriesAt(list, places) = entries
  <2>1. EntriesAt(list, places) = [k \in 1..n |-> list[pick(k)]]
    BY DEF EntriesAt
  <2> HIDE DEF pick, n
  <2> QED
    BY <2>1
<1> HIDE DEF nth, n
<1>4. \A k \in 1..n : list[nth[k]] \in T
  <2>1. \A i \in places : list[i] \in T
    OBVIOUS
  <2> QED
    BY <1>2, <2>1, Zenon
<1>5. entries \in [1..n -> T]
  BY <1>4
<1>6. entries \in Seq(T) /\ Len(entries) = n
  BY <1>1, <1>5
<1> QED
  BY <1>2, <1>3, <1>6

\* A list without one thing has no other entries.
LEMMA WithoutIs ==
  ASSUME NEW T, NEW list \in Seq(T), NEW x
  PROVE  Without(list, x) \in Seq(T)
<1>1. {i \in DOMAIN list : list[i] # x} \in SUBSET (1..Len(list))
  OBVIOUS
<1> QED
  BY <1>1, EntriesAre DEF Without

\* An upsert puts the ticket in the place of one with its id, or first.
LEMMA UpsertIs ==
  ASSUME NEW T, NEW items \in Seq(T), NEW x \in T
  PROVE  /\ upsertTicket(items, x) \in Seq(T)
         /\ ToSet(upsertTicket(items, x)) \subseteq ToSet(items) \cup {x}
<1> DEFINE same == {i \in DOMAIN items : items[i].id = x.id}
<1>1. CASE same = {}
  <2>1. upsertTicket(items, x) = <<x>> \o items
    BY <1>1 DEF upsertTicket
  <2> QED
    BY <2>1 DEF ToSet
<1>2. CASE same # {}
  <2>1. PICK at \in same : \A j \in same : at <= j
    <3>1. same \in SUBSET Nat
      OBVIOUS
    <3> QED
      BY <1>2, <3>1, LeastNumber
  <2> DEFINE first == CHOOSE i \in same : \A j \in same : i <= j
  <2>2. first \in same
    BY <2>1
  <2>3. upsertTicket(items, x) = [items EXCEPT ![first] = x]
    BY <1>2 DEF upsertTicket
  <2> HIDE DEF first
  <2> QED
    BY <2>2, <2>3 DEF ToSet
<1> QED
  BY <1>1, <1>2

LEMMA RemovedIs ==
  ASSUME NEW T, NEW s \in Seq(T), NEW i \in 1..Len(s)
  PROVE  /\ RemoveAt(s, i) \in Seq(T)
         /\ Len(RemoveAt(s, i)) = Len(s) - 1
         /\ \A j \in 1..(Len(s) - 1) :
              RemoveAt(s, i)[j] = IF j < i THEN s[j] ELSE s[j + 1]
<1> DEFINE a == SubSeq(s, 1, i - 1)
           b == SubSeq(s, i + 1, Len(s))
<1>1. a \in Seq(T) /\ Len(a) = i - 1 /\ \A j \in 1..(i - 1) : a[j] = s[j]
  OBVIOUS
<1>2. /\ b \in Seq(T) /\ Len(b) = Len(s) - i
      /\ \A j \in 1..(Len(s) - i) : b[j] = s[j + i]
  OBVIOUS
<1>3. RemoveAt(s, i) = a \o b
  BY DEF RemoveAt
<1> HIDE DEF a, b
<1>4. RemoveAt(s, i) \in Seq(T) /\ Len(RemoveAt(s, i)) = Len(s) - 1
  BY <1>1, <1>2, <1>3
<1>5. ASSUME NEW j \in 1..(Len(s) - 1)
      PROVE  RemoveAt(s, i)[j] = IF j < i THEN s[j] ELSE s[j + 1]
  <2>1. CASE j < i
    BY <1>1, <1>2, <1>3, <2>1
  <2>2. CASE ~(j < i)
    <3>1. j - (i - 1) \in 1..(Len(s) - i) /\ (j - (i - 1)) + i = j + 1
      BY <2>2
    <3>2. RemoveAt(s, i)[j] = b[j - (i - 1)]
      BY <1>1, <1>2, <1>3, <2>2, <3>1
    <3> QED
      BY <1>2, <2>2, <3>1, <3>2
  <2> QED
    BY <2>1, <2>2
<1> QED
  BY <1>4, <1>5

\* Upserting one after another (reduce) keeps to the tickets there are.
Reduced(items, n, got, done) ==
  LET after[k \in 0..n] ==
        IF k = 0 THEN items ELSE upsertTicket(after[k - 1], got[done[k]])
  IN after[n]

LEMMA ReduceIs ==
  ASSUME NEW T, NEW items \in Seq(T), NEW N \in Nat, NEW got, NEW done,
         \A k \in 1..N : got[done[k]] \in T
  PROVE  Reduced(items, N, got, done) \in Seq(T)
<1> DEFINE after == CHOOSE f : f = [k \in 0..N |->
                      IF k = 0 THEN items ELSE upsertTicket(f[k - 1], got[done[k]])]
<1> DEFINE Reduces(f, n) ==
             /\ f \in [0..n -> Seq(T)] /\ f[0] = items
             /\ \A k \in 1..n : f[k] = upsertTicket(f[k - 1], got[done[k]])
           bad == {n \in 0..N : ~ \E f : Reduces(f, n)}
<1>1. bad = {}
  <2>1. SUFFICES ASSUME bad # {} PROVE FALSE
    OBVIOUS
  <2>2. PICK m \in bad : \A n \in bad : m <= n
    <3>1. bad \in SUBSET Nat
      OBVIOUS
    <3> QED
      BY <2>1, <3>1, LeastNumber
  <2>3. m # 0
    <3>1. Reduces([k \in 0..0 |-> items], 0)
      OBVIOUS
    <3> QED
      BY <2>2, <3>1, ZenonT(60)
  <2>4. m \in 1..N /\ m - 1 \in 0..N /\ m - 1 \notin bad
    <3>1. m \in 0..N
      OBVIOUS
    <3> HIDE DEF bad
    <3> QED
      BY <2>2, <2>3, <3>1
  <2>5. PICK f : Reduces(f, m - 1)
    <3> HIDE DEF Reduces
    <3> QED
      BY <2>4
  <2>6. f[m - 1] \in Seq(T) /\ upsertTicket(f[m - 1], got[done[m]]) \in Seq(T)
    BY <2>4, <2>5, UpsertIs, SMTT(60)
  <2> DEFINE g == [k \in 0..m |-> IF k < m THEN f[k] ELSE upsertTicket(f[m - 1], got[done[m]])]
  <2>7. Reduces(g, m)
    <3>1. g \in [0..m -> Seq(T)] /\ g[0] = items
      BY <2>4, <2>5, <2>6
    <3>2. ASSUME NEW k \in 1..m PROVE g[k] = upsertTicket(g[k - 1], got[done[k]])
      <4>1. CASE k = m
        BY <2>4, <4>1
      <4>2. CASE k # m
        BY <2>4, <2>5, <4>2
      <4> QED
        BY <4>1, <4>2
    <3> QED
      BY <3>1, <3>2
  <2> QED
    BY <2>2, <2>7
<1>2. PICK f : Reduces(f, N)
  <2>1. N \in 0..N
    OBVIOUS
  <2> HIDE DEF Reduces
  <2> QED
    BY <1>1, <2>1
<1>3. f = [k \in 0..N |-> IF k = 0 THEN items ELSE upsertTicket(f[k - 1], got[done[k]])]
  BY <1>2
<1>4. after = [k \in 0..N |-> IF k = 0 THEN items ELSE upsertTicket(after[k - 1], got[done[k]])]
  BY <1>3
<1> DEFINE wrong == {n \in 0..N : after[n] \notin Seq(T)}
<1>0. Reduced(items, N, got, done) = after[N]
  BY Zenon DEF Reduced
<1> HIDE DEF Reduces, bad, after
<1>5. wrong = {}
  <2>1. SUFFICES ASSUME wrong # {} PROVE FALSE
    OBVIOUS
  <2>2. PICK m \in wrong : \A n \in wrong : m <= n
    <3>1. wrong \in SUBSET Nat
      OBVIOUS
    <3> QED
      BY <2>1, <3>1, LeastNumber
  <2>3. m # 0
    BY <1>4, <2>2
  <2>4. m \in 1..N /\ m - 1 \in 0..N /\ m - 1 \notin wrong
    BY <2>2, <2>3
  <2>5. after[m] = upsertTicket(after[m - 1], got[done[m]])
    BY <1>4, <2>3, <2>4
  <2>6. after[m] \in Seq(T)
    BY <2>4, <2>5, UpsertIs
  <2> QED
    BY <2>2, <2>6
<1> QED
  BY <1>0, <1>5

-----------------------------------------------------------------------------
(* What the requests and the store may hold.                               *)

Known == {x \in TicketType : x.id # NoTicket}

\* The thread of a ticket is part of the one the server has.
Belongs(x, rs) == x.id # NoTicket => ToSet(x.comments) \subseteq ToSet(rs[x.id].comments)

\* What lists and PATCHes are answered with: no thread, and the right name.
Bare == {x \in Known : x.comments = <<>> /\ x.name = x.assignee}

States == {"sent", "ok", "error"}

WantType ==
  [mine : BOOLEAN, status : Statuses \cup {"all"}, assignee : {"all", "me", "unassigned"},
   page : Nat, size : Nat]

\* A name goes with an assignee.
PatchType ==
  {p \in [status : Statuses \cup {Keep}, assignee : Users \cup {NoUser, Keep},
          dept : Depts \cup {Keep}, name : Users \cup {NoUser, Keep}] :
     p.name # Keep => p.assignee # Keep /\ p.name \in {p.assignee, NoUser}}

ListCalls == [op : {"list"}, want : WantType, state : States, got : Seq(Bare)]

DetailCalls ==
  [op : {"detail"}, on : Tickets, state : States, left : SUBSET {"row", "comments", "files"},
   got : TicketType]

FormCalls ==
  [op : {"create"}, on : {NoTicket}, want : Files \cup {NoFile}, state : States, got : TicketType]

NewFileCalls ==
  [op : {"uploadNew"}, on : Tickets, want : Files, state : States, got : Bare]

UpdateCalls ==
  [op : {"update"}, on : Tickets, want : PatchType, state : States, got : TicketType]

CommentCalls ==
  [op : {"comment"}, on : Tickets, want : Comments, state : States, got : TicketType]

FileCalls ==
  [op : {"upload", "remove"}, on : Tickets, want : Files, state : States, got : TicketType]

BulkCalls ==
  [op : {"bulk"}, on : Seq(Tickets), want : PatchType, state : States, left : SUBSET Tickets,
   got : UNION {[S -> Bare \cup {Nothing}] : S \in SUBSET Tickets}, here : BOOLEAN]

Calls ==
  UNION {ListCalls, DetailCalls, FormCalls, NewFileCalls, UpdateCalls, CommentCalls,
         FileCalls, BulkCalls}

\* What an answer says is about its ticket, and its thread is the server's.
DetailFits(c, rs) ==
  /\ c.got.name = c.got.assignee
  /\ c.got.id = IF "row" \in c.left THEN NoTicket ELSE c.on
  /\ ToSet(c.got.comments) \subseteq ToSet(rs[c.on].comments)
  /\ c.state = "ok" => c.left = {}

UpdateFits(c) ==
  c.state = "ok" =>
    /\ c.got \in Bare /\ c.got.id = c.on
    /\ c.want.assignee # Keep => c.got.assignee = c.want.assignee

Fits(c, rs) ==
  /\ c.op = "detail" => DetailFits(c, rs)
  /\ c.op = "create" /\ c.state = "ok" => c.got \in Bare
  /\ c.op = "update" => UpdateFits(c)
  /\ c.op = "comment" /\ c.state = "ok" => c.want \in ToSet(rs[c.on].comments)
  /\ c.op = "bulk" => c.left \subseteq ToSet(c.on) /\ DOMAIN c.got = ToSet(c.on)

CallsFit(cs, rs) == cs \in Seq(Calls) /\ \A i \in 1..Len(cs) : Fits(cs[i], rs)

\* The open ticket's name is its assignee's, or missing.
Named(x) == x.name \in {x.assignee, NoUser}

\* The store: tickets with their own threads, the open one with its name.
InList(rs) == {x \in Known : Belongs(x, rs)}

StoreFits(s, rs) ==
  /\ s \in StoreType
  /\ s.items \in Seq(InList(rs))
  /\ Belongs(s.selected, rs)
  /\ Named(s.selected)

\* There is a request for every spinner.
Has(cs, ops) == \E i \in 1..Len(cs) : cs[i].op \in ops

Waits(s, cs) ==
  /\ s.loading => Has(cs, {"list"})
  /\ s.detailLoading => Has(cs, {"detail"})
  /\ s.mutating => Has(cs, Mutations)

RowsKnown == rows \in [Tickets -> RowType] /\ recency \in Seq(Tickets)

PageKnown ==
  /\ session \in Sessions
  /\ place \in Places \cup {At("start"), At("mine"), At("queue")}
  /\ picked \in Seq(Tickets)
  /\ moves \in 0..MaxMoves

PagesInductive ==
  /\ RowsKnown /\ PageKnown
  /\ StoreFits(store, rows)
  /\ CallsFit(calls, rows)
  /\ Waits(store, calls)

\* Threads only grow.
Grows(rs, rt) ==
  /\ rt \in [Tickets -> RowType]
  /\ \A t \in Tickets : ToSet(rs[t].comments) \subseteq ToSet(rt[t].comments)

-----------------------------------------------------------------------------
(* Requests.                                                               *)

\* The kind of a request says what it is made of.
LEMMA CallIs ==
  ASSUME NEW c \in Calls
  PROVE  /\ c.op = "list" => c \in ListCalls
         /\ c.op = "detail" => c \in DetailCalls
         /\ c.op = "create" => c \in FormCalls
         /\ c.op = "uploadNew" => c \in NewFileCalls
         /\ c.op = "update" => c \in UpdateCalls
         /\ c.op = "comment" => c \in CommentCalls
         /\ c.op \in {"upload", "remove"} => c \in FileCalls
         /\ c.op = "bulk" => c \in BulkCalls
<1>1. /\ c \in ListCalls => c.op = "list"
      /\ c \in DetailCalls => c.op = "detail"
      /\ c \in FormCalls => c.op = "create"
      /\ c \in NewFileCalls => c.op = "uploadNew"
      /\ c \in UpdateCalls => c.op = "update"
      /\ c \in CommentCalls => c.op = "comment"
      /\ c \in FileCalls => c.op \in {"upload", "remove"}
      /\ c \in BulkCalls => c.op = "bulk"
  BY DEF ListCalls, DetailCalls, FormCalls, NewFileCalls, UpdateCalls, CommentCalls,
         FileCalls, BulkCalls
<1>2. \/ c \in ListCalls \/ c \in DetailCalls \/ c \in FormCalls \/ c \in NewFileCalls
      \/ c \in UpdateCalls \/ c \in CommentCalls \/ c \in FileCalls \/ c \in BulkCalls
  BY DEF Calls
<1> QED
  BY <1>1, <1>2

\* Requests fit when rows only grow.
LEMMA CallsFitLater ==
  ASSUME NEW rs, NEW rt, NEW cs, CallsFit(cs, rs), Grows(rs, rt)
  PROVE  CallsFit(cs, rt)
<1> SUFFICES ASSUME NEW i \in 1..Len(cs) PROVE Fits(cs[i], rt)
  BY DEF CallsFit
<1>1. cs[i] \in Calls /\ Fits(cs[i], rs)
  BY DEF CallsFit
<1>2. cs[i].op \in {"detail", "comment"} => cs[i].on \in Tickets
  BY <1>1, CallIs DEF DetailCalls, CommentCalls
<1>3. cs[i].op \in {"detail", "comment"} =>
        ToSet(rs[cs[i].on].comments) \subseteq ToSet(rt[cs[i].on].comments)
  BY <1>2 DEF Grows
<1> QED
  BY <1>1, <1>3 DEF Fits, DetailFits

LEMMA StoreFitsLater ==
  ASSUME NEW rs, NEW rt, NEW s, StoreFits(s, rs), Grows(rs, rt)
  PROVE  StoreFits(s, rt)
<1>1. ASSUME NEW x \in TicketType, Belongs(x, rs) PROVE Belongs(x, rt)
  BY <1>1 DEF Belongs, Grows, TicketType
<1>2. InList(rs) \subseteq InList(rt)
  BY <1>1 DEF InList, Known
<1>3. s.items \in Seq(InList(rt))
  BY <1>2 DEF StoreFits
<1>4. s.selected \in TicketType
  BY DEF StoreFits, StoreType
<1> QED
  BY <1>1, <1>3, <1>4 DEF StoreFits

LEMMA CallRemoved ==
  ASSUME NEW rs, NEW cs, CallsFit(cs, rs), NEW i \in 1..Len(cs)
  PROVE  /\ CallsFit(RemoveAt(cs, i), rs)
         /\ \A ops : Has(cs, ops) /\ cs[i].op \notin ops => Has(RemoveAt(cs, i), ops)
<1>1. /\ cs \in Seq(Calls)
      /\ RemoveAt(cs, i) \in Seq(Calls)
      /\ Len(RemoveAt(cs, i)) = Len(cs) - 1
      /\ \A j \in 1..(Len(cs) - 1) : RemoveAt(cs, i)[j] = IF j < i THEN cs[j] ELSE cs[j + 1]
  BY RemovedIs DEF CallsFit
<1>2. \A j \in 1..(Len(cs) - 1) : j \in 1..Len(cs) /\ j + 1 \in 1..Len(cs)
  BY <1>1
<1>3. CallsFit(RemoveAt(cs, i), rs)
  BY <1>1, <1>2 DEF CallsFit
<1>4. ASSUME NEW ops, Has(cs, ops), cs[i].op \notin ops PROVE Has(RemoveAt(cs, i), ops)
  <2>1. PICK k \in 1..Len(cs) : cs[k].op \in ops
    BY <1>4 DEF Has
  <2>2. CASE k < i
    <3>1. k \in 1..(Len(cs) - 1)
      BY <1>1, <2>2
    <3> QED
      BY <1>1, <2>1, <2>2, <3>1 DEF Has
  <2>3. CASE k > i
    <3>1. k - 1 \in 1..(Len(cs) - 1) /\ ~(k - 1 < i) /\ (k - 1) + 1 = k
      BY <1>1, <2>3
    <3> QED
      BY <1>1, <2>1, <3>1 DEF Has
  <2> QED
    BY <1>4, <2>1, <2>2, <2>3
<1> QED
  BY <1>3, <1>4

LEMMA CallAdded ==
  ASSUME NEW rs, NEW cs, CallsFit(cs, rs), NEW c \in Calls, Fits(c, rs)
  PROVE  /\ CallsFit(Append(cs, c), rs)
         /\ \A ops : Has(cs, ops) \/ c.op \in ops => Has(Append(cs, c), ops)
<1>1. /\ cs \in Seq(Calls) /\ Append(cs, c) \in Seq(Calls)
      /\ Len(Append(cs, c)) = Len(cs) + 1
      /\ \A j \in 1..Len(cs) : Append(cs, c)[j] = cs[j]
      /\ Append(cs, c)[Len(cs) + 1] = c
  BY DEF CallsFit
<1>2. \A j \in 1..(Len(cs) + 1) : j \in 1..Len(cs) \/ j = Len(cs) + 1
  BY <1>1
<1>3. CallsFit(Append(cs, c), rs)
  BY <1>1, <1>2 DEF CallsFit
<1>4. ASSUME NEW ops, Has(cs, ops) \/ c.op \in ops PROVE Has(Append(cs, c), ops)
  <2>1. Len(cs) + 1 \in 1..(Len(cs) + 1) /\ \A j \in 1..Len(cs) : j \in 1..(Len(cs) + 1)
    BY <1>1
  <2> QED
    BY <1>1, <1>4, <2>1 DEF Has
<1> QED
  BY <1>3, <1>4

LEMMA CallChanged ==
  ASSUME NEW rs, NEW cs, CallsFit(cs, rs), NEW i \in 1..Len(cs), NEW c \in Calls, Fits(c, rs),
         c.op = cs[i].op
  PROVE  /\ CallsFit([cs EXCEPT ![i] = c], rs)
         /\ \A ops : Has(cs, ops) => Has([cs EXCEPT ![i] = c], ops)
<1>1. /\ cs \in Seq(Calls) /\ [cs EXCEPT ![i] = c] \in Seq(Calls)
      /\ Len([cs EXCEPT ![i] = c]) = Len(cs)
      /\ \A j \in 1..Len(cs) : [cs EXCEPT ![i] = c][j] = IF j = i THEN c ELSE cs[j]
  BY DEF CallsFit
<1> QED
  BY <1>1 DEF CallsFit, Has

-----------------------------------------------------------------------------
(* The functions of the store keep what it may hold.                       *)

LEMMA NothingIs ==
  /\ Nothing \in TicketType /\ Nothing.id = NoTicket /\ Nothing.name = Nothing.assignee
  /\ \A rs : Belongs(Nothing, rs)
BY StoreAssumption DEF Nothing, Ticket, TicketType, Belongs

LEMMA BareIs ==
  ASSUME NEW x \in Bare
  PROVE  /\ x \in TicketType /\ x.id # NoTicket /\ x.id \in Tickets
         /\ x.name = x.assignee /\ x.comments = <<>>
         /\ \A rs : Belongs(x, rs) /\ x \in InList(rs)
BY DEF Bare, Known, TicketType, Belongs, InList, ToSet

LEMMA ListAnsweredFits ==
  ASSUME NEW rs, NEW s, StoreFits(s, rs), NEW c \in ListCalls
  PROVE  StoreFits(ListAnswered(s, c), rs)
<1> DEFINE all == filterTickets(c.got, c.want)
           result == paginate(all, c.want.page, c.want.size)
<1>1. c.got \in Seq(InList(rs)) /\ c.want.page \in Nat /\ c.want.size \in Nat
  <2>1. Bare \subseteq InList(rs)
    BY BareIs
  <2>2. c.got \in Seq(Bare)
    BY DEF ListCalls
  <2> QED
    BY <2>1, <2>2 DEF ListCalls, WantType
<1>2. all \in Seq(InList(rs))
  <2>1. {i \in DOMAIN c.got : Passes(c.got[i], c.want)} \in SUBSET (1..Len(c.got))
    BY <1>1
  <2> QED
    BY <1>1, <2>1, EntriesAre DEF filterTickets
<1> HIDE DEF all
<1>3. result.items \in Seq(InList(rs)) /\ {result.total, result.page, result.pageSize} \subseteq Nat
  <2> DEFINE from == IF c.want.page < 1 THEN 1 ELSE c.want.page
             start == (from - 1) * c.want.size
             end == IF start + c.want.size > Len(all) THEN Len(all) ELSE start + c.want.size
  <2>1. from \in Nat /\ from - 1 \in Nat
    BY <1>1
  <2>2. start \in Nat
    BY <1>1, <2>1
  <2>3. result = [items |-> SubSeq(all, start + 1, end), total |-> Len(all),
                  page |-> from, pageSize |-> c.want.size]
    BY DEF paginate
  <2> HIDE DEF from, start, result
  <2>4. SubSeq(all, start + 1, end) \in Seq(InList(rs))
    BY <1>1, <1>2, <2>2, SMTT(60)
  <2> QED
    BY <1>1, <1>2, <2>1, <2>3, <2>4
<1>4. ListAnswered(s, c) =
        [s EXCEPT !.items = result.items, !.total = result.total,
                  !.page = result.page, !.pageSize = result.pageSize, !.loading = FALSE]
  BY DEF ListAnswered, all
<1> HIDE DEF result
<1>5. result.items \in Seq({x \in TicketType : x.id # NoTicket})
  BY <1>3 DEF InList, Known
<1> QED
  BY <1>3, <1>4, <1>5, ZenonT(60) DEF StoreFits, StoreType

\* A list that fits has the type of the items.
LEMMA ItemsAre ==
  ASSUME NEW rs, NEW items \in Seq(InList(rs))
  PROVE  items \in Seq({x \in TicketType : x.id # NoTicket})
BY DEF InList, Known

\* What changes neither tickets nor numbers of a store keeps it fit.
LEMMA SignsFit ==
  ASSUME NEW rs, NEW s, StoreFits(s, rs),
         NEW loading \in BOOLEAN, NEW detailLoading \in BOOLEAN, NEW mutating \in BOOLEAN,
         NEW error \in {"none", "list", "detail"} \cup Mutations
  PROVE  StoreFits([s EXCEPT !.loading = loading, !.detailLoading = detailLoading,
                             !.mutating = mutating, !.error = error], rs)
BY ZenonT(60) DEF StoreFits, StoreType

LEMMA FailedFits ==
  ASSUME NEW rs, NEW s, StoreFits(s, rs)
  PROVE  /\ StoreFits(ListFailed(s), rs)
         /\ StoreFits(DetailFailed(s), rs)
         /\ \A op \in Mutations : StoreFits(MutationFailed(s, op), rs)
         /\ StoreFits(fetchList(s), rs)
         /\ StoreFits(fetchById(s), rs)
         /\ StoreFits(StartMutation(s), rs)
<1>1. Nothing \in TicketType /\ Belongs(Nothing, rs) /\ Nothing.name = Nothing.assignee
  BY NothingIs
<1> QED
  BY <1>1 DEF ListFailed, DetailFailed, MutationFailed, fetchList, fetchById, StartMutation,
     StoreFits, StoreType, Named

LEMMA SettingsFit ==
  ASSUME NEW rs, NEW s, StoreFits(s, rs)
  PROVE  /\ \A scope \in {"mine", "queue"} : StoreFits(setScope(s, scope), rs)
         /\ \A page \in Int : StoreFits(setPage(s, page), rs)
         /\ \A v \in Statuses \cup {"all"} : StoreFits(setFilters(s, "status", v), rs)
         /\ \A v \in {"all", "me", "unassigned"} : StoreFits(setFilters(s, "assignee", v), rs)
<1>1. \A scope \in {"mine", "queue"} : StoreFits(setScope(s, scope), rs)
  BY DEF StoreFits, StoreType, setScope
<1>2. \A page \in Int : StoreFits(setPage(s, page), rs)
  BY DEF StoreFits, StoreType, setPage
<1>3. \A v \in Statuses \cup {"all"} : StoreFits(setFilters(s, "status", v), rs)
  BY DEF StoreFits, StoreType, FilterType, setFilters
<1>4. \A v \in {"all", "me", "unassigned"} : StoreFits(setFilters(s, "assignee", v), rs)
  BY DEF StoreFits, StoreType, FilterType, setFilters
<1> QED
  BY <1>1, <1>2, <1>3, <1>4

LEMMA DetailAnsweredFits ==
  ASSUME NEW rs, NEW s, StoreFits(s, rs), NEW c \in DetailCalls, DetailFits(c, rs), c.state = "ok"
  PROVE  StoreFits(DetailAnswered(s, c), rs)
<1>1. c.got \in TicketType /\ c.got.id = c.on /\ c.on \in Tickets
  BY DEF DetailCalls, DetailFits
<1>2. Belongs(c.got, rs) /\ c.got.name = c.got.assignee
  BY <1>1 DEF DetailFits, Belongs
<1>3. c.got \in InList(rs)
  BY <1>1, <1>2, StoreAssumption DEF InList, Known
<1>4. upsertTicket(s.items, c.got) \in Seq(InList(rs))
  BY <1>3, UpsertIs DEF StoreFits
<1> QED
  BY <1>1, <1>2, <1>4, ItemsAre DEF StoreFits, StoreType, DetailAnswered, Named

LEMMA CreatedFits ==
  ASSUME NEW rs, NEW s, StoreFits(s, rs), NEW x \in InList(rs), x.name = x.assignee,
         NEW error \in {"none", "list", "detail"} \cup Mutations
  PROVE  StoreFits(Created(s, x, error), rs)
<1>1. x \in TicketType /\ Belongs(x, rs)
  BY DEF InList, Known
<1>2. <<x>> \o s.items \in Seq(InList(rs))
  BY DEF StoreFits
<1>3. s.total + 1 \in Nat
  BY DEF StoreFits, StoreType
<1> QED
  BY <1>1, <1>2, <1>3, ItemsAre DEF StoreFits, StoreType, Created, Named

\* A PATCH answer keeps the thread and the name of the copy it is laid over.
LEMMA MergeIs ==
  ASSUME NEW x \in Bare, NEW y \in TicketType, y.id = x.id, Named(y)
  PROVE  /\ Merge(x, y) \in TicketType /\ Merge(x, y).id = x.id
         /\ Merge(x, y).comments = y.comments
         /\ Merge(x, y).assignee = x.assignee /\ Merge(x, y).name = x.assignee
<1>1. /\ x \in TicketType /\ x.comments = <<>> /\ x.name = x.assignee
  BY BareIs
<1> QED
  BY <1>1, ZenonT(60) DEF Merge, TicketType, Named

LEMMA TicketUpdatedFits ==
  ASSUME NEW rs, NEW s, StoreFits(s, rs), NEW x \in Bare
  PROVE  /\ StoreFits(TicketUpdated(s, x), rs)
         /\ TicketUpdated(s, x).selected.id = s.selected.id
         /\ TicketUpdated(s, x).selected.comments = s.selected.comments
         /\ s.selected.id = x.id => TicketUpdated(s, x).selected.assignee = x.assignee
<1> DEFINE same == s.selected.id = x.id
           merged == IF same THEN Merge(x, s.selected) ELSE x
<1>1. s.selected \in TicketType /\ Named(s.selected) /\ Belongs(s.selected, rs)
  BY DEF StoreFits, StoreType
<1>2. x \in InList(rs) /\ x.id # NoTicket
  BY BareIs
<1>3. ASSUME same
      PROVE  /\ merged \in TicketType /\ merged.id = x.id
             /\ merged.comments = s.selected.comments
             /\ merged.assignee = x.assignee /\ Named(merged)
             /\ Belongs(merged, rs)
  BY <1>1, <1>3, MergeIs DEF Belongs, Named
<1>4. merged \in InList(rs)
  <2>1. CASE same
    BY <1>2, <1>3, <2>1 DEF InList, Known
  <2>2. CASE ~same
    BY <1>2, <2>2
  <2> QED
    BY <2>1, <2>2
<1>5. upsertTicket(s.items, merged) \in Seq(InList(rs))
  BY <1>4, UpsertIs DEF StoreFits
<1>6. TicketUpdated(s, x) =
        [s EXCEPT !.items = upsertTicket(s.items, merged),
                  !.selected = IF same THEN merged ELSE s.selected, !.mutating = FALSE]
  BY DEF TicketUpdated, StoreFits, StoreType
<1> HIDE DEF merged
<1> QED
  BY <1>1, <1>3, <1>5, <1>6, ItemsAre, ZenonT(60) DEF StoreFits, StoreType

LEMMA RenamedFits ==
  ASSUME NEW rs, NEW s, StoreFits(s, rs), NEW c \in UpdateCalls,
         s.selected.id = c.on /\ c.want.assignee # Keep => s.selected.assignee = c.want.assignee
  PROVE  /\ StoreFits(Renamed(s, c), rs)
         /\ Renamed(s, c).selected.id = s.selected.id
         /\ Renamed(s, c).selected.comments = s.selected.comments
<1>1. /\ c.want.name \in Users \cup {NoUser, Keep}
      /\ c.want.name # Keep => c.want.assignee # Keep /\ c.want.name \in {c.want.assignee, NoUser}
  BY DEF UpdateCalls, PatchType
<1>2. s.selected \in TicketType
  BY DEF StoreFits, StoreType
<1>3. CASE c.want.name # Keep /\ s.selected.id = c.on
  <2>1. Renamed(s, c) = [s EXCEPT !.selected.name = c.want.name]
    BY <1>3 DEF Renamed
  <2> DEFINE x == [s.selected EXCEPT !.name = c.want.name]
  <2>2. /\ x \in TicketType /\ x.id = s.selected.id /\ x.comments = s.selected.comments
        /\ x.assignee = s.selected.assignee /\ x.name = c.want.name
    BY <1>1, <1>2, <1>3 DEF TicketType
  <2>3. Belongs(x, rs)
    BY <2>2 DEF StoreFits, Belongs
  <2>4. Renamed(s, c) = [s EXCEPT !.selected = x]
    BY <2>1
  <2> HIDE DEF x
  <2>5. Named(x)
    BY <1>1, <1>3, <2>2 DEF Named
  <2> QED
    BY <2>2, <2>3, <2>4, <2>5 DEF StoreFits, StoreType
<1>4. CASE ~(c.want.name # Keep /\ s.selected.id = c.on)
  BY <1>4 DEF Renamed
<1> QED
  BY <1>3, <1>4

LEMMA CommentAddedFits ==
  ASSUME NEW rs, NEW s, StoreFits(s, rs), NEW t \in Tickets, NEW comment \in Comments,
         comment \in ToSet(rs[t].comments)
  PROVE  /\ StoreFits(CommentAdded(s, t, comment), rs)
         /\ CommentAdded(s, t, comment).selected.id = s.selected.id
         /\ CommentAdded(s, t, comment).selected.comments
              \in {s.selected.comments, Append(s.selected.comments, comment)}
<1> DEFINE x == IF s.selected.id = t
                THEN [s.selected EXCEPT !.comments = Append(@, comment)]
                ELSE s.selected
           items == [i \in DOMAIN s.items |->
                       IF s.items[i].id = t /\ x.id # NoTicket THEN x ELSE s.items[i]]
<1>1. /\ s.selected \in TicketType /\ Named(s.selected)
      /\ Belongs(s.selected, rs) /\ s.selected.comments \in Seq(Comments)
  BY DEF StoreFits, StoreType, TicketType
<1>2. /\ x \in TicketType /\ x.id = s.selected.id /\ Named(x)
      /\ x.comments \in {s.selected.comments, Append(s.selected.comments, comment)}
  <2>1. CASE s.selected.id = t
    <3>1. PICK longer \in Seq(Comments) : longer = Append(s.selected.comments, comment)
      <4>1. s.selected.comments \in Seq(Comments)
        BY <1>1
      <4>2. Append(s.selected.comments, comment) \in Seq(Comments)
        BY <4>1
      <4> QED
        BY <4>2
    <3>2. x = [s.selected EXCEPT !.comments = longer]
      BY <2>1, <3>1
    <3> HIDE DEF x
    <3>3. x \in TicketType /\ x.id = s.selected.id /\ x.comments = longer
      BY <1>1, <3>2 DEF TicketType
    <3>4. x.name = s.selected.name /\ x.assignee = s.selected.assignee
      BY <1>1, <3>2 DEF TicketType
    <3> QED
      BY <1>1, <3>1, <3>3, <3>4 DEF Named
  <2>2. CASE s.selected.id # t
    BY <1>1, <2>2
  <2> QED
    BY <2>1, <2>2
<1>3. Belongs(x, rs)
  <2>1. CASE s.selected.id = t
    <3>1. x.comments = Append(s.selected.comments, comment)
      BY <1>1, <2>1 DEF TicketType
    <3>2. ToSet(x.comments) \subseteq ToSet(s.selected.comments) \cup {comment}
      BY <1>1, <3>1 DEF ToSet
    <3>3. x.id = t /\ t # NoTicket
      BY <1>2, <2>1, StoreAssumption
    <3> HIDE DEF x
    <3> QED
      BY <1>1, <2>1, <3>2, <3>3 DEF Belongs
  <2>2. CASE s.selected.id # t
    BY <1>1, <2>2
  <2> QED
    BY <2>1, <2>2
<1>4. CommentAdded(s, t, comment) =
        [s EXCEPT !.selected = x, !.items = items, !.mutating = FALSE]
  BY DEF CommentAdded, StoreFits, StoreType
<1> HIDE DEF x
<1>5. items \in Seq(InList(rs))
  <2>1. s.items \in Seq(InList(rs))
    BY DEF StoreFits
  <2>2. x.id # NoTicket => x \in InList(rs)
    BY <1>2, <1>3 DEF InList, Known
  <2> QED
    BY <2>1, <2>2
<1> HIDE DEF items
<1> QED
  BY <1>2, <1>3, <1>4, <1>5, ItemsAre, ZenonT(60) DEF StoreFits, StoreType

\* Tickets that differ from x in their files.
OtherFiles(x) == {[x EXCEPT !.files = files] : files \in Seq(Files)}

LEMMA OtherFilesAre ==
  ASSUME NEW rs, NEW x \in TicketType, NEW y \in OtherFiles(x)
  PROVE  /\ y \in TicketType /\ y.id = x.id /\ y.comments = x.comments
         /\ y.name = x.name /\ y.assignee = x.assignee
         /\ Belongs(x, rs) => Belongs(y, rs)
         /\ x \in InList(rs) => y \in InList(rs)
<1>1. PICK files \in Seq(Files) : y = [x EXCEPT !.files = files]
  BY DEF OtherFiles
<1>2. /\ y \in TicketType /\ y.id = x.id /\ y.comments = x.comments
      /\ y.name = x.name /\ y.assignee = x.assignee
  BY <1>1 DEF TicketType
<1> QED
  BY <1>2 DEF Belongs, InList, Known

Laid(s, y, items) == [s EXCEPT !.selected = y, !.items = items, !.mutating = FALSE]

LEMMA FilesPatchedFit ==
  ASSUME NEW rs, NEW s, StoreFits(s, rs), NEW y \in OtherFiles(s.selected),
         NEW items \in [DOMAIN s.items -> TicketType],
         \A i \in DOMAIN s.items : items[i] \in OtherFiles(s.items[i]),
         NEW after, after = Laid(s, y, items)
  PROVE  /\ StoreFits(after, rs)
         /\ after.selected.id = s.selected.id
         /\ after.selected.comments = s.selected.comments
<1>1. /\ s.selected \in TicketType /\ s.items \in Seq(InList(rs)) /\ Belongs(s.selected, rs)
      /\ Named(s.selected)
  BY DEF StoreFits, StoreType
<1>2. /\ y \in TicketType /\ y.id = s.selected.id /\ y.comments = s.selected.comments
      /\ Named(y) /\ Belongs(y, rs)
  BY <1>1, OtherFilesAre DEF Named
<1>3. \A i \in DOMAIN s.items : items[i] \in InList(rs)
  <2> SUFFICES ASSUME NEW i \in DOMAIN s.items PROVE items[i] \in InList(rs)
    OBVIOUS
  <2>1. s.items[i] \in InList(rs)
    BY <1>1
  <2>2. s.items[i] \in TicketType
    BY <2>1 DEF InList, Known
  <2> QED
    BY <2>1, <2>2, OtherFilesAre
<1>4. items \in Seq(InList(rs))
  <2>1. DOMAIN s.items = 1..Len(s.items) /\ Len(s.items) \in Nat
    BY <1>1
  <2>2. items \in [1..Len(s.items) -> InList(rs)]
    BY <1>3, <2>1
  <2> QED
    BY <2>1, <2>2
<1> QED
  BY <1>1, <1>2, <1>4, ItemsAre DEF StoreFits, StoreType, Laid

\* The same ticket with its own files is one of them.
LEMMA OwnFiles ==
  ASSUME NEW x \in TicketType
  PROVE  x \in OtherFiles(x)
<1>1. x = [x EXCEPT !.files = x.files] /\ x.files \in Seq(Files)
  BY DEF TicketType
<1> QED
  BY <1>1 DEF OtherFiles

LEMMA FileUploadedFits ==
  ASSUME NEW rs, NEW s, StoreFits(s, rs), NEW t, NEW file \in Files
  PROVE  /\ StoreFits(FileUploaded(s, t, file), rs)
         /\ FileUploaded(s, t, file).selected.id = s.selected.id
         /\ FileUploaded(s, t, file).selected.comments = s.selected.comments
<1> DEFINE With(x) == IF x.id = t THEN [x EXCEPT !.files = Append(@, file)] ELSE x
           items == [i \in DOMAIN s.items |-> With(s.items[i])]
<1>1. FileUploaded(s, t, file) =
        [s EXCEPT !.selected = With(s.selected), !.items = items, !.mutating = FALSE]
  BY DEF FileUploaded, FilesPatched, StoreFits, StoreType
<1>2. ASSUME NEW x \in TicketType PROVE With(x) \in OtherFiles(x)
  <2>1. Append(x.files, file) \in Seq(Files)
    BY DEF TicketType
  <2> QED
    BY <2>1, OwnFiles DEF OtherFiles
<1>3. s.selected \in TicketType /\ \A i \in DOMAIN s.items : s.items[i] \in TicketType
  BY DEF StoreFits, StoreType
<1>4. /\ With(s.selected) \in OtherFiles(s.selected)
      /\ \A i \in DOMAIN s.items : With(s.items[i]) \in OtherFiles(s.items[i])
  BY <1>2, <1>3
<1> DEFINE y == With(s.selected)
<1>5. /\ y \in OtherFiles(s.selected)
      /\ \A i \in DOMAIN s.items : items[i] \in OtherFiles(s.items[i])
      /\ items \in [DOMAIN s.items -> TicketType]
  <2>1. \A i \in DOMAIN s.items : With(s.items[i]) \in TicketType
    BY <1>3, <1>4, OtherFilesAre
  <2> QED
    BY <1>4, <2>1, Zenon
<1>6. FileUploaded(s, t, file) = Laid(s, y, items)
  BY <1>1, Zenon DEF Laid
<1> HIDE DEF y, items
<1> QED
  BY <1>5, <1>6, FilesPatchedFit

LEMMA FileRemovedFits ==
  ASSUME NEW rs, NEW s, StoreFits(s, rs), NEW t, NEW file
  PROVE  /\ StoreFits(FileRemoved(s, t, file), rs)
         /\ FileRemoved(s, t, file).selected.id = s.selected.id
         /\ FileRemoved(s, t, file).selected.comments = s.selected.comments
<1> DEFINE With(x) == IF x.id = t THEN [x EXCEPT !.files = Without(@, file)] ELSE x
           items == [i \in DOMAIN s.items |-> With(s.items[i])]
<1>1. FileRemoved(s, t, file) =
        [s EXCEPT !.selected = With(s.selected), !.items = items, !.mutating = FALSE]
  BY DEF FileRemoved, FilesPatched, StoreFits, StoreType
<1>2. ASSUME NEW x \in TicketType PROVE With(x) \in OtherFiles(x)
  <2>1. Without(x.files, file) \in Seq(Files)
    BY WithoutIs DEF TicketType
  <2> QED
    BY <2>1, OwnFiles DEF OtherFiles
<1>3. s.selected \in TicketType /\ \A i \in DOMAIN s.items : s.items[i] \in TicketType
  BY DEF StoreFits, StoreType
<1>4. /\ With(s.selected) \in OtherFiles(s.selected)
      /\ \A i \in DOMAIN s.items : With(s.items[i]) \in OtherFiles(s.items[i])
  BY <1>2, <1>3
<1> DEFINE y == With(s.selected)
<1>5. /\ y \in OtherFiles(s.selected)
      /\ \A i \in DOMAIN s.items : items[i] \in OtherFiles(s.items[i])
      /\ items \in [DOMAIN s.items -> TicketType]
  <2>1. \A i \in DOMAIN s.items : With(s.items[i]) \in TicketType
    BY <1>3, <1>4, OtherFilesAre
  <2> QED
    BY <1>4, <2>1, Zenon
<1>6. FileRemoved(s, t, file) = Laid(s, y, items)
  BY <1>1, Zenon DEF Laid
<1> HIDE DEF y, items
<1> QED
  BY <1>5, <1>6, FilesPatchedFit

LEMMA BulkAnsweredFits ==
  ASSUME NEW rs, NEW s, StoreFits(s, rs), NEW c \in BulkCalls, Fits(c, rs)
  PROVE  /\ StoreFits(BulkAnswered(s, c), rs)
         /\ BulkAnswered(s, c).selected = s.selected
         /\ BulkFailed(c) \in Seq(Tickets)
<1>1. c.on \in Seq(Tickets) /\ c.got \in [ToSet(c.on) -> Bare \cup {Nothing}]
  BY DEF BulkCalls, Fits
<1> DEFINE done == EntriesAt(c.on, {k \in DOMAIN c.on : c.got[c.on[k]] # Nothing})
           items == Reduced(s.items, Len(done), c.got, done)
<1>2. BulkFailed(c) \in Seq(Tickets)
  <2>1. {k \in DOMAIN c.on : c.got[c.on[k]] = Nothing} \in SUBSET (1..Len(c.on))
    BY <1>1, SMTT(60)
  <2> QED
    BY <1>1, <2>1, EntriesAre DEF BulkFailed
<1>3. /\ done \in Seq(Tickets)
      /\ \A k \in 1..Len(done) : c.got[done[k]] \in InList(rs)
  <2> DEFINE places == {k \in DOMAIN c.on : c.got[c.on[k]] # Nothing}
  <2>1. places \in SUBSET (1..Len(c.on))
    BY <1>1
  <2>2. \A i \in places : c.on[i] \in ToSet(c.on) /\ c.got[c.on[i]] # Nothing
    BY DEF ToSet
  <2>3. \A i \in places : c.got[c.on[i]] \in InList(rs)
    BY <1>1, <2>2, BareIs
  <2> HIDE DEF places
  <2>4. /\ EntriesAt(c.on, places) \in Seq(Tickets)
        /\ \A k \in 1..Len(EntriesAt(c.on, places)) :
             \E i \in places : EntriesAt(c.on, places)[k] = c.on[i]
    BY <1>1, <2>1, EntriesAre, ZenonT(60)
  <2> QED
    BY <2>3, <2>4 DEF places
<1>4. BulkAnswered(s, c) =
        [s EXCEPT !.items = items, !.mutating = FALSE,
                  !.error = IF BulkFailed(c) = <<>> THEN "none" ELSE "bulk"]
  BY Zenon DEF BulkAnswered, Reduced
<1> HIDE DEF done
<1>5. items \in Seq(InList(rs))
  <2>1. Len(done) \in Nat /\ s.items \in Seq(InList(rs))
    BY <1>3 DEF StoreFits
  <2> QED
    BY <1>3, <2>1, ReduceIs
<1> HIDE DEF items
<1> QED
  BY <1>2, <1>4, <1>5, ItemsAre, ZenonT(60) DEF StoreFits, StoreType, Mutations

-----------------------------------------------------------------------------
(* The server.                                                             *)

LEMMA RequestIs ==
  ASSUME PagesInductive, NEW i \in 1..Len(calls)
  PROVE  calls[i] \in Calls /\ Fits(calls[i], rows)
BY DEF PagesInductive, CallsFit

\* A request that fails says nothing new.
LEMMA ErrorFits ==
  ASSUME NEW rs, NEW c \in Calls, Fits(c, rs)
  PROVE  LET failed == [c EXCEPT !.state = "error"]
         IN  failed \in Calls /\ failed.op = c.op /\ Fits(failed, rs)
<1> DEFINE failed == [c EXCEPT !.state = "error"]
<1>1. CASE c \in ListCalls
  <2>1. failed \in ListCalls /\ failed.op = "list" /\ c.op = "list"
    BY <1>1 DEF ListCalls, States
  <2> QED
    BY <2>1 DEF Calls, Fits
<1>2. CASE c \in DetailCalls
  <2>1. /\ failed \in DetailCalls /\ failed.op = "detail" /\ c.op = "detail" /\ failed.state = "error"
        /\ failed.got = c.got /\ failed.left = c.left /\ failed.on = c.on
    BY <1>2 DEF DetailCalls, States
  <2> QED
    BY <2>1 DEF Calls, Fits, DetailFits
<1>3. CASE c \in FormCalls
  <2>1. failed \in FormCalls /\ failed.op = "create" /\ c.op = "create" /\ failed.state = "error"
    BY <1>3 DEF FormCalls, States
  <2> QED
    BY <2>1 DEF Calls, Fits
<1>4. CASE c \in NewFileCalls
  <2>1. failed \in NewFileCalls /\ failed.op = "uploadNew" /\ c.op = "uploadNew"
    BY <1>4 DEF NewFileCalls, States
  <2> QED
    BY <2>1 DEF Calls, Fits
<1>5. CASE c \in UpdateCalls
  <2>1. failed \in UpdateCalls /\ failed.op = "update" /\ c.op = "update" /\ failed.state = "error"
    BY <1>5 DEF UpdateCalls, States
  <2> QED
    BY <2>1 DEF Calls, Fits, UpdateFits
<1>6. CASE c \in CommentCalls
  <2>1. failed \in CommentCalls /\ failed.op = "comment" /\ c.op = "comment" /\ failed.state = "error"
    BY <1>6 DEF CommentCalls, States
  <2> QED
    BY <2>1 DEF Calls, Fits
<1>7. CASE c \in FileCalls
  <2>1. /\ failed \in FileCalls /\ failed.op = c.op /\ c.op \in {"upload", "remove"}
    BY <1>7 DEF FileCalls, States
  <2> QED
    BY <2>1 DEF Calls, Fits
<1>8. CASE c \in BulkCalls
  <2>1. /\ failed \in BulkCalls /\ failed.op = "bulk" /\ c.op = "bulk"
        /\ failed.on = c.on /\ failed.left = c.left /\ failed.got = c.got
    BY <1>8 DEF BulkCalls, States
  <2> QED
    BY <2>1 DEF Calls, Fits
<1> QED
  BY <1>1, <1>2, <1>3, <1>4, <1>5, <1>6, <1>7, <1>8 DEF Calls

\* What the server does leaves the browser as it was, with an answer coming.
Served ==
  /\ RowsKnown'
  /\ StoreFits(store, rows')
  /\ CallsFit(calls', rows')
  /\ Waits(store, calls')

\* One request gets another state, and the rows may grow.
LEMMA CallServed ==
  ASSUME PagesInductive, NEW i \in 1..Len(calls), NEW c \in Calls,
         c.op = calls[i].op, Fits(c, rows'), calls' = [calls EXCEPT ![i] = c],
         Grows(rows, rows'), recency' \in Seq(Tickets)
  PROVE  Served
<1>1. CallsFit(calls, rows') /\ StoreFits(store, rows')
  BY CallsFitLater, StoreFitsLater DEF PagesInductive
<1>2. CallsFit(calls', rows') /\ \A ops : Has(calls, ops) => Has(calls', ops)
  BY <1>1, CallChanged
<1> QED
  BY <1>1, <1>2 DEF Served, RowsKnown, Grows, PagesInductive, Waits

LEMMA SameRows ==
  ASSUME PagesInductive
  PROVE  Grows(rows, rows) /\ recency \in Seq(Tickets)
BY DEF PagesInductive, RowsKnown, Grows

LEMMA CallFailed ==
  ASSUME PagesInductive, NEW i \in 1..Len(calls), calls' = [calls EXCEPT ![i].state = "error"],
         Grows(rows, rows'), recency' \in Seq(Tickets)
  PROVE  Served
<1>1. calls[i] \in Calls /\ Fits(calls[i], rows')
  <2>1. CallsFit(calls, rows')
    BY CallsFitLater DEF PagesInductive
  <2> QED
    BY <2>1 DEF CallsFit
<1> DEFINE failed == [calls[i] EXCEPT !.state = "error"]
<1>2. failed \in Calls /\ failed.op = calls[i].op /\ Fits(failed, rows')
  BY <1>1, ErrorFits
<1>3. calls' = [calls EXCEPT ![i] = failed]
  BY DEF PagesInductive, CallsFit
<1> HIDE DEF failed
<1> QED
  BY <1>2, <1>3, CallServed

LEMMA AnswerServed ==
  ASSUME PagesInductive, NEW i \in 1..Len(calls), NEW good \in Calls, good.op = calls[i].op,
         NEW newRows, NEW newRecency \in Seq(Tickets),
         Grows(rows, newRows), Fits(good, newRows),
         Answer(i, good, newRows, newRecency)
  PROVE  Served
<1>1. CASE rows' = newRows /\ recency' = newRecency /\ calls' = [calls EXCEPT ![i] = good]
  BY <1>1, CallServed
<1>2. CASE calls' = [calls EXCEPT ![i].state = "error"] /\ UNCHANGED <<rows, recency>>
  BY <1>2, SameRows, CallFailed
<1>3. CASE /\ rows' = newRows /\ recency' = newRecency
           /\ calls' = [calls EXCEPT ![i].state = "error"]
  BY <1>3, CallFailed
<1> QED
  BY <1>1, <1>2, <1>3 DEF Answer

LEMMA ForbiddenServed ==
  ASSUME PagesInductive, NEW i \in 1..Len(calls), Forbidden(i)
  PROVE  Served
BY SameRows, CallFailed DEF Forbidden

\* A row that changes anything but its thread, or adds to it.
LEMMA RowGrows ==
  ASSUME PagesInductive, NEW t \in Tickets, NEW row \in RowType,
         ToSet(rows[t].comments) \subseteq ToSet(row.comments)
  PROVE  Grows(rows, [rows EXCEPT ![t] = row])
BY DEF PagesInductive, RowsKnown, Grows

LEMMA TouchedIs ==
  ASSUME PagesInductive, NEW t \in Tickets
  PROVE  Touched(t) \in Seq(Tickets)
<1>1. Without(recency, t) \in Seq(Tickets)
  BY WithoutIs DEF PagesInductive, RowsKnown
<1> QED
  BY <1>1 DEF Touched

LEMMA BareRow ==
  ASSUME NEW t \in Tickets, NEW row \in RowType
  PROVE  Ticket(t, row, <<>>, <<>>) \in Bare
BY StoreAssumption DEF Ticket, Bare, Known, TicketType, RowType

LEMMA PatchedIs ==
  ASSUME NEW row \in RowType, NEW p \in PatchType
  PROVE  /\ Patched(row, p) \in RowType
         /\ Patched(row, p).comments = row.comments /\ Patched(row, p).files = row.files
         /\ p.assignee # Keep => Patched(row, p).assignee = p.assignee
BY DEF Patched, RowType, PatchType

LEMMA RowIs ==
  ASSUME PagesInductive, NEW t \in Tickets
  PROVE  rows[t] \in RowType
BY DEF PagesInductive, RowsKnown

LEMMA ServeListStep ==
  ASSUME PagesInductive, NEW i \in 1..Len(calls), ServeList(i)
  PROVE  Served
<1> DEFINE raw == [k \in DOMAIN recency |-> Listed(recency[k])]
           mine == EntriesAt(raw, {k \in DOMAIN raw : Accessible(raw[k].id)})
           good == [calls[i] EXCEPT !.state = "ok", !.got = mine]
<1>1. calls[i].op = "list" /\ Answer(i, good, rows, recency)
  BY Zenon DEF ServeList
<1>2. calls[i] \in ListCalls
  BY <1>1, RequestIs, CallIs
<1>3. recency \in Seq(Tickets)
  BY DEF PagesInductive, RowsKnown
<1>4. raw \in Seq(Bare)
  <2>1. \A t \in Tickets : Listed(t) \in Bare
    BY RowIs, BareRow DEF Listed
  <2> QED
    BY <1>3, <2>1
<1>5. mine \in Seq(Bare)
  <2>1. {k \in DOMAIN raw : Accessible(raw[k].id)} \in SUBSET (1..Len(raw))
    BY <1>4
  <2> HIDE DEF raw
  <2> QED
    BY <1>4, <2>1, EntriesAre
<1> HIDE DEF mine
<1>6. good \in ListCalls /\ good.op = "list"
  BY <1>2, <1>5 DEF ListCalls, States
<1> HIDE DEF good
<1>7. good \in Calls /\ Fits(good, rows)
  BY <1>6 DEF Calls, Fits
<1> QED
  BY <1>1, <1>3, <1>6, <1>7, AnswerServed, SameRows

LEMMA ServeDetailStep ==
  ASSUME PagesInductive, NEW i \in 1..Len(calls), ServeDetail(i)
  PROVE  Served
<1> DEFINE c == calls[i]
           t == c.on
           got(part) ==
             CASE part = "row"      -> [c.got EXCEPT !.id = t, !.name = rows[t].assignee,
                                          !.status = rows[t].status, !.dept = rows[t].dept,
                                          !.assignee = rows[t].assignee]
               [] part = "comments" -> [c.got EXCEPT !.comments = rows[t].comments]
               [] part = "files"    -> [c.got EXCEPT !.files = rows[t].files]
           good(part) == [c EXCEPT !.left = @ \ {part}, !.got = got(part),
                            !.state = IF c.left = {part} THEN "ok" ELSE "sent"]
<1>1. PICK part \in c.left :
        Answer(i, good(part), rows, recency) \/ Forbidden(i)
  BY Zenon DEF ServeDetail
<1>2. c.op = "detail"
  BY DEF ServeDetail
<1>3. c \in DetailCalls /\ DetailFits(c, rows)
  BY <1>2, RequestIs, CallIs DEF Fits
<1>4. /\ t \in Tickets /\ c.got \in TicketType /\ part \in {"row", "comments", "files"}
      /\ c.left \in SUBSET {"row", "comments", "files"}
  BY <1>3, SMTT(60) DEF DetailCalls
<1>5. rows[t] \in RowType
  BY <1>4, RowIs, SMTT(60)
<1>6. /\ got(part) \in TicketType
      /\ got(part).name = got(part).assignee
      /\ got(part).id = IF part = "row" THEN t ELSE c.got.id
      /\ got(part).comments \in {c.got.comments, rows[t].comments}
  <2>1. CASE part = "row"
    BY <1>4, <1>5, <2>1 DEF TicketType, RowType
  <2>2. CASE part = "comments"
    BY <1>3, <1>4, <1>5, <2>2 DEF TicketType, RowType, DetailFits
  <2>3. CASE part = "files"
    BY <1>3, <1>4, <1>5, <2>3, ZenonT(60) DEF TicketType, RowType, DetailFits
  <2> QED
    BY <1>4, <2>1, <2>2, <2>3, SMTT(60)
<1> DEFINE x == got(part)
           g == [c EXCEPT !.left = @ \ {part}, !.got = x,
                          !.state = IF c.left = {part} THEN "ok" ELSE "sent"]
<1> HIDE DEF x
<1>7. /\ g \in DetailCalls /\ g.op = "detail" /\ g.on = t /\ g.got = x /\ g.left = c.left \ {part}
      /\ g.state = "ok" => c.left = {part}
  BY <1>3, <1>6, ZenonT(60) DEF DetailCalls, States, x
<1>8. DetailFits(g, rows)
  <2> HIDE DEF g
  <2>1. g.got.name = g.got.assignee
    BY <1>6, <1>7 DEF x
  <2>2. g.got.id = IF "row" \in g.left THEN NoTicket ELSE g.on
    BY <1>1, <1>3, <1>6, <1>7 DEF x, DetailFits
  <2>3. ToSet(g.got.comments) \subseteq ToSet(rows[g.on].comments)
    BY <1>3, <1>6, <1>7 DEF x, DetailFits
  <2> QED
    BY <1>7, <2>1, <2>2, <2>3 DEF DetailFits
<1>9. Answer(i, g, rows, recency) \/ Forbidden(i)
  BY <1>1, Zenon DEF x
<1> HIDE DEF g
<1>10. g \in Calls /\ Fits(g, rows)
  BY <1>7, <1>8 DEF Calls, Fits
<1> QED
  BY <1>2, <1>7, <1>9, <1>10, AnswerServed, ForbiddenServed, SameRows

LEMMA ServeUpdateStep ==
  ASSUME PagesInductive, NEW i \in 1..Len(calls), ServeUpdate(i)
  PROVE  Served
<1> DEFINE c == calls[i]
           t == c.on
           row == Patched(rows[t], c.want)
           x == Ticket(t, row, <<>>, <<>>)
           good == [c EXCEPT !.state = "ok", !.got = x]
<1>1. c.op = "update"
  BY DEF ServeUpdate
<1>2. Answer(i, good, [rows EXCEPT ![t] = row], Touched(t)) \/ Forbidden(i)
  BY Zenon DEF ServeUpdate
<1>3. c \in UpdateCalls /\ t \in Tickets /\ c.want \in PatchType
  BY <1>1, RequestIs, CallIs DEF UpdateCalls
<1>4. /\ row \in RowType /\ row.comments = rows[t].comments
      /\ c.want.assignee # Keep => row.assignee = c.want.assignee
  BY <1>3, RowIs, PatchedIs
<1> HIDE DEF row
<1>5. x \in Bare /\ x.id = t /\ x.assignee = row.assignee
  BY <1>3, <1>4, BareRow DEF Ticket
<1> HIDE DEF x
<1>6. /\ good \in UpdateCalls /\ good.op = "update" /\ good.on = t /\ good.want = c.want
      /\ good.got = x
  BY <1>3, <1>5, BareIs DEF UpdateCalls, States
<1> HIDE DEF good
<1>7. good \in Calls /\ Fits(good, [rows EXCEPT ![t] = row])
  BY <1>4, <1>5, <1>6 DEF Calls, Fits, UpdateFits
<1>8. Grows(rows, [rows EXCEPT ![t] = row])
  BY <1>3, <1>4, RowGrows
<1> QED
  BY <1>1, <1>2, <1>3, <1>6, <1>7, <1>8, AnswerServed, ForbiddenServed, TouchedIs

LEMMA ServeBulkStep ==
  ASSUME PagesInductive, NEW i \in 1..Len(calls), ServeBulk(i)
  PROVE  Served
<1> DEFINE c == calls[i]
           rest(t) == [c EXCEPT !.left = @ \ {t}, !.state = IF c.left = {t} THEN "ok" ELSE "sent"]
           x(t) == Ticket(t, Patched(rows[t], c.want), <<>>, <<>>)
<1>1. c.op = "bulk"
  BY DEF ServeBulk
<1>2. /\ c \in BulkCalls /\ c.left \subseteq ToSet(c.on) /\ DOMAIN c.got = ToSet(c.on)
      /\ c.want \in PatchType /\ c.left \subseteq Tickets
  BY <1>1, RequestIs, CallIs DEF Fits, BulkCalls
<1>3. PICK t \in c.left :
        \/ /\ rows' = [rows EXCEPT ![t] = Patched(rows[t], c.want)]
           /\ recency' = Touched(t)
           /\ calls' \in {[calls EXCEPT ![i] = [rest(t) EXCEPT !.got[t] = x(t)]],
                         [calls EXCEPT ![i] = rest(t)]}
        \/ calls' = [calls EXCEPT ![i] = rest(t)] /\ UNCHANGED <<rows, recency>>
  BY ZenonT(60) DEF ServeBulk
<1>4. t \in Tickets /\ t \in ToSet(c.on)
  BY <1>2, SMTT(60)
<1>5. /\ rest(t) \in BulkCalls /\ rest(t).op = "bulk" /\ rest(t).on = c.on /\ rest(t).got = c.got
      /\ rest(t).left \subseteq c.left
  BY <1>2 DEF BulkCalls, States
<1>6. x(t) \in Bare
  BY <1>2, <1>4, RowIs, PatchedIs, BareRow
<1> DEFINE r == rest(t)
           y == x(t)
           told == [r EXCEPT !.got[t] = y]
<1> HIDE DEF r, y
<1>7. /\ told \in BulkCalls /\ told.op = "bulk" /\ told.on = c.on /\ DOMAIN told.got = ToSet(c.on)
      /\ told.left = r.left
  <2>1. /\ r \in BulkCalls /\ DOMAIN r.got = ToSet(c.on) /\ y \in Bare /\ r.on = c.on
        /\ r.op = "bulk"
    BY <1>2, <1>5, <1>6 DEF r, y
  <2>2. ToSet(c.on) \subseteq Tickets
    BY <1>2 DEF BulkCalls, ToSet
  <2>3. r.got \in [ToSet(c.on) -> Bare \cup {Nothing}]
    BY <2>1 DEF BulkCalls
  <2>4. [r.got EXCEPT ![t] = y] \in [ToSet(c.on) -> Bare \cup {Nothing}]
    BY <1>4, <2>1, <2>3
  <2>5. told = [r EXCEPT !.got = [r.got EXCEPT ![t] = y]]
    BY <2>1 DEF BulkCalls
  <2>6. [r.got EXCEPT ![t] = y] \in UNION {[S -> Bare \cup {Nothing}] : S \in SUBSET Tickets}
    BY <2>2, <2>4
  <2> QED
    BY <2>1, <2>4, <2>5, <2>6 DEF BulkCalls
<1> HIDE DEF told
<1>8. ASSUME NEW rs PROVE /\ told \in Calls /\ told.op = c.op /\ Fits(told, rs)
                          /\ r \in Calls /\ r.op = c.op /\ Fits(r, rs)
  BY <1>1, <1>2, <1>5, <1>7 DEF Calls, Fits, r
<1>9. Grows(rows, [rows EXCEPT ![t] = Patched(rows[t], c.want)])
  BY <1>2, <1>4, RowIs, PatchedIs, RowGrows
<1>10. /\ Grows(rows, rows') /\ recency' \in Seq(Tickets)
       /\ calls' = [calls EXCEPT ![i] = told] \/ calls' = [calls EXCEPT ![i] = r]
  BY <1>3, <1>4, <1>9, TouchedIs, SameRows, ZenonT(60) DEF told, r, y
<1> QED
  BY <1>8, <1>10, CallServed

LEMMA ServeCommentStep ==
  ASSUME PagesInductive, NEW i \in 1..Len(calls), ServeComment(i)
  PROVE  Served
<1> DEFINE c == calls[i]
           t == c.on
           row == [rows[t] EXCEPT !.comments = Append(@, c.want),
                     !.status = IF Role = "student" /\ @ = "resolved" THEN "open" ELSE @]
           order == IF row.status = rows[t].status THEN recency ELSE Touched(t)
           good == [c EXCEPT !.state = "ok"]
<1>1. c.op = "comment"
  BY DEF ServeComment
<1>2. Answer(i, good, [rows EXCEPT ![t] = row], order) \/ Forbidden(i)
  BY Zenon DEF ServeComment
<1>3. c \in CommentCalls /\ t \in Tickets /\ c.want \in Comments
  BY <1>1, RequestIs, CallIs DEF CommentCalls
<1>4. /\ row \in RowType
      /\ ToSet(rows[t].comments) \subseteq ToSet(row.comments)
      /\ c.want \in ToSet(row.comments)
  <2>1. rows[t] \in RowType /\ rows[t].comments \in Seq(Comments)
    BY <1>3, RowIs DEF RowType
  <2>2. row \in RowType /\ row.comments = Append(rows[t].comments, c.want)
    <3> DEFINE thread == Append(rows[t].comments, c.want)
               status == IF Role = "student" /\ rows[t].status = "resolved"
                         THEN "open" ELSE rows[t].status
    <3>1. thread \in Seq(Comments) /\ status \in Statuses
      BY <1>3, <2>1, StoreAssumption DEF RowType
    <3>2. row = [rows[t] EXCEPT !.comments = thread, !.status = status]
      BY <2>1 DEF RowType
    <3> HIDE DEF thread, status, row
    <3>3. row \in RowType /\ row.comments = thread
      BY <2>1, <3>1, <3>2 DEF RowType
    <3> QED
      BY <3>3 DEF thread
  <2> DEFINE old == rows[t].comments
  <2> HIDE DEF row
  <2>3. /\ ToSet(old) \subseteq ToSet(Append(old, c.want))
        /\ c.want \in ToSet(Append(old, c.want))
    <3>1. Len(Append(old, c.want)) = Len(old) + 1 /\ Len(old) \in Nat
      BY <1>3, <2>1
    <3>2. Append(old, c.want)[Len(old) + 1] = c.want /\ Len(old) + 1 \in DOMAIN Append(old, c.want)
      BY <1>3, <2>1, SMTT(60)
    <3>3. \A k \in DOMAIN old : Append(old, c.want)[k] = old[k] /\ k \in DOMAIN Append(old, c.want)
      BY <1>3, <2>1, SMTT(60)
    <3> QED
      BY <3>2, <3>3, Zenon DEF ToSet
  <2> QED
    BY <2>2, <2>3
<1> HIDE DEF row
<1>5. order \in Seq(Tickets)
  BY <1>3, SameRows, TouchedIs
<1> HIDE DEF order
<1>6. good \in CommentCalls /\ good.op = "comment" /\ good.on = t /\ good.want = c.want
  BY <1>3 DEF CommentCalls, States
<1> HIDE DEF good
<1>7. [rows EXCEPT ![t] = row][t] = row
  BY <1>3 DEF PagesInductive, RowsKnown
<1>8. good \in Calls /\ Fits(good, [rows EXCEPT ![t] = row])
  BY <1>4, <1>6, <1>7 DEF Calls, Fits
<1>9. Grows(rows, [rows EXCEPT ![t] = row])
  BY <1>3, <1>4, RowGrows
<1> QED
  BY <1>1, <1>2, <1>5, <1>6, <1>8, <1>9, AnswerServed, ForbiddenServed

LEMMA ServeFilesStep ==
  ASSUME PagesInductive, NEW i \in 1..Len(calls), ServeFiles(i)
  PROVE  Served
<1> DEFINE c == calls[i]
           t == c.on
           files == IF c.op = "remove" THEN Without(rows[t].files, c.want)
                    ELSE Append(rows[t].files, c.want)
           good == [c EXCEPT !.state = "ok"]
<1>1. c.op \in {"upload", "uploadNew", "remove"}
  BY DEF ServeFiles
<1>2. Answer(i, good, [rows EXCEPT ![t].files = files], recency) \/ Forbidden(i)
  BY Zenon DEF ServeFiles
<1>3. /\ c \in FileCalls \cup NewFileCalls /\ t \in Tickets /\ c.want \in Files
  BY <1>1, RequestIs, CallIs DEF FileCalls, NewFileCalls
<1>4. rows[t] \in RowType /\ rows[t].files \in Seq(Files)
  BY <1>3, RowIs DEF RowType
<1>5. files \in Seq(Files)
  BY <1>3, <1>4, WithoutIs
<1> HIDE DEF files
<1> DEFINE row == [rows[t] EXCEPT !.files = files]
<1>6. row \in RowType /\ row.comments = rows[t].comments
  BY <1>4, <1>5 DEF RowType
<1>7. [rows EXCEPT ![t].files = files] = [rows EXCEPT ![t] = row]
  BY <1>3 DEF PagesInductive, RowsKnown
<1> HIDE DEF row
<1>8. good \in FileCalls \cup NewFileCalls /\ good.op = c.op
  BY <1>3 DEF FileCalls, NewFileCalls, States
<1> HIDE DEF good
<1>9. good \in Calls /\ Fits(good, [rows EXCEPT ![t].files = files])
  BY <1>1, <1>8 DEF Calls, Fits
<1>10. Grows(rows, [rows EXCEPT ![t].files = files])
  BY <1>3, <1>6, <1>7, RowGrows
<1> QED
  BY <1>2, <1>8, <1>9, <1>10, AnswerServed, ForbiddenServed, SameRows

LEMMA ServeCreateStep ==
  ASSUME PagesInductive, NEW i \in 1..Len(calls), ServeCreate(i)
  PROVE  Served
<1> DEFINE c == calls[i]
           good(t) == [c EXCEPT !.state = "ok", !.got = Listed(t)]
<1>1. PICK t \in Tickets : Answer(i, good(t), rows, Touched(t))
  BY Zenon DEF ServeCreate
<1>2. c.op = "create"
  BY DEF ServeCreate
<1>3. c \in FormCalls
  BY <1>2, RequestIs, CallIs
<1>4. Listed(t) \in Bare
  BY RowIs, BareRow DEF Listed
<1>5. good(t) \in FormCalls /\ good(t).op = "create" /\ good(t).got = Listed(t)
  BY <1>3, <1>4, BareIs DEF FormCalls, States
<1> DEFINE g == good(t)
<1> HIDE DEF g
<1>6. g \in Calls /\ g.op = "create" /\ Fits(g, rows)
  BY <1>4, <1>5 DEF Calls, Fits, g
<1>7. Answer(i, g, rows, Touched(t))
  BY <1>1 DEF g
<1> QED
  BY <1>2, <1>6, <1>7, AnswerServed, SameRows, TouchedIs

LEMMA ServeStep ==
  ASSUME PagesInductive, ServeAny
  PROVE  PagesInductive'
<1>1. PICK i \in DOMAIN calls : Serve(i) /\ UNCHANGED pages
  BY DEF ServeAny
<1>2. i \in 1..Len(calls)
  BY DEF PagesInductive, CallsFit
<1>3. Served /\ UNCHANGED <<store, session>>
  BY <1>1, <1>2, ServeListStep, ServeDetailStep, ServeUpdateStep, ServeBulkStep,
     ServeCommentStep, ServeFilesStep, ServeCreateStep DEF Serve
<1> QED
  BY <1>1, <1>3 DEF Served, PagesInductive, PageKnown, Places, MaxMoves, pages

LEMMA OthersStep ==
  ASSUME PagesInductive, OthersMove
  PROVE  PagesInductive'
<1>1. PICK t \in Tickets, s \in StatusChoices, u \in Users \cup {NoUser} :
        /\ rows' = [rows EXCEPT ![t].status = s, ![t].assignee = u]
        /\ recency' = Touched(t)
  BY DEF OthersMove, OthersAct
<1>2. UNCHANGED <<store, calls, session, place, seen, picked>> /\ moves' \in 0..MaxMoves
  BY PagesAssumption DEF OthersMove, OthersAct, Stay, PagesInductive, PageKnown, MaxMoves
<1>3. s \in Statuses
  BY StoreAssumption DEF PagesInductive, PageKnown, StatusChoices
<1> DEFINE row == [rows[t] EXCEPT !.status = s, !.assignee = u]
<1>4. rows[t] \in RowType
  BY RowIs
<1>5. row \in RowType /\ row.comments = rows[t].comments
  BY <1>3, <1>4 DEF RowType
<1>6. rows' = [rows EXCEPT ![t] = row]
  BY <1>1 DEF PagesInductive, RowsKnown
<1> HIDE DEF row
<1>7. Grows(rows, rows')
  BY <1>5, <1>6, RowGrows
<1>8. recency' \in Seq(Tickets)
  BY <1>1, TouchedIs
<1>9. CallsFit(calls, rows') /\ StoreFits(store, rows')
  BY <1>7, CallsFitLater, StoreFitsLater DEF PagesInductive
<1> QED
  BY <1>2, <1>7, <1>8, <1>9 DEF PagesInductive, RowsKnown, PageKnown, Grows, Places, MaxMoves

-----------------------------------------------------------------------------
(* What users do.                                                          *)

LEMMA ListCallFits ==
  ASSUME NEW rs, NEW params \in WantType
  PROVE  ListCall(params) \in Calls /\ ListCall(params).op = "list" /\ Fits(ListCall(params), rs)
<1>1. ListCall(params) \in ListCalls /\ ListCall(params).op = "list"
  BY DEF ListCall, ListCalls, States
<1> QED
  BY <1>1 DEF Calls, Fits

LEMMA DetailCallFits ==
  ASSUME NEW rs, NEW t \in Tickets
  PROVE  DetailCall(t) \in Calls /\ DetailCall(t).op = "detail" /\ Fits(DetailCall(t), rs)
<1> DEFINE c == DetailCall(t)
<1>1. /\ c.op = "detail" /\ c.state = "sent" /\ c.left = {"row", "comments", "files"}
      /\ c.got = Nothing /\ c.on = t
  BY DEF DetailCall
<1>2. c \in DetailCalls
  BY NothingIs DEF DetailCall, DetailCalls, States
<1>3. ToSet(Nothing.comments) = {}
  BY DEF Nothing, Ticket, ToSet
<1>4. DetailFits(c, rs)
  BY <1>1, <1>3, NothingIs DEF DetailFits
<1> HIDE DEF c
<1>5. c \in Calls /\ Fits(c, rs)
  BY <1>1, <1>2, <1>4 DEF Calls, Fits
<1> QED
  BY <1>1, <1>5 DEF c

LEMMA MutationCallFits ==
  ASSUME NEW rs, NEW op, NEW t, NEW want,
         \/ op = "create" /\ t = NoTicket /\ want \in Files \cup {NoFile}
         \/ op = "update" /\ t \in Tickets /\ want \in PatchType
         \/ op = "comment" /\ t \in Tickets /\ want \in Comments
         \/ op \in {"upload", "remove"} /\ t \in Tickets /\ want \in Files
  PROVE  /\ MutationCall(op, t, want) \in Calls
         /\ MutationCall(op, t, want).op = op
         /\ Fits(MutationCall(op, t, want), rs)
<1> DEFINE c == MutationCall(op, t, want)
<1>1. /\ c.op = op /\ c.state = "sent"
      /\ c = [op |-> op, on |-> t, want |-> want, state |-> "sent", got |-> Nothing]
  BY DEF MutationCall
<1>2. Nothing \in TicketType
  BY NothingIs
<1>3. c \in Calls
  <2> HIDE DEF c
  <2>1. CASE op = "create"
    BY <1>1, <1>2, <2>1 DEF Calls, FormCalls, States
  <2>2. CASE op = "update"
    BY <1>1, <1>2, <2>2 DEF Calls, UpdateCalls, States
  <2>3. CASE op = "comment"
    BY <1>1, <1>2, <2>3 DEF Calls, CommentCalls, States
  <2>4. CASE op \in {"upload", "remove"}
    BY <1>1, <1>2, <2>4 DEF Calls, FileCalls, States
  <2> QED
    BY <2>1, <2>2, <2>3, <2>4
<1> HIDE DEF c
<1>4. Fits(c, rs)
  BY <1>1 DEF Fits, UpdateFits
<1> QED
  BY <1>1, <1>3, <1>4 DEF c

LEMMA BulkCallFits ==
  ASSUME NEW rs, NEW ids \in Seq(Tickets), NEW patch \in PatchType
  PROVE  BulkCall(ids, patch) \in Calls /\ BulkCall(ids, patch).op = "bulk"
         /\ Fits(BulkCall(ids, patch), rs)
<1> DEFINE c == BulkCall(ids, patch)
           got == [t \in ToSet(ids) |-> Nothing]
<1>1. ToSet(ids) \in SUBSET Tickets
  BY DEF ToSet
<1>2. got \in UNION {[S -> Bare \cup {Nothing}] : S \in SUBSET Tickets} /\ DOMAIN got = ToSet(ids)
  <2>1. got \in [ToSet(ids) -> Bare \cup {Nothing}]
    OBVIOUS
  <2> QED
    BY <1>1, <2>1
<1>3. /\ c = [op |-> "bulk", on |-> ids, want |-> patch, state |-> "sent",
              left |-> ToSet(ids), got |-> got, here |-> TRUE]
  BY Zenon DEF BulkCall
<1> HIDE DEF c, got
<1>4. c \in BulkCalls /\ c.op = "bulk" /\ c.on = ids /\ c.left = ToSet(ids) /\ c.got = got
  BY <1>1, <1>2, <1>3 DEF BulkCalls, States
<1>5. c \in Calls /\ Fits(c, rs)
  BY <1>2, <1>4 DEF Calls, Fits
<1> QED
  BY <1>4, <1>5 DEF c

\* The list a store asks for.
LEMMA ParamsAre ==
  ASSUME NEW rs, NEW s, StoreFits(s, rs)
  PROVE  /\ ParamsOf(s) \in WantType
         /\ \A page, size \in Nat : ListParams(s, page, size) \in WantType
BY DEF ParamsOf, ListParams, WantType, StoreFits, StoreType, FilterType

LEMMA MoveIs ==
  ASSUME PagesInductive, NEW m, Move(m)
  PROVE  moves' \in 0..MaxMoves /\ UNCHANGED <<rows, recency, session>>
BY PagesAssumption DEF Move, PagesInductive, PageKnown, MaxMoves

\* The page stays and the rows: what is left is the store and the requests.
LEMMA PageStays ==
  ASSUME PagesInductive, UNCHANGED <<rows, recency, session>>, moves' \in 0..MaxMoves,
         place' = place, picked' \in Seq(Tickets),
         StoreFits(store', rows), CallsFit(calls', rows), Waits(store', calls')
  PROVE  PagesInductive'
BY DEF PagesInductive, RowsKnown, PageKnown, Places, MaxMoves

LEMMA OrphanedFits ==
  ASSUME NEW rs, NEW cs, CallsFit(cs, rs)
  PROVE  /\ CallsFit(Orphaned(cs), rs)
         /\ \A ops : Has(cs, ops) => Has(Orphaned(cs), ops)
<1> DEFINE alone(c) == IF c.op = "bulk" THEN [c EXCEPT !.here = FALSE] ELSE c
<1>1. ASSUME NEW c \in Calls, Fits(c, rs)
      PROVE  alone(c) \in Calls /\ alone(c).op = c.op /\ Fits(alone(c), rs)
  <2>1. CASE c.op = "bulk"
    <3>1. c \in BulkCalls
      BY <2>1, CallIs
    <3> DEFINE d == [c EXCEPT !.here = FALSE]
    <3>2. /\ d \in BulkCalls /\ d.op = "bulk"
          /\ d.left = c.left /\ d.on = c.on /\ d.got = c.got
      BY <2>1, <3>1 DEF BulkCalls
    <3>3. alone(c) = d
      BY <2>1
    <3> HIDE DEF d, alone
    <3> QED
      BY <1>1, <2>1, <3>2, <3>3 DEF Calls, Fits
  <2>2. CASE c.op # "bulk"
    BY <1>1, <2>2
  <2> QED
    BY <2>1, <2>2
<1>2. Orphaned(cs) = [i \in DOMAIN cs |-> alone(cs[i])]
  BY Zenon DEF Orphaned
<1> HIDE DEF alone
<1>3. cs \in Seq(Calls) /\ \A i \in 1..Len(cs) : Fits(cs[i], rs)
  BY DEF CallsFit
<1>4. /\ Orphaned(cs) \in Seq(Calls) /\ Len(Orphaned(cs)) = Len(cs)
      /\ \A i \in 1..Len(cs) : Orphaned(cs)[i] = alone(cs[i])
  BY <1>1, <1>2, <1>3
<1> QED
  BY <1>1, <1>3, <1>4 DEF CallsFit, Has

\* The places there are.
LEMMA PlaceKnown ==
  ASSUME PagesInductive, NEW p \in Places \cup {At("mine"), At("queue")}
  PROVE  p.page = "detail" => p.ticket \in Tickets
<1>1. p \in {At(page) : page \in {"home", "mine", "create", "agentHome", "queue", "logTicket"}}
           \cup {DetailOf(t) : t \in Tickets}
  BY PagesAssumption DEF PagesInductive, PageKnown, Places
<1> QED
  BY <1>1 DEF At, DetailOf

LEMMA MountSetFits ==
  ASSUME NEW rs, NEW s, StoreFits(s, rs), NEW p
  PROVE  /\ StoreFits(MountSet(s, p), rs)
         /\ MountSet(s, p).loading = s.loading
         /\ MountSet(s, p).detailLoading = s.detailLoading
         /\ MountSet(s, p).mutating = s.mutating
<1>1. ASSUME NEW scope \in {"mine", "queue"}
      PROVE  /\ StoreFits(setScope(s, scope), rs)
             /\ setScope(s, scope).loading = s.loading
             /\ setScope(s, scope).detailLoading = s.detailLoading
             /\ setScope(s, scope).mutating = s.mutating
  BY SettingsFit DEF setScope, StoreFits, StoreType
<1>2. ASSUME NEW u, StoreFits(u, rs), NEW fields
      PROVE  /\ StoreFits(HomeFilters(u, fields), rs)
             /\ HomeFilters(u, fields).loading = u.loading
             /\ HomeFilters(u, fields).detailLoading = u.detailLoading
             /\ HomeFilters(u, fields).mutating = u.mutating
  <2> DEFINE v == setPage(u, 1)
             filters == [f \in DOMAIN v.filters |-> IF f \in fields THEN "all" ELSE v.filters[f]]
  <2>1. /\ StoreFits(v, rs) /\ v.loading = u.loading /\ v.detailLoading = u.detailLoading
        /\ v.mutating = u.mutating
    <3>1. StoreFits(v, rs)
      BY <1>2, SettingsFit
    <3>2. u \in StoreType
      BY <1>2 DEF StoreFits
    <3> QED
      BY <3>1, <3>2 DEF setPage, StoreType
  <2> HIDE DEF v
  <2>2. v.filters \in FilterType
    BY <2>1 DEF StoreFits, StoreType
  <2>3. filters \in FilterType
    BY <2>2 DEF FilterType
  <2>4. HomeFilters(u, fields) = [v EXCEPT !.filters = filters]
    BY <2>1 DEF HomeFilters, v, StoreFits, StoreType
  <2> HIDE DEF filters
  <2> QED
    BY <2>1, <2>3, <2>4, ZenonT(60) DEF StoreFits, StoreType
<1> QED
  BY <1>1, <1>2 DEF MountSet

LEMMA MountedFits ==
  ASSUME NEW rs, NEW s, StoreFits(s, rs), NEW p
  PROVE  /\ StoreFits(Mounted(s, p), rs)
         /\ Mounted(s, p).loading => s.loading \/ p.page \in ListPages \cup {"home", "agentHome"}
         /\ Mounted(s, p).detailLoading => s.detailLoading \/ p.page = "detail"
         /\ Mounted(s, p).mutating = s.mutating
<1>1. /\ StoreFits(MountSet(s, p), rs)
      /\ MountSet(s, p).detailLoading = s.detailLoading
      /\ MountSet(s, p).mutating = s.mutating
  BY MountSetFits
<1>2. ASSUME NEW u, StoreFits(u, rs)
      PROVE  /\ StoreFits(fetchList(u), rs) /\ fetchList(u).mutating = u.mutating
             /\ fetchList(u).detailLoading = u.detailLoading
             /\ StoreFits(fetchById(u), rs) /\ fetchById(u).mutating = u.mutating
             /\ fetchById(u).loading = u.loading
  BY <1>2, FailedFits, ZenonT(60) DEF fetchList, fetchById, StoreFits, StoreType
<1> QED
  BY <1>1, <1>2 DEF Mounted, ListPages

\* A page's effects leave with at most one request, which is well-formed.
LEMMA MountCallsAre ==
  ASSUME NEW rs, NEW s, StoreFits(s, rs), NEW p, p.page = "detail" => p.ticket \in Tickets
  PROVE  \/ /\ MountCalls(s, p) = <<>>
            /\ p.page \notin ListPages \cup {"home", "agentHome", "detail"}
         \/ \E c \in Calls :
              /\ MountCalls(s, p) = <<c>> /\ Fits(c, rs)
              /\ p.page \in ListPages \cup {"home", "agentHome"} => c.op = "list"
              /\ p.page = "detail" => c.op = "detail"
<1>1. StoreFits(MountSet(s, p), rs)
  BY MountSetFits
<1>2. /\ ParamsOf(MountSet(s, p)) \in WantType
      /\ ListParams(MountSet(s, p), 1, HomeSize) \in WantType
      /\ ListParams(MountSet(s, p), 1, AgentHomeSize) \in WantType
  BY <1>1, ParamsAre, PagesAssumption
<1>3. CASE p.page \in ListPages
  BY <1>2, <1>3, ListCallFits DEF MountCalls, ListPages
<1>4. CASE p.page = "home"
  BY <1>2, <1>4, ListCallFits DEF MountCalls, ListPages
<1>5. CASE p.page = "agentHome"
  BY <1>2, <1>5, ListCallFits DEF MountCalls, ListPages
<1>6. CASE p.page = "detail"
  BY <1>6, DetailCallFits DEF MountCalls, ListPages
<1>7. CASE p.page \notin ListPages \cup {"home", "agentHome", "detail"}
  BY <1>7 DEF MountCalls, ListPages
<1> QED
  BY <1>3, <1>4, <1>5, <1>6, <1>7

LEMMA EnterStep ==
  ASSUME PagesInductive, UNCHANGED <<rows, recency, session>>, moves' \in 0..MaxMoves,
         NEW s, StoreFits(s, rows), NEW cs, CallsFit(cs, rows), Waits(s, cs),
         NEW p \in Places \cup {At("mine"), At("queue")}, Enter(s, cs, p)
  PROVE  PagesInductive'
<1>1. CASE p = place
  BY <1>1, PageStays DEF Enter, PagesInductive, PageKnown
<1>2. CASE p # place
  <2>1. /\ place' = p /\ store' = Mounted(s, p) /\ picked' = <<>>
        /\ calls' = Orphaned(cs) \o MountCalls(s, p)
    BY <1>2 DEF Enter
  <2>2. CallsFit(Orphaned(cs), rows) /\ \A ops : Has(cs, ops) => Has(Orphaned(cs), ops)
    BY OrphanedFits
  <2>3. p.page = "detail" => p.ticket \in Tickets
    BY PlaceKnown
  <2>4. /\ StoreFits(store', rows)
        /\ store'.loading => s.loading \/ p.page \in ListPages \cup {"home", "agentHome"}
        /\ store'.detailLoading => s.detailLoading \/ p.page = "detail"
        /\ store'.mutating = s.mutating
    BY <2>1, MountedFits
  <2>5. CallsFit(calls', rows) /\ Waits(store', calls')
    <3>1. CASE /\ MountCalls(s, p) = <<>>
               /\ p.page \notin ListPages \cup {"home", "agentHome", "detail"}
      <4>1. calls' = Orphaned(cs)
        BY <2>1, <2>2, <3>1 DEF CallsFit
      <4> QED
        BY <2>2, <2>4, <3>1, <4>1 DEF Waits
    <3>2. ASSUME NEW c \in Calls, MountCalls(s, p) = <<c>>, Fits(c, rows),
                 p.page \in ListPages \cup {"home", "agentHome"} => c.op = "list",
                 p.page = "detail" => c.op = "detail"
          PROVE  CallsFit(calls', rows) /\ Waits(store', calls')
      <4>1. calls' = Append(Orphaned(cs), c)
        BY <2>1, <2>2, <3>2 DEF CallsFit
      <4>2. /\ CallsFit(calls', rows)
            /\ \A ops : Has(Orphaned(cs), ops) \/ c.op \in ops => Has(calls', ops)
        BY <2>2, <3>2, <4>1, CallAdded
      <4> QED
        BY <2>2, <2>4, <3>2, <4>2 DEF Waits
    <3> QED
      BY <2>3, <3>1, <3>2, MountCallsAre
  <2> QED
    BY <2>1, <2>4, <2>5 DEF PagesInductive, RowsKnown, PageKnown, Places, MaxMoves
<1> QED
  BY <1>1, <1>2

\* What a step does to the comments on the ticket page (see ThreadStays).
ThreadKept ==
  \/ ~OnPage("detail") \/ place' # place
  \/ store'.selected.id # store.selected.id
  \/ IsPrefix(store.selected.comments, store'.selected.comments)

LEMMA AppendedTo ==
  ASSUME NEW T, NEW s \in Seq(T), NEW x \in T
  PROVE  IsPrefix(s, Append(s, x))
<1>1. Len(Append(s, x)) = Len(s) + 1 /\ Len(s) \in Nat
  OBVIOUS
<1>2. SubSeq(Append(s, x), 1, Len(s)) = SubSeq(s, 1, Len(s))
  <2> DEFINE longer == Append(s, x)
  <2>1. /\ longer \in Seq(T \cup {x}) /\ Len(longer) = Len(s) + 1
        /\ \A i \in 1..Len(s) : longer[i] = s[i]
    OBVIOUS
  <2>2. SubSeq(s, 1, Len(s)) = [i \in 1..Len(s) |-> s[i]]
    OBVIOUS
  <2> HIDE DEF longer
  <2>3. SubSeq(longer, 1, Len(s)) = [i \in 1..Len(s) |-> longer[i]]
    BY <2>1
  <2> QED
    BY <2>1, <2>2, <2>3 DEF longer
<1> QED
  BY <1>1, <1>2 DEF IsPrefix

LEMMA SameThread ==
  ASSUME PagesInductive, store'.selected.comments = store.selected.comments
  PROVE  ThreadKept
<1>1. store.selected.comments \in Seq(Comments)
  BY DEF PagesInductive, StoreFits, StoreType, TicketType
<1> QED
  BY <1>1 DEF ThreadKept, IsPrefix

\* A store of the same spinners and the same open ticket, on the same page.
LEMMA Adjusted ==
  ASSUME PagesInductive, NEW m, Move(m), UNCHANGED <<calls, place>>, picked' \in Seq(Tickets),
         StoreFits(store', rows), store'.loading = store.loading,
         store'.detailLoading = store.detailLoading, store'.mutating = store.mutating,
         store'.selected = store.selected
  PROVE  PagesInductive' /\ ThreadKept
<1>1. moves' \in 0..MaxMoves /\ UNCHANGED <<rows, recency, session>>
  BY MoveIs
<1>2. CallsFit(calls', rows) /\ Waits(store', calls')
  BY DEF PagesInductive, Waits
<1> QED
  BY <1>1, <1>2, PageStays, SameThread

LEMMA FilterStep ==
  ASSUME PagesInductive, NEW field, NEW value, NEW m, Move(m),
         \/ field = "status" /\ value \in Statuses \cup {"all"}
         \/ field = "assignee" /\ value \in {"all", "me", "unassigned"},
         store' = setFilters(store, field, value), UNCHANGED calls, Stay
  PROVE  PagesInductive' /\ ThreadKept
<1>1. StoreFits(store, rows) /\ picked \in Seq(Tickets)
  BY DEF PagesInductive, PageKnown
<1>2. StoreFits(store', rows)
  BY <1>1, SettingsFit
<1>3. /\ store'.loading = store.loading /\ store'.mutating = store.mutating
      /\ store'.detailLoading = store.detailLoading /\ store'.selected = store.selected
  BY <1>1 DEF setFilters, StoreFits, StoreType
<1> QED
  BY <1>1, <1>2, <1>3, Adjusted DEF Stay

LEMMA TurnStep ==
  ASSUME PagesInductive, NEW page \in Int, Turn(page)
  PROVE  PagesInductive' /\ ThreadKept
<1>1. StoreFits(store, rows) /\ picked \in Seq(Tickets)
  BY DEF PagesInductive, PageKnown
<1>2. store' = setPage(store, page) /\ Move("turn") /\ UNCHANGED <<calls, place, picked>>
  BY DEF Turn, Stay
<1>3. StoreFits(store', rows)
  BY <1>1, <1>2, SettingsFit
<1>4. /\ store'.loading = store.loading /\ store'.mutating = store.mutating
      /\ store'.detailLoading = store.detailLoading /\ store'.selected = store.selected
  BY <1>1, <1>2 DEF setPage, StoreFits, StoreType
<1> QED
  BY <1>1, <1>2, <1>3, <1>4, Adjusted

LEMMA PagingStep ==
  ASSUME PagesInductive, PrevPage \/ NextPage
  PROVE  PagesInductive' /\ ThreadKept
<1>1. store.page \in Nat
  BY DEF PagesInductive, StoreFits, StoreType
<1> QED
  BY <1>1, TurnStep DEF PrevPage, NextPage

LEMMA PickStep ==
  ASSUME PagesInductive, ClearSelection \/ \E x \in Lines : toggle(x.id)
  PROVE  PagesInductive' /\ ThreadKept
<1>1. StoreFits(store, rows) /\ picked \in Seq(Tickets)
  BY DEF PagesInductive, PageKnown
<1>2. Move("pick") /\ UNCHANGED <<store, calls, place>>
  BY DEF ClearSelection, toggle
<1>3. picked' \in Seq(Tickets)
  <2>1. CASE ClearSelection
    BY <2>1 DEF ClearSelection
  <2>2. ASSUME NEW x \in Lines, toggle(x.id) PROVE picked' \in Seq(Tickets)
    <3>1. x \in ToSet(store.items)
      BY DEF Lines
    <3>2. x \in Known
      BY <1>1, <3>1 DEF ToSet, StoreFits, StoreType, Known
    <3>3. x.id \in Tickets
      BY <3>2 DEF Known, TicketType
    <3> QED
      BY <1>1, <2>2, <3>3, WithoutIs DEF toggle
  <2> QED
    BY <2>1, <2>2
<1> QED
  BY <1>1, <1>2, <1>3, Adjusted

\* A request that changes something leaves, and the button is disabled.
LEMMA MutationStarts ==
  ASSUME PagesInductive, NEW m, Move(m), Stay, store' = StartMutation(store),
         NEW c \in Calls, Fits(c, rows), c.op \in Mutations, calls' = Append(calls, c)
  PROVE  PagesInductive' /\ ThreadKept
<1>1. /\ StoreFits(store, rows) /\ CallsFit(calls, rows) /\ Waits(store, calls)
      /\ picked \in Seq(Tickets)
  BY DEF PagesInductive, PageKnown
<1>2. StoreFits(store', rows)
  BY <1>1, FailedFits
<1>3. /\ store'.loading = store.loading /\ store'.detailLoading = store.detailLoading
      /\ store'.selected = store.selected
  BY <1>1 DEF StartMutation, StoreFits, StoreType
<1>4. /\ CallsFit(calls', rows)
      /\ \A ops : Has(calls, ops) \/ c.op \in ops => Has(calls', ops)
  BY <1>1, CallAdded
<1>5. Waits(store', calls')
  BY <1>1, <1>3, <1>4 DEF Waits
<1>6. moves' \in 0..MaxMoves /\ UNCHANGED <<rows, recency, session>>
  BY MoveIs
<1> QED
  BY <1>1, <1>2, <1>3, <1>4, <1>5, <1>6, PageStays, SameThread DEF Stay

LEMMA MutateStep ==
  ASSUME PagesInductive, NEW m, NEW op, NEW want, Mutate(m, op, want), OnTicket,
         \/ op = "update" /\ want \in PatchType
         \/ op = "comment" /\ want \in Comments
         \/ op \in {"upload", "remove"} /\ want \in Files
  PROVE  PagesInductive' /\ ThreadKept
<1>1. Shown \in Tickets
  BY DEF OnTicket, Shown, PagesInductive, StoreFits, StoreType, TicketType
<1> DEFINE c == MutationCall(op, Shown, want)
<1>2. c \in Calls /\ c.op = op /\ Fits(c, rows)
  BY <1>1, MutationCallFits
<1>3. op \in Mutations
  BY DEF Mutations
<1>4. Move(m) /\ Stay /\ store' = StartMutation(store) /\ calls' = Append(calls, c)
  BY SMTT(60) DEF Mutate
<1> HIDE DEF c
<1> QED
  BY <1>2, <1>3, <1>4, MutationStarts

LEMMA PatchesAre ==
  ASSUME PagesInductive
  PROVE  /\ \A s \in Statuses : [NoChange EXCEPT !.status = s] \in PatchType
         /\ \A u \in Users \cup {NoUser} :
              /\ [NoChange EXCEPT !.assignee = u] \in PatchType
              /\ \A d \in Depts, name \in {u, NoUser} :
                   [NoChange EXCEPT !.assignee = u, !.dept = d, !.name = name] \in PatchType
         /\ StatusChoices \subseteq Statuses /\ {"closed", "resolved"} \subseteq Statuses
BY StoreAssumption, ZenonT(60) DEF NoChange, PatchType, PagesInductive, PageKnown, StatusChoices

LEMMA BulkStep ==
  ASSUME PagesInductive, NEW m, NEW patch \in PatchType, Bulk(m, patch)
  PROVE  PagesInductive' /\ ThreadKept
<1>1. picked \in Seq(Tickets)
  BY DEF PagesInductive, PageKnown
<1> DEFINE c == BulkCall(picked, patch)
<1>2. c \in Calls /\ c.op = "bulk" /\ Fits(c, rows)
  BY <1>1, BulkCallFits
<1>3. Move(m) /\ Stay /\ store' = StartMutation(store) /\ calls' = Append(calls, c)
  BY DEF Bulk
<1> HIDE DEF c
<1> QED
  BY <1>2, <1>3, MutationStarts DEF Mutations

LEMMA SubmitStep ==
  ASSUME PagesInductive, NEW f \in Files \cup {NoFile}, SubmitTicket(f)
  PROVE  PagesInductive' /\ ThreadKept
<1> DEFINE c == MutationCall("create", NoTicket, f)
<1>1. c \in Calls /\ c.op = "create" /\ Fits(c, rows)
  BY MutationCallFits
<1>2. Move("submit") /\ Stay /\ store' = StartMutation(store) /\ calls' = Append(calls, c)
  BY DEF SubmitTicket
<1> HIDE DEF c
<1> QED
  BY <1>1, <1>2, MutationStarts DEF Mutations

\* Another page, or an answer that leads there.
LEMMA EnterKept ==
  ASSUME PagesInductive, NEW s, NEW cs, NEW p, Enter(s, cs, p),
         p # place \/ p \in {At("mine"), At("queue")}
  PROVE  ThreadKept
BY DEF Enter, ThreadKept, OnPage, At

LEMMA VisitStep ==
  ASSUME PagesInductive, LogTicket \/ \E p \in Places : Visit(p)
  PROVE  PagesInductive' /\ ThreadKept
<1>1. StoreFits(store, rows) /\ CallsFit(calls, rows) /\ Waits(store, calls)
  BY DEF PagesInductive
<1>2. PICK p \in Places \cup {At("mine"), At("queue")}, m \in {"log", "visit"} :
        Move(m) /\ Enter(store, calls, p) /\ (p # place \/ p \in {At("mine"), At("queue")})
  BY DEF LogTicket, Visit
<1> QED
  BY <1>1, <1>2, MoveIs, EnterStep, EnterKept

LEMMA ActStep ==
  ASSUME PagesInductive, Act
  PROVE  PagesInductive' /\ ThreadKept
<1>0. /\ StatusChoices \subseteq Statuses /\ {"closed", "resolved"} \subseteq Statuses
      /\ \A s \in Statuses : [NoChange EXCEPT !.status = s] \in PatchType
      /\ \A u \in Users \cup {NoUser} :
           /\ [NoChange EXCEPT !.assignee = u] \in PatchType
           /\ \A d \in Depts, name \in {u, NoUser} :
                [NoChange EXCEPT !.assignee = u, !.dept = d, !.name = name] \in PatchType
  BY PatchesAre
<1>1. CASE LogTicket \/ \E p \in Places : Visit(p)
  BY <1>1, VisitStep, SMTT(60)
<1>2. ASSUME NEW s \in StatusChoices \cup {"all"}, FilterMine(s) \/ FilterQueue("status", s)
      PROVE  PagesInductive' /\ ThreadKept
  BY <1>0, <1>2, FilterStep DEF FilterMine, FilterQueue
<1>3. ASSUME NEW a \in {"all", "me", "unassigned"}, FilterQueue("assignee", a)
      PROVE  PagesInductive' /\ ThreadKept
  BY <1>3, FilterStep DEF FilterQueue
<1>4. CASE PrevPage \/ NextPage
  BY <1>4, PagingStep
<1>5. CASE ClearSelection \/ \E x \in Lines : toggle(x.id)
  BY <1>5, PickStep
<1>6. CASE closeSelected \/ \E u \in Users \cup {NoUser} : assignTo(u)
  BY <1>0, <1>6, BulkStep, ZenonT(60) DEF closeSelected, assignTo
<1>7. CASE Resolve \/ \E s \in StatusChoices : SelectStatus(s)
  BY <1>0, <1>7, MutateStep, ZenonT(60) DEF Resolve, SelectStatus
<1>8. CASE \E u \in Users \cup {NoUser}, d \in Depts : Reassign(u, d)
  BY <1>0, <1>8, MutateStep DEF Reassign
<1>9. CASE \E c \in Comments : Reply(c)
  BY <1>9, MutateStep DEF Reply, CanReply
<1>10. CASE \E f \in Files : Upload(f) \/ RemoveFile(f)
  BY <1>10, MutateStep DEF Upload, RemoveFile
<1>11. CASE \E f \in Files \cup {NoFile} : SubmitTicket(f)
  BY <1>11, SubmitStep
<1> QED
  BY <1>1, <1>2, <1>3, <1>4, <1>5, <1>6, <1>7, <1>8, <1>9, <1>10, <1>11, SMTT(60) DEF Act

LEMMA RefetchStep ==
  ASSUME PagesInductive, Refetch
  PROVE  PagesInductive' /\ ThreadKept
<1>1. /\ StoreFits(store, rows) /\ CallsFit(calls, rows) /\ Waits(store, calls)
      /\ picked \in Seq(Tickets) /\ moves \in 0..MaxMoves
  BY DEF PagesInductive, PageKnown
<1> DEFINE c == ListCall(ParamsOf(store))
<1>2. c \in Calls /\ c.op = "list" /\ Fits(c, rows)
  BY <1>1, ParamsAre, ListCallFits, SMTT(60)
<1>3. /\ store' = fetchList(store) /\ calls' = Append(calls, c)
      /\ UNCHANGED <<rows, recency, place, picked, moves, session>>
  BY SMTT(60) DEF Refetch
<1> HIDE DEF c
<1>4. /\ StoreFits(store', rows) /\ store'.mutating = store.mutating
      /\ store'.detailLoading = store.detailLoading /\ store'.selected = store.selected
  BY <1>1, <1>3, FailedFits, ZenonT(60) DEF fetchList, StoreFits, StoreType
<1>5. /\ CallsFit(calls', rows)
      /\ \A ops : Has(calls, ops) \/ c.op \in ops => Has(calls', ops)
  BY <1>1, <1>2, <1>3, CallAdded
<1>6. Waits(store', calls')
  BY <1>1, <1>2, <1>4, <1>5 DEF Waits
<1>7. moves' \in 0..MaxMoves
  BY <1>1, <1>3 DEF MaxMoves
<1> QED
  BY <1>1, <1>3, <1>4, <1>5, <1>6, <1>7, PageStays, SameThread

-----------------------------------------------------------------------------
(* Answers.                                                                *)

LEMMA TakenIs ==
  ASSUME PagesInductive, NEW i \in 1..Len(calls), NEW op, Taken(i, op)
  PROVE  /\ calls[i] \in Calls /\ calls[i].op = op /\ Fits(calls[i], rows)
         /\ CallsFit(Others(i), rows)
         /\ \A ops : Has(calls, ops) /\ op \notin ops => Has(Others(i), ops)
         /\ UNCHANGED <<rows, recency, session>> /\ moves' \in 0..MaxMoves
         /\ StoreFits(store, rows) /\ Waits(store, calls) /\ picked \in Seq(Tickets)
<1>1. calls[i].op = op /\ UNCHANGED <<rows, recency, moves, session>>
  BY DEF Taken
<1>2. /\ CallsFit(calls, rows) /\ moves \in 0..MaxMoves
      /\ StoreFits(store, rows) /\ Waits(store, calls) /\ picked \in Seq(Tickets)
  BY DEF PagesInductive, PageKnown
<1>3. /\ CallsFit(Others(i), rows)
      /\ \A ops : Has(calls, ops) /\ calls[i].op \notin ops => Has(Others(i), ops)
  BY <1>2, CallRemoved DEF Others
<1>4. moves' \in 0..MaxMoves
  BY <1>1, <1>2
<1> QED
  BY <1>1, <1>2, <1>3, <1>4, RequestIs

\* Answers leave the signs of other requests alone.
SameSigns(s, u) == s.loading = u.loading /\ s.detailLoading = u.detailLoading

\* The answer to a change ends it.
LEMMA MutationEnds ==
  ASSUME PagesInductive, NEW i \in 1..Len(calls), NEW op \in Mutations, Taken(i, op),
         calls' = Others(i), Stay, StoreFits(store', rows),
         SameSigns(store', store), ~store'.mutating
  PROVE  PagesInductive'
<1>1. Waits(store', calls')
  BY TakenIs DEF Waits, SameSigns, Mutations
<1> QED
  BY <1>1, TakenIs, PageStays DEF Stay

LEMMA EndsAre ==
  ASSUME NEW rs, NEW s, StoreFits(s, rs)
  PROVE  /\ \A op : LET u == MutationFailed(s, op)
                    IN  SameSigns(u, s) /\ ~u.mutating /\ u.selected = s.selected
         /\ \A x : SameSigns(TicketUpdated(s, x), s) /\ ~TicketUpdated(s, x).mutating
         /\ \A x, e : SameSigns(Created(s, x, e), s) /\ ~Created(s, x, e).mutating
         /\ \A t, x : SameSigns(CommentAdded(s, t, x), s) /\ ~CommentAdded(s, t, x).mutating
         /\ \A t, x : SameSigns(FileUploaded(s, t, x), s) /\ ~FileUploaded(s, t, x).mutating
         /\ \A t, x : SameSigns(FileRemoved(s, t, x), s) /\ ~FileRemoved(s, t, x).mutating
         /\ \A c : SameSigns(BulkAnswered(s, c), s) /\ ~BulkAnswered(s, c).mutating
         /\ \A c : SameSigns(Renamed(s, c), s) /\ Renamed(s, c).mutating = s.mutating
<1>0. s \in StoreType
  BY DEF StoreFits, StoreType
<1>1. ASSUME NEW op
      PROVE  LET u == MutationFailed(s, op)
             IN  SameSigns(u, s) /\ ~u.mutating /\ u.selected = s.selected
  BY <1>0 DEF MutationFailed, SameSigns, StoreType
<1>2. ASSUME NEW x PROVE SameSigns(TicketUpdated(s, x), s) /\ ~TicketUpdated(s, x).mutating
  <2> DEFINE same == s.selected.id = x.id
             merged == IF same THEN Merge(x, s.selected) ELSE x
  <2>1. PICK a, b : TicketUpdated(s, x) = [s EXCEPT !.items = a, !.selected = b, !.mutating = FALSE]
    BY <1>0 DEF TicketUpdated, StoreType
  <2> QED
    BY <1>0, <2>1 DEF SameSigns, StoreType
<1>3. ASSUME NEW x, NEW e PROVE SameSigns(Created(s, x, e), s) /\ ~Created(s, x, e).mutating
  <2>1. Created(s, x, e) = [s EXCEPT !.items = <<x>> \o s.items, !.total = s.total + 1,
                                     !.selected = x, !.mutating = FALSE, !.error = e]
    BY <1>0 DEF Created, StoreType
  <2> QED
    BY <1>0, <2>1 DEF SameSigns, StoreType
<1>4. ASSUME NEW a, NEW b
      PROVE  SameSigns(Laid(s, a, b), s) /\ ~Laid(s, a, b).mutating
  BY <1>0, SMTT(60) DEF SameSigns, StoreType, Laid
<1>5. ASSUME NEW t, NEW x
      PROVE  SameSigns(CommentAdded(s, t, x), s) /\ ~CommentAdded(s, t, x).mutating
  <2>1. PICK a, b : CommentAdded(s, t, x) = Laid(s, a, b)
    BY <1>0 DEF CommentAdded, StoreType, Laid
  <2> QED
    BY <1>4, <2>1, ZenonT(60)
<1>6. ASSUME NEW t, NEW x
      PROVE  /\ SameSigns(FileUploaded(s, t, x), s) /\ ~FileUploaded(s, t, x).mutating
             /\ SameSigns(FileRemoved(s, t, x), s) /\ ~FileRemoved(s, t, x).mutating
  <2>1. PICK a, b : FileUploaded(s, t, x) = Laid(s, a, b)
    BY <1>0, ZenonT(60) DEF FileUploaded, FilesPatched, StoreType, Laid
  <2>2. PICK c, d : FileRemoved(s, t, x) = Laid(s, c, d)
    BY <1>0 DEF FileRemoved, FilesPatched, StoreType, Laid
  <2> QED
    BY <1>4, <2>1, <2>2, ZenonT(60)
<1>7. ASSUME NEW c PROVE SameSigns(BulkAnswered(s, c), s) /\ ~BulkAnswered(s, c).mutating
  <2>1. PICK a, b : BulkAnswered(s, c) = [s EXCEPT !.items = a, !.mutating = FALSE, !.error = b]
    BY Zenon DEF BulkAnswered
  <2> QED
    BY <1>0, <2>1 DEF SameSigns, StoreType
<1>8. ASSUME NEW c PROVE SameSigns(Renamed(s, c), s) /\ Renamed(s, c).mutating = s.mutating
  BY <1>0 DEF Renamed, SameSigns, StoreType
<1> QED
  BY <1>1, <1>2, <1>3, <1>5, <1>6, <1>7, <1>8

LEMMA FailedStep ==
  ASSUME PagesInductive, NEW i \in 1..Len(calls), NEW op \in Mutations, Taken(i, op),
         store' = MutationFailed(store, op), calls' = Others(i), Stay
  PROVE  PagesInductive' /\ ThreadKept
<1>1. StoreFits(store, rows)
  BY DEF PagesInductive
<1>2. StoreFits(store', rows)
  BY <1>1, FailedFits
<1>3. SameSigns(store', store) /\ ~store'.mutating /\ store'.selected = store.selected
  BY <1>1, EndsAre
<1> QED
  BY <1>2, <1>3, MutationEnds, SameThread

LEMMA TakeListStep ==
  ASSUME PagesInductive, NEW i \in 1..Len(calls), TakeList(i)
  PROVE  PagesInductive' /\ ThreadKept
<1>1. Taken(i, "list") /\ calls' = Others(i) /\ Stay
  BY DEF TakeList
<1>2. calls[i] \in ListCalls /\ StoreFits(store, rows)
  BY <1>1, TakenIs, CallIs
<1>3. StoreFits(ListAnswered(store, calls[i]), rows) /\ StoreFits(ListFailed(store), rows)
  BY <1>2, ListAnsweredFits, FailedFits
<1>4. \/ \E a, b, c, d : store' = [store EXCEPT !.items = a, !.total = b, !.page = c,
                                               !.pageSize = d, !.loading = FALSE]
      \/ store' = [store EXCEPT !.loading = FALSE, !.error = "list"]
  BY DEF TakeList, ListAnswered, ListFailed
<1>5. /\ StoreFits(store', rows) /\ ~store'.loading /\ store'.mutating = store.mutating
      /\ store'.detailLoading = store.detailLoading /\ store'.selected = store.selected
  <2>1. StoreFits(store', rows)
    BY <1>3 DEF TakeList
  <2> QED
    BY <1>2, <1>4, <2>1, ZenonT(60) DEF StoreFits, StoreType
<1>6. Waits(store', calls')
  BY <1>1, <1>5, TakenIs DEF Waits, Mutations
<1> QED
  BY <1>1, <1>5, <1>6, TakenIs, PageStays, SameThread DEF Stay

LEMMA TakeDetailStep ==
  ASSUME PagesInductive, NEW i \in 1..Len(calls), TakeDetail(i)
  PROVE  PagesInductive'
<1>1. Taken(i, "detail") /\ calls' = Others(i) /\ Stay
  BY DEF TakeDetail
<1>2. calls[i] \in DetailCalls /\ StoreFits(store, rows) /\ DetailFits(calls[i], rows)
  BY <1>1, TakenIs, CallIs DEF Fits
<1>3. /\ calls[i].state = "ok" => StoreFits(DetailAnswered(store, calls[i]), rows)
      /\ StoreFits(DetailFailed(store), rows)
  BY <1>2, DetailAnsweredFits, FailedFits
<1>4. \/ \E a, b : store' = [store EXCEPT !.selected = a, !.items = b, !.detailLoading = FALSE]
      \/ \E a : store' = [store EXCEPT !.selected = a, !.detailLoading = FALSE, !.error = "detail"]
  BY <1>2 DEF TakeDetail, DetailAnswered, DetailFailed, StoreFits, StoreType
<1>5. /\ StoreFits(store', rows) /\ store'.loading = store.loading
      /\ store'.mutating = store.mutating /\ ~store'.detailLoading
  <2>1. StoreFits(store', rows)
    BY <1>3 DEF TakeDetail, Ok
  <2> QED
    BY <1>2, <1>4, <2>1 DEF StoreFits, StoreType
<1>6. Waits(store', calls')
  BY <1>1, <1>5, TakenIs DEF Waits, Mutations
<1> QED
  BY <1>1, <1>5, <1>6, TakenIs, PageStays DEF Stay

\* The form's page gives way to My tickets, with the new ticket on top.
LEMMA CreatedStep ==
  ASSUME PagesInductive, NEW i \in 1..Len(calls), NEW op \in Mutations, Taken(i, op),
         NEW x \in InList(rows), x.name = x.assignee,
         NEW e \in {"none", "list", "detail"} \cup Mutations,
         Enter(Created(store, x, e), Others(i), At("mine"))
  PROVE  PagesInductive' /\ ThreadKept
<1> DEFINE s == Created(store, x, e)
<1>1. StoreFits(store, rows) /\ StoreFits(s, rows)
  BY CreatedFits DEF PagesInductive
<1>2. SameSigns(s, store) /\ ~s.mutating
  BY <1>1, EndsAre
<1> HIDE DEF s
<1>3. Waits(s, Others(i))
  BY <1>2, TakenIs DEF Waits, SameSigns, Mutations
<1>4. Enter(s, Others(i), At("mine"))
  BY DEF s
<1> QED
  BY <1>1, <1>3, <1>4, TakenIs, EnterStep, EnterKept

LEMMA TakeCreateStep ==
  ASSUME PagesInductive, NEW i \in 1..Len(calls), TakeCreate(i)
  PROVE  PagesInductive' /\ ThreadKept
<1> DEFINE c == calls[i]
<1>1. Taken(i, "create") /\ "create" \in Mutations /\ "uploadNew" \in Mutations
  BY DEF TakeCreate, Mutations
<1>2. /\ c \in FormCalls /\ (c.state = "ok" => c.got \in Bare)
      /\ store.error \in {"none", "list", "detail"} \cup Mutations
  BY <1>1, TakenIs, CallIs DEF Fits, StoreFits, StoreType
<1>3. CASE ~Ok(i)
  BY <1>1, <1>3, FailedStep DEF TakeCreate
<1>4. CASE Ok(i) /\ c.want = NoFile
  <2>1. c.got \in InList(rows) /\ c.got.name = c.got.assignee
    BY <1>2, <1>4, BareIs DEF Ok
  <2>2. Enter(Created(store, c.got, store.error), Others(i), At("mine"))
    BY <1>4 DEF TakeCreate
  <2> QED
    BY <1>1, <1>2, <2>1, <2>2, CreatedStep
<1>5. CASE Ok(i) /\ c.want # NoFile
  <2> DEFINE d == [MutationCall("uploadNew", c.got.id, c.want) EXCEPT !.got = c.got]
  <2>1. c.got \in Bare /\ c.got.id \in Tickets /\ c.want \in Files
    BY <1>2, <1>5, BareIs DEF Ok, FormCalls
  <2>2. d = [op |-> "uploadNew", on |-> c.got.id, want |-> c.want, state |-> "sent", got |-> c.got]
    BY DEF MutationCall
  <2>3. calls' = Append(Others(i), d) /\ UNCHANGED store /\ Stay
    BY <1>5 DEF TakeCreate
  <2> HIDE DEF d
  <2>4. d \in Calls /\ Fits(d, rows) /\ d.op = "uploadNew"
    BY <2>1, <2>2 DEF Calls, NewFileCalls, States, Fits
  <2>5. /\ CallsFit(calls', rows)
        /\ \A ops : Has(Others(i), ops) \/ d.op \in ops => Has(calls', ops)
    BY <1>1, <2>3, <2>4, TakenIs, CallAdded
  <2>6. Waits(store', calls')
    BY <1>1, <2>3, <2>4, <2>5, TakenIs DEF Waits
  <2> QED
    BY <1>1, <2>3, <2>5, <2>6, TakenIs, PageStays, SameThread DEF Stay
<1> QED
  BY <1>3, <1>4, <1>5

LEMMA TakeUploadNewStep ==
  ASSUME PagesInductive, NEW i \in 1..Len(calls), TakeUploadNew(i)
  PROVE  PagesInductive' /\ ThreadKept
<1> DEFINE c == calls[i]
           x == IF Ok(i) THEN [c.got EXCEPT !.files = Append(@, c.want)] ELSE c.got
           e == IF Ok(i) THEN store.error ELSE "uploadNew"
<1>1. /\ Taken(i, "uploadNew") /\ "uploadNew" \in Mutations
      /\ Enter(Created(store, x, e), Others(i), At("mine"))
  BY Zenon DEF TakeUploadNew, Mutations
<1>2. /\ c \in NewFileCalls /\ c.got \in Bare /\ c.want \in Files
      /\ store.error \in {"none", "list", "detail"} \cup Mutations
  BY <1>1, TakenIs, CallIs, ZenonT(60) DEF NewFileCalls, StoreFits, StoreType
<1>3. e \in {"none", "list", "detail"} \cup Mutations
  BY <1>1, <1>2
<1>4. x \in OtherFiles(c.got)
  <2>1. c.got \in TicketType /\ Append(c.got.files, c.want) \in Seq(Files)
    BY <1>2, BareIs DEF TicketType
  <2> QED
    BY <2>1, OwnFiles DEF OtherFiles
<1> HIDE DEF x, e
<1>5. x \in InList(rows) /\ x.name = x.assignee
  BY <1>2, <1>4, BareIs, OtherFilesAre
<1> QED
  BY <1>1, <1>3, <1>5, CreatedStep

LEMMA TakeUpdateStep ==
  ASSUME PagesInductive, NEW i \in 1..Len(calls), TakeUpdate(i)
  PROVE  PagesInductive' /\ ThreadKept
<1> DEFINE c == calls[i]
           u == TicketUpdated(store, c.got)
<1>1. /\ Taken(i, "update") /\ "update" \in Mutations /\ calls' = Others(i) /\ Stay
      /\ store' = IF Ok(i) THEN Renamed(u, c) ELSE MutationFailed(store, "update")
  BY DEF TakeUpdate, Mutations
<1>2. c \in UpdateCalls /\ UpdateFits(c) /\ StoreFits(store, rows)
  BY <1>1, TakenIs, CallIs DEF Fits
<1>3. CASE ~Ok(i)
  BY <1>1, <1>3, FailedStep
<1>4. CASE Ok(i)
  <2>1. /\ c.got \in Bare /\ c.got.id = c.on
        /\ c.want.assignee # Keep => c.got.assignee = c.want.assignee
    BY <1>2, <1>4 DEF UpdateFits, Ok
  <2>2. /\ StoreFits(u, rows) /\ u.selected.id = store.selected.id
        /\ u.selected.comments = store.selected.comments
        /\ store.selected.id = c.on => u.selected.assignee = c.got.assignee
        /\ SameSigns(u, store) /\ ~u.mutating
    BY <1>2, <2>1, TicketUpdatedFits, EndsAre
  <2> HIDE DEF u
  <2>3. /\ StoreFits(Renamed(u, c), rows)
        /\ Renamed(u, c).selected.comments = u.selected.comments
        /\ SameSigns(Renamed(u, c), u) /\ Renamed(u, c).mutating = u.mutating
    BY <1>2, <2>1, <2>2, RenamedFits, EndsAre
  <2>4. /\ StoreFits(store', rows) /\ SameSigns(store', store) /\ ~store'.mutating
        /\ store'.selected.comments = store.selected.comments
    BY <1>1, <1>4, <2>2, <2>3 DEF SameSigns
  <2> QED
    BY <1>1, <2>4, MutationEnds, SameThread
<1> QED
  BY <1>3, <1>4

LEMMA TakeCommentStep ==
  ASSUME PagesInductive, NEW i \in 1..Len(calls), TakeComment(i)
  PROVE  PagesInductive' /\ ThreadKept
<1> DEFINE c == calls[i]
<1>1. /\ Taken(i, "comment") /\ "comment" \in Mutations /\ calls' = Others(i) /\ Stay
      /\ store' = IF Ok(i) THEN CommentAdded(store, c.on, c.want)
                  ELSE MutationFailed(store, "comment")
  BY DEF TakeComment, Mutations
<1>2. /\ c \in CommentCalls /\ c.on \in Tickets /\ c.want \in Comments /\ StoreFits(store, rows)
      /\ c.state = "ok" => c.want \in ToSet(rows[c.on].comments)
  BY <1>1, TakenIs, CallIs DEF Fits, CommentCalls
<1>3. CASE ~Ok(i)
  BY <1>1, <1>3, FailedStep
<1>4. CASE Ok(i)
  <2>1. /\ StoreFits(store', rows) /\ SameSigns(store', store) /\ ~store'.mutating
        /\ store'.selected.comments
             \in {store.selected.comments, Append(store.selected.comments, c.want)}
    BY <1>1, <1>2, <1>4, CommentAddedFits, EndsAre DEF Ok
  <2>2. store.selected.comments \in Seq(Comments)
    BY <1>2 DEF StoreFits, StoreType, TicketType
  <2>3. ThreadKept
    <3>1. CASE store'.selected.comments = store.selected.comments
      BY <3>1, SameThread
    <3>2. CASE store'.selected.comments = Append(store.selected.comments, c.want)
      BY <1>2, <2>2, <3>2, AppendedTo DEF ThreadKept
    <3> QED
      BY <2>1, <3>1, <3>2
  <2> QED
    BY <1>1, <2>1, <2>3, MutationEnds
<1> QED
  BY <1>3, <1>4

LEMMA TakeFileStep ==
  ASSUME PagesInductive, NEW i \in 1..Len(calls), TakeFile(i)
  PROVE  PagesInductive' /\ ThreadKept
<1> DEFINE c == calls[i]
<1>1. PICK op \in {"upload", "remove"} :
        /\ Taken(i, op)
        /\ store' = IF Ok(i) THEN IF op = "upload" THEN FileUploaded(store, c.on, c.want)
                                  ELSE FileRemoved(store, c.on, c.want)
                    ELSE MutationFailed(store, op)
  BY DEF TakeFile
<1>2. op \in Mutations /\ calls' = Others(i) /\ Stay
  BY DEF TakeFile, Mutations
<1>3. c.want \in Files /\ StoreFits(store, rows)
  BY <1>1, TakenIs, CallIs DEF FileCalls
<1>4. CASE ~Ok(i)
  BY <1>1, <1>2, <1>4, FailedStep
<1>5. CASE Ok(i)
  <2>1. /\ StoreFits(store', rows) /\ SameSigns(store', store) /\ ~store'.mutating
        /\ store'.selected.comments = store.selected.comments
    BY <1>1, <1>3, <1>5, FileUploadedFits, FileRemovedFits, EndsAre
  <2> QED
    BY <1>1, <1>2, <2>1, MutationEnds, SameThread
<1> QED
  BY <1>4, <1>5

LEMMA TakeBulkStep ==
  ASSUME PagesInductive, NEW i \in 1..Len(calls), TakeBulk(i)
  PROVE  PagesInductive' /\ ThreadKept
<1> DEFINE c == calls[i]
           s == BulkAnswered(store, c)
           d == ListCall(ParamsOf(s))
<1>1. /\ Taken(i, "bulk") /\ picked' = (IF c.here THEN BulkFailed(c) ELSE picked)
      /\ store' = fetchList(s) /\ calls' = Append(Others(i), d) /\ UNCHANGED <<place, seen>>
  BY Zenon DEF TakeBulk
<1>2. c \in BulkCalls /\ Fits(c, rows) /\ StoreFits(store, rows)
  BY <1>1, TakenIs, CallIs
<1>3. /\ StoreFits(s, rows) /\ s.selected = store.selected /\ BulkFailed(c) \in Seq(Tickets)
      /\ SameSigns(s, store) /\ ~s.mutating
  BY <1>2, BulkAnsweredFits, EndsAre
<1>4. d \in Calls /\ d.op = "list" /\ Fits(d, rows)
  BY <1>3, ParamsAre, ListCallFits
<1> HIDE DEF s, d
<1>5. /\ StoreFits(store', rows) /\ store'.selected = store.selected
      /\ store'.detailLoading = store.detailLoading /\ ~store'.mutating
  <2>1. StoreFits(store', rows)
    BY <1>1, <1>3, FailedFits
  <2>2. s \in StoreType
    BY <1>3 DEF StoreFits
  <2>3. /\ store'.selected = s.selected /\ store'.detailLoading = s.detailLoading
        /\ store'.mutating = s.mutating
    BY <1>1, <2>2 DEF fetchList, StoreType
  <2> QED
    BY <1>3, <2>1, <2>3 DEF SameSigns
<1>6. /\ CallsFit(calls', rows)
      /\ \A ops : Has(Others(i), ops) \/ d.op \in ops => Has(calls', ops)
  BY <1>1, <1>4, TakenIs, CallAdded
<1>7. Waits(store', calls')
  BY <1>1, <1>4, <1>5, <1>6, TakenIs DEF Waits
<1>8. picked' \in Seq(Tickets)
  BY <1>1, <1>3, TakenIs
<1> QED
  BY <1>1, <1>5, <1>6, <1>7, <1>8, TakenIs, PageStays, SameThread

LEMMA TakeStep ==
  ASSUME PagesInductive, NEW i \in 1..Len(calls), Take(i)
  PROVE  PagesInductive' /\ (TakeDetail(i) \/ ThreadKept)
BY TakeListStep, TakeDetailStep, TakeCreateStep, TakeUploadNewStep, TakeUpdateStep,
   TakeCommentStep, TakeFileStep, TakeBulkStep DEF Take

-----------------------------------------------------------------------------
(* The theorems.                                                           *)

\* The members of a finite set can be listed.
LEMMA ListedSet ==
  ASSUME NEW S, IsFiniteSet(S)
  PROVE  SetToSeq(S) \in Seq(S)
<1>1. Cardinality(S) \in Nat /\ ExistsBijection(1..Cardinality(S), S)
  BY FS_CardinalityType
<1>2. PICK f : f \in Bijection(1..Cardinality(S), S)
  BY <1>1 DEF ExistsBijection
<1>3. f \in [1..Cardinality(S) -> S] /\ IsInjective(f)
  <2>1. f \in [1..Cardinality(S) -> S]
    BY <1>2, Fun_BijectionProperties
  <2>2. \A a, b \in 1..Cardinality(S) : f[a] = f[b] => a = b
    BY <1>2, Fun_BijectionProperties
  <2> QED
    BY <2>1, <2>2 DEF IsInjective
<1>4. SetToSeq(S) \in [1..Cardinality(S) -> S]
  BY <1>3, Zenon DEF SetToSeq
<1> QED
  BY <1>1, <1>4

LEMMA InitInductive == Init => PagesInductive
<1> SUFFICES ASSUME Init PROVE PagesInductive
  OBVIOUS
<1>1. /\ session \in Sessions /\ session.existing \subseteq Tickets
      /\ IsFiniteSet(session.existing) /\ session.events \in Nat
      /\ rows \in [Tickets -> [status : Statuses, dept : Depts,
                               assignee : Users \cup {NoUser},
                               comments : {<<>>}, files : {<<>>}]]
  BY PagesAssumption DEF Init
<1>2. RowsKnown
  <2>1. rows \in [Tickets -> RowType]
    <3>1. <<>> \in Seq(Comments) /\ <<>> \in Seq(Files)
      OBVIOUS
    <3>2. \A t \in Tickets : rows[t] \in RowType
      BY <1>1, <3>1 DEF RowType
    <3> QED
      BY <1>1, <3>2
  <2>2. recency \in Seq(Tickets)
    BY <1>1, ListedSet DEF Init
  <2> QED
    BY <2>1, <2>2 DEF RowsKnown
<1>3. PageKnown
  BY <1>1 DEF Init, PageKnown, MaxMoves
<1>4. StoreFits(InitStore, rows) /\ ~InitStore.loading /\ ~InitStore.mutating
      /\ ~InitStore.detailLoading
  <2>1. <<>> \in Seq(InList(rows)) /\ <<>> \in Seq({x \in TicketType : x.id # NoTicket})
    OBVIOUS
  <2> QED
    BY <2>1, NothingIs, StoreAssumption
       DEF InitStore, NoFilter, StoreFits, StoreType, FilterType, Named
<1>5. CallsFit(calls, rows)
  BY DEF Init, CallsFit
<1>6. Waits(store, calls)
  BY <1>4 DEF Init, Waits
<1> QED
  BY <1>2, <1>3, <1>4, <1>5, <1>6 DEF PagesInductive, Init

LEMMA StepInductive ==
  ASSUME PagesInductive, [Next]_vars
  PROVE  PagesInductive'
<1>1. CASE Next
  <2>1. CASE Act
    BY <2>1, ActStep
  <2>2. CASE Refetch
    BY <2>2, RefetchStep
  <2>3. CASE ServeAny
    BY <2>3, ServeStep
  <2>4. CASE TakeAny
    <3>1. PICK i \in DOMAIN calls : Take(i)
      BY <2>4 DEF TakeAny
    <3>2. i \in 1..Len(calls)
      BY DEF PagesInductive, CallsFit
    <3> QED
      BY <3>1, <3>2, TakeStep
  <2>5. CASE OthersMove
    BY <2>5, OthersStep
  <2> QED
    BY <1>1, <2>1, <2>2, <2>3, <2>4, <2>5 DEF Next
<1>2. CASE UNCHANGED vars
  BY <1>2 DEF vars, pages, PagesInductive, RowsKnown, PageKnown, Places, MaxMoves
<1> QED
  BY <1>1, <1>2

\* What the store and the requests hold is invariant.
THEOREM PagesInvariant == Spec => []PagesInductive
BY InitInductive, StepInductive, PTL DEF Spec

LEMMA InductiveConsistent == PagesInductive => Consistent
<1> SUFFICES ASSUME PagesInductive PROVE Consistent
  OBVIOUS
<1>1. /\ StoreFits(store, rows) /\ CallsFit(calls, rows) /\ Waits(store, calls)
      /\ RowsKnown /\ PageKnown
  BY DEF PagesInductive
<1>2. TypeOK
  BY <1>1 DEF TypeOK, RowsKnown, PageKnown, StoreFits
<1>3. SpinnersHaveCause
  <2>1. DOMAIN calls = 1..Len(calls)
    BY <1>1 DEF CallsFit
  <2> QED
    BY <1>1, <2>1 DEF SpinnersHaveCause, InFlight, Waits, Has
<1>4. ThreadsBelong
  <2>1. \A x \in ToSet(store.items) : Belongs(x, rows)
    BY <1>1 DEF StoreFits, InList, ToSet
  <2> QED
    BY <1>1, <2>1 DEF ThreadsBelong, StoreFits, Belongs
<1>5. NameMatches
  BY <1>1 DEF NameMatches, StoreFits, Named
<1> QED
  BY <1>2, <1>3, <1>4, <1>5 DEF Consistent

\* The browser is consistent at every moment, in every session, for all the
\* tickets, comments and files there may be, whatever fails, is lost or is
\* answered out of order: every spinner has its request, a thread on the
\* screen is part of the server's, and the name beside it is the assignee's
\* or none.
THEOREM PagesConsistent == Spec => []Consistent
BY PagesInvariant, InductiveConsistent, PTL

\* No answer but another fetch of the ticket takes a comment off the ticket
\* page: PATCH answers without a thread, bulk answers, uploads, failures and
\* the changes of others leave the thread, a reply's answer only adds to it.
THEOREM ThreadsStay == Spec => ThreadStays
<1>1. ASSUME PagesInductive, Next
      PROVE  ThreadKept \/ \E i \in DOMAIN calls : TakeDetail(i)
  <2>1. CASE Act
    BY <1>1, <2>1, ActStep
  <2>2. CASE Refetch
    BY <1>1, <2>2, RefetchStep
  <2>3. CASE ServeAny \/ OthersMove
    <3>1. store' = store
      BY <2>3 DEF ServeAny, Serve, OthersMove, OthersAct
    <3> QED
      BY <1>1, <3>1, SameThread
  <2>4. CASE TakeAny
    <3>1. PICK i \in DOMAIN calls : Take(i)
      BY <2>4 DEF TakeAny
    <3>2. i \in 1..Len(calls)
      BY <1>1 DEF PagesInductive, CallsFit
    <3> QED
      BY <1>1, <3>1, <3>2, TakeStep
  <2> QED
    BY <1>1, <2>1, <2>2, <2>3, <2>4 DEF Next
<1>2. PagesInductive /\ [Next]_vars =>
        [ \/ \E i \in DOMAIN calls : TakeDetail(i)
          \/ ~OnPage("detail") \/ place' # place
          \/ store'.selected.id # store.selected.id
          \/ IsPrefix(store.selected.comments, store'.selected.comments) ]_vars
  BY <1>1 DEF ThreadKept
<1> QED
  BY <1>2, PagesInvariant, PTL DEF Spec, ThreadStays

-----------------------------------------------------------------------------
(* What a user can do, seen from the requests.                             *)

\* Filters and pages change, or the selection does.
Adjusts ==
  /\ UNCHANGED <<calls, place, seen>>
  /\ \E filters, page : store' = [store EXCEPT !.filters = filters, !.page = page]

\* A change of tickets leaves the browser.
Begins(c) ==
  /\ UNCHANGED <<place, seen>>
  /\ store' = StartMutation(store) /\ calls' = Append(calls, c)
  /\ c \in Calls /\ c.state = "sent"
  /\ \/ /\ c.op = "bulk" /\ OnPage("queue") /\ ~store.mutating
        /\ \A t \in ToSet(c.on) : c.got[t] = Nothing
     \/ c.op = "create" /\ OnPage("create") /\ ~store.mutating
     \/ /\ c.op \in {"update", "comment", "upload", "remove"} /\ OnTicket /\ c.on = Shown
        /\ c.op = "update" => Role # "student"

\* The user goes to another page.
Goes(p) == p # place /\ Enter(store, calls, p)

LEMMA MutateIs ==
  ASSUME PagesInductive, NEW m, NEW op, NEW want, Mutate(m, op, want), OnTicket,
         op = "update" => Role # "student",
         \/ op = "update" /\ want \in PatchType
         \/ op = "comment" /\ want \in Comments
         \/ op \in {"upload", "remove"} /\ want \in Files
  PROVE  \E c : Begins(c)
<1>1. Shown \in Tickets
  BY DEF OnTicket, Shown, PagesInductive, StoreFits, StoreType, TicketType
<1> DEFINE c == MutationCall(op, Shown, want)
<1>2. c \in Calls /\ c.op = op
  BY <1>1, MutationCallFits
<1>3. c.state = "sent" /\ c.on = Shown
  BY DEF MutationCall
<1>4. Stay /\ store' = StartMutation(store) /\ calls' = Append(calls, c)
  BY DEF Mutate
<1> HIDE DEF c
<1>5. Begins(c)
  BY <1>2, <1>3, <1>4 DEF Begins, Stay
<1> QED
  BY <1>5

LEMMA BulkIs ==
  ASSUME PagesInductive, NEW m, NEW patch \in PatchType, Bulk(m, patch)
  PROVE  \E c : Begins(c)
<1> DEFINE c == BulkCall(picked, patch)
<1>1. c \in Calls /\ c.op = "bulk"
  BY BulkCallFits DEF PagesInductive, PageKnown
<1>2. c.state = "sent" /\ c.on = picked /\ \A t \in ToSet(c.on) : c.got[t] = Nothing
  BY DEF BulkCall
<1>3. /\ Stay /\ store' = StartMutation(store) /\ calls' = Append(calls, c)
      /\ OnPage("queue") /\ ~store.mutating
  BY DEF Bulk, BulkBar
<1> HIDE DEF c
<1>4. Begins(c)
  BY <1>1, <1>2, <1>3, SMTT(60) DEF Begins, Stay
<1> QED
  BY <1>4

LEMMA ActIs ==
  ASSUME PagesInductive, Act
  PROVE  /\ UNCHANGED <<rows, recency, session>> /\ ~RefetchDue
         /\ \/ Adjusts
            \/ \E c : Begins(c)
            \/ \E p \in Places \cup {At("queue")} : Goes(p)
<1>0. /\ StatusChoices \subseteq Statuses /\ {"closed", "resolved"} \subseteq Statuses
      /\ \A s \in Statuses : [NoChange EXCEPT !.status = s] \in PatchType
      /\ \A u \in Users \cup {NoUser} :
           /\ [NoChange EXCEPT !.assignee = u] \in PatchType
           /\ \A d \in Depts, name \in {u, NoUser} :
                [NoChange EXCEPT !.assignee = u, !.dept = d, !.name = name] \in PatchType
  BY PatchesAre, ZenonT(60)
<1>1. \E m : Move(m)
  BY DEF Act, Visit, FilterMine, FilterQueue, PrevPage, NextPage, Turn, toggle, ClearSelection,
     assignTo, closeSelected, Bulk, SelectStatus, Resolve, Reassign, Reply, Upload, RemoveFile,
     Mutate, SubmitTicket, LogTicket
<1>14. UNCHANGED <<rows, recency, session>> /\ ~RefetchDue
  BY <1>1 DEF Move
<1> SUFFICES \/ Adjusts
             \/ \E c : Begins(c)
             \/ \E p \in Places \cup {At("queue")} : Goes(p)
  BY <1>14
<1>2. store = [store EXCEPT !.filters = store.filters, !.page = store.page]
  BY DEF PagesInductive, StoreFits, StoreType
<1>3. CASE \E p \in Places : Visit(p)
  BY <1>3 DEF Visit, Goes
<1>4. CASE LogTicket
  <2>1. At("queue") # place
    BY <1>4 DEF LogTicket, OnPage, At
  <2> QED
    BY <1>4, <2>1 DEF LogTicket, Goes
<1>5. CASE \/ \E s \in StatusChoices \cup {"all"} : FilterMine(s) \/ FilterQueue("status", s)
           \/ \E a \in {"all", "me", "unassigned"} : FilterQueue("assignee", a)
  BY <1>5 DEF FilterMine, FilterQueue, Adjusts, Stay, setFilters
<1>6. CASE PrevPage \/ NextPage
  <2>1. PICK page : Turn(page)
    BY <1>6 DEF PrevPage, NextPage
  <2>2. store' = [store EXCEPT !.filters = store.filters, !.page = IF page < 1 THEN 1 ELSE page]
    BY <1>2, <2>1, ZenonT(60) DEF Turn, setPage
  <2> QED
    BY <2>1, <2>2 DEF Turn, Adjusts, Stay
<1>7. CASE ClearSelection \/ \E x \in Lines : toggle(x.id)
  BY <1>2, <1>7, ZenonT(60) DEF ClearSelection, toggle, Adjusts
<1>8. CASE closeSelected \/ \E u \in Users \cup {NoUser} : assignTo(u)
  BY <1>0, <1>8, BulkIs DEF closeSelected, assignTo
<1>9. CASE Resolve \/ \E s \in StatusChoices : SelectStatus(s)
  BY <1>0, <1>9, MutateIs, ZenonT(60) DEF Resolve, SelectStatus
<1>10. CASE \E u \in Users \cup {NoUser}, d \in Depts : Reassign(u, d)
  BY <1>0, <1>10, MutateIs DEF Reassign
<1>11. CASE \E c \in Comments : Reply(c)
  BY <1>11, MutateIs DEF Reply, CanReply
<1>12. CASE \E f \in Files : Upload(f) \/ RemoveFile(f)
  BY <1>12, MutateIs DEF Upload, RemoveFile
<1>13. CASE \E f \in Files \cup {NoFile} : SubmitTicket(f)
  <2>1. PICK f \in Files \cup {NoFile} : SubmitTicket(f)
    BY <1>13
  <2> DEFINE c == MutationCall("create", NoTicket, f)
  <2>2. c \in Calls /\ c.op = "create"
    BY MutationCallFits
  <2>3. c.state = "sent"
    BY DEF MutationCall
  <2>4. /\ Stay /\ store' = StartMutation(store) /\ calls' = Append(calls, c)
        /\ OnPage("create") /\ ~store.mutating
    BY <2>1 DEF SubmitTicket
  <2> HIDE DEF c
  <2>5. Begins(c)
    BY <2>2, <2>3, <2>4 DEF Begins, Stay
  <2> QED
    BY <2>5
<1> QED
  BY <1>3, <1>4, <1>5, <1>6, <1>7, <1>8, <1>9, <1>10, <1>11, <1>12, <1>13, SMTT(60) DEF Act

LEMMA SessionStays ==
  ASSUME PagesInductive, [Next]_vars
  PROVE  session' = session
BY ActIs, ZenonT(60) DEF Next, Refetch, ServeAny, Serve, TakeAny, Take, TakeList, TakeDetail, TakeCreate,
   TakeUploadNew, TakeUpdate, TakeComment, TakeFile, TakeBulk, Taken, OthersMove, OthersAct, vars

-----------------------------------------------------------------------------
(* Bulk actions are honest when nobody else changes tickets.               *)

\* What a bulk action was told of is so.
BulkDone(c, rs) ==
  c.op = "bulk" =>
    \A t \in ToSet(c.on) : c.got[t] # Nothing => Patched(rs[t], c.want) = rs[t]

\* One change is in flight at most, and the buttons know.
BulksFit(cs, rs, mutating) ==
  /\ \A i \in 1..Len(cs) :
       /\ cs[i].op \in {"list", "bulk", "create", "uploadNew"}
       /\ cs[i].op \in Mutations => mutating
       /\ BulkDone(cs[i], rs)
  /\ \A i, j \in 1..Len(cs) : cs[i].op \in Mutations /\ cs[j].op \in Mutations => i = j

BulksInductive == SingleHanded => BulksFit(calls, rows, store.mutating)

LEMMA AppendIs ==
  ASSUME NEW T, NEW s \in Seq(T), NEW x \in T
  PROVE  /\ Append(s, x) \in Seq(T) /\ Len(Append(s, x)) = Len(s) + 1
         /\ \A j \in 1..Len(s) : Append(s, x)[j] = s[j]
         /\ Append(s, x)[Len(s) + 1] = x
         /\ \A j \in 1..(Len(s) + 1) : j \in 1..Len(s) \/ j = Len(s) + 1
OBVIOUS

LEMMA ListAdded ==
  ASSUME NEW cs \in Seq(Calls), NEW rs, NEW m, BulksFit(cs, rs, m),
         NEW c \in Calls, c.op = "list"
  PROVE  BulksFit(Append(cs, c), rs, m)
<1>1. "list" \notin Mutations
  BY DEF Mutations
<1>2. /\ Len(Append(cs, c)) = Len(cs) + 1
      /\ \A j \in 1..Len(cs) : Append(cs, c)[j] = cs[j]
      /\ Append(cs, c)[Len(cs) + 1] = c
      /\ \A j \in 1..(Len(cs) + 1) : j \in 1..Len(cs) \/ j = Len(cs) + 1
  BY AppendIs
<1> HIDE DEF Mutations
<1> QED
  BY <1>1, <1>2 DEF BulksFit, BulkDone

LEMMA ChangeAdded ==
  ASSUME NEW cs \in Seq(Calls), NEW rs, BulksFit(cs, rs, FALSE),
         NEW c \in Calls, c.op \in {"bulk", "create", "uploadNew"}, BulkDone(c, rs)
  PROVE  BulksFit(Append(cs, c), rs, TRUE)
<1>1. /\ Len(Append(cs, c)) = Len(cs) + 1
      /\ \A j \in 1..Len(cs) : Append(cs, c)[j] = cs[j]
      /\ Append(cs, c)[Len(cs) + 1] = c
      /\ \A j \in 1..(Len(cs) + 1) : j \in 1..Len(cs) \/ j = Len(cs) + 1
  BY AppendIs
<1>2. \A j \in 1..Len(cs) : cs[j].op \notin Mutations
  BY DEF BulksFit
<1> QED
  BY <1>1, <1>2 DEF BulksFit

\* Where the entries of a list are before one of them is removed.
LEMMA RemovedAre ==
  ASSUME NEW T, NEW s \in Seq(T), NEW i \in 1..Len(s)
  PROVE  \E at \in [1..Len(RemoveAt(s, i)) -> 1..Len(s)] :
           \A j, k \in 1..Len(RemoveAt(s, i)) :
             /\ RemoveAt(s, i)[j] = s[at[j]] /\ at[j] # i
             /\ at[j] = at[k] => j = k
<1> DEFINE r == RemoveAt(s, i)
           at == [j \in 1..Len(r) |-> IF j < i THEN j ELSE j + 1]
<1>0. Len(s) \in Nat
  OBVIOUS
<1>1. /\ Len(r) = Len(s) - 1 /\ Len(s) \in Nat
      /\ \A j \in 1..(Len(s) - 1) : r[j] = IF j < i THEN s[j] ELSE s[j + 1]
  BY <1>0, RemovedIs, Zenon
<1> HIDE DEF r
<1>2. at \in [1..Len(r) -> 1..Len(s)]
  BY <1>1
<1>3. \A j, k \in 1..Len(r) : r[j] = s[at[j]] /\ at[j] # i /\ (at[j] = at[k] => j = k)
  BY <1>1
<1> QED
  BY <1>2, <1>3 DEF r

LEMMA BulksRemoved ==
  ASSUME NEW cs \in Seq(Calls), NEW rs, NEW m, BulksFit(cs, rs, m), NEW i \in 1..Len(cs)
  PROVE  /\ BulksFit(RemoveAt(cs, i), rs, m)
         /\ cs[i].op \in Mutations => BulksFit(RemoveAt(cs, i), rs, FALSE)
<1> DEFINE ds == RemoveAt(cs, i)
<1>1. PICK at \in [1..Len(ds) -> 1..Len(cs)] :
        \A j, k \in 1..Len(ds) : ds[j] = cs[at[j]] /\ at[j] # i /\ (at[j] = at[k] => j = k)
  BY RemovedAre, SMTT(60)
<1> HIDE DEF ds
<1>2. \A j \in 1..Len(ds) : at[j] \in 1..Len(cs)
  OBVIOUS
<1>3. ASSUME NEW j \in 1..Len(ds), NEW k \in 1..Len(ds), ds[j].op \in Mutations, ds[k].op \in Mutations
      PROVE  j = k
  BY <1>1, <1>2, <1>3, SMTT(60) DEF BulksFit
<1>4. ASSUME NEW j \in 1..Len(ds), ds[j].op \in Mutations, cs[i].op \in Mutations
      PROVE  FALSE
  BY <1>1, <1>2, <1>4, SMTT(60) DEF BulksFit
<1>5. BulksFit(ds, rs, m)
  BY <1>1, <1>2, <1>3, ZenonT(60) DEF BulksFit
<1> QED
  BY <1>4, <1>5, Zenon DEF BulksFit, ds

LEMMA BulksChanged ==
  ASSUME NEW cs \in Seq(Calls), NEW rs, NEW m, BulksFit(cs, rs, m), NEW i \in 1..Len(cs),
         NEW c, c.op = cs[i].op, BulkDone(c, rs)
  PROVE  BulksFit([cs EXCEPT ![i] = c], rs, m)
<1>1. /\ Len([cs EXCEPT ![i] = c]) = Len(cs)
      /\ \A j \in 1..Len(cs) : [cs EXCEPT ![i] = c][j] = IF j = i THEN c ELSE cs[j]
  OBVIOUS
<1>2. \A j \in 1..Len(cs) : [cs EXCEPT ![i] = c][j].op = cs[j].op
  BY <1>1
<1> QED
  BY <1>1, <1>2 DEF BulksFit

\* The requests of the others are as true as before when the rows agree.
LEMMA BulksLater ==
  ASSUME NEW cs \in Seq(Calls), NEW rs, NEW rt, NEW m, BulksFit(cs, rs, m),
         \A i \in 1..Len(cs) : BulkDone(cs[i], rt)
  PROVE  BulksFit(cs, rt, m)
BY DEF BulksFit

\* A request that a page lets go of is otherwise as it was.
LEMMA OrphanedSame ==
  ASSUME NEW rs, NEW cs, CallsFit(cs, rs)
  PROVE  /\ Orphaned(cs) \in Seq(Calls) /\ Len(Orphaned(cs)) = Len(cs)
         /\ \A i \in 1..Len(cs) :
              /\ Orphaned(cs)[i].op = cs[i].op /\ Orphaned(cs)[i].state = cs[i].state
              /\ cs[i].op # "bulk" => Orphaned(cs)[i] = cs[i]
<1>1. Orphaned(cs) \in Seq(Calls) /\ cs \in Seq(Calls)
  BY OrphanedFits DEF CallsFit
<1>2. Len(Orphaned(cs)) = Len(cs)
  <2>1. DOMAIN Orphaned(cs) = 1..Len(cs)
    BY <1>1 DEF Orphaned
  <2> QED
    BY <1>1, <2>1
<1>3. ASSUME NEW i \in 1..Len(cs)
      PROVE  /\ Orphaned(cs)[i].op = cs[i].op /\ Orphaned(cs)[i].state = cs[i].state
             /\ cs[i].op # "bulk" => Orphaned(cs)[i] = cs[i]
  <2>1. cs[i] \in Calls /\ DOMAIN cs = 1..Len(cs)
    BY <1>1
  <2>2. Orphaned(cs)[i] = IF cs[i].op = "bulk" THEN [cs[i] EXCEPT !.here = FALSE] ELSE cs[i]
    BY <2>1, Zenon DEF Orphaned
  <2> QED
    BY <2>1, <2>2, CallIs DEF BulkCalls
<1> QED
  BY <1>1, <1>2, <1>3

LEMMA BulksOrphaned ==
  ASSUME NEW cs, NEW rs, NEW m, CallsFit(cs, rs), BulksFit(cs, rs, m)
  PROVE  BulksFit(Orphaned(cs), rs, m)
<1>1. /\ Len(Orphaned(cs)) = Len(cs)
      /\ \A i \in 1..Len(cs) : Orphaned(cs)[i] =
           IF cs[i].op = "bulk" THEN [cs[i] EXCEPT !.here = FALSE] ELSE cs[i]
  <2>1. Orphaned(cs) \in Seq(Calls) /\ cs \in Seq(Calls)
    BY OrphanedFits DEF CallsFit
  <2>2. DOMAIN Orphaned(cs) = 1..Len(cs)
    BY <2>1 DEF Orphaned
  <2>3. Len(Orphaned(cs)) = Len(cs)
    <3> HIDE DEF Orphaned
    <3> QED
      BY <2>1, <2>2
  <2>4. DOMAIN cs = 1..Len(cs)
    BY <2>1
  <2> QED
    BY <2>3, <2>4, Zenon DEF Orphaned
<1>2. ASSUME NEW c \in Calls, c.op = "bulk"
      PROVE  LET d == [c EXCEPT !.here = FALSE]
             IN  d.op = c.op /\ d.on = c.on /\ d.got = c.got /\ d.want = c.want
  <2>1. c \in BulkCalls
    BY <1>2, CallIs
  <2> QED
    BY <2>1 DEF BulkCalls
<1>3. ASSUME NEW i \in 1..Len(cs)
      PROVE  /\ Orphaned(cs)[i].op = cs[i].op
             /\ BulkDone(cs[i], rs) => BulkDone(Orphaned(cs)[i], rs)
  <2>1. cs[i] \in Calls
    BY DEF CallsFit
  <2>2. CASE cs[i].op = "bulk"
    BY <1>1, <1>2, <2>1, <2>2, ZenonT(60) DEF BulkDone
  <2>3. CASE cs[i].op # "bulk"
    BY <1>1, <2>3
  <2> QED
    BY <2>2, <2>3
<1> QED
  BY <1>1, <1>3 DEF BulksFit

\* Nobody is on a ticket page then.
LEMMA Elsewhere ==
  ASSUME PagesInductive, SingleHanded
  PROVE  ~OnPage("detail") /\ \A p \in Places \cup {At("queue"), At("mine")} : p.page # "detail"
BY DEF PagesInductive, PageKnown, SingleHanded, OnPage, At

LEMMA Mounts ==
  ASSUME NEW rs, NEW s, StoreFits(s, rs), NEW p, p.page # "detail"
  PROVE  \/ MountCalls(s, p) = <<>>
         \/ \E c \in Calls : MountCalls(s, p) = <<c>> /\ c.op = "list"
<1>1. CASE p.page \in ListPages \cup {"home", "agentHome"}
  BY <1>1, MountCallsAre
<1>2. CASE p.page \notin ListPages \cup {"home", "agentHome"}
  BY <1>2 DEF MountCalls, ListPages
<1> QED
  BY <1>1, <1>2

LEMMA EnterBulks ==
  ASSUME PagesInductive, SingleHanded, NEW s, StoreFits(s, rows), NEW cs, CallsFit(cs, rows),
         NEW p \in Places \cup {At("mine"), At("queue")}, Enter(s, cs, p),
         BulksFit(cs, rows, s.mutating)
  PROVE  BulksFit(calls', rows, store'.mutating)
<1>1. CASE p = place
  BY <1>1 DEF Enter
<1>2. CASE p # place
  <2>1. store' = Mounted(s, p) /\ calls' = Orphaned(cs) \o MountCalls(s, p)
    BY <1>2 DEF Enter
  <2>2. store'.mutating = s.mutating
    BY <2>1, MountedFits
  <2>3. CallsFit(Orphaned(cs), rows) /\ BulksFit(Orphaned(cs), rows, s.mutating)
    BY OrphanedFits, BulksOrphaned DEF CallsFit
  <2>4. p.page # "detail"
    BY Elsewhere
  <2>5. CASE MountCalls(s, p) = <<>>
    <3>1. calls' = Orphaned(cs)
      BY <2>1, <2>3, <2>5 DEF CallsFit
    <3> QED
      BY <2>2, <2>3, <3>1
  <2>6. ASSUME NEW c \in Calls, MountCalls(s, p) = <<c>>, c.op = "list"
        PROVE  BulksFit(calls', rows, store'.mutating)
    <3>1. calls' = Append(Orphaned(cs), c)
      BY <2>1, <2>3, <2>6 DEF CallsFit
    <3> QED
      BY <2>2, <2>3, <2>6, <3>1, ListAdded DEF CallsFit
  <2> QED
    BY <2>4, <2>5, <2>6, Mounts
<1> QED
  BY <1>1, <1>2

LEMMA ActBulks ==
  ASSUME PagesInductive, SingleHanded, BulksInductive, Act
  PROVE  BulksFit(calls', rows', store'.mutating)
<1>1. /\ StoreFits(store, rows) /\ CallsFit(calls, rows) /\ calls \in Seq(Calls)
      /\ BulksFit(calls, rows, store.mutating) /\ store \in StoreType
  BY DEF PagesInductive, CallsFit, StoreFits, BulksInductive
<1>2. rows' = rows
  BY ActIs
<1>3. CASE Adjusts
  BY <1>1, <1>2, <1>3 DEF Adjusts, StoreType
<1>4. ASSUME NEW c, Begins(c) PROVE BulksFit(calls', rows', store'.mutating)
  <2>1. store'.mutating = TRUE
    BY <1>1, <1>4 DEF Begins, StartMutation, StoreType
  <2>2. c.op \in {"bulk", "create"} /\ ~store.mutating /\ c \in Calls
    BY <1>4, Elsewhere DEF Begins, OnTicket
  <2>3. store.mutating = FALSE
    BY <1>1, <2>2 DEF StoreType
  <2>4. BulkDone(c, rows)
    BY <1>4, <2>2 DEF Begins, BulkDone, OnTicket
  <2> QED
    BY <1>1, <1>2, <1>4, <2>1, <2>2, <2>3, <2>4, ChangeAdded DEF Begins
<1>5. ASSUME NEW p \in Places \cup {At("queue")}, Goes(p)
      PROVE  BulksFit(calls', rows', store'.mutating)
  BY <1>1, <1>2, <1>5, EnterBulks DEF Goes
<1> QED
  BY <1>3, <1>4, <1>5, ActIs

\* What was asked for twice is as if asked for once.
LEMMA PatchedTwice ==
  ASSUME NEW row \in RowType, NEW p \in PatchType
  PROVE  Patched(Patched(row, p), p) = Patched(row, p)
BY DEF Patched, RowType, PatchType

\* A request that is no bulk action is served, and no bulk action is disturbed.
LEMMA AnswerBulks ==
  ASSUME PagesInductive, NEW i \in 1..Len(calls), BulksFit(calls, rows, store.mutating),
         NEW good, good.op = calls[i].op, calls[i].op # "bulk",
         NEW newRows, NEW newRecency, Answer(i, good, newRows, newRecency),
         \A j \in 1..Len(calls) : BulkDone(calls[j], newRows)
  PROVE  BulksFit(calls', rows', store.mutating)
<1>1. calls \in Seq(Calls) /\ calls[i] \in Calls
  BY DEF PagesInductive, CallsFit
<1> DEFINE failed == [calls[i] EXCEPT !.state = "error"]
<1>2. failed.op = calls[i].op
  BY RequestIs, ErrorFits
<1>3. [calls EXCEPT ![i].state = "error"] = [calls EXCEPT ![i] = failed]
  BY <1>1
<1> HIDE DEF failed
<1>4. calls' \in {[calls EXCEPT ![i] = good], [calls EXCEPT ![i] = failed]}
      /\ rows' \in {newRows, rows}
  BY <1>3 DEF Answer
<1>5. BulksFit(calls, rows', store.mutating)
  BY <1>1, <1>4, BulksLater
<1>6. BulkDone(good, rows') /\ BulkDone(failed, rows')
  BY <1>2 DEF BulkDone
<1>7. PICK c \in {good, failed} : calls' = [calls EXCEPT ![i] = c]
  BY <1>4
<1>8. c.op = calls[i].op /\ BulkDone(c, rows')
  BY <1>2, <1>6, <1>7
<1> QED
  BY <1>1, <1>5, <1>7, <1>8, BulksChanged

LEMMA ServeBulkDone ==
  ASSUME PagesInductive, NEW i \in 1..Len(calls), ServeBulk(i), BulkDone(calls[i], rows)
  PROVE  \E c : c.op = "bulk" /\ calls' = [calls EXCEPT ![i] = c] /\ BulkDone(c, rows')
<1> DEFINE c == calls[i]
           rest(t) == [c EXCEPT !.left = @ \ {t}, !.state = IF c.left = {t} THEN "ok" ELSE "sent"]
           x(t) == Ticket(t, Patched(rows[t], c.want), <<>>, <<>>)
<1>1. c.op = "bulk"
  BY DEF ServeBulk
<1>2. /\ c \in BulkCalls /\ c.left \subseteq ToSet(c.on) /\ DOMAIN c.got = ToSet(c.on)
      /\ c.want \in PatchType /\ ToSet(c.on) \subseteq Tickets
  BY <1>1, RequestIs, CallIs DEF Fits, BulkCalls, ToSet
<1>3. PICK t \in c.left :
        \/ /\ rows' = [rows EXCEPT ![t] = Patched(rows[t], c.want)]
           /\ calls' \in {[calls EXCEPT ![i] = [rest(t) EXCEPT !.got[t] = x(t)]],
                         [calls EXCEPT ![i] = rest(t)]}
        \/ calls' = [calls EXCEPT ![i] = rest(t)] /\ rows' = rows
  BY ZenonT(60) DEF ServeBulk
<1>4. t \in Tickets /\ t \in ToSet(c.on) /\ rows[t] \in RowType /\ rows \in [Tickets -> RowType]
  BY <1>2, RowIs DEF PagesInductive, RowsKnown
<1> DEFINE r == rest(t)
           y == x(t)
           told == [r EXCEPT !.got[t] = y]
<1>5. r.op = "bulk" /\ r.on = c.on /\ r.got = c.got /\ r.want = c.want /\ DOMAIN r = DOMAIN c
  BY <1>2 DEF BulkCalls
<1>6. "got" \in DOMAIN r
  BY <1>2, <1>5 DEF BulkCalls
<1> HIDE DEF r, y
<1>7. /\ told.op = "bulk" /\ told.on = c.on /\ told.want = c.want
      /\ \A s \in ToSet(c.on) : s # t => told.got[s] = c.got[s]
  BY <1>2, <1>5, <1>6
<1> HIDE DEF told
<1>8. CASE rows' = [rows EXCEPT ![t] = Patched(rows[t], c.want)]
  <2>1. Patched(rows'[t], c.want) = rows'[t] /\ \A s \in Tickets : s # t => rows'[s] = rows[s]
    BY <1>2, <1>4, <1>8, PatchedTwice
  <2>2. BulkDone(r, rows') /\ BulkDone(told, rows')
    BY <1>1, <1>2, <1>5, <1>7, <2>1 DEF BulkDone
  <2> QED
    BY <1>3, <1>5, <1>7, <2>2 DEF r, y, told
<1>9. CASE calls' = [calls EXCEPT ![i] = rest(t)] /\ rows' = rows
  <2>1. BulkDone(r, rows')
    BY <1>1, <1>5, <1>9, SMTT(60) DEF BulkDone
  <2> QED
    BY <1>5, <1>9, <2>1, ZenonT(60) DEF r
<1> QED
  BY <1>3, <1>8, <1>9

LEMMA ServeBulks ==
  ASSUME PagesInductive, NEW i \in 1..Len(calls), BulksFit(calls, rows, store.mutating), Serve(i)
  PROVE  BulksFit(calls', rows', store'.mutating)
<1>1. /\ calls \in Seq(Calls) /\ calls[i] \in Calls /\ store' = store
      /\ \A j \in 1..Len(calls) : BulkDone(calls[j], rows)
      /\ calls[i].op \in {"list", "bulk", "create", "uploadNew"}
      /\ \A j \in 1..Len(calls) :
           calls[i].op \in Mutations /\ calls[j].op = "bulk" => j = i
  BY DEF PagesInductive, CallsFit, Serve, BulksFit, Mutations
<1>2. CASE ServeList(i)
  <2>1. PICK got : Answer(i, [calls[i] EXCEPT !.state = "ok", !.got = got], rows, recency)
    BY <1>2 DEF ServeList
  <2>2. calls[i] \in ListCalls /\ calls[i].op = "list"
    BY <1>1, <1>2, CallIs DEF ServeList
  <2> DEFINE good == [calls[i] EXCEPT !.state = "ok", !.got = got]
  <2>3. good.op = calls[i].op
    BY <2>2 DEF ListCalls
  <2> HIDE DEF good
  <2>4. Answer(i, good, rows, recency)
    BY <2>1 DEF good
  <2> QED
    BY <1>1, <2>2, <2>3, <2>4, AnswerBulks
<1>3. CASE ServeBulk(i)
  <2>1. PICK c : c.op = "bulk" /\ calls' = [calls EXCEPT ![i] = c] /\ BulkDone(c, rows')
    BY <1>1, <1>3, ServeBulkDone
  <2>2. calls[i].op = "bulk" /\ "bulk" \in Mutations
    BY <1>3 DEF ServeBulk, Mutations
  <2>3. /\ Len(calls') = Len(calls)
        /\ \A j \in 1..Len(calls) : calls'[j].op = calls[j].op /\ (j # i => calls'[j] = calls[j])
        /\ calls'[i] = c
    BY <1>1, <2>1, <2>2
  <2>4. \A j \in 1..Len(calls) : BulkDone(calls'[j], rows')
    BY <1>1, <2>1, <2>2, <2>3 DEF BulkDone
  <2> QED
    BY <1>1, <2>3, <2>4 DEF BulksFit
<1>4. CASE ServeCreate(i)
  <2>1. PICK t : Answer(i, [calls[i] EXCEPT !.state = "ok", !.got = Listed(t)], rows, Touched(t))
    BY <1>4 DEF ServeCreate
  <2>2. calls[i] \in FormCalls /\ calls[i].op = "create"
    BY <1>1, <1>4, CallIs DEF ServeCreate
  <2> DEFINE good == [calls[i] EXCEPT !.state = "ok", !.got = Listed(t)]
  <2>3. good.op = calls[i].op
    BY <2>2 DEF FormCalls
  <2> HIDE DEF good
  <2>4. Answer(i, good, rows, Touched(t))
    BY <2>1 DEF good
  <2> QED
    BY <1>1, <2>2, <2>3, <2>4, AnswerBulks
<1>5. CASE ServeFiles(i)
  <2>1. calls[i] \in NewFileCalls /\ calls[i].op = "uploadNew" /\ "uploadNew" \in Mutations
    BY <1>1, <1>5, CallIs DEF ServeFiles, Mutations
  <2> DEFINE good == [calls[i] EXCEPT !.state = "ok"]
  <2>2. PICK newRows : Answer(i, good, newRows, recency) \/ Forbidden(i)
    BY <1>5, Zenon DEF ServeFiles
  <2>3. good.op = calls[i].op
    BY <2>1 DEF NewFileCalls
  <2>4. \A j \in 1..Len(calls) : BulkDone(calls[j], newRows)
    BY <1>1, <2>1 DEF BulkDone
  <2> HIDE DEF good
  <2>5. CASE Forbidden(i)
    <3>1. Answer(i, [calls[i] EXCEPT !.state = "error"], rows, recency)
      BY <1>1, <2>5 DEF Forbidden, Answer
    <3>2. [calls[i] EXCEPT !.state = "error"].op = calls[i].op
      BY <2>1 DEF NewFileCalls
    <3> QED
      BY <1>1, <2>1, <3>1, <3>2, AnswerBulks
  <2>6. CASE Answer(i, good, newRows, recency)
    BY <1>1, <2>1, <2>3, <2>4, <2>6, AnswerBulks
  <2> QED
    BY <2>2, <2>5, <2>6
<1> QED
  BY <1>1, <1>2, <1>3, <1>4, <1>5, ZenonT(60) DEF Serve, ServeDetail, ServeUpdate, ServeComment

\* What becomes of a form's ticket once its answers are there: nothing, the
\* file is sent, or the page goes to My tickets.
LEMMA TakenForms ==
  ASSUME PagesInductive, NEW i \in 1..Len(calls), TakeCreate(i) \/ TakeUploadNew(i)
  PROVE  /\ calls[i].op \in {"create", "uploadNew"} /\ rows' = rows
         /\ \/ calls' = Others(i) /\ Stay /\ store' = MutationFailed(store, "create")
            \/ \E s : /\ StoreFits(s, rows) /\ s.mutating = FALSE
                     /\ CallsFit(Others(i), rows) /\ Enter(s, Others(i), At("mine"))
            \/ \E d \in Calls : /\ d.op = "uploadNew" /\ d.state = "sent"
                              /\ calls' = Append(Others(i), d) /\ UNCHANGED store /\ Stay
<1> DEFINE c == calls[i]
<1>1. StoreFits(store, rows) /\ store.error \in {"none", "list", "detail"} \cup Mutations
  BY DEF PagesInductive, StoreFits, StoreType
<1>2. CASE TakeCreate(i)
  <2>1. rows' = rows /\ c.op = "create" /\ Taken(i, "create") /\ CallsFit(Others(i), rows)
    BY <1>2, TakenIs DEF TakeCreate, Taken
  <2>2. c \in FormCalls /\ (c.state = "ok" => c.got \in Bare)
    BY <2>1, TakenIs, CallIs DEF Fits
  <2>3. CASE ~Ok(i)
    BY <1>2, <2>1, <2>3 DEF TakeCreate
  <2>4. CASE Ok(i) /\ c.want = NoFile
    <3> DEFINE s == Created(store, c.got, store.error)
    <3>1. Enter(s, Others(i), At("mine"))
      BY <1>2, <2>4 DEF TakeCreate
    <3>2. c.got \in InList(rows) /\ c.got.name = c.got.assignee
      BY <2>2, <2>4, BareIs DEF Ok
    <3>3. StoreFits(s, rows) /\ ~s.mutating
      BY <1>1, <3>2, CreatedFits, EndsAre
    <3> HIDE DEF s
    <3>4. s.mutating = FALSE
      BY <3>3 DEF StoreFits, StoreType
    <3> QED
      BY <2>1, <3>1, <3>3, <3>4
  <2>5. CASE Ok(i) /\ c.want # NoFile
    <3> DEFINE d == [MutationCall("uploadNew", c.got.id, c.want) EXCEPT !.got = c.got]
    <3>1. calls' = Append(Others(i), d) /\ UNCHANGED store /\ Stay
      BY <1>2, <2>5 DEF TakeCreate
    <3>2. d = [op |-> "uploadNew", on |-> c.got.id, want |-> c.want, state |-> "sent", got |-> c.got]
      BY DEF MutationCall
    <3>3. c.got \in Bare /\ c.got.id \in Tickets /\ c.want \in Files
      BY <2>2, <2>5, BareIs DEF Ok, FormCalls
    <3> HIDE DEF d
    <3>4. d \in Calls /\ d.op = "uploadNew" /\ d.state = "sent"
      BY <3>2, <3>3 DEF Calls, NewFileCalls, States
    <3> QED
      BY <2>1, <3>1, <3>4
  <2> QED
    BY <2>3, <2>4, <2>5
<1>3. CASE TakeUploadNew(i)
  <2> DEFINE x == IF Ok(i) THEN [c.got EXCEPT !.files = Append(@, c.want)] ELSE c.got
             e == IF Ok(i) THEN store.error ELSE "uploadNew"
             s == Created(store, x, e)
  <2>1. Taken(i, "uploadNew") /\ Enter(s, Others(i), At("mine"))
    BY <1>3, Zenon DEF TakeUploadNew
  <2>2. rows' = rows /\ c \in NewFileCalls /\ c.op = "uploadNew" /\ CallsFit(Others(i), rows)
    BY <2>1, TakenIs, CallIs
  <2>3. c.got \in Bare /\ c.want \in Files /\ e \in {"none", "list", "detail"} \cup Mutations
    BY <1>1, <2>2 DEF NewFileCalls, Mutations
  <2>4. x \in OtherFiles(c.got)
    <3>1. c.got \in TicketType /\ Append(c.got.files, c.want) \in Seq(Files)
      BY <2>3, BareIs DEF TicketType
    <3> QED
      BY <3>1, OwnFiles DEF OtherFiles
  <2> HIDE DEF x, e
  <2>5. x \in InList(rows) /\ x.name = x.assignee
    BY <2>3, <2>4, BareIs, OtherFilesAre
  <2>6. StoreFits(s, rows) /\ ~s.mutating
    BY <1>1, <2>3, <2>5, CreatedFits, EndsAre
  <2> HIDE DEF s
  <2>7. s.mutating = FALSE
    BY <2>6 DEF StoreFits, StoreType
  <2> QED
    BY <2>1, <2>2, <2>6, <2>7
<1> QED
  BY <1>2, <1>3

\* After a bulk action the list is fetched again.
LEMMA TakenBulk ==
  ASSUME PagesInductive, NEW i \in 1..Len(calls), TakeBulk(i)
  PROVE  /\ calls[i].op = "bulk" /\ rows' = rows /\ place' = place
         /\ \E s, d : /\ s = BulkAnswered(store, calls[i]) /\ d = ListCall(ParamsOf(s))
                     /\ StoreFits(s, rows) /\ s.mutating = FALSE /\ s.selected = store.selected
                     /\ d \in Calls /\ d.op = "list" /\ d.state = "sent"
                     /\ store' = fetchList(s) /\ calls' = Append(Others(i), d)
<1> DEFINE s == BulkAnswered(store, calls[i])
           d == ListCall(ParamsOf(s))
<1>1. /\ Taken(i, "bulk") /\ rows' = rows /\ place' = place
      /\ store' = fetchList(s) /\ calls' = Append(Others(i), d)
  BY Zenon DEF TakeBulk, Taken
<1>2. calls[i] \in BulkCalls /\ Fits(calls[i], rows) /\ StoreFits(store, rows) /\ calls[i].op = "bulk"
  BY <1>1, TakenIs, CallIs
<1>3. StoreFits(s, rows) /\ ~s.mutating /\ s.selected = store.selected
  BY <1>2, BulkAnsweredFits, EndsAre
<1> HIDE DEF s
<1>4. d \in Calls /\ d.op = "list" /\ s.mutating = FALSE
  BY <1>3, ParamsAre, ListCallFits DEF StoreFits, StoreType
<1>5. d.state = "sent"
  BY DEF ListCall
<1> HIDE DEF d
<1> QED
  BY <1>1, <1>2, <1>3, <1>4, <1>5 DEF s, d

LEMMA TakeBulks ==
  ASSUME PagesInductive, SingleHanded, NEW i \in 1..Len(calls),
         BulksFit(calls, rows, store.mutating), Take(i)
  PROVE  BulksFit(calls', rows', store'.mutating)
<1> DEFINE c == calls[i]
<1>1. /\ calls \in Seq(Calls) /\ c \in Calls /\ StoreFits(store, rows) /\ store \in StoreType
      /\ store.mutating \in BOOLEAN
      /\ c.op \in {"list", "bulk", "create", "uploadNew"}
      /\ c.op \in Mutations => store.mutating
  BY DEF PagesInductive, CallsFit, StoreFits, StoreType, BulksFit
<1>2. /\ BulksFit(Others(i), rows, store.mutating) /\ Others(i) \in Seq(Calls)
      /\ c.op \in Mutations => BulksFit(Others(i), rows, FALSE)
  BY <1>1, BulksRemoved, RemovedIs DEF Others
<1>3. "bulk" \in Mutations /\ "create" \in Mutations /\ "uploadNew" \in Mutations
  BY DEF Mutations
<1>4. CASE TakeList(i)
  <2>1. rows' = rows /\ calls' = Others(i)
    BY <1>4 DEF TakeList, Taken
  <2>2. \/ \E a, b, p, d : store' = [store EXCEPT !.items = a, !.total = b, !.page = p,
                                                  !.pageSize = d, !.loading = FALSE]
        \/ store' = [store EXCEPT !.loading = FALSE, !.error = "list"]
    BY <1>4 DEF TakeList, ListAnswered, ListFailed
  <2>3. store'.mutating = store.mutating
    BY <1>1, <2>2 DEF StoreType
  <2> QED
    BY <1>2, <2>1, <2>3
<1>5. CASE TakeBulk(i)
  <2>1. PICK s, d : /\ StoreFits(s, rows) /\ s.mutating = FALSE
                    /\ d \in Calls /\ d.op = "list"
                    /\ store' = fetchList(s) /\ calls' = Append(Others(i), d)
    BY <1>5, TakenBulk
  <2>2. store'.mutating = FALSE /\ rows' = rows /\ c.op = "bulk"
    BY <1>5, <2>1, TakenBulk DEF fetchList, StoreFits, StoreType
  <2> QED
    BY <1>2, <1>3, <2>1, <2>2, ListAdded
<1>6. CASE TakeCreate(i) \/ TakeUploadNew(i)
  <2>1. rows' = rows /\ c.op \in Mutations
    BY <1>3, <1>6, TakenForms
  <2>2. CASE calls' = Others(i) /\ store' = MutationFailed(store, "create")
    <3>1. store'.mutating = FALSE
      BY <1>1, <2>2 DEF MutationFailed, StoreType
    <3> QED
      BY <1>2, <2>1, <2>2, <3>1
  <2>3. ASSUME NEW s, StoreFits(s, rows), s.mutating = FALSE, CallsFit(Others(i), rows),
               Enter(s, Others(i), At("mine"))
        PROVE  BulksFit(calls', rows', store'.mutating)
    BY <1>2, <2>1, <2>3, EnterBulks
  <2>4. ASSUME NEW d \in Calls, d.op = "uploadNew", calls' = Append(Others(i), d), UNCHANGED store
        PROVE  BulksFit(calls', rows', store'.mutating)
    <3>1. BulkDone(d, rows) /\ store.mutating = TRUE
      BY <1>1, <2>1, <2>4 DEF BulkDone
    <3> QED
      BY <1>2, <2>1, <2>4, <3>1, ChangeAdded
  <2> QED
    BY <1>6, <2>2, <2>3, <2>4, TakenForms
<1> QED
  BY <1>1, <1>4, <1>5, <1>6
  DEF Take, TakeDetail, TakeUpdate, TakeComment, TakeFile, Taken

LEMMA StepBulks ==
  ASSUME PagesInductive, BulksInductive, [Next]_vars
  PROVE  BulksInductive'
<1>1. session' = session
  BY SessionStays
<1> SUFFICES ASSUME SingleHanded, BulksFit(calls, rows, store.mutating)
             PROVE  BulksFit(calls', rows', store'.mutating)
  BY <1>1 DEF BulksInductive, SingleHanded, Faults, Places
<1>2. calls \in Seq(Calls) /\ StoreFits(store, rows) /\ store \in StoreType
  BY DEF PagesInductive, CallsFit, StoreFits
<1>3. CASE Act
  BY <1>3, ActBulks
<1>4. CASE Refetch
  <2>1. ListCall(ParamsOf(store)) \in Calls /\ ListCall(ParamsOf(store)).op = "list"
    BY <1>2, ParamsAre, ListCallFits
  <2>2. rows' = rows /\ store' = fetchList(store)
        /\ calls' = Append(calls, ListCall(ParamsOf(store)))
    BY <1>4 DEF Refetch
  <2>3. store'.mutating = store.mutating
    BY <1>2, <2>2 DEF fetchList, StoreType
  <2> QED
    BY <1>2, <2>1, <2>2, <2>3, ListAdded
<1>5. CASE ServeAny
  BY <1>2, <1>5, ServeBulks DEF ServeAny
<1>6. CASE TakeAny
  BY <1>2, <1>6, TakeBulks DEF TakeAny
<1>7. CASE OthersMove
  BY <1>7 DEF OthersMove, OthersAct, SingleHanded
<1>8. CASE UNCHANGED vars
  BY <1>8 DEF vars
<1> QED
  BY <1>3, <1>4, <1>5, <1>6, <1>7, <1>8 DEF Next

LEMMA InitBulks == Init => BulksInductive
BY DEF Init, BulksInductive, BulksFit

\* Every entry at one of the places is in the list of them.
LEMMA EntriesCover ==
  ASSUME NEW T, NEW list \in Seq(T), NEW places \in SUBSET (1..Len(list)), NEW i \in places
  PROVE  \E k \in 1..Len(EntriesAt(list, places)) : EntriesAt(list, places)[k] = list[i]
<1> DEFINE n == Cardinality(places)
           upTo(m) == {j \in places : j <= m}
           k == Cardinality(upTo(i))
           pick(m) == CHOOSE p \in places : Cardinality({j \in places : j <= p}) = m
<1>1. IsFiniteSet(places) /\ n \in Nat
  <2>1. IsFiniteSet(1..Len(list))
    BY FS_Interval
  <2> QED
    BY <2>1, FS_Subset, FS_CardinalityType
<1>2. ASSUME NEW m
      PROVE  /\ IsFiniteSet(upTo(m)) /\ Cardinality(upTo(m)) \in Nat
             /\ Cardinality(upTo(m)) <= n
  <2> DEFINE U == upTo(m)
  <2>1. U \in SUBSET places
    OBVIOUS
  <2> HIDE DEF U
  <2>2. IsFiniteSet(U) /\ Cardinality(U) \in Nat /\ Cardinality(U) <= n
    BY <1>1, <2>1, FS_Subset, FS_CardinalityType
  <2> QED
    BY <2>2 DEF U
<1>3. k \in 1..n
  <2> DEFINE U == upTo(i)
  <2>1. i \in U
    OBVIOUS
  <2>2. IsFiniteSet(U) /\ Cardinality(U) \in Nat /\ Cardinality(U) <= n
    BY <1>2
  <2> HIDE DEF U
  <2>3. Cardinality(U) # 0
    BY <2>1, <2>2, FS_EmptySet
  <2>4. Cardinality(U) \in 1..n
    BY <1>1, <2>2, <2>3
  <2> QED
    BY <2>4 DEF U
<1>4. pick(k) \in places /\ Cardinality(upTo(pick(k))) = k
  OBVIOUS
<1>5. ASSUME NEW a \in places, NEW b \in places, a < b
      PROVE  Cardinality(upTo(a)) # Cardinality(upTo(b))
  <2> DEFINE A == upTo(a)
             B == upTo(b)
  <2>0. places \subseteq Int
    OBVIOUS
  <2>1. A \in SUBSET B /\ b \in B /\ b \notin A
    <3>1. \A j \in places : j <= a => j <= b
      BY <1>5, <2>0
    <3>2. b <= b /\ ~(b <= a)
      BY <1>5, <2>0
    <3> QED
      BY <3>1, <3>2
  <2>2. IsFiniteSet(B)
    BY <1>2
  <2> HIDE DEF A, B
  <2>3. A # B
    BY <2>1
  <2>4. Cardinality(A) # Cardinality(B)
    BY <2>1, <2>2, <2>3, FS_Subset
  <2> QED
    BY <2>4 DEF A, B
<1>6. pick(k) = i
  <2> DEFINE p == pick(k)
  <2>1. p \in places /\ Cardinality(upTo(p)) = Cardinality(upTo(i))
    BY <1>4
  <2> HIDE DEF p, upTo
  <2>2. p \in Int /\ i \in Int
    BY <2>1
  <2>3. ~(p < i) /\ ~(i < p)
    BY <1>5, <2>1
  <2>4. p = i
    BY <2>2, <2>3
  <2> QED
    BY <2>4 DEF p
<1>7. EntriesAt(list, places) = [m \in 1..n |-> list[pick(m)]]
  BY DEF EntriesAt
<1>8. Len(EntriesAt(list, places)) = n
  <2>1. EntriesAt(list, places) \in Seq(T)
    BY EntriesAre
  <2>2. DOMAIN EntriesAt(list, places) = 1..n
    BY <1>7
  <2> HIDE DEF n
  <2> QED
    BY <1>1, <2>1, <2>2
<1> HIDE DEF k, n, pick
<1> QED
  BY <1>3, <1>6, <1>7, <1>8

\* A ticket that is off the selection was patched.
LEMMA FailedAre ==
  ASSUME NEW c \in BulkCalls, NEW t \in ToSet(c.on), t \notin ToSet(BulkFailed(c))
  PROVE  c.got[t] # Nothing
<1> SUFFICES ASSUME c.got[t] = Nothing PROVE FALSE
  OBVIOUS
<1> DEFINE places == {k \in DOMAIN c.on : c.got[c.on[k]] = Nothing}
<1>1. c.on \in Seq(Tickets)
  BY DEF BulkCalls
<1>2. PICK i \in 1..Len(c.on) : c.on[i] = t
  BY <1>1 DEF ToSet
<1>3. i \in places /\ places \in SUBSET (1..Len(c.on))
  BY <1>1, <1>2
<1>4. BulkFailed(c) = EntriesAt(c.on, places)
  BY DEF BulkFailed
<1> HIDE DEF places
<1>5. EntriesAt(c.on, places) \in Seq(Tickets)
  BY <1>1, <1>3, EntriesAre
<1>6. \E k \in 1..Len(EntriesAt(c.on, places)) : EntriesAt(c.on, places)[k] = t
  BY <1>1, <1>2, <1>3, EntriesCover
<1> QED
  BY <1>4, <1>5, <1>6 DEF ToSet

\* Where bulk actions and create forms are all that changes tickets, a ticket
\* that leaves the selection has what was asked for, whichever of the PATCHes
\* fail, get lost or overtake the lists.
THEOREM BulksHonest == Spec => BulkHonest
<1>1. ASSUME PagesInductive, BulksInductive, SingleHanded, NEW i \in DOMAIN calls, TakeBulk(i),
             calls[i].here, NEW t \in ToSet(calls[i].on) \ ToSet(picked')
      PROVE  Patched(rows[t], calls[i].want) = rows[t]
  <2>1. i \in 1..Len(calls)
    BY <1>1 DEF PagesInductive, CallsFit
  <2>2. calls[i].op = "bulk" /\ calls[i] \in BulkCalls
    BY <1>1, <2>1, RequestIs, CallIs DEF TakeBulk, Taken
  <2>3. picked' = BulkFailed(calls[i])
    BY <1>1, Zenon DEF TakeBulk
  <2>4. calls[i].got[t] # Nothing
    BY <1>1, <2>2, <2>3, FailedAre
  <2> QED
    BY <1>1, <2>1, <2>2, <2>4 DEF BulksInductive, BulksFit, BulkDone
<1>2. PagesInductive /\ BulksInductive /\ [Next]_vars =>
        [ SingleHanded =>
            \A i \in DOMAIN calls :
              TakeBulk(i) /\ calls[i].here =>
                \A t \in ToSet(calls[i].on) \ ToSet(picked') :
                  Patched(rows[t], calls[i].want) = rows[t] ]_vars
  BY <1>1
<1>3. Spec => []BulksInductive
  <2>1. Init => BulksInductive
    BY InitBulks
  <2>2. PagesInductive /\ BulksInductive /\ [Next]_vars => BulksInductive'
    BY StepBulks
  <2> QED
    BY <2>1, <2>2, PagesInvariant, PTL DEF Spec
<1> QED
  BY <1>2, <1>3, PagesInvariant, PTL DEF Spec, BulkHonest

-----------------------------------------------------------------------------
(* The list pages come to rest on the server's list.                       *)

\* These parameters ask for what the filters say.
Asks(want, s) ==
  /\ want.mine = ParamsOf(s).mine
  /\ want.status = ParamsOf(s).status
  /\ want.assignee = ParamsOf(s).assignee

ShowsList(s) ==
  LET now == paginate(filterTickets(CurrentList, ParamsOf(s)), s.page, s.pageSize)
  IN s.items = now.items /\ s.total = now.total

\* A list that will be right is on its way, or there.
ListsFit(s, cs) ==
  \/ Has(cs, {"bulk"})
  \/ /\ cs # <<>>
     /\ cs[Len(cs)].op = "list" /\ Asks(cs[Len(cs)].want, s)
     /\ cs[Len(cs)].state = "ok" => cs[Len(cs)].got = CurrentList
  \/ cs = <<>> /\ (s.error = "none" => ShowsList(s))

ListsOnly(cs) == \A i \in 1..Len(cs) : cs[i].op \in {"list", "bulk"}

ListsInductive ==
  Undisturbed =>
    /\ ListsOnly(calls)
    /\ InOrder /\ OnList /\ ~RefetchDue => ListsFit(store, calls)

LEMMA SameFilter ==
  ASSUME NEW source, NEW p, NEW q, p.mine = q.mine, p.status = q.status, p.assignee = q.assignee
  PROVE  filterTickets(source, p) = filterTickets(source, q)
BY DEF filterTickets, Passes

\* The answer to what the filters say is what the page should show.
LEMMA AnswerShows ==
  ASSUME NEW s \in StoreType, NEW c \in ListCalls, Asks(c.want, s), c.got = CurrentList
  PROVE  ShowsList(ListAnswered(s, c))
<1> DEFINE all == filterTickets(c.got, c.want)
           result == paginate(all, c.want.page, c.want.size)
           u == ListAnswered(s, c)
<1>1. u = [s EXCEPT !.items = result.items, !.total = result.total, !.page = result.page,
                    !.pageSize = result.pageSize, !.loading = FALSE]
  BY DEF ListAnswered
<1>2. c.want.page \in Nat /\ c.want.size \in Nat
  BY DEF ListCalls, WantType
<1> DEFINE from == IF c.want.page < 1 THEN 1 ELSE c.want.page
<1>3. from \in Nat /\ ~(from < 1)
  BY <1>2
<1>4. /\ result.page = from /\ result.pageSize = c.want.size /\ result.total = Len(all)
      /\ paginate(all, from, c.want.size).items = result.items
      /\ paginate(all, from, c.want.size).total = Len(all)
  BY <1>3, Zenon DEF paginate
<1> HIDE DEF result, from
<1>5. /\ u.items = result.items /\ u.total = Len(all) /\ u.page = from
      /\ u.pageSize = c.want.size /\ u.filters = s.filters /\ u.scope = s.scope
  BY <1>1, <1>4 DEF StoreType
<1>6. Asks(c.want, u)
  BY <1>5 DEF Asks, ParamsOf, ListParams
<1>7. filterTickets(CurrentList, ParamsOf(u)) = all
  BY <1>6, SameFilter DEF Asks
<1> HIDE DEF all, u
<1> QED
  BY <1>4, <1>5, <1>7, Zenon DEF ShowsList, u

LEMMA ListsOrphaned ==
  ASSUME CallsFit(calls, rows), ListsOnly(calls)
  PROVE  ListsOnly(Orphaned(calls)) /\ Orphaned(calls) \in Seq(Calls)
BY OrphanedSame DEF ListsOnly

LEMMA ListsAdded ==
  ASSUME NEW cs \in Seq(Calls), ListsOnly(cs), NEW c \in Calls, c.op \in {"list", "bulk"}
  PROVE  ListsOnly(Append(cs, c)) /\ (c.op = "bulk" => Has(Append(cs, c), {"bulk"}))
<1>1. Len(cs) + 1 \in 1..(Len(cs) + 1)
  OBVIOUS
<1> QED
  BY <1>1, AppendIs DEF ListsOnly, Has

\* A list that was just asked for.
LEMMA JustAsked ==
  ASSUME NEW cs \in Seq(Calls), ListsOnly(cs), NEW s, NEW u, StoreFits(u, rows),
         ParamsOf(s) = ParamsOf(u)
  PROVE  LET ds == Append(cs, ListCall(ParamsOf(u)))
         IN  ListsOnly(ds) /\ ListsFit(s, ds)
<1> DEFINE c == ListCall(ParamsOf(u))
           ds == Append(cs, c)
<1>1. c \in Calls /\ c.op = "list"
  BY ParamsAre, ListCallFits
<1>2. c.state = "sent" /\ c.want = ParamsOf(u)
  BY DEF ListCall
<1> HIDE DEF c
<1>3. ListsOnly(ds) /\ Len(ds) = Len(cs) + 1 /\ ds[Len(cs) + 1] = c /\ ds # <<>>
  BY <1>1, ListsAdded, AppendIs
<1> HIDE DEF ds
<1>4. ListsFit(s, ds)
  BY <1>1, <1>2, <1>3 DEF ListsFit, Asks
<1> QED
  BY <1>3, <1>4 DEF ds, c

LEMMA FetchAsks ==
  ASSUME NEW s \in StoreType
  PROVE  ParamsOf(fetchList(s)) = ParamsOf(s)
BY DEF fetchList, ParamsOf, ListParams, StoreType

\* The same list is current while the rows stay.
LEMMA SameList ==
  ASSUME UNCHANGED <<rows, recency, session>>
  PROVE  /\ CurrentList' = CurrentList
         /\ ListsFit(store', calls') => ListsFit(store, calls)'
<1>1. CurrentList' = CurrentList
  BY DEF CurrentList, Listed, Accessible, Exists, Role
<1>2. ShowsList(store') <=> ShowsList(store)'
  BY <1>1 DEF ShowsList, filterTickets, Passes, Role, ParamsOf, ListParams
<1> QED
  BY <1>1, <1>2 DEF ListsFit, Has, Asks, ParamsOf, ListParams

\* No form and no ticket is open then.
LEMMA OnListsOnly ==
  ASSUME PagesInductive, Undisturbed
  PROVE  /\ ~OnPage("detail") /\ ~OnPage("create")
         /\ \A p \in Places \cup {At("queue"), At("mine")} : p.page \notin {"detail", "create"}
BY DEF PagesInductive, PageKnown, SingleHanded, Undisturbed, OnPage, At

LEMMA ActLists ==
  ASSUME PagesInductive, Undisturbed, ListsInductive, Act
  PROVE  /\ ListsOnly(calls')
         /\ InOrder /\ OnList' /\ ~RefetchDue' => ListsFit(store', calls')
<1>1. /\ StoreFits(store, rows) /\ CallsFit(calls, rows) /\ calls \in Seq(Calls)
      /\ ListsOnly(calls) /\ store \in StoreType
      /\ InOrder /\ OnList /\ ~RefetchDue => ListsFit(store, calls)
  BY DEF PagesInductive, CallsFit, StoreFits, ListsInductive
<1>2. ~RefetchDue
  BY ActIs
<1>3. CASE Adjusts
  <2>1. calls' = calls /\ place' = place /\ seen' = seen
    BY <1>3 DEF Adjusts
  <2>2. ASSUME OnList', ~RefetchDue' PROVE OnList /\ store' = store
    <3>1. OnList /\ seen = Deps(store) /\ seen = Deps(store')
      BY <1>2, <2>1, <2>2 DEF RefetchDue, OnList, Deps
    <3>2. PICK filters, page : store' = [store EXCEPT !.filters = filters, !.page = page]
      BY <1>3 DEF Adjusts
    <3>3. store'.filters = filters /\ store'.page = page
      BY <1>1, <3>2 DEF StoreType
    <3>4. filters = store.filters /\ page = store.page
      BY <3>1, <3>3 DEF Deps
    <3> QED
      BY <1>1, <3>1, <3>2, <3>4 DEF StoreType
  <2> QED
    BY <1>1, <1>2, <2>1, <2>2
<1>4. ASSUME NEW c, Begins(c)
      PROVE  ListsOnly(calls') /\ ListsFit(store', calls')
  <2>1. c.op = "bulk" /\ c \in Calls /\ calls' = Append(calls, c)
    BY <1>4, OnListsOnly DEF Begins, OnTicket
  <2> QED
    BY <1>1, <2>1, ListsAdded DEF ListsFit
<1>5. ASSUME NEW p \in Places \cup {At("queue")}, Goes(p)
      PROVE  ListsOnly(calls') /\ (OnList' => ListsFit(store', calls'))
  <2>1. /\ store' = Mounted(store, p) /\ calls' = Orphaned(calls) \o MountCalls(store, p)
        /\ place' = p
    BY <1>5 DEF Goes, Enter
  <2>2. ListsOnly(Orphaned(calls)) /\ Orphaned(calls) \in Seq(Calls)
    BY <1>1, ListsOrphaned
  <2>3. CASE p.page \in ListPages
    <3> DEFINE u == MountSet(store, p)
    <3>1. StoreFits(u, rows) /\ u \in StoreType
      BY <1>1, MountSetFits DEF StoreFits
    <3>2. MountCalls(store, p) = <<ListCall(ParamsOf(u))>> /\ Mounted(store, p) = fetchList(u)
      BY <2>3 DEF MountCalls, Mounted, ListPages
    <3> HIDE DEF u
    <3>3. calls' = Append(Orphaned(calls), ListCall(ParamsOf(u)))
      BY <2>1, <2>2, <3>2
    <3>4. ParamsOf(store') = ParamsOf(u)
      BY <2>1, <3>1, <3>2, FetchAsks
    <3> QED
      BY <2>2, <3>1, <3>3, <3>4, JustAsked
  <2>4. CASE p.page \notin ListPages
    <3>1. ~OnList'
      BY <2>1, <2>4 DEF OnList
    <3>2. p.page # "detail"
      BY OnListsOnly
    <3>3. CASE MountCalls(store, p) = <<>>
      BY <2>1, <2>2, <3>1, <3>3
    <3>4. ASSUME NEW c \in Calls, MountCalls(store, p) = <<c>>, c.op = "list"
          PROVE  ListsOnly(calls')
      <4>1. calls' = Append(Orphaned(calls), c)
        BY <2>1, <2>2, <3>4
      <4> QED
        BY <2>2, <3>4, <4>1, ListsAdded
    <3> QED
      BY <1>1, <3>1, <3>2, <3>3, <3>4, Mounts
  <2> QED
    BY <2>3, <2>4
<1> QED
  BY <1>3, <1>4, <1>5, ActIs

LEMMA RefetchLists ==
  ASSUME PagesInductive, ListsOnly(calls), Refetch
  PROVE  ListsOnly(calls') /\ ListsFit(store', calls')
<1>1. StoreFits(store, rows) /\ calls \in Seq(Calls) /\ store \in StoreType
  BY DEF PagesInductive, CallsFit, StoreFits
<1>2. store' = fetchList(store) /\ calls' = Append(calls, ListCall(ParamsOf(store)))
  BY SMTT(60) DEF Refetch
<1>3. ParamsOf(store') = ParamsOf(store)
  BY <1>1, <1>2, FetchAsks, SMTT(60)
<1> QED
  BY <1>1, <1>2, <1>3, JustAsked

\* Serving a list asks for what is current; serving a bulk action is not the
\* end of it.
LEMMA ServeLists ==
  ASSUME PagesInductive, ListsOnly(calls), NEW i \in 1..Len(calls), Serve(i),
         UNCHANGED pages
  PROVE  /\ ListsOnly(calls')
         /\ (OnList /\ ~RefetchDue)' => OnList /\ ~RefetchDue
         /\ ListsFit(store, calls) => ListsFit(store, calls)'
<1>1. /\ calls \in Seq(Calls) /\ calls[i] \in Calls /\ store' = store /\ session' = session
      /\ calls[i].op \in {"list", "bulk"}
  BY DEF PagesInductive, CallsFit, Serve, ListsOnly
<1>2. (OnList /\ ~RefetchDue)' => OnList /\ ~RefetchDue
  BY <1>1 DEF pages, OnList, RefetchDue, Deps
<1>3. CASE ServeList(i)
  <2> DEFINE good == [calls[i] EXCEPT !.state = "ok", !.got = CurrentList]
             failed == [calls[i] EXCEPT !.state = "error"]
  <2>1. calls[i] \in ListCalls
    BY <1>1, <1>3, CallIs DEF ServeList
  <2>2. Answer(i, good, rows, recency)
    BY <1>3, Zenon DEF ServeList, CurrentList
  <2>3. [calls EXCEPT ![i].state = "error"] = [calls EXCEPT ![i] = failed]
    BY <1>1
  <2>4. /\ good.op = "list" /\ good.want = calls[i].want /\ good.got = CurrentList
        /\ failed.op = "list" /\ failed.want = calls[i].want /\ failed.state = "error"
        /\ calls[i].op = "list"
    BY <2>1 DEF ListCalls
  <2> HIDE DEF good, failed
  <2>5. UNCHANGED <<rows, recency>>
    BY <2>2 DEF Answer
  <2>6. PICK c \in {good, failed} : calls' = [calls EXCEPT ![i] = c]
    BY <2>2, <2>3 DEF Answer
  <2>7. /\ c.op = "list" /\ c.want = calls[i].want
        /\ c.state = "ok" => c.got = CurrentList
    BY <2>4, <2>6
  <2>8. /\ Len(calls') = Len(calls) /\ calls' # <<>> /\ calls # <<>>
        /\ \A j \in 1..Len(calls) : calls'[j] = IF j = i THEN c ELSE calls[j]
    BY <1>1, <2>6
  <2>9. ListsOnly(calls')
    BY <2>7, <2>8 DEF ListsOnly
  <2>10. ASSUME ListsFit(store, calls) PROVE ListsFit(store', calls')
    <3>1. CASE Has(calls, {"bulk"})
      <4>1. Has(calls', {"bulk"})
        BY <2>4, <2>8, <3>1 DEF Has
      <4> QED
        BY <4>1 DEF ListsFit
    <3>2. CASE ~Has(calls, {"bulk"})
      <4>1. Len(calls) \in 1..Len(calls)
        BY <1>1
      <4> QED
        BY <1>1, <2>7, <2>8, <2>10, <3>2, <4>1 DEF ListsFit
    <3> QED
      BY <3>1, <3>2
  <2> QED
    BY <1>1, <1>2, <2>5, <2>9, <2>10, SameList
<1>4. CASE ServeBulk(i)
  <2>1. calls[i] \in BulkCalls /\ calls[i].op = "bulk"
    BY <1>1, <1>4, CallIs DEF ServeBulk
  <2> DEFINE rest(t) == [calls[i] EXCEPT !.left = @ \ {t},
                           !.state = IF calls[i].left = {t} THEN "ok" ELSE "sent"]
             x(t) == Ticket(t, Patched(rows[t], calls[i].want), <<>>, <<>>)
  <2>2. PICK t \in calls[i].left :
          \/ calls' = [calls EXCEPT ![i] = [rest(t) EXCEPT !.got[t] = x(t)]]
          \/ calls' = [calls EXCEPT ![i] = rest(t)]
    BY <1>4, ZenonT(60) DEF ServeBulk
  <2>3. PICK c : calls' = [calls EXCEPT ![i] = c] /\ c.op = "bulk"
    <3> DEFINE r == rest(t)
               y == x(t)
               told == [r EXCEPT !.got[t] = y]
    <3>1. r.op = "bulk" /\ {"op", "got"} \subseteq DOMAIN r
      BY <2>1 DEF BulkCalls
    <3> HIDE DEF r, y
    <3>2. told.op = "bulk"
      BY <3>1
    <3> QED
      BY <2>2, <3>1, <3>2 DEF r, y
  <2>4. /\ Len(calls') = Len(calls)
        /\ \A j \in 1..Len(calls) : calls'[j] = IF j = i THEN c ELSE calls[j]
    BY <1>1, <2>3
  <2>5. ListsOnly(calls') /\ Has(calls', {"bulk"})
    BY <2>3, <2>4 DEF ListsOnly, Has
  <2> QED
    BY <1>2, <2>5 DEF ListsFit, Has
<1> QED
  BY <1>1, <1>3, <1>4, ZenonT(60)
  DEF Serve, ServeDetail, ServeUpdate, ServeComment, ServeFiles, ServeCreate

LEMMA TakeLists ==
  ASSUME PagesInductive, ListsOnly(calls), NEW i \in 1..Len(calls), Take(i)
  PROVE  /\ ListsOnly(calls')
         /\ InOrder /\ (OnList => ListsFit(store, calls)) /\ OnList' => ListsFit(store', calls')
<1> DEFINE c == calls[i]
<1>1. /\ calls \in Seq(Calls) /\ c \in Calls /\ StoreFits(store, rows) /\ store \in StoreType
      /\ c.op \in {"list", "bulk"} /\ Len(calls) \in Nat
  BY DEF PagesInductive, CallsFit, StoreFits, ListsOnly
<1>2. /\ Others(i) \in Seq(Calls) /\ Len(Others(i)) = Len(calls) - 1
      /\ \A j \in 1..(Len(calls) - 1) :
           Others(i)[j] = IF j < i THEN calls[j] ELSE calls[j + 1]
  BY <1>1, RemovedIs DEF Others
<1>3. ListsOnly(Others(i))
  BY <1>1, <1>2, SMTT(60) DEF ListsOnly
<1>4. CASE TakeBulk(i)
  <2> DEFINE s == BulkAnswered(store, c)
  <2>1. /\ store' = fetchList(s) /\ calls' = Append(Others(i), ListCall(ParamsOf(s)))
        /\ c.op = "bulk" /\ c \in BulkCalls
    BY <1>1, <1>4, CallIs, Zenon DEF TakeBulk, Taken
  <2>2. StoreFits(s, rows) /\ s \in StoreType
    BY <1>1, <2>1, RequestIs, BulkAnsweredFits, ZenonT(60) DEF StoreFits
  <2> HIDE DEF s
  <2>3. ParamsOf(store') = ParamsOf(s)
    BY <2>1, <2>2, FetchAsks
  <2> QED
    BY <1>2, <1>3, <2>1, <2>2, <2>3, JustAsked
<1>5. CASE TakeList(i)
  <2>1. /\ calls' = Others(i) /\ place' = place /\ c.op = "list" /\ c.state # "sent"
        /\ InOrder => i = 1
        /\ store' = IF Ok(i) THEN ListAnswered(store, c) ELSE ListFailed(store)
    BY <1>5 DEF TakeList, Taken, Stay
  <2>2. c \in ListCalls
    BY <1>1, <2>1, CallIs
  <2>3. store'.filters = store.filters /\ store'.scope = store.scope
    <3>1. \/ \E a, b, p, d : store' = [store EXCEPT !.items = a, !.total = b, !.page = p,
                                                    !.pageSize = d, !.loading = FALSE]
          \/ store' = [store EXCEPT !.loading = FALSE, !.error = "list"]
      BY <2>1, ZenonT(60) DEF ListAnswered, ListFailed
    <3> QED
      BY <1>1, <3>1, ZenonT(60) DEF StoreType
  <2>4. \A want : Asks(want, store) => Asks(want, store')
    BY <2>3 DEF Asks, ParamsOf, ListParams
  <2>5. ASSUME InOrder, OnList', OnList => ListsFit(store, calls)
        PROVE  ListsFit(store', calls')
    <3>1. i = 1 /\ ListsFit(store, calls)
      BY <2>1, <2>5 DEF OnList
    <3>2. CASE Has(calls, {"bulk"})
      <4>1. Has(calls', {"bulk"})
        BY <1>1, <2>1, <3>2, CallRemoved DEF PagesInductive, Others
      <4> QED
        BY <4>1 DEF ListsFit
    <3>3. CASE ~Has(calls, {"bulk"}) /\ Len(calls) > 1
      <4>1. calls'[Len(calls')] = calls[Len(calls)] /\ calls' # <<>>
        BY <1>1, <1>2, <2>1, <3>1, <3>3
      <4> QED
        BY <1>1, <2>4, <3>1, <3>3, <4>1 DEF ListsFit
    <3>4. CASE ~Has(calls, {"bulk"}) /\ Len(calls) = 1
      <4>1. calls' = <<>>
        BY <1>2, <2>1, <3>4
      <4>2. calls # <<>> /\ Asks(c.want, store) /\ (c.state = "ok" => c.got = CurrentList)
        BY <1>1, <3>1, <3>4, SMTT(60) DEF ListsFit
      <4>3. CASE Ok(i)
        <5>1. ShowsList(ListAnswered(store, c))
          BY <1>1, <2>2, <4>2, <4>3, AnswerShows DEF Ok
        <5> QED
          BY <2>1, <4>1, <4>3, <5>1 DEF ListsFit
      <4>4. CASE ~Ok(i)
        <5>1. store'.error = "list"
          BY <1>1, <2>1, <4>4 DEF ListFailed, StoreType
        <5> QED
          BY <4>1, <5>1 DEF ListsFit
      <4> QED
        BY <4>3, <4>4
    <3>5. Len(calls) > 1 \/ Len(calls) = 1
      <4>1. Len(calls) \in Nat /\ i = 1 /\ i \in 1..Len(calls)
        BY <1>1, <3>1
      <4>2. \A n \in Nat : 1 \in 1..n => n > 1 \/ n = 1
        OBVIOUS
      <4> QED
        BY <4>1, <4>2
    <3> QED
      BY <3>2, <3>3, <3>4, <3>5
  <2> QED
    BY <1>3, <2>1, <2>5
<1> QED
  BY <1>1, <1>4, <1>5
  DEF Take, TakeDetail, TakeCreate, TakeUploadNew, TakeUpdate, TakeComment, TakeFile, Taken

LEMMA StepLists ==
  ASSUME PagesInductive, ListsInductive, [Next]_vars
  PROVE  ListsInductive'
<1>1. session' = session
  BY SessionStays
<1> SUFFICES ASSUME Undisturbed
             PROVE  /\ ListsOnly(calls')
                    /\ InOrder /\ OnList' /\ ~RefetchDue' => ListsFit(store, calls)'
  BY <1>1 DEF ListsInductive, ListsOnly, Undisturbed, SingleHanded, Faults, Places, InOrder
<1>2. /\ calls \in Seq(Calls) /\ ListsOnly(calls)
      /\ InOrder /\ OnList /\ ~RefetchDue => ListsFit(store, calls)
  BY DEF PagesInductive, CallsFit, ListsInductive
<1>3. CASE Act
  <2>1. UNCHANGED <<rows, recency, session>>
    BY <1>3, ActIs
  <2> QED
    BY <1>3, <2>1, ActLists, SameList
<1>4. CASE Refetch
  <2>1. UNCHANGED <<rows, recency, session>>
    BY <1>4 DEF Refetch
  <2> QED
    BY <1>2, <1>4, <2>1, RefetchLists, SameList
<1>5. CASE ServeAny
  <2>1. PICK i \in 1..Len(calls) : Serve(i) /\ UNCHANGED pages
    BY <1>2, <1>5 DEF ServeAny
  <2> QED
    BY <1>2, <2>1, ServeLists
<1>6. CASE TakeAny
  <2>1. PICK i \in 1..Len(calls) : Take(i)
    BY <1>2, <1>6 DEF TakeAny
  <2>2. UNCHANGED <<rows, recency, session>> /\ ~RefetchDue
    BY <2>1 DEF Take, TakeList, TakeDetail, TakeCreate, TakeUploadNew, TakeUpdate, TakeComment,
       TakeFile, TakeBulk, Taken
  <2> QED
    BY <1>2, <2>1, <2>2, TakeLists, SameList
<1>7. CASE OthersMove
  BY <1>7 DEF OthersMove, OthersAct, SingleHanded, Undisturbed
<1>8. CASE UNCHANGED vars
  <2>1. UNCHANGED <<rows, recency, session, store, calls, place, seen>>
    BY <1>8 DEF vars, pages
  <2>2. OnList' = OnList /\ RefetchDue' = RefetchDue
    BY <2>1 DEF OnList, RefetchDue, Deps
  <2> QED
    BY <1>2, <2>1, <2>2, SameList
<1> QED
  BY <1>3, <1>4, <1>5, <1>6, <1>7, <1>8 DEF Next

LEMMA InitLists == Init => ListsInductive
BY DEF Init, ListsInductive, ListsOnly, OnList, ListPages, At

LEMMA ListsSettle == Spec => []ListSettled
<1>1. PagesInductive /\ ListsInductive => ListSettled
  <2> SUFFICES ASSUME PagesInductive, ListsInductive, InOrder, Undisturbed, Quiet, OnList,
                      store.error = "none"
               PROVE  ShowsList(store)
    BY DEF ListSettled, ShowsList
  <2> QED
    BY DEF ListsInductive, ListsFit, Quiet, Has
<1>2. Init => ListsInductive
  BY InitLists
<1>3. PagesInductive /\ ListsInductive /\ [Next]_vars => ListsInductive'
  BY StepLists
<1> QED
  BY <1>1, <1>2, <1>3, PagesInvariant, PTL DEF Spec

-----------------------------------------------------------------------------
(* The ticket page comes to rest on its ticket.                            *)

Parts == {"row", "comments", "files"}

\* The server has begun with it.
Begun(c) == c.state # "sent" \/ (c.op = "detail" /\ c.left # Parts)

\* Nothing is begun before what left earlier is done.
InTurns(cs) ==
  \A j \in 1..Len(cs) : \A i \in 1..(j - 1) : Begun(cs[j]) => cs[i].state # "sent"

TurnsInductive == InOrder => InTurns(calls)

LEMMA TurnsAdded ==
  ASSUME NEW cs \in Seq(Calls), InTurns(cs), NEW c \in Calls, ~Begun(c)
  PROVE  InTurns(Append(cs, c))
<1>1. \A j \in 1..(Len(cs) + 1) : \A i \in 1..(j - 1) : i \in 1..Len(cs)
  OBVIOUS
<1> QED
  BY <1>1, AppendIs DEF InTurns

LEMMA TurnsRemoved ==
  ASSUME NEW cs \in Seq(Calls), InTurns(cs), NEW k \in 1..Len(cs)
  PROVE  InTurns(RemoveAt(cs, k))
<1> DEFINE ds == RemoveAt(cs, k)
<1>0. Len(cs) \in Nat
  OBVIOUS
<1>1. /\ Len(ds) = Len(cs) - 1 /\ Len(cs) \in Nat
      /\ \A j \in 1..(Len(cs) - 1) : ds[j] = IF j < k THEN cs[j] ELSE cs[j + 1]
  BY <1>0, RemovedIs, Zenon
<1> HIDE DEF ds
<1>2. ASSUME NEW j \in 1..Len(ds), NEW i \in 1..(j - 1), Begun(ds[j])
      PROVE  ds[i].state # "sent"
  <2> DEFINE a == IF i < k THEN i ELSE i + 1
             b == IF j < k THEN j ELSE j + 1
  <2>1. j \in 1..(Len(cs) - 1) /\ i \in 1..(Len(cs) - 1) /\ i < j
    BY <1>1
  <2>2. b \in 1..Len(cs) /\ a \in 1..(b - 1)
    BY <1>1, <2>1
  <2>3. ds[j] = cs[b] /\ ds[i] = cs[a]
    BY <1>1, <2>1
  <2> HIDE DEF a, b
  <2> QED
    BY <1>2, <2>2, <2>3 DEF InTurns
<1>3. InTurns(ds)
  BY <1>2 DEF InTurns
<1> QED
  BY <1>3 DEF ds

LEMMA TurnsChanged ==
  ASSUME NEW cs \in Seq(Calls), InTurns(cs), NEW k \in 1..Len(cs), NEW c,
         cs[k].state = "sent", \A i \in 1..(k - 1) : cs[i].state # "sent"
  PROVE  InTurns([cs EXCEPT ![k] = c])
<1> DEFINE ds == [cs EXCEPT ![k] = c]
<1>1. Len(ds) = Len(cs) /\ \A j \in 1..Len(cs) : ds[j] = IF j = k THEN c ELSE cs[j]
  OBVIOUS
<1> HIDE DEF ds
<1> SUFFICES ASSUME NEW j \in 1..Len(cs), NEW i \in 1..(j - 1), Begun(ds[j])
             PROVE  ds[i].state # "sent"
  BY <1>1 DEF InTurns, ds
<1>2. i \in 1..Len(cs) /\ i < j
  OBVIOUS
<1>3. CASE j = k
  BY <1>1, <1>2, <1>3
<1>4. CASE j # k
  <2>1. Begun(cs[j])
    BY <1>1, <1>4
  <2>2. cs[i].state # "sent"
    BY <2>1 DEF InTurns
  <2> QED
    BY <1>1, <1>2, <2>2
<1> QED
  BY <1>3, <1>4

LEMMA TurnsOrphaned ==
  ASSUME NEW rs, NEW cs, CallsFit(cs, rs), InTurns(cs)
  PROVE  InTurns(Orphaned(cs))
<1>1. cs \in Seq(Calls)
  BY DEF CallsFit
<1>2. \A i \in 1..Len(cs) : Begun(Orphaned(cs)[i]) => Begun(cs[i])
  BY OrphanedSame DEF Begun
<1>3. \A j \in 1..Len(cs) : \A i \in 1..(j - 1) : i \in 1..Len(cs)
  BY <1>1
<1> QED
  BY <1>2, <1>3, OrphanedSame DEF InTurns

\* What the pages' effects and the buttons send has not begun.
LEMMA FreshCalls ==
  /\ \A params : ~Begun(ListCall(params))
  /\ \A t : ~Begun(DetailCall(t))
BY DEF Begun, ListCall, DetailCall, Parts

LEMMA MountsFresh ==
  ASSUME NEW rs, NEW s, StoreFits(s, rs), NEW p, p.page = "detail" => p.ticket \in Tickets
  PROVE  \/ MountCalls(s, p) = <<>>
         \/ \E c \in Calls : MountCalls(s, p) = <<c>> /\ ~Begun(c)
<1>1. MountCalls(s, p) # <<>> => \E c : MountCalls(s, p) = <<c>> /\ ~Begun(c)
  BY FreshCalls DEF MountCalls
<1> QED
  BY <1>1, MountCallsAre

LEMMA EnterTurns ==
  ASSUME PagesInductive, NEW s, StoreFits(s, rows), NEW cs, CallsFit(cs, rows), InTurns(cs),
         NEW p \in Places \cup {At("mine"), At("queue")}, Enter(s, cs, p)
  PROVE  InTurns(calls')
<1>1. CASE p = place
  BY <1>1 DEF Enter
<1>2. CASE p # place
  <2>1. calls' = Orphaned(cs) \o MountCalls(s, p)
    BY <1>2 DEF Enter
  <2>2. Orphaned(cs) \in Seq(Calls) /\ InTurns(Orphaned(cs))
    BY OrphanedSame, TurnsOrphaned
  <2>3. p.page = "detail" => p.ticket \in Tickets
    BY PlaceKnown
  <2>4. CASE MountCalls(s, p) = <<>>
    BY <2>1, <2>2, <2>4
  <2>5. ASSUME NEW c \in Calls, MountCalls(s, p) = <<c>>, ~Begun(c)
        PROVE  InTurns(calls')
    <3>1. calls' = Append(Orphaned(cs), c)
      BY <2>1, <2>2, <2>5
    <3> QED
      BY <2>2, <2>5, <3>1, TurnsAdded
  <2> QED
    BY <2>3, <2>4, <2>5, MountsFresh
<1> QED
  BY <1>1, <1>2

\* The server's work changes one request, and not what it asks for.
LEMMA ServeChanges ==
  ASSUME PagesInductive, NEW i \in 1..Len(calls), Serve(i)
  PROVE  \E c : calls' = [calls EXCEPT ![i] = c] /\ c.op = calls[i].op
<1> DEFINE c == calls[i]
           Changed == \E d : calls' = [calls EXCEPT ![i] = d] /\ d.op = c.op
<1>0. calls \in Seq(Calls) /\ c \in Calls
  BY DEF PagesInductive, CallsFit
<1>1. [calls EXCEPT ![i].state = "error"] = [calls EXCEPT ![i] = [c EXCEPT !.state = "error"]]
  BY <1>0
<1>2. "op" \in DOMAIN c
  BY <1>0 DEF Calls, ListCalls, DetailCalls, FormCalls, NewFileCalls, UpdateCalls, CommentCalls,
     FileCalls, BulkCalls
<1>3. \A v, w, x : /\ [c EXCEPT !.state = v].op = c.op
                  /\ [c EXCEPT !.state = v, !.got = w].op = c.op
                  /\ [c EXCEPT !.left = v, !.state = w].op = c.op
                  /\ [c EXCEPT !.left = v, !.got = w, !.state = x].op = c.op
  BY <1>2
<1>4. ASSUME NEW good, good.op = c.op, NEW newRows, NEW newRecency,
             Answer(i, good, newRows, newRecency) \/ Forbidden(i)
      PROVE  Changed
  BY <1>1, <1>3, <1>4 DEF Answer, Forbidden
<1>5. CASE ServeBulk(i)
  <2> DEFINE rest(t) == [c EXCEPT !.left = @ \ {t},
                           !.state = IF c.left = {t} THEN "ok" ELSE "sent"]
             x(t) == Ticket(t, Patched(rows[t], c.want), <<>>, <<>>)
  <2>1. PICK t : \/ calls' = [calls EXCEPT ![i] = [rest(t) EXCEPT !.got[t] = x(t)]]
                 \/ calls' = [calls EXCEPT ![i] = rest(t)]
    BY <1>5, Zenon DEF ServeBulk
  <2> DEFINE r == rest(t)
             y == x(t)
             told == [r EXCEPT !.got[t] = y]
  <2>2. r.op = c.op /\ "op" \in DOMAIN r
    BY <1>2
  <2> HIDE DEF r, y
  <2>3. told.op = c.op
    BY <2>2
  <2> QED
    BY <2>1, <2>2, <2>3 DEF r, y
<1> SUFFICES Changed
  OBVIOUS
<1> HIDE DEF Changed
<1>6. CASE ServeDetail(i)
  <2>1. PICK v, w, x :
          \/ Answer(i, [c EXCEPT !.left = v, !.got = w, !.state = x], rows, recency)
          \/ Forbidden(i)
    BY <1>6, Zenon DEF ServeDetail
  <2> DEFINE good == [c EXCEPT !.left = v, !.got = w, !.state = x]
  <2>2. good.op = c.op
    BY <1>2
  <2>3. Answer(i, good, rows, recency) \/ Forbidden(i)
    BY <2>1
  <2> HIDE DEF good
  <2> QED
    BY <1>4, <2>2, <2>3
<1>7. CASE ServeList(i) \/ ServeUpdate(i) \/ ServeCreate(i)
  BY <1>3, <1>4, <1>7, Zenon DEF ServeList, ServeUpdate, ServeCreate
<1>8. CASE ServeComment(i) \/ ServeFiles(i)
  BY <1>3, <1>4, <1>8, Zenon DEF ServeComment, ServeFiles
<1> QED
  BY <1>5, <1>6, <1>7, <1>8 DEF Serve, Changed

LEMMA TakeTurns ==
  ASSUME PagesInductive, InTurns(calls), NEW i \in 1..Len(calls), Take(i)
  PROVE  InTurns(calls')
<1>1. calls \in Seq(Calls)
  BY DEF PagesInductive, CallsFit
<1>2. Others(i) \in Seq(Calls) /\ InTurns(Others(i))
  BY <1>1, TurnsRemoved, RemovedIs DEF Others
<1>3. ASSUME NEW d \in Calls, d.op # "detail", d.state = "sent", calls' = Append(Others(i), d)
      PROVE  InTurns(calls')
  BY <1>2, <1>3, TurnsAdded DEF Begun
<1>4. CASE TakeCreate(i) \/ TakeUploadNew(i)
  <2>1. ASSUME NEW s, StoreFits(s, rows), CallsFit(Others(i), rows),
               Enter(s, Others(i), At("mine"))
        PROVE  InTurns(calls')
    BY <1>2, <2>1, EnterTurns
  <2> QED
    BY <1>2, <1>3, <1>4, <2>1, TakenForms
<1>5. CASE TakeBulk(i)
  BY <1>3, <1>5, TakenBulk
<1>6. CASE TakeList(i) \/ TakeDetail(i) \/ TakeUpdate(i) \/ TakeComment(i) \/ TakeFile(i)
  BY <1>2, <1>6 DEF TakeList, TakeDetail, TakeUpdate, TakeComment, TakeFile
<1> QED
  BY <1>4, <1>5, <1>6 DEF Take

LEMMA StepTurns ==
  ASSUME PagesInductive, TurnsInductive, [Next]_vars
  PROVE  TurnsInductive'
<1>1. session' = session
  BY SessionStays
<1> SUFFICES ASSUME InOrder, InTurns(calls)
             PROVE  InTurns(calls')
  BY <1>1 DEF TurnsInductive, InOrder, InTurns, Begun
<1>2. calls \in Seq(Calls) /\ StoreFits(store, rows) /\ CallsFit(calls, rows)
  BY DEF PagesInductive, CallsFit
<1>3. CASE Act
  <2>1. ASSUME NEW c, Begins(c) PROVE InTurns(calls')
    BY <1>2, <2>1, TurnsAdded DEF Begins, Begun
  <2>2. ASSUME NEW p \in Places \cup {At("queue")}, Goes(p) PROVE InTurns(calls')
    BY <1>2, <2>2, EnterTurns DEF Goes
  <2> QED
    BY <1>3, <2>1, <2>2, ActIs DEF Adjusts
<1>4. CASE Refetch
  <2>1. ListCall(ParamsOf(store)) \in Calls
    BY <1>2, ParamsAre, ListCallFits
  <2> QED
    BY <1>2, <1>4, <2>1, FreshCalls, TurnsAdded DEF Refetch
<1>5. CASE ServeAny
  <2>1. PICK i \in 1..Len(calls) : Serve(i)
    BY <1>2, <1>5 DEF ServeAny
  <2>2. PICK c : calls' = [calls EXCEPT ![i] = c]
    BY <2>1, ServeChanges
  <2>3. calls[i].state = "sent" /\ \A j \in 1..(i - 1) : calls[j].state # "sent"
    BY <2>1 DEF Serve, InTurn
  <2> QED
    BY <1>2, <2>2, <2>3, TurnsChanged
<1>6. CASE TakeAny
  BY <1>2, <1>6, TakeTurns DEF TakeAny
<1>7. CASE OthersMove \/ UNCHANGED vars
  BY <1>7 DEF OthersMove, OthersAct, vars
<1> QED
  BY <1>3, <1>4, <1>5, <1>6, <1>7 DEF Next

-----------------------------------------------------------------------------
\* What may be on its way once the page has asked for its ticket.
Follows == {"list", "update", "comment", "upload", "remove"}

WithName(x, p) == IF p.name # Keep THEN [x EXCEPT !.name = p.name] ELSE x

\* What the page shows once it has this answer.
AfterCall(c, x) ==
  IF c.op \notin Follows \ {"list"} \/ c.state # "ok" \/ x.id # c.on THEN x
  ELSE CASE c.op = "update"  -> WithName(Merge(c.got, x), c.want)
         [] c.op = "comment" -> [x EXCEPT !.comments = Append(@, c.want)]
         [] c.op = "upload"  -> [x EXCEPT !.files = Append(@, c.want)]
         [] c.op = "remove"  -> [x EXCEPT !.files = Without(@, c.want)]

Fetched(c) == IF c.state = "ok" /\ Visible(c.got) THEN c.got ELSE Nothing

\* The parts that have been read are those of the row.
PartsNow(c, row) ==
  /\ "row" \notin c.left =>
       c.got.status = row.status /\ c.got.dept = row.dept /\ c.got.assignee = row.assignee
  /\ "comments" \notin c.left => c.got.comments = row.comments
  /\ "files" \notin c.left => c.got.files = row.files

\* k is the page's fetch of its ticket, or 0 when its answer is there.
LastFetch(cs, k, t) ==
  /\ k \in 0..Len(cs)
  /\ k # 0 => cs[k].op = "detail" /\ cs[k].on = t
  /\ \A j \in (k + 1)..Len(cs) : cs[j].op \in Follows

\* v[j] is what the page shows once the answers up to j are there.
Shows(cs, k, x, v) ==
  /\ v[k] = IF k = 0 THEN x ELSE Fetched(cs[k])
  /\ \A j \in (k + 1)..Len(cs) :
       /\ v[j] = AfterCall(cs[j], v[j - 1])
       /\ cs[j].state = "sent" => v[j - 1] = v[Len(cs)]

Right(x, t, rs) == x = Nothing \/ UpToDate(x, t, rs[t])

\* The ticket is being read, or the page will show it when the rest is there.
PageFits(cs, k, s, rs, t) ==
  /\ LastFetch(cs, k, t)
  /\ \/ k # 0 /\ cs[k].state = "sent" /\ PartsNow(cs[k], rs[t])
     \/ /\ k # 0 => cs[k].state # "sent"
        /\ \E v : Shows(cs, k, s.selected, v) /\ Right(v[Len(cs)], t, rs)
  /\ k = 0 /\ s.selected = Nothing => s.error # "none"

\* Others change nothing, and no answer is lost.
NothingLost == {"others", "lose"} \cap Faults = {}

DetailInductive ==
  (/\ InOrder /\ NothingLost
   /\ OnPage("detail") /\ ~Has(calls, {"uploadNew"})) =>
     \E k : PageFits(calls, k, store, rows, place.ticket)

LEMMA SentChangesNothing ==
  ASSUME NEW c, c.state = "sent", NEW x
  PROVE  AfterCall(c, x) = x
BY DEF AfterCall

\* What the page sends next changes nothing of this.
LEMMA FitsAdded ==
  ASSUME NEW cs \in Seq(Calls), NEW k, NEW s, NEW rs, NEW t, PageFits(cs, k, s, rs, t),
         NEW c \in Calls, c.state = "sent", c.op \in Follows,
         NEW u, u.selected = s.selected,
         k = 0 /\ u.selected = Nothing => u.error # "none"
  PROVE  PageFits(Append(cs, c), k, u, rs, t)
<1> DEFINE n == Len(cs)
           ds == Append(cs, c)
<1>1. n \in Nat /\ k \in 0..n /\ Len(ds) = n + 1
  BY DEF PageFits, LastFetch
<1>2. ds[n + 1] = c /\ \A j \in 1..n : ds[j] = cs[j]
  BY AppendIs
<1>3. SUFFICES PageFits(ds, k, u, rs, t)
  OBVIOUS
<1> HIDE DEF n, ds
<1>4. \A j \in (k + 1)..(n + 1) : j \in (k + 1)..n \/ j = n + 1
  BY <1>1
<1>5. \A j \in (k + 1)..n : j \in 1..n /\ j \in k..n /\ j - 1 \in k..n
  BY <1>1
<1>6. k # 0 => k \in 1..n
  BY <1>1
<1>7. LastFetch(ds, k, t)
  <2>1. k \in 0..(n + 1)
    BY <1>1
  <2>2. /\ k # 0 => cs[k].op = "detail" /\ cs[k].on = t
        /\ \A j \in (k + 1)..n : cs[j].op \in Follows
    BY DEF PageFits, LastFetch, n
  <2>3. \A j \in (k + 1)..(n + 1) : ds[j].op \in Follows
    BY <1>2, <1>4, <1>5, <2>2
  <2> QED
    BY <1>1, <1>2, <1>6, <2>1, <2>2, <2>3 DEF LastFetch
<1>8. CASE k # 0 /\ cs[k].state = "sent"
  BY <1>2, <1>6, <1>7, <1>8 DEF PageFits
<1>9. CASE k # 0 => cs[k].state # "sent"
  <2>1. PICK v : Shows(cs, k, s.selected, v) /\ Right(v[n], t, rs)
    BY <1>9 DEF PageFits, n
  <2> DEFINE w == [j \in k..(n + 1) |-> IF j = n + 1 THEN v[n] ELSE v[j]]
  <2>2. k \in k..n /\ n \in k..n /\ n + 1 \in k..(n + 1)
        /\ \A j \in k..n : j \in k..(n + 1) /\ j # n + 1
    BY <1>1
  <2>3. w[n + 1] = v[n] /\ \A j \in k..n : w[j] = v[j]
    BY <2>2
  <2> HIDE DEF w
  <2>4. ASSUME NEW j \in (k + 1)..(n + 1)
        PROVE  /\ w[j] = AfterCall(ds[j], w[j - 1])
               /\ ds[j].state = "sent" => w[j - 1] = w[n + 1]
    <3>1. CASE j = n + 1
      <4>1. j - 1 = n
        BY <1>1, <3>1
      <4> QED
        BY <1>2, <2>2, <2>3, <3>1, <4>1, SentChangesNothing
    <3>2. CASE j \in (k + 1)..n
      <4>1. ds[j] = cs[j] /\ w[j] = v[j] /\ w[j - 1] = v[j - 1]
        BY <1>2, <1>5, <2>3, <3>2
      <4> QED
        BY <2>1, <2>3, <3>2, <4>1 DEF Shows, n
    <3> QED
      BY <1>4, <3>1, <3>2
  <2>5. w[k] = IF k = 0 THEN u.selected ELSE Fetched(ds[k])
    BY <1>2, <1>6, <2>1, <2>2, <2>3 DEF Shows
  <2>6. Shows(ds, k, u.selected, w)
    BY <1>1, <2>4, <2>5 DEF Shows
  <2>7. Right(w[Len(ds)], t, rs)
    BY <1>1, <2>1, <2>3
  <2>8. k # 0 => ds[k].state # "sent"
    BY <1>2, <1>6, <1>9
  <2> QED
    BY <1>7, <2>6, <2>7, <2>8 DEF PageFits
<1> QED
  BY <1>8, <1>9

\* The oldest answer is taken, and it is not the page's fetch, or it is and
\* what it brought is shown.
LEMMA FitsTaken ==
  ASSUME NEW cs \in Seq(Calls), NEW k, NEW s, NEW rs, NEW t, PageFits(cs, k, s, rs, t),
         cs # <<>>, cs[1].state # "sent", NEW u,
         k = 0 => u.selected = AfterCall(cs[1], s.selected),
         k = 1 => u.selected = Fetched(cs[1]),
         k \in {0, 1} /\ u.selected = Nothing => u.error # "none"
  PROVE  \E m : PageFits(RemoveAt(cs, 1), m, u, rs, t) /\ (k \notin {0, 1} => m # 0)
<1> DEFINE n == Len(cs)
           ds == RemoveAt(cs, 1)
           m == IF k = 0 THEN 0 ELSE k - 1
<1>0. n \in Nat /\ 1 \in 1..n
  <2>1. n \in Nat /\ n # 0
    OBVIOUS
  <2> QED
    BY <2>1
<1>1. Len(ds) = n - 1 /\ \A j \in 1..(n - 1) : ds[j] = IF j < 1 THEN cs[j] ELSE cs[j + 1]
  BY <1>0, RemovedIs, Zenon
<1>2. k \in 0..n
  BY DEF PageFits, LastFetch
<1> SUFFICES PageFits(ds, m, u, rs, t)
  <2>1. k \notin {0, 1} => m # 0
    BY <1>2
  <2> QED
    BY <2>1
<1> HIDE DEF ds, n
<1>3. /\ Len(ds) = n - 1 /\ \A j \in 1..(n - 1) : ds[j] = cs[j + 1]
      /\ m \in 0..(n - 1) /\ (m = 0 <=> k \in {0, 1}) /\ (m # 0 => k = m + 1 /\ m \in 1..(n - 1))
      /\ \A j \in (m + 1)..(n - 1) :
           j \in 1..(n - 1) /\ j + 1 \in (k + 1)..n /\ (j - 1) + 1 = j /\ (j + 1) - 1 = j
      /\ (n - 1) + 1 = n
  BY <1>0, <1>1, <1>2
<1>4. LastFetch(ds, m, t)
  <2> HIDE DEF m
  <2>1. /\ k # 0 => cs[k].op = "detail" /\ cs[k].on = t
        /\ \A j \in (k + 1)..n : cs[j].op \in Follows
    BY DEF PageFits, LastFetch, n
  <2> QED
    BY <1>3, <2>1, ZenonT(60) DEF LastFetch
<1>5. m = 0 /\ u.selected = Nothing => u.error # "none"
  BY <1>3
<1>6. CASE k # 0 /\ cs[k].state = "sent"
  <2> HIDE DEF m
  <2>1. k # 1
    BY <1>6
  <2>2. m # 0 /\ k = m + 1 /\ m \in 1..(n - 1)
    BY <1>3, <1>6, <2>1
  <2>3. ds[m] = cs[k]
    BY <1>3, <2>2
  <2> QED
    BY <1>4, <1>5, <1>6, <2>2, <2>3 DEF PageFits
<1>7. CASE k # 0 => cs[k].state # "sent"
  <2>1. PICK v : Shows(cs, k, s.selected, v) /\ Right(v[n], t, rs)
    BY <1>7 DEF PageFits, n
  <2> DEFINE w == [j \in 0..(n - 1) |-> v[j + 1]]
  <2>2. \A j \in 0..(n - 1) : w[j] = v[j + 1]
    OBVIOUS
  <2>3. 0 \in 0..(n - 1) /\ n - 1 \in 0..(n - 1) /\ 0 + 1 = 1
    BY <1>0
  <2>4. w[0] = v[1] /\ w[n - 1] = v[n]
    BY <1>3, <2>2, <2>3
  <2> HIDE DEF w
  <2>5. m = 0 => w[m] = u.selected
    <3>1. CASE k = 0
      <4>1. 1 \in (k + 1)..n /\ 1 - 1 = 0
        BY <1>0, <3>1
      <4>2. v[1] = AfterCall(cs[1], v[1 - 1]) /\ v[0] = s.selected
        BY <2>1, <3>1, <4>1 DEF Shows, n
      <4> QED
        BY <2>4, <3>1, <4>1, <4>2
    <3>2. CASE k = 1
      BY <2>1, <2>4, <3>2 DEF Shows
    <3> QED
      BY <1>3, <3>1, <3>2
  <2>6. m # 0 => w[m] = Fetched(ds[m]) /\ ds[m].state # "sent"
    <3> SUFFICES ASSUME m # 0 PROVE w[m] = Fetched(ds[m]) /\ ds[m].state # "sent"
      OBVIOUS
    <3>1. k = m + 1 /\ m \in 1..(n - 1) /\ m \in 0..(n - 1) /\ k # 0
      BY <1>0, <1>3
    <3> HIDE DEF m
    <3> QED
      BY <1>3, <1>7, <2>1, <2>2, <3>1 DEF Shows
  <2> HIDE DEF m
  <2>7. ASSUME NEW j \in (m + 1)..(n - 1)
        PROVE  /\ w[j] = AfterCall(ds[j], w[j - 1])
               /\ ds[j].state = "sent" => w[j - 1] = w[n - 1]
    <3>1. j \in 0..(n - 1) /\ j - 1 \in 0..(n - 1)
      BY <1>0, <1>3
    <3>2. j + 1 \in (k + 1)..n /\ ds[j] = cs[j + 1]
      BY <1>3
    <3>3. w[j] = v[j + 1] /\ w[j - 1] = v[(j + 1) - 1]
      BY <1>3, <2>2, <3>1
    <3>4. v[j + 1] = AfterCall(cs[j + 1], v[(j + 1) - 1])
          /\ (cs[j + 1].state = "sent" => v[(j + 1) - 1] = v[n])
      BY <2>1, <3>2 DEF Shows, n
    <3> QED
      BY <2>4, <3>2, <3>3, <3>4
  <2>8. Shows(ds, m, u.selected, w)
    BY <1>3, <2>5, <2>6, <2>7 DEF Shows
  <2>9. Right(w[Len(ds)], t, rs)
    BY <1>3, <2>1, <2>4
  <2> QED
    BY <1>4, <1>5, <2>6, <2>8, <2>9 DEF PageFits
<1> QED
  BY <1>6, <1>7

LEMMA RightIs ==
  ASSUME NEW rs \in [Tickets -> RowType], NEW t \in Tickets, NEW x, Right(x, t, rs), x.id # NoTicket
  PROVE  /\ x \in TicketType /\ x.id = t /\ Named(x)
         /\ x.comments = rs[t].comments /\ x.files = rs[t].files
         /\ x.dept = rs[t].dept /\ x.assignee = rs[t].assignee
         /\ \/ x.status = rs[t].status
            \/ Role = "student" /\ rs[t].status = "open" /\ x.status = "resolved"
<1>1. rs[t] \in RowType /\ "resolved" \in Statuses
  BY StoreAssumption
<1> DEFINE now == [Ticket(t, rs[t], rs[t].comments, rs[t].files) EXCEPT !.name = x.name]
<1>0. x = Nothing \/ UpToDate(x, t, rs[t])
  BY DEF Right
<1>5. x.name \in {rs[t].assignee, NoUser}
  BY <1>0, NothingIs DEF UpToDate
<1>2. /\ now \in TicketType /\ now.id = t /\ now.name \in {now.assignee, NoUser}
      /\ now.comments = rs[t].comments /\ now.files = rs[t].files
      /\ now.dept = rs[t].dept /\ now.assignee = rs[t].assignee /\ now.status = rs[t].status
  BY <1>1, <1>5 DEF Ticket, TicketType, RowType
<1>3. \/ x = now
      \/ Role = "student" /\ rs[t].status = "open" /\ x = [now EXCEPT !.status = "resolved"]
  BY <1>0, NothingIs, Zenon DEF UpToDate
<1> HIDE DEF now
<1>4. ASSUME x = [now EXCEPT !.status = "resolved"]
      PROVE  /\ x \in TicketType /\ x.status = "resolved" /\ x.id = now.id /\ x.name = now.name
             /\ x.comments = now.comments /\ x.files = now.files
             /\ x.dept = now.dept /\ x.assignee = now.assignee
  BY <1>1, <1>2, <1>4 DEF TicketType
<1> QED
  BY <1>2, <1>3, <1>4 DEF Named

LEMMA IsRight ==
  ASSUME NEW rs \in [Tickets -> RowType], NEW t \in Tickets, NEW x \in TicketType,
         x.id = t, Named(x),
         x.comments = rs[t].comments, x.files = rs[t].files,
         x.dept = rs[t].dept, x.assignee = rs[t].assignee,
         \/ x.status = rs[t].status
         \/ Role = "student" /\ rs[t].status = "open" /\ x.status = "resolved"
  PROVE  Right(x, t, rs)
<1> DEFINE now == [Ticket(t, rs[t], rs[t].comments, rs[t].files) EXCEPT !.name = x.name]
           stale == [now EXCEPT !.status = "resolved"]
<1>1. rs[t] \in RowType
  OBVIOUS
<1>2. now = [id |-> t, status |-> rs[t].status, dept |-> x.dept, assignee |-> x.assignee,
             name |-> x.name, comments |-> x.comments, files |-> x.files]
  BY DEF Ticket
<1>3. x.status = rs[t].status => x = now
  BY <1>2 DEF TicketType
<1>4. x.status = "resolved" => x = stale
  <2> HIDE DEF now
  <2>1. stale = [id |-> t, status |-> "resolved", dept |-> x.dept, assignee |-> x.assignee,
                 name |-> x.name, comments |-> x.comments, files |-> x.files]
    BY <1>2
  <2> HIDE DEF stale
  <2> QED
    BY <2>1 DEF TicketType
<1> HIDE DEF now, stale
<1>5. x.name \in {rs[t].assignee, NoUser}
  BY DEF Named
<1>6. x = now \/ (Role = "student" /\ rs[t].status = "open" /\ x = stale)
  BY <1>3, <1>4
<1> QED
  BY <1>5, <1>6, Zenon DEF Right, UpToDate, now, stale

LEMMA OtherRight ==
  ASSUME NEW rs \in [Tickets -> RowType], NEW t \in Tickets, NEW x, Right(x, t, rs),
         NEW s \in Tickets, x.id # s, NEW row
  PROVE  Right(x, t, [rs EXCEPT ![s] = row])
<1>1. CASE x.id = NoTicket
  <2>1. x = Nothing
    <3> DEFINE now == [Ticket(t, rs[t], rs[t].comments, rs[t].files) EXCEPT !.name = x.name]
    <3>1. now.id = t /\ [now EXCEPT !.status = "resolved"].id = t
      BY DEF Ticket
    <3> QED
      BY <1>1, <3>1, StoreAssumption DEF Right, UpToDate
  <2> QED
    BY <2>1 DEF Right
<1>2. CASE x.id # NoTicket
  <2>1. [rs EXCEPT ![s] = row][t] = rs[t]
    BY <1>2, RightIs
  <2> QED
    BY <2>1 DEF Right
<1> QED
  BY <1>1, <1>2

LEMMA UpdateRight ==
  ASSUME NEW rs \in [Tickets -> RowType], NEW t \in Tickets, NEW x, Right(x, t, rs),
         NEW s \in Tickets, x.id = s, NEW p \in PatchType
  PROVE  LET row == Patched(rs[s], p)
         IN  Right(WithName(Merge(Ticket(s, row, <<>>, <<>>), x), p), t, [rs EXCEPT ![s] = row])
<1> DEFINE row == Patched(rs[s], p)
           y == Merge(Ticket(s, row, <<>>, <<>>), x)
           rt == [rs EXCEPT ![s] = row]
<1>1. /\ x \in TicketType /\ s = t /\ Named(x)
      /\ x.comments = rs[t].comments /\ x.files = rs[t].files
  BY RightIs, StoreAssumption
<1>2. /\ row \in RowType /\ row.comments = rs[t].comments /\ row.files = rs[t].files
      /\ p.assignee # Keep => row.assignee = p.assignee
  BY <1>1, PatchedIs
<1> HIDE DEF row
<1>3. rt \in [Tickets -> RowType] /\ rt[t] = row
  BY <1>1, <1>2
<1> DEFINE got == Ticket(s, row, <<>>, <<>>)
<1>4. got \in Bare /\ got.id = s /\ got.assignee = row.assignee
      /\ got.status = row.status /\ got.dept = row.dept /\ got.files = <<>>
  BY <1>2, BareRow DEF Ticket
<1> HIDE DEF got
<1>5. /\ y \in TicketType /\ y.id = s /\ y.comments = x.comments
      /\ y.assignee = row.assignee /\ y.name = row.assignee
  BY <1>1, <1>4, MergeIs DEF got
<1>7. y.status = row.status /\ y.dept = row.dept /\ y.files = x.files
  BY <1>4, BareIs DEF Merge, TicketType, got
<1> HIDE DEF y, rt
<1> DEFINE z == WithName(y, p)
<1>8. p.name # Keep => p.name \in {row.assignee, NoUser} /\ p.name \in Users \cup {NoUser}
  BY <1>2 DEF PatchType
<1>9. /\ z \in TicketType /\ z.id = y.id /\ z.comments = y.comments /\ z.assignee = y.assignee
      /\ z.status = y.status /\ z.dept = y.dept /\ z.files = y.files
      /\ z.name \in {row.assignee, NoUser}
  <2>1. CASE p.name # Keep
    <3>1. z = [y EXCEPT !.name = p.name]
      BY <2>1 DEF WithName
    <3> HIDE DEF z
    <3> QED
      BY <1>5, <1>8, <2>1, <3>1 DEF TicketType
  <2>2. CASE p.name = Keep
    BY <1>5, <2>2 DEF WithName
  <2> QED
    BY <2>1, <2>2
<1> HIDE DEF z
<1>6. Right(z, t, rt)
  BY <1>1, <1>2, <1>3, <1>5, <1>7, <1>9, IsRight DEF Named
<1> QED
  BY <1>6 DEF y, z, rt, row

LEMMA CommentRight ==
  ASSUME NEW rs \in [Tickets -> RowType], NEW t \in Tickets, NEW x, Right(x, t, rs),
         NEW s \in Tickets, x.id = s, NEW comment \in Comments
  PROVE  LET row == [rs[s] EXCEPT !.comments = Append(@, comment),
                       !.status = IF Role = "student" /\ @ = "resolved" THEN "open" ELSE @]
         IN  Right([x EXCEPT !.comments = Append(@, comment)], t, [rs EXCEPT ![s] = row])
<1> DEFINE row == [rs[s] EXCEPT !.comments = Append(@, comment),
                     !.status = IF Role = "student" /\ @ = "resolved" THEN "open" ELSE @]
           y == [x EXCEPT !.comments = Append(@, comment)]
           rt == [rs EXCEPT ![s] = row]
<1>1. /\ x \in TicketType /\ s = t /\ Named(x)
      /\ x.comments = rs[t].comments /\ x.files = rs[t].files
      /\ x.dept = rs[t].dept /\ x.assignee = rs[t].assignee
      /\ \/ x.status = rs[t].status
         \/ Role = "student" /\ rs[t].status = "open" /\ x.status = "resolved"
  BY RightIs, StoreAssumption
<1>2. /\ row \in RowType /\ row.comments = Append(rs[t].comments, comment)
      /\ row.files = rs[t].files /\ row.dept = rs[t].dept /\ row.assignee = rs[t].assignee
      /\ row.status = IF Role = "student" /\ rs[t].status = "resolved" THEN "open" ELSE rs[t].status
  <2> DEFINE old == rs[t]
  <2>1. old \in RowType /\ Append(old.comments, comment) \in Seq(Comments) /\ "open" \in Statuses
    BY StoreAssumption DEF RowType
  <2>2. row = [old EXCEPT !.comments = Append(old.comments, comment),
                 !.status = IF Role = "student" /\ old.status = "resolved" THEN "open" ELSE old.status]
    BY <1>1
  <2> HIDE DEF old, row
  <2>3. /\ row \in RowType /\ row.comments = Append(old.comments, comment)
        /\ row.files = old.files /\ row.dept = old.dept /\ row.assignee = old.assignee
        /\ row.status = IF Role = "student" /\ old.status = "resolved" THEN "open" ELSE old.status
    BY <2>1, <2>2 DEF RowType
  <2> QED
    BY <2>3 DEF old
<1> HIDE DEF row
<1>3. rt \in [Tickets -> RowType] /\ rt[t] = row
  BY <1>1, <1>2
<1>4. /\ y \in TicketType /\ y.id = x.id /\ y.name = x.name /\ y.assignee = x.assignee
      /\ y.dept = x.dept /\ y.files = x.files /\ y.status = x.status
      /\ y.comments = Append(x.comments, comment)
  <2>1. Append(x.comments, comment) \in Seq(Comments)
    BY <1>1 DEF TicketType
  <2> QED
    BY <1>1, <2>1 DEF TicketType
<1> HIDE DEF y, rt
<1>5. Right(y, t, rt)
  <2>1. Named(y)
    BY <1>1, <1>4 DEF Named
  <2> QED
    BY <1>1, <1>2, <1>3, <1>4, <2>1, IsRight, ZenonT(60)
<1> QED
  BY <1>5 DEF y, rt, row

LEMMA FilesRight ==
  ASSUME NEW rs \in [Tickets -> RowType], NEW t \in Tickets, NEW x, Right(x, t, rs),
         NEW s \in Tickets, x.id = s, NEW files \in Seq(Files)
  PROVE  Right([x EXCEPT !.files = files], t, [rs EXCEPT ![s].files = files])
<1> DEFINE row == [rs[s] EXCEPT !.files = files]
           y == [x EXCEPT !.files = files]
           rt == [rs EXCEPT ![s] = row]
<1>1. /\ x \in TicketType /\ s = t /\ Named(x)
      /\ x.comments = rs[t].comments /\ x.files = rs[t].files
      /\ x.dept = rs[t].dept /\ x.assignee = rs[t].assignee
      /\ \/ x.status = rs[t].status
         \/ Role = "student" /\ rs[t].status = "open" /\ x.status = "resolved"
  BY RightIs, StoreAssumption
<1>2. /\ row \in RowType /\ row.comments = rs[t].comments
      /\ row.files = files /\ row.dept = rs[t].dept /\ row.assignee = rs[t].assignee
      /\ row.status = rs[t].status
  BY <1>1 DEF RowType
<1>6. [rs EXCEPT ![s].files = files] = rt
  OBVIOUS
<1> HIDE DEF row
<1>3. rt \in [Tickets -> RowType] /\ rt[t] = row
  BY <1>1, <1>2
<1>4. /\ y \in TicketType /\ y.id = x.id /\ y.name = x.name /\ y.assignee = x.assignee
      /\ y.dept = x.dept /\ y.comments = x.comments /\ y.status = x.status /\ y.files = files
  BY <1>1 DEF TicketType
<1> HIDE DEF y, rt
<1>5. Right(y, t, rt)
  BY <1>1, <1>2, <1>3, <1>4, IsRight DEF Named
<1> QED
  BY <1>5, <1>6 DEF y

\* One request is worked on: an earlier one, the page's fetch, or a later one.
LEMMA FitsChanged ==
  ASSUME NEW cs \in Seq(Calls), InTurns(cs),
         NEW k, NEW s, NEW rs, NEW t, PageFits(cs, k, s, rs, t),
         NEW i \in 1..Len(cs), cs[i].state = "sent", \A j \in 1..(i - 1) : cs[j].state # "sent",
         NEW c, c.op = cs[i].op, NEW rt,
         i = k => /\ c.on = t
                  /\ IF c.state = "sent" THEN PartsNow(c, rt[t]) ELSE Right(Fetched(c), t, rt),
         i > k => /\ c.state # "sent"
                  /\ \A x : Right(x, t, rs) => Right(AfterCall(c, x), t, rt)
  PROVE  PageFits([cs EXCEPT ![i] = c], k, s, rt, t)
<1> DEFINE n == Len(cs)
           ds == [cs EXCEPT ![i] = c]
<1>1. /\ n \in Nat /\ k \in 0..n /\ Len(ds) = n /\ i \in 1..n
      /\ ds[i] = c /\ \A j \in 1..n : j # i => ds[j] = cs[j]
  BY DEF PageFits, LastFetch
<1>2. \A j \in 1..n : j > i => cs[j].state = "sent" /\ ~Begun(cs[j])
  <2>1. \A j \in 1..n : j > i => i \in 1..(j - 1)
    OBVIOUS
  <2> QED
    BY <2>1 DEF InTurns, Begun
<1> SUFFICES PageFits(ds, k, s, rt, t)
  OBVIOUS
<1> HIDE DEF ds, n
<1>3. /\ \A j \in (k + 1)..n : j \in 1..n /\ j \in k..n /\ j - 1 \in k..n
      /\ k # 0 => k \in 1..n
      /\ n \in k..n /\ k \in k..n
  BY <1>1
<1>4. /\ LastFetch(ds, k, t)
      /\ k = 0 /\ s.selected = Nothing => s.error # "none"
  <2>1. /\ k # 0 => cs[k].op = "detail" /\ cs[k].on = t
        /\ \A j \in (k + 1)..n : cs[j].op \in Follows
        /\ k = 0 /\ s.selected = Nothing => s.error # "none"
    BY DEF PageFits, LastFetch, n
  <2>2. \A j \in 1..n : ds[j].op = cs[j].op
    BY <1>1
  <2>3. k # 0 => ds[k].op = "detail" /\ ds[k].on = t
    <3>1. CASE k = i
      BY <1>1, <1>3, <2>1, <3>1
    <3>2. CASE k # i
      BY <1>1, <1>3, <2>1, <3>2
    <3> QED
      BY <3>1, <3>2
  <2>4. \A j \in (k + 1)..n : ds[j].op \in Follows
    BY <1>3, <2>1, <2>2
  <2> QED
    BY <1>1, <2>1, <2>3, <2>4 DEF LastFetch
<1>5. CASE i < k
  <2>1. k # 0 /\ k \in 1..n /\ k > i /\ k # i
    BY <1>1, <1>5
  <2>2. ds[k] = cs[k] /\ cs[k].state = "sent" /\ ~Begun(cs[k])
    BY <1>1, <1>2, <2>1
  <2>3. cs[k].op = "detail"
    BY <2>1 DEF PageFits, LastFetch
  <2>4. PartsNow(ds[k], rt[t])
    BY <2>2, <2>3 DEF Begun, Parts, PartsNow
  <2> QED
    BY <1>4, <2>1, <2>2, <2>4 DEF PageFits
<1>6. CASE i = k
  <2>1. k # 0 /\ ds[k] = c
    BY <1>1, <1>6
  <2>2. CASE c.state = "sent"
    BY <1>4, <1>6, <2>1, <2>2 DEF PageFits
  <2>3. CASE c.state # "sent"
    <3> DEFINE w == [j \in k..n |-> Fetched(c)]
    <3>1. \A j \in k..n : w[j] = Fetched(c)
      OBVIOUS
    <3> HIDE DEF w
    <3>2. ASSUME NEW j \in (k + 1)..n
          PROVE  w[j] = AfterCall(ds[j], w[j - 1]) /\ w[j - 1] = w[n]
      <4>1. j \in 1..n /\ j > i /\ j # i
        BY <1>1, <1>6
      <4>2. ds[j].state = "sent"
        BY <1>1, <1>2, <4>1
      <4> QED
        BY <1>3, <3>1, <4>2, SentChangesNothing
    <3>3. Shows(ds, k, s.selected, w)
      BY <1>1, <1>3, <2>1, <3>1, <3>2 DEF Shows
    <3>4. Right(w[Len(ds)], t, rt)
      BY <1>1, <1>3, <1>6, <2>3, <3>1
    <3> QED
      BY <1>4, <2>1, <2>3, <3>3, <3>4 DEF PageFits
  <2> QED
    BY <2>2, <2>3
<1>7. CASE i > k
  <2>1. k # 0 => k \in 1..n /\ k \in 1..(i - 1) /\ k # i
    BY <1>1, <1>7
  <2>2. k # 0 => cs[k].state # "sent" /\ ds[k] = cs[k]
    BY <1>1, <2>1
  <2>3. PICK v : Shows(cs, k, s.selected, v) /\ Right(v[n], t, rs)
    BY <2>2 DEF PageFits, n
  <2> DEFINE y == AfterCall(c, v[n])
             w == [j \in k..n |-> IF j < i THEN v[j] ELSE y]
  <2>4. \A j \in k..n : w[j] = IF j < i THEN v[j] ELSE y
    OBVIOUS
  <2>5. w[k] = v[k] /\ w[n] = y
    <3>1. k < i /\ ~(n < i)
      BY <1>1, <1>7
    <3> QED
      BY <1>3, <2>4, <3>1
  <2>6. Right(y, t, rt) /\ c.state # "sent"
    BY <1>7, <2>3
  <2> HIDE DEF w
  <2>7. ASSUME NEW j \in (k + 1)..n
        PROVE  /\ w[j] = AfterCall(ds[j], w[j - 1])
               /\ ds[j].state = "sent" => w[j - 1] = w[n]
    <3>1. j \in 1..n /\ j \in k..n /\ j - 1 \in k..n /\ j \in Int /\ i \in Int
      BY <1>1, <1>3
    <3>2. /\ v[j] = AfterCall(cs[j], v[j - 1])
          /\ cs[j].state = "sent" => v[j - 1] = v[n]
      BY <2>3 DEF Shows, n
    <3>3. CASE j < i
      <4>1. j - 1 < i /\ j # i /\ j \in 1..(i - 1)
        BY <3>1, <3>3
      <4>2. w[j] = v[j] /\ w[j - 1] = v[j - 1] /\ ds[j] = cs[j] /\ cs[j].state # "sent"
        BY <1>1, <2>4, <3>1, <3>3, <4>1
      <4> QED
        BY <3>2, <4>2
    <3>4. CASE j = i
      <4>1. j - 1 < i /\ ~(j < i)
        BY <3>1, <3>4
      <4>2. w[j] = y /\ w[j - 1] = v[j - 1] /\ ds[j] = c
        BY <1>1, <2>4, <3>1, <3>4, <4>1
      <4>3. v[j - 1] = v[n]
        BY <3>2, <3>4
      <4> QED
        BY <2>6, <4>2, <4>3
    <3>5. CASE j > i
      <4>1. ~(j - 1 < i) /\ ~(j < i) /\ j # i
        BY <3>1, <3>5
      <4>2. w[j] = y /\ w[j - 1] = y /\ ds[j].state = "sent"
        BY <1>1, <1>2, <2>4, <3>1, <3>5, <4>1
      <4> QED
        BY <2>5, <4>2, SentChangesNothing
    <3> QED
      BY <3>1, <3>3, <3>4, <3>5
  <2>8. Shows(ds, k, s.selected, w)
    BY <1>1, <2>2, <2>3, <2>5, <2>7 DEF Shows
  <2>9. Right(w[Len(ds)], t, rt)
    BY <1>1, <2>5, <2>6
  <2> QED
    BY <1>4, <2>2, <2>8, <2>9 DEF PageFits
<1> QED
  <2>1. i \in Int /\ k \in Int
    BY <1>1
  <2> QED
    BY <1>5, <1>6, <1>7, <2>1

LEMMA FailedIs ==
  ASSUME NEW c \in Calls
  PROVE  LET failed == [c EXCEPT !.state = "error"]
         IN  failed.op = c.op /\ failed.state = "error" /\ (c.op = "detail" => failed.on = c.on)
<1>1. "state" \in DOMAIN c /\ "op" \in DOMAIN c
  BY DEF Calls, ListCalls, DetailCalls, FormCalls, NewFileCalls, UpdateCalls, CommentCalls,
     FileCalls, BulkCalls
<1> QED
  BY <1>1

\* The request's answer keeps right what the page will show.
StaysRight(i, t) ==
  \E c : /\ calls' = [calls EXCEPT ![i] = c] /\ c.op = calls[i].op /\ c.state # "sent"
         /\ \A x : Right(x, t, rows) => Right(AfterCall(c, x), t, rows')

LEMMA AnswerRight ==
  ASSUME PagesInductive, NothingLost, NEW i \in 1..Len(calls), NEW t,
         NEW good, good.op = calls[i].op, good.state # "sent",
         NEW newRows, NEW newRecency,
         Answer(i, good, newRows, newRecency) \/ Forbidden(i),
         \A x : Right(x, t, rows) => Right(AfterCall(good, x), t, newRows)
  PROVE  StaysRight(i, t)
<1> DEFINE failed == [calls[i] EXCEPT !.state = "error"]
<1>1. calls \in Seq(Calls) /\ calls[i] \in Calls
  BY DEF PagesInductive, CallsFit
<1>2. failed.op = calls[i].op /\ failed.state = "error"
  BY <1>1, FailedIs
<1>3. [calls EXCEPT ![i].state = "error"] = [calls EXCEPT ![i] = failed]
  BY <1>1
<1> HIDE DEF failed
<1>4. \/ calls' = [calls EXCEPT ![i] = good] /\ rows' = newRows
      \/ calls' = [calls EXCEPT ![i] = failed] /\ rows' = rows
  BY <1>3 DEF Answer, Forbidden, NothingLost
<1>5. \A x : AfterCall(failed, x) = x
  BY <1>2 DEF AfterCall
<1> QED
  BY <1>2, <1>4, <1>5 DEF StaysRight

LEMMA ServeListRight ==
  ASSUME PagesInductive, NothingLost, NEW i \in 1..Len(calls), NEW t, ServeList(i)
  PROVE  StaysRight(i, t)
<1>1. PICK got : Answer(i, [calls[i] EXCEPT !.state = "ok", !.got = got], rows, recency)
  BY DEF ServeList
<1> DEFINE good == [calls[i] EXCEPT !.state = "ok", !.got = got]
<1>2. calls[i] \in ListCalls /\ calls[i].op = "list"
  BY RequestIs, CallIs DEF ServeList
<1>3. good.op = "list" /\ good.state = "ok"
  BY <1>2 DEF ListCalls
<1> HIDE DEF good
<1>4. \A x : AfterCall(good, x) = x
  BY <1>3 DEF AfterCall
<1>5. Answer(i, good, rows, recency)
  BY <1>1 DEF good
<1> QED
  BY <1>2, <1>3, <1>4, <1>5, AnswerRight

LEMMA ServeUpdateRight ==
  ASSUME PagesInductive, NothingLost, NEW i \in 1..Len(calls), NEW t \in Tickets, ServeUpdate(i)
  PROVE  StaysRight(i, t)
<1> DEFINE c == calls[i]
           s == c.on
           row == Patched(rows[s], c.want)
           good == [c EXCEPT !.state = "ok", !.got = Ticket(s, row, <<>>, <<>>)]
           newRows == [rows EXCEPT ![s] = row]
<1>1. /\ c.op = "update" /\ c \in UpdateCalls /\ rows \in [Tickets -> RowType]
      /\ s \in Tickets /\ c.want \in PatchType
  BY RequestIs, CallIs DEF ServeUpdate, UpdateCalls, PagesInductive, RowsKnown
<1>2. /\ good.op = "update" /\ good.state = "ok" /\ good.on = s /\ good.want = c.want
      /\ good.got = Ticket(s, row, <<>>, <<>>)
  BY <1>1 DEF UpdateCalls
<1>3. Answer(i, good, newRows, Touched(s)) \/ Forbidden(i)
  BY Zenon DEF ServeUpdate
<1>4. ASSUME NEW x, Right(x, t, rows) PROVE Right(AfterCall(good, x), t, newRows)
  <2>1. CASE x.id = s
    <3>1. Right(WithName(Merge(Ticket(s, row, <<>>, <<>>), x), c.want), t, newRows)
      BY <1>1, <1>4, <2>1, UpdateRight
    <3>2. AfterCall(good, x) = WithName(Merge(Ticket(s, row, <<>>, <<>>), x), c.want)
      <4> HIDE DEF good, row, s
      <4> QED
        BY <1>2, <2>1 DEF AfterCall, Follows
    <3> QED
      BY <3>1, <3>2
  <2>2. CASE x.id # s
    <3>1. Right(x, t, newRows)
      <4> HIDE DEF row
      <4> QED
        BY <1>1, <1>4, <2>2, OtherRight
    <3>2. AfterCall(good, x) = x
      <4> HIDE DEF good, s
      <4> QED
        BY <1>2, <2>2 DEF AfterCall
    <3> QED
      BY <3>1, <3>2
  <2> QED
    BY <2>1, <2>2
<1> HIDE DEF good, newRows
<1> QED
  BY <1>1, <1>2, <1>3, <1>4, AnswerRight

LEMMA ServeCommentRight ==
  ASSUME PagesInductive, NothingLost, NEW i \in 1..Len(calls), NEW t \in Tickets, ServeComment(i)
  PROVE  StaysRight(i, t)
<1> DEFINE c == calls[i]
           s == c.on
           row == [rows[s] EXCEPT !.comments = Append(@, c.want),
                     !.status = IF Role = "student" /\ @ = "resolved" THEN "open" ELSE @]
           good == [c EXCEPT !.state = "ok"]
           newRows == [rows EXCEPT ![s] = row]
<1>1. /\ c.op = "comment" /\ c \in CommentCalls /\ rows \in [Tickets -> RowType]
      /\ s \in Tickets /\ c.want \in Comments
  BY RequestIs, CallIs DEF ServeComment, CommentCalls, PagesInductive, RowsKnown
<1>2. good.op = "comment" /\ good.state = "ok" /\ good.on = s /\ good.want = c.want
  BY <1>1 DEF CommentCalls
<1>3. \E newRecency : Answer(i, good, newRows, newRecency) \/ Forbidden(i)
  BY Zenon DEF ServeComment
<1>4. ASSUME NEW x, Right(x, t, rows) PROVE Right(AfterCall(good, x), t, newRows)
  <2>1. CASE x.id = s
    <3>1. Right([x EXCEPT !.comments = Append(@, c.want)], t, newRows)
      BY <1>1, <1>4, <2>1, CommentRight
    <3>2. AfterCall(good, x) = [x EXCEPT !.comments = Append(@, c.want)]
      <4> HIDE DEF good, s
      <4> QED
        BY <1>2, <2>1 DEF AfterCall, Follows
    <3> QED
      BY <3>1, <3>2, SMTT(60)
  <2>2. CASE x.id # s
    <3>1. Right(x, t, newRows)
      <4> HIDE DEF row
      <4> QED
        BY <1>1, <1>4, <2>2, OtherRight
    <3>2. AfterCall(good, x) = x
      <4> HIDE DEF good, s
      <4> QED
        BY <1>2, <2>2 DEF AfterCall
    <3> QED
      BY <3>1, <3>2
  <2> QED
    BY <2>1, <2>2
<1> HIDE DEF good, newRows
<1> QED
  BY <1>1, <1>2, <1>3, <1>4, AnswerRight

LEMMA ServeFilesRight ==
  ASSUME PagesInductive, NothingLost, NEW i \in 1..Len(calls), NEW t \in Tickets, ServeFiles(i),
         calls[i].op # "uploadNew"
  PROVE  StaysRight(i, t)
<1> DEFINE c == calls[i]
           s == c.on
           files == IF c.op = "remove" THEN Without(rows[s].files, c.want)
                    ELSE Append(rows[s].files, c.want)
           good == [c EXCEPT !.state = "ok"]
           newRows == [rows EXCEPT ![s].files = files]
<1>1. /\ c.op \in {"upload", "remove"} /\ c \in FileCalls /\ rows \in [Tickets -> RowType]
      /\ s \in Tickets /\ c.want \in Files
  BY RequestIs, CallIs DEF ServeFiles, FileCalls, PagesInductive, RowsKnown
<1>2. good.op = c.op /\ good.state = "ok" /\ good.on = s /\ good.want = c.want
  BY <1>1 DEF FileCalls
<1>3. Answer(i, good, newRows, recency) \/ Forbidden(i)
  BY Zenon DEF ServeFiles
<1>4. files \in Seq(Files)
  <2>1. rows[s].files \in Seq(Files)
    BY <1>1, SMTT(60) DEF RowType
  <2> QED
    BY <1>1, <2>1, WithoutIs
<1>5. ASSUME NEW x, Right(x, t, rows) PROVE Right(AfterCall(good, x), t, newRows)
  <2>1. CASE x.id = s
    <3>1. Right([x EXCEPT !.files = files], t, newRows)
      <4> HIDE DEF files
      <4> QED
        BY <1>1, <1>4, <1>5, <2>1, FilesRight
    <3>2. x.files = rows[s].files
      BY <1>1, <1>5, <2>1, RightIs, StoreAssumption
    <3>3. AfterCall(good, x) = [x EXCEPT !.files = files]
      <4> HIDE DEF good, s
      <4> QED
        BY <1>1, <1>2, <2>1, <3>2 DEF AfterCall, Follows
    <3> QED
      BY <3>1, <3>3
  <2>2. CASE x.id # s
    <3> DEFINE row == [rows[s] EXCEPT !.files = files]
    <3>1. newRows = [rows EXCEPT ![s] = row]
      BY <1>1
    <3>2. Right(x, t, newRows)
      <4> HIDE DEF row, newRows
      <4> QED
        BY <1>1, <1>5, <2>2, <3>1, OtherRight, ZenonT(60)
    <3>3. AfterCall(good, x) = x
      <4> HIDE DEF good, s
      <4> QED
        BY <1>2, <2>2, SMTT(60) DEF AfterCall
    <3> QED
      BY <3>2, <3>3
  <2> QED
    BY <2>1, <2>2
<1> HIDE DEF good, newRows
<1> QED
  BY <1>1, <1>2, <1>3, <1>5, AnswerRight

LEMMA ServeRight ==
  ASSUME PagesInductive, NothingLost, NEW i \in 1..Len(calls), NEW t \in Tickets,
         calls[i].op \in Follows, Serve(i)
  PROVE  StaysRight(i, t)
BY ServeListRight, ServeUpdateRight, ServeCommentRight, ServeFilesRight, ZenonT(60)
DEF Serve, ServeDetail, ServeBulk, ServeCreate, Follows

\* The page's fetch reads one part more, or fails.
LEMMA ServeDetailRight ==
  ASSUME PagesInductive, NothingLost, NEW i \in 1..Len(calls), NEW t \in Tickets, calls[i].on = t,
         PartsNow(calls[i], rows[t]), ServeDetail(i)
  PROVE  /\ rows' = rows
         /\ \E c : /\ calls' = [calls EXCEPT ![i] = c] /\ c.op = "detail" /\ c.on = t
                   /\ IF c.state = "sent" THEN PartsNow(c, rows[t]) ELSE Right(Fetched(c), t, rows)
<1> DEFINE c == calls[i]
           got(part) ==
             CASE part = "row"      -> [c.got EXCEPT !.id = c.on, !.name = rows[c.on].assignee,
                                          !.status = rows[c.on].status, !.dept = rows[c.on].dept,
                                          !.assignee = rows[c.on].assignee]
               [] part = "comments" -> [c.got EXCEPT !.comments = rows[c.on].comments]
               [] part = "files"    -> [c.got EXCEPT !.files = rows[c.on].files]
           good(part) == [c EXCEPT !.left = @ \ {part}, !.got = got(part),
                            !.state = IF c.left = {part} THEN "ok" ELSE "sent"]
           failed == [c EXCEPT !.state = "error"]
<1>1. /\ c \in DetailCalls /\ c.op = "detail" /\ DetailFits(c, rows) /\ c \in Calls
      /\ rows \in [Tickets -> RowType] /\ rows[t] \in RowType /\ calls \in Seq(Calls)
      /\ c.left \subseteq {"row", "comments", "files"} /\ c.got \in TicketType
  BY RequestIs, CallIs, Zenon
  DEF ServeDetail, PagesInductive, RowsKnown, CallsFit, DetailCalls, Fits
<1>2. failed.op = "detail" /\ failed.state = "error" /\ failed.on = t
  BY <1>1, FailedIs
<1>3. [calls EXCEPT ![i].state = "error"] = [calls EXCEPT ![i] = failed]
  BY <1>1
<1>4. PICK part \in c.left : Answer(i, good(part), rows, recency) \/ Forbidden(i)
  BY ZenonT(60) DEF ServeDetail
<1> DEFINE y == got(part)
           d == good(part)
<1>5. /\ y \in TicketType /\ y.name = y.assignee
      /\ y.id = IF part = "row" THEN t ELSE c.got.id
      /\ y.status = IF part = "row" THEN rows[t].status ELSE c.got.status
      /\ y.dept = IF part = "row" THEN rows[t].dept ELSE c.got.dept
      /\ y.assignee = IF part = "row" THEN rows[t].assignee ELSE c.got.assignee
      /\ y.comments = IF part = "comments" THEN rows[t].comments ELSE c.got.comments
      /\ y.files = IF part = "files" THEN rows[t].files ELSE c.got.files
  <2>1. part \in {"row", "comments", "files"} /\ c.got.name = c.got.assignee
    BY <1>1 DEF DetailFits
  <2>2. CASE part = "row"
    BY <1>1, <2>2 DEF TicketType, RowType
  <2>3. CASE part = "comments"
    BY <1>1, <2>1, <2>3 DEF TicketType, RowType
  <2>4. CASE part = "files"
    BY <1>1, <2>1, <2>4 DEF TicketType, RowType
  <2> QED
    BY <2>1, <2>2, <2>3, <2>4
<1> HIDE DEF y
<1>6. /\ d.op = "detail" /\ d.on = t /\ d.left = c.left \ {part} /\ d.got = y
      /\ d.state = IF c.left = {part} THEN "ok" ELSE "sent"
  BY <1>1 DEF DetailCalls, y
<1> HIDE DEF d, failed
<1>7. PartsNow(d, rows[t])
  BY <1>5, <1>6 DEF PartsNow
<1>8. c.got.id = IF "row" \in c.left THEN NoTicket ELSE t
  BY <1>1 DEF DetailFits
<1>9. ASSUME d.state # "sent" PROVE Right(Fetched(d), t, rows)
  <2>1. d.left = {} /\ c.left = {part}
    BY <1>6, <1>9
  <2>2. y.id = t
    BY <1>5, <1>8, <2>1
  <2>3. Right(y, t, rows)
    BY <1>1, <1>5, <1>6, <1>7, <2>1, <2>2, IsRight DEF PartsNow, Named
  <2> QED
    BY <1>6, <2>3 DEF Fetched, Right
<1>10. Right(Fetched(failed), t, rows)
  BY <1>2 DEF Fetched, Right
<1>11. rows' = rows /\ calls' \in {[calls EXCEPT ![i] = d], [calls EXCEPT ![i] = failed]}
  BY <1>3, <1>4 DEF Answer, Forbidden, d
<1> QED
  BY <1>2, <1>6, <1>7, <1>9, <1>10, <1>11

LEMMA ServeFits ==
  ASSUME PagesInductive, InTurns(calls), InOrder, NothingLost, NEW t \in Tickets,
         NEW k, PageFits(calls, k, store, rows, t), NEW i \in 1..Len(calls), Serve(i)
  PROVE  PageFits(calls', k, store, rows', t)
<1>1. /\ calls \in Seq(Calls) /\ calls[i].state = "sent"
      /\ \A j \in 1..(i - 1) : calls[j].state # "sent"
  BY DEF PagesInductive, CallsFit, Serve, InTurn
<1>2. k \in 0..Len(calls) /\ k \in Int /\ i \in Int
  BY <1>1 DEF PageFits, LastFetch
<1>3. CASE i < k
  <2>1. PICK c : calls' = [calls EXCEPT ![i] = c] /\ c.op = calls[i].op
    BY ServeChanges
  <2>2. ~(i > k) /\ i # k
    BY <1>2, <1>3
  <2> QED
    BY <1>1, <2>1, <2>2, FitsChanged
<1>4. CASE i = k
  <2>1. calls[i].op = "detail" /\ calls[i].on = t /\ PartsNow(calls[i], rows[t])
    BY <1>1, <1>4 DEF PageFits, LastFetch
  <2>2. ServeDetail(i)
    BY <2>1 DEF Serve, ServeList, ServeUpdate, ServeBulk, ServeComment, ServeFiles, ServeCreate
  <2>3. PICK c : /\ calls' = [calls EXCEPT ![i] = c] /\ c.op = "detail" /\ c.on = t /\ rows' = rows
                 /\ IF c.state = "sent" THEN PartsNow(c, rows[t]) ELSE Right(Fetched(c), t, rows)
    BY <2>1, <2>2, ServeDetailRight
  <2>4. ~(i > k)
    BY <1>2, <1>4
  <2> QED
    BY <1>1, <2>1, <2>3, <2>4, FitsChanged
<1>5. CASE i > k
  <2>1. i \in (k + 1)..Len(calls) /\ i # k
    BY <1>1, <1>2, <1>5
  <2>2. calls[i].op \in Follows
    BY <2>1 DEF PageFits, LastFetch
  <2>3. PICK c : /\ calls' = [calls EXCEPT ![i] = c] /\ c.op = calls[i].op /\ c.state # "sent"
                 /\ \A x : Right(x, t, rows) => Right(AfterCall(c, x), t, rows')
    BY <2>2, ServeRight DEF StaysRight
  <2> QED
    BY <1>1, <2>1, <2>3, FitsChanged
<1> QED
  BY <1>2, <1>3, <1>4, <1>5

\* What the page shows after an answer is what the answer makes of it.
LEMMA UpdateShown ==
  ASSUME NEW s, StoreFits(s, rows), NEW c \in UpdateCalls, UpdateFits(c), c.state = "ok"
  PROVE  Renamed(TicketUpdated(s, c.got), c).selected = AfterCall(c, s.selected)
<1> DEFINE x == s.selected
           u == TicketUpdated(s, c.got)
           y == Merge(c.got, x)
<1>1. /\ s \in StoreType /\ x \in TicketType /\ Named(x)
      /\ c.op = "update" /\ c.got \in Bare /\ c.got.id = c.on
  BY DEF StoreFits, StoreType, UpdateCalls, UpdateFits
<1>2. u.selected = (IF x.id = c.on THEN y ELSE x) /\ u \in StoreType
  <2>1. StoreFits(u, rows)
    BY <1>1, TicketUpdatedFits
  <2>2. "selected" \in DOMAIN s
    BY <1>1 DEF StoreType
  <2> QED
    BY <1>1, <2>1, <2>2 DEF TicketUpdated, StoreFits
<1> HIDE DEF u
<1>3. x.id = c.on => y.id = x.id
  BY <1>1, MergeIs
<1> HIDE DEF x, y
<1>4. AfterCall(c, x) = IF x.id = c.on THEN WithName(y, c.want) ELSE x
  BY <1>1 DEF AfterCall, Follows, y
<1>5. CASE c.want.name # Keep /\ x.id = c.on
  <2>1. u.selected = y /\ u.selected.id = c.on
    BY <1>2, <1>3, <1>5
  <2>2. Renamed(u, c) = [u EXCEPT !.selected = [y EXCEPT !.name = c.want.name]]
    BY <1>5, <2>1 DEF Renamed
  <2>3. Renamed(u, c).selected = [y EXCEPT !.name = c.want.name]
    BY <1>2, <2>2 DEF StoreType
  <2> QED
    BY <1>4, <1>5, <2>3 DEF WithName, u, x
<1>6. CASE ~(c.want.name # Keep /\ x.id = c.on)
  <2>1. Renamed(u, c) = u
    BY <1>2, <1>6 DEF Renamed
  <2> QED
    BY <1>2, <1>4, <1>6, <2>1 DEF WithName, u, x
<1> QED
  BY <1>5, <1>6

LEMMA CommentShown ==
  ASSUME NEW s, StoreFits(s, rows), NEW c \in CommentCalls, c.state = "ok"
  PROVE  CommentAdded(s, c.on, c.want).selected = AfterCall(c, s.selected)
<1>1. "selected" \in DOMAIN s /\ c.op = "comment"
  BY DEF StoreFits, StoreType, CommentCalls
<1> QED
  BY <1>1 DEF CommentAdded, AfterCall, Follows

LEMMA FileShown ==
  ASSUME NEW s, StoreFits(s, rows), NEW c \in FileCalls, c.state = "ok"
  PROVE  /\ c.op = "upload" => FileUploaded(s, c.on, c.want).selected = AfterCall(c, s.selected)
         /\ c.op = "remove" => FileRemoved(s, c.on, c.want).selected = AfterCall(c, s.selected)
<1>1. "selected" \in DOMAIN s
  BY DEF StoreFits, StoreType
<1> QED
  BY <1>1 DEF FileUploaded, FileRemoved, FilesPatched, AfterCall, Follows

\* A change's answer neither opens nor closes a ticket, and it does not clear
\* the error.
LEMMA ChangeTaken ==
  ASSUME PagesInductive, NEW i \in 1..Len(calls), TakeUpdate(i) \/ TakeComment(i) \/ TakeFile(i)
  PROVE  /\ calls[i].op \in Follows \ {"list"} /\ calls[i].state # "sent"
         /\ calls' = Others(i) /\ place' = place /\ rows' = rows
         /\ store'.selected = AfterCall(calls[i], store.selected)
         /\ store'.selected = Nothing => store.selected = Nothing
         /\ store'.error = store.error \/ store'.error # "none"
<1> DEFINE c == calls[i]
<1>1. /\ c.op \in Follows \ {"list"} /\ c.state # "sent" /\ c.op \in Mutations
      /\ calls' = Others(i) /\ place' = place /\ rows' = rows
  BY DEF TakeUpdate, TakeComment, TakeFile, Taken, Stay, Follows, Mutations
<1>2. /\ StoreFits(store, rows) /\ store \in StoreType /\ c \in Calls /\ Fits(c, rows)
      /\ c.op = "update" => c \in UpdateCalls /\ UpdateFits(c)
      /\ c.op = "comment" => c \in CommentCalls
      /\ c.op \in {"upload", "remove"} => c \in FileCalls
      /\ c.on \in Tickets
  <2>1. StoreFits(store, rows) /\ store \in StoreType /\ c \in Calls /\ Fits(c, rows)
    BY RequestIs DEF PagesInductive, StoreFits
  <2>2. /\ c.op = "update" => c \in UpdateCalls /\ UpdateFits(c)
        /\ c.op = "comment" => c \in CommentCalls
        /\ c.op \in {"upload", "remove"} => c \in FileCalls
    BY <2>1, CallIs DEF Fits
  <2>3. c.on \in Tickets
    BY <1>1, <2>2 DEF Follows, UpdateCalls, CommentCalls, FileCalls
  <2> QED
    BY <2>1, <2>2, <2>3
<1>3. CASE ~Ok(i)
  <2>1. store' = MutationFailed(store, c.op)
    BY <1>3 DEF TakeUpdate, TakeComment, TakeFile, Taken
  <2>2. store'.selected = store.selected /\ store'.error = c.op /\ "none" \notin Mutations
    BY <1>2, <2>1 DEF MutationFailed, StoreType, Mutations
  <2>3. AfterCall(c, store.selected) = store.selected
    BY <1>3 DEF AfterCall, Ok
  <2> QED
    BY <1>1, <2>2, <2>3
<1>4. CASE Ok(i)
  <2>1. /\ store'.selected = AfterCall(c, store.selected) /\ store'.error = store.error
        /\ store'.selected.id = store.selected.id
    <3>1. CASE TakeUpdate(i)
      <4>1. c.op = "update" /\ store' = Renamed(TicketUpdated(store, c.got), c) /\ c.state = "ok"
        BY <1>4, <3>1 DEF TakeUpdate, Taken, Ok
      <4>2. c \in UpdateCalls /\ UpdateFits(c) /\ c.got \in Bare /\ c.got.id = c.on
            /\ (c.want.assignee # Keep => c.got.assignee = c.want.assignee)
        BY <1>2, <4>1 DEF UpdateFits
      <4> DEFINE u == TicketUpdated(store, c.got)
      <4>3. /\ StoreFits(u, rows) /\ u.selected.id = store.selected.id
            /\ store.selected.id = c.got.id => u.selected.assignee = c.got.assignee
        BY <1>2, <4>2, TicketUpdatedFits
      <4>4. u.error = store.error
        BY <1>2 DEF TicketUpdated, StoreType
      <4> HIDE DEF u
      <4>5. Renamed(u, c).selected.id = u.selected.id
        BY <4>2, <4>3, RenamedFits
      <4>6. Renamed(u, c).error = u.error
        BY <4>3 DEF Renamed, StoreFits, StoreType
      <4> QED
        BY <1>2, <4>1, <4>2, <4>3, <4>4, <4>5, <4>6, UpdateShown DEF u
    <3>2. CASE TakeComment(i)
      <4>1. /\ c.op = "comment" /\ store' = CommentAdded(store, c.on, c.want) /\ c.state = "ok"
            /\ c.want \in ToSet(rows[c.on].comments) /\ c \in CommentCalls /\ c.want \in Comments
        BY <1>2, <1>4, <3>2 DEF TakeComment, Taken, Ok, Fits, CommentCalls
      <4>2. store'.selected.id = store.selected.id
        BY <1>2, <4>1, CommentAddedFits
      <4>3. store'.error = store.error
        BY <1>2, <4>1 DEF CommentAdded, StoreType
      <4> QED
        BY <1>2, <4>1, <4>2, <4>3, CommentShown
    <3>3. CASE TakeFile(i)
      <4>1. /\ c.state = "ok" /\ c \in FileCalls /\ c.want \in Files
            /\ \/ c.op = "upload" /\ store' = FileUploaded(store, c.on, c.want)
               \/ c.op = "remove" /\ store' = FileRemoved(store, c.on, c.want)
        BY <1>2, <1>4, <3>3 DEF TakeFile, Taken, Ok, FileCalls
      <4>2. store'.selected.id = store.selected.id
        BY <1>2, <4>1, FileUploadedFits, FileRemovedFits
      <4>3. store'.error = store.error
        BY <1>2, <4>1 DEF FileUploaded, FileRemoved, FilesPatched, StoreType
      <4> QED
        BY <1>2, <4>1, <4>2, <4>3, FileShown
    <3> QED
      BY <3>1, <3>2, <3>3
  <2>2. ASSUME store'.selected = Nothing PROVE store.selected = Nothing
    <3>1. store.selected.id # c.on
      BY <1>2, <2>1, <2>2, NothingIs, StoreAssumption
    <3> QED
      BY <2>1, <2>2, <3>1 DEF AfterCall
  <2> QED
    BY <1>1, <2>1, <2>2
<1> QED
  BY <1>3, <1>4

LEMMA TakeFits ==
  ASSUME PagesInductive, InOrder, OnPage("detail"), NEW t,
         NEW k, PageFits(calls, k, store, rows, t), NEW i \in 1..Len(calls), Take(i),
         place'.page = "detail", ~Has(calls', {"uploadNew"})
  PROVE  \E m : PageFits(calls', m, store', rows, t)
<1> DEFINE c == calls[i]
<1>1. /\ calls \in Seq(Calls) /\ calls # <<>> /\ i = 1 /\ c.state # "sent"
      /\ store \in StoreType /\ StoreFits(store, rows) /\ c \in Calls /\ Fits(c, rows)
  <2>1. i = 1 /\ c.state # "sent"
    BY DEF Take, TakeList, TakeDetail, TakeCreate, TakeUploadNew, TakeUpdate, TakeComment,
       TakeFile, TakeBulk, Taken
  <2> QED
    BY <2>1, RequestIs DEF PagesInductive, CallsFit, StoreFits
<1>2. /\ Others(i) = RemoveAt(calls, 1) /\ Others(i) \in Seq(Calls)
  BY <1>1, RemovedIs DEF Others
<1>3. /\ k = 0 => c.op \in Follows
      /\ k = 1 => c.op = "detail"
      /\ k = 0 /\ store.selected = Nothing => store.error # "none"
  <2>1. 1 \in 1..Len(calls) /\ 0 + 1 = 1
    BY <1>1
  <2> QED
    BY <1>1, <2>1 DEF PageFits, LastFetch
<1>4. ASSUME NEW u,
             k = 0 => u.selected = AfterCall(c, store.selected),
             k = 1 => u.selected = Fetched(c),
             k \in {0, 1} /\ u.selected = Nothing => u.error # "none"
      PROVE  \E m : PageFits(Others(i), m, u, rows, t) /\ (k \notin {0, 1} => m # 0)
  BY <1>1, <1>2, <1>4, FitsTaken
<1>5. CASE TakeList(i)
  <2>1. /\ calls' = Others(i) /\ c.op = "list"
        /\ store' = IF Ok(i) THEN ListAnswered(store, c) ELSE ListFailed(store)
    BY <1>5 DEF TakeList, Taken
  <2>2. store'.selected = store.selected /\ store'.error \in {store.error, "list"}
    <3>1. \/ \E a, b, p, d : store' = [store EXCEPT !.items = a, !.total = b, !.page = p,
                                                    !.pageSize = d, !.loading = FALSE]
          \/ store' = [store EXCEPT !.loading = FALSE, !.error = "list"]
      BY <2>1, ZenonT(60) DEF ListAnswered, ListFailed
    <3> QED
      BY <1>1, <3>1 DEF StoreType
  <2>3. AfterCall(c, store.selected) = store.selected /\ k # 1
    BY <1>3, <2>1 DEF AfterCall
  <2>4. k = 0 /\ store'.selected = Nothing => store'.error # "none"
    BY <1>3, <2>2
  <2> QED
    BY <1>4, <2>1, <2>2, <2>3, <2>4
<1>6. CASE TakeDetail(i)
  <2>1. /\ calls' = Others(i) /\ c.op = "detail" /\ k # 0
        /\ store' = IF Ok(i) /\ Visible(c.got)
                    THEN DetailAnswered(store, c) ELSE DetailFailed(store)
    BY <1>3, <1>6 DEF TakeDetail, Taken, Follows
  <2>2. c \in DetailCalls /\ DetailFits(c, rows)
    BY <1>1, <2>1, CallIs DEF Fits
  <2>3. store'.selected = Fetched(c)
    BY <1>1, <2>1 DEF DetailAnswered, DetailFailed, Fetched, Ok, StoreType
  <2>4. store'.selected = Nothing => store'.error # "none"
    <3>1. CASE Ok(i) /\ Visible(c.got)
      <4>1. c.got.id \in Tickets
        BY <2>2, <3>1 DEF DetailFits, DetailCalls, Ok
      <4> QED
        BY <2>3, <3>1, <4>1, NothingIs, StoreAssumption DEF Fetched, Ok
    <3>2. CASE ~(Ok(i) /\ Visible(c.got))
      <4>1. store'.error = "detail"
        BY <1>1, <2>1, <3>2 DEF DetailFailed, StoreType
      <4> QED
        BY <4>1
    <3> QED
      BY <3>1, <3>2
  <2> QED
    BY <1>4, <2>1, <2>3, <2>4
<1>7. CASE TakeUpdate(i) \/ TakeComment(i) \/ TakeFile(i)
  <2>1. /\ c.op \in Follows \ {"list"} /\ calls' = Others(i)
        /\ store'.selected = AfterCall(c, store.selected)
        /\ store'.selected = Nothing => store.selected = Nothing
        /\ store'.error = store.error \/ store'.error # "none"
    BY <1>7, ChangeTaken
  <2>2. k # 1 /\ (k = 0 /\ store'.selected = Nothing => store'.error # "none")
    BY <1>3, <2>1 DEF Follows
  <2> QED
    BY <1>4, <2>1, <2>2
<1>8. CASE TakeBulk(i)
  <2>1. PICK d \in Calls : d.op = "list" /\ d.state = "sent" /\ calls' = Append(Others(i), d)
    BY <1>8, TakenBulk
  <2>2. k \notin {0, 1}
    BY <1>3, <1>8, TakenBulk DEF Follows
  <2>3. PICK m : PageFits(Others(i), m, store', rows, t) /\ m # 0
    BY <1>4, <2>2
  <2>4. PageFits(Append(Others(i), d), m, store', rows, t)
    BY <1>2, <2>1, <2>3, FitsAdded DEF Follows
  <2> QED
    BY <2>1, <2>4
<1>9. CASE TakeCreate(i) \/ TakeUploadNew(i)
  <2>1. c.op \in {"create", "uploadNew"} /\ k \notin {0, 1}
    BY <1>3, <1>9, TakenForms DEF Follows
  <2>2. CASE calls' = Others(i)
    BY <1>4, <2>1, <2>2
  <2>3. ASSUME NEW s, Enter(s, Others(i), At("mine")) PROVE FALSE
    BY <2>3 DEF Enter, At, OnPage
  <2>4. ASSUME NEW d \in Calls, d.op = "uploadNew", calls' = Append(Others(i), d) PROVE FALSE
    <3>1. Has(calls', {"uploadNew"})
      <4>1. Len(calls') = Len(Others(i)) + 1 /\ calls'[Len(Others(i)) + 1] = d
        BY <1>2, <2>4, AppendIs
      <4>2. Len(Others(i)) + 1 \in 1..(Len(Others(i)) + 1)
        BY <1>2
      <4> QED
        BY <2>4, <4>1, <4>2 DEF Has
    <3> QED
      BY <3>1
  <2> QED
    BY <1>9, <2>2, <2>3, <2>4, TakenForms
<1> QED
  BY <1>5, <1>6, <1>7, <1>8, <1>9 DEF Take

\* The page asks for its ticket when the user comes to it.
LEMMA GoesFits ==
  ASSUME PagesInductive, NEW p \in Places \cup {At("queue")}, Goes(p), place'.page = "detail"
  PROVE  \E k : PageFits(calls', k, store', rows, place'.ticket)
<1>1. place' = p /\ calls' = Orphaned(calls) \o MountCalls(store, p) /\ p.page = "detail"
  BY DEF Goes, Enter
<1>2. p.ticket \in Tickets /\ Orphaned(calls) \in Seq(Calls)
  BY <1>1, PlaceKnown, OrphanedSame DEF PagesInductive
<1> DEFINE cs == Orphaned(calls)
           d == DetailCall(p.ticket)
           k == Len(cs) + 1
<1>3. d \in Calls
  BY <1>2, DetailCallFits
<1>4. d.op = "detail" /\ d.state = "sent" /\ d.on = p.ticket /\ d.left = Parts
  BY DEF DetailCall, Parts
<1>5. MountCalls(store, p) = <<d>>
  BY <1>1 DEF MountCalls, ListPages
<1> HIDE DEF cs, d
<1>6. calls' = Append(cs, d)
  BY <1>1, <1>2, <1>5 DEF cs
<1>7. cs \in Seq(Calls)
  BY <1>2 DEF cs
<1>8. Len(calls') = k /\ calls'[k] = d
  BY <1>3, <1>6, <1>7, AppendIs
<1>9. k \in 0..k /\ k # 0 /\ (k + 1)..k = {}
  BY <1>7
<1>10. LastFetch(calls', k, p.ticket)
  BY <1>4, <1>8, <1>9 DEF LastFetch
<1>11. PartsNow(d, rows[p.ticket])
  BY <1>4 DEF PartsNow, Parts
<1> HIDE DEF k
<1>12. PageFits(calls', k, store', rows, p.ticket)
  BY <1>4, <1>8, <1>9, <1>10, <1>11 DEF PageFits
<1> QED
  BY <1>1, <1>12

\* What the page sends when its user changes the ticket.
LEMMA BeginsFits ==
  ASSUME PagesInductive, OnPage("detail"), NEW t, NEW k, PageFits(calls, k, store, rows, t),
         NEW c, Begins(c)
  PROVE  PageFits(calls', k, store', rows, t)
<1>1. /\ calls \in Seq(Calls) /\ store \in StoreType
      /\ calls' = Append(calls, c) /\ c \in Calls /\ c.state = "sent" /\ c.op \in Follows
      /\ store.selected.id # NoTicket /\ store' = StartMutation(store)
  BY DEF PagesInductive, CallsFit, StoreFits, Begins, OnPage, OnTicket, Shown, Follows
<1>2. store'.selected = store.selected /\ store'.selected # Nothing
  BY <1>1, NothingIs DEF StartMutation, StoreType
<1> QED
  BY <1>1, <1>2, FitsAdded

\* A form's file that is on its way ends on My tickets.
LEMMA FileWaits ==
  ASSUME PagesInductive, OnPage("detail"), NEW i \in 1..Len(calls), Take(i),
         place'.page = "detail", Has(calls, {"uploadNew"})
  PROVE  Has(calls', {"uploadNew"})
<1>1. \A s : ~Enter(s, Others(i), At("mine"))
  BY DEF Enter, At, OnPage
<1>2. ~TakeUploadNew(i)
  BY <1>1, Zenon DEF TakeUploadNew
<1>3. calls[i].op # "uploadNew" /\ CallsFit(Others(i), rows)
  <2>1. \E op : Taken(i, op) /\ op # "uploadNew"
    BY <1>2 DEF Take, TakeList, TakeDetail, TakeCreate, TakeUpdate, TakeComment, TakeFile, TakeBulk
  <2> QED
    BY <2>1, TakenIs
<1>4. Has(Others(i), {"uploadNew"}) /\ Others(i) \in Seq(Calls)
  BY <1>3, CallRemoved DEF Others, PagesInductive, CallsFit
<1>5. ASSUME NEW d \in Calls, calls' = Append(Others(i), d) PROVE Has(calls', {"uploadNew"})
  <2>1. /\ Len(calls') = Len(Others(i)) + 1
        /\ \A j \in 1..Len(Others(i)) : calls'[j] = Others(i)[j] /\ j \in 1..Len(calls')
    BY <1>4, <1>5, AppendIs
  <2> QED
    BY <1>4, <2>1 DEF Has
<1>6. CASE TakeCreate(i)
  BY <1>1, <1>4, <1>5, <1>6, TakenForms
<1>7. CASE TakeBulk(i)
  BY <1>5, <1>7, TakenBulk
<1>8. CASE TakeList(i) \/ TakeDetail(i) \/ TakeUpdate(i) \/ TakeComment(i) \/ TakeFile(i)
  BY <1>4, <1>8 DEF TakeList, TakeDetail, TakeUpdate, TakeComment, TakeFile
<1> QED
  BY <1>2, <1>6, <1>7, <1>8 DEF Take

LEMMA ServedOps ==
  ASSUME PagesInductive, NEW i \in 1..Len(calls), Serve(i), NEW ops
  PROVE  Has(calls, ops) => Has(calls', ops)
<1>1. calls \in Seq(Calls)
  BY DEF PagesInductive, CallsFit
<1>2. PICK c : calls' = [calls EXCEPT ![i] = c] /\ c.op = calls[i].op
  BY ServeChanges
<1>3. Len(calls') = Len(calls) /\ \A j \in 1..Len(calls) : calls'[j].op = calls[j].op
  BY <1>1, <1>2
<1> QED
  BY <1>3 DEF Has

LEMMA SamePage ==
  ASSUME session' = session,
         \E k : PageFits(calls', k, store', rows', place'.ticket)
  PROVE  (\E k : PageFits(calls, k, store, rows, place.ticket))'
<1>1. PICK k : PageFits(calls', k, store', rows', place'.ticket)
  OBVIOUS
<1>2. LastFetch(calls', k, place'.ticket) <=> LastFetch(calls, k, place.ticket)'
  BY DEF LastFetch, Follows
<1>3. PartsNow(calls'[k], rows'[place'.ticket]) <=> PartsNow(calls[k], rows[place.ticket])'
  BY DEF PartsNow
<1>4. Nothing' = Nothing
  BY DEF Nothing, Ticket
<1>5. Fetched(calls'[k]) = Fetched(calls[k])'
  BY <1>1, <1>4 DEF Fetched, Visible, Role
<1>6. ASSUME NEW v, Right(v[Len(calls')], place'.ticket, rows')
      PROVE  Right(v[Len(calls)], place.ticket, rows)'
  BY <1>1, <1>4, <1>6, SMTT(60) DEF Right, UpToDate, Role, Ticket
<1>7. ASSUME NEW v, Shows(calls', k, store'.selected, v)
      PROVE  Shows(calls, k, store.selected, v)'
  BY <1>1, <1>5, <1>7, ZenonT(60) DEF Shows, AfterCall, WithName, Merge, Without, EntriesAt, Follows
<1> QED
  BY <1>1, <1>2, <1>3, <1>4, <1>6, <1>7 DEF PageFits

LEMMA StepDetail ==
  ASSUME PagesInductive, TurnsInductive, DetailInductive, [Next]_vars
  PROVE  DetailInductive'
<1>1. session' = session
  BY SessionStays
<1> SUFFICES ASSUME InOrder, NothingLost, place'.page = "detail", ~Has(calls', {"uploadNew"})
             PROVE  \E k : PageFits(calls', k, store', rows', place'.ticket)
  BY <1>1, SamePage DEF DetailInductive, InOrder, NothingLost, Faults, OnPage, Has
<1>2. calls \in Seq(Calls) /\ InTurns(calls)
  BY DEF PagesInductive, CallsFit, TurnsInductive
<1>3. ASSUME OnPage("detail"), ~Has(calls, {"uploadNew"})
      PROVE  \E k : PageFits(calls, k, store, rows, place.ticket)
  BY <1>3 DEF DetailInductive
<1>4. OnPage("detail") => place.ticket \in Tickets
  BY PlaceKnown DEF PagesInductive, PageKnown, OnPage, At
<1>5. CASE Act
  <2>1. rows' = rows
    BY <1>5, ActIs
  <2>2. CASE Adjusts
    <3>1. PICK filters, page : store' = [store EXCEPT !.filters = filters, !.page = page]
      BY <2>2 DEF Adjusts
    <3>2. store'.selected = store.selected /\ store'.error = store.error
      BY <3>1 DEF PagesInductive, StoreFits, StoreType
    <3>3. PICK k : PageFits(calls, k, store, rows, place.ticket)
      BY <1>3, <2>2 DEF Adjusts, OnPage
    <3>4. PageFits(calls, k, store', rows, place.ticket)
      BY <3>2, <3>3 DEF PageFits
    <3> QED
      BY <2>1, <2>2, <3>4 DEF Adjusts
  <2>3. ASSUME NEW c, Begins(c)
        PROVE  \E k : PageFits(calls', k, store', rows', place'.ticket)
    <3>1. calls' = Append(calls, c) /\ c \in Calls /\ place' = place
      BY <2>3 DEF Begins
    <3>2. /\ Len(calls') = Len(calls) + 1
          /\ \A j \in 1..Len(calls) : calls'[j] = calls[j] /\ j \in 1..Len(calls')
      BY <1>2, <3>1, AppendIs
    <3>3. ~Has(calls, {"uploadNew"})
      BY <3>2 DEF Has
    <3> QED
      BY <1>3, <2>1, <2>3, <3>1, <3>3, BeginsFits DEF OnPage
  <2> QED
    BY <1>5, <2>1, <2>2, <2>3, ActIs, GoesFits
<1>6. CASE Refetch
  BY <1>6 DEF Refetch, RefetchDue, OnList, ListPages
<1>7. CASE ServeAny
  <2>1. PICK i \in 1..Len(calls) : Serve(i) /\ UNCHANGED pages
    BY <1>2, <1>7 DEF ServeAny
  <2>2. store' = store /\ place' = place /\ ~Has(calls, {"uploadNew"}) /\ OnPage("detail")
    BY <2>1, ServedOps DEF Serve, pages, OnPage
  <2> QED
    BY <1>2, <1>3, <1>4, <2>1, <2>2, ServeFits
<1>8. CASE TakeAny
  <2>1. PICK i \in 1..Len(calls) : Take(i)
    BY <1>2, <1>8 DEF TakeAny
  <2>2. rows' = rows
    BY <2>1 DEF Take, TakeList, TakeDetail, TakeCreate, TakeUploadNew, TakeUpdate, TakeComment,
       TakeFile, TakeBulk, Taken
  <2>3. place' = place \/ place' = At("mine")
    BY <2>1, TakenForms, TakenBulk
    DEF Take, TakeList, TakeDetail, TakeUpdate, TakeComment, TakeFile, Stay, Enter
  <2>4. place' = place /\ OnPage("detail")
    BY <2>3 DEF At, OnPage
  <2> QED
    BY <1>3, <2>1, <2>2, <2>4, FileWaits, TakeFits
<1>9. CASE OthersMove
  BY <1>9 DEF OthersMove, OthersAct, NothingLost
<1>10. CASE UNCHANGED vars
  BY <1>3, <1>10 DEF vars, pages, OnPage
<1> QED
  BY <1>5, <1>6, <1>7, <1>8, <1>9, <1>10 DEF Next

LEMMA InitTurns == Init => TurnsInductive /\ DetailInductive
BY DEF Init, TurnsInductive, InTurns, DetailInductive, OnPage, At

LEMMA DetailSettles == Spec => []DetailSettled
<1>1. PagesInductive /\ DetailInductive => DetailSettled
  <2> SUFFICES ASSUME PagesInductive, DetailInductive, InOrder, NothingLost, Quiet,
                      OnPage("detail"), store.error = "none"
               PROVE  UpToDate(store.selected, place.ticket, rows[place.ticket])
    BY DEF DetailSettled, NothingLost
  <2>1. calls = <<>> /\ ~Has(calls, {"uploadNew"})
    BY DEF Quiet, Has
  <2>2. PICK k : PageFits(calls, k, store, rows, place.ticket)
    BY <2>1 DEF DetailInductive
  <2>3. k = 0 /\ Len(calls) = 0
    BY <2>1, <2>2 DEF PageFits, LastFetch
  <2>4. store.selected # Nothing
    BY <2>2, <2>3 DEF PageFits
  <2>5. PICK v : Shows(calls, 0, store.selected, v) /\ Right(v[0], place.ticket, rows)
    BY <2>2, <2>3 DEF PageFits
  <2>6. v[0] = store.selected
    BY <2>5 DEF Shows
  <2> QED
    BY <2>4, <2>5, <2>6 DEF Right
<1>2. Init => TurnsInductive /\ DetailInductive
  BY InitTurns
<1>3. PagesInductive /\ TurnsInductive /\ DetailInductive /\ [Next]_vars
        => TurnsInductive' /\ DetailInductive'
  BY StepTurns, StepDetail
<1> QED
  BY <1>1, <1>2, <1>3, PagesInvariant, PTL DEF Spec

\* At rest the screen is the server's, for any number of tickets, accounts and
\* requests in flight.
THEOREM PagesSettled == Spec => []Settled
<1>1. ListSettled /\ DetailSettled => Settled
  BY DEF Settled
<1> QED
  BY <1>1, ListsSettle, DetailSettles, PTL
==============================================================================
