----------------------- MODULE ChatConversationProofs -----------------------
(***************************************************************************)
(* What ChatConversation guarantees for any number of turns, escalations   *)
(* and messages of a conversation.                                         *)
(***************************************************************************)
EXTENDS ChatConversation, FiniteSetTheorems, TLAPS

\* Every time on record has passed, a transaction begins no earlier than its
\* request, a message is committed no earlier than its transaction began,
\* and no two events share a time.
ClockAhead ==
  /\ \A x \in Asker : arrived[x] <= txn[x] /\ txn[x] < clock
  /\ \A m \in messages :
       /\ arrived[m.from] <= m.at /\ m.at <= m.done /\ m.done < clock
       /\ \A x \in Asker : m.done # arrived[x]

\* A request that has yet to commit its first message has none, and what it
\* adds after its question is in a later transaction.
QuestionsFirst ==
  /\ \A m \in messages :
       /\ pc[m.from] \notin {"idle", "begun", "loaded", "triaging"}
       /\ m.sender = "user" /\ pc[m.from] \in {"asked", "thinking"} => m.at < txn[m.from]
  /\ \A m, n \in messages :
       m.from = n.from /\ m.sender = "user" /\ n.sender = "bot" => m.at < n.at

\* The link is set with the first ticket; an escalation on its way began
\* before each ticket there is was committed.
TicketsKnown ==
  /\ IsFiniteSet(tickets)
  /\ link = NoTicket => tickets = {}
  /\ link # NoTicket => link \in tickets
  /\ \A d \in tickets : pc[d] = "answered" /\ arrived[d] < done[d] /\ done[d] < clock
  /\ \A e \in Escalation : pc[e] \in {"loaded", "triaging"} =>
       \A d \in tickets : arrived[e] < done[d]
  /\ TicketsOverlap
  /\ \A e \in Escalation : answer[e] # NoTicket => answer[e] \in tickets

\* What TranscriptComplete says of a ticket committed at t, whose escalation
\* was requested at a, of the text T listed for it.
Held(ms, T, a, t) ==
  /\ \E m \in ms : m.sender = "user" /\ m.done < t
  /\ \A m \in ms : m.done < a =>
       \/ Text({m}) \subseteq T
       \/ Cardinality(Text({n \in ms : n.at <= m.at /\ n.done < t})) > TranscriptMax
  /\ \A c \in T :
       /\ c[1] \in ms /\ c[1].done < t
       /\ \A m \in ms : m.at < c[1].at /\ m.done < c[1].done => Text({m}) \subseteq T

\* It holds of a transcript from the time it was listed.
TranscriptsKnown ==
  \A e \in Escalation :
    /\ pc[e] = "triaging" => Held(messages, transcript[e], arrived[e], clock)
    /\ e \in tickets => Held(messages, transcript[e], arrived[e], done[e])

\* A turn that asked has its question in the conversation, and one that has
\* not begun was given no prompt.
PromptsKnown ==
  /\ IsFiniteSet(messages)
  /\ \A t \in Turn :
       /\ pc[t] = "asked" => \E q \in messages : q.from = t
       /\ pc[t] = "idle" => prompt[t] = {}
  /\ PromptEndsWithQuestion

Inductive ==
  /\ TypeOK
  /\ ClockAhead
  /\ QuestionsFirst
  /\ TicketsKnown
  /\ TranscriptsKnown
  /\ PromptsKnown

-----------------------------------------------------------------------------
(* The text of messages, and its cut.                                      *)

\* A text is made of the positions in the lines of its messages, one at least
\* in each.
LEMMA TextIs ==
  ASSUME NEW ms \in SUBSET Message
  PROVE  /\ Text(ms) \subseteq ms \X Nat
         /\ \A c : c \in Text(ms) <=> c[1] \in ms /\ c \in Text({c[1]})
         /\ \A m \in ms : Text({m}) \subseteq Text(ms)
         /\ \A m \in ms : \A c \in Text({m}) : c[1] = m
<1> DEFINE Line(m) == {m} \X (1..Size[m.from][m.sender])
<1>1. \A m \in ms : \A c \in Line(m) : c \in ms \X Nat /\ c[1] = m
  <2> SUFFICES ASSUME NEW m \in ms, NEW c \in Line(m)
               PROVE  c \in ms \X Nat /\ c[1] = m
    OBVIOUS
  <2>1. m.from \in Asker /\ m.sender \in {"user", "bot"}
    BY DEF Message
  <2>2. Size[m.from][m.sender] \in Nat
    BY <2>1, SizeAssumption DEF Asker
  <2>3. 1..Size[m.from][m.sender] \subseteq Nat
    BY <2>2
  <2>4. PICK k \in 1..Size[m.from][m.sender] : c = <<m, k>>
    <3> DEFINE K == 1..Size[m.from][m.sender]
    <3>1. c \in {m} \X K
      OBVIOUS
    <3> HIDE DEF K
    <3>2. PICK x \in {m}, k \in K : c = <<x, k>>
      BY <3>1
    <3>3. c = <<m, k>>
      BY <3>2
    <3> QED
      BY <3>3 DEF K
  <2>5. k \in Nat
    BY <2>3
  <2> HIDE DEF Line
  <2>6. <<m, k>> \in ms \X Nat /\ <<m, k>>[1] = m
    BY <2>5
  <2> QED
    BY <2>4, <2>6
<1>2. \A x : Text({x}) = Line(x)
  BY DEF Text
<1>3. \A c : c \in Text(ms) <=> \E m \in ms : c \in Line(m)
  BY DEF Text
<1> HIDE DEF Line
<1> QED
  BY <1>1, <1>2, <1>3

\* More messages have more text.
LEMMA TextMonotone ==
  ASSUME NEW ns, NEW ms \in SUBSET ns
  PROVE  Text(ms) \subseteq Text(ns)
  BY DEF Text

\* Finitely many messages have a finite text.
LEMMA TextFinite ==
  ASSUME NEW ms \in SUBSET Message, IsFiniteSet(ms)
  PROVE  IsFiniteSet(Text(ms))
<1> DEFINE Line(m) == {m} \X (1..Size[m.from][m.sender])
           Lines == {Line(m) : m \in ms}
           f == [m \in ms |-> Line(m)]
<1>1. f \in Surjection(ms, Lines)
  BY DEF Surjection
<1>2. IsFiniteSet(Lines)
  <2> HIDE DEF f, Lines
  <2> QED
    BY <1>1, FS_Surjection
<1>3. ASSUME NEW m \in ms PROVE IsFiniteSet(Line(m))
  <2>1. m.from \in Asker /\ m.sender \in {"user", "bot"}
    BY DEF Message
  <2>2. Size[m.from][m.sender] \in Int
    BY <2>1, SizeAssumption DEF Asker
  <2>3. IsFiniteSet(1..Size[m.from][m.sender])
    BY <2>2, FS_Interval
  <2>4. IsFiniteSet({m})
    BY FS_Singleton
  <2> QED
    BY <2>3, <2>4, FS_Product
<1>4. \A L \in Lines : IsFiniteSet(L)
  BY <1>3
<1>5. IsFiniteSet(UNION Lines)
  <2> HIDE DEF Lines
  <2> QED
    BY <1>2, <1>4, FS_UNION
<1> QED
  BY <1>5 DEF Text

\* A message is kept in full, or the text up to its end exceeds the cap.
LEMMA TranscriptKeeps ==
  ASSUME NEW ms \in SUBSET Message, IsFiniteSet(ms), NEW m \in ms
  PROVE  \/ Text({m}) \subseteq Transcript(ms)
         \/ Cardinality(Text({n \in ms : n.at <= m.at})) > TranscriptMax
<1> SUFFICES ASSUME NEW c \in Text({m}), c \notin Transcript(ms)
             PROVE  Cardinality(Text({n \in ms : n.at <= m.at})) > TranscriptMax
  OBVIOUS
<1> DEFINE Up == {n \in ms : n.at <= m.at}
           P == {d \in Text(ms) : Before(d, c)}
<1>0. \A n \in ms : n.at \in Nat
  BY DEF Message
<1>1. c \in Text(ms) /\ c[1] = m /\ c[2] \in Nat /\ Up \subseteq ms /\ m \in Up
  BY <1>0, TextIs
<1>2. c \in Text(Up)
  BY <1>1, TextIs
<1>3. \A d \in Text(ms) : d[1] \in ms /\ d \in Text({d[1]})
  BY TextIs
<1>4. \A d \in P : d \in Text(Up)
  <2> SUFFICES ASSUME NEW d \in P PROVE d \in Text(Up)
    OBVIOUS
  <2>1. d[1] \in ms /\ d \in Text({d[1]}) /\ (d[1].at < m.at \/ d[1] = m)
    BY <1>1, <1>3 DEF Before
  <2>2. d[1] \in Up
    BY <1>0, <2>1
  <2>3. Text({d[1]}) \subseteq Text(Up)
    BY <1>1, <2>2, TextIs
  <2> QED
    BY <2>1, <2>3
<1>5. c \notin P
  BY <1>0, <1>1 DEF Before
<1>6. IsFiniteSet(Text(ms)) /\ IsFiniteSet(P)
  BY TextFinite, FS_Subset
<1>7. Up \in SUBSET Message /\ IsFiniteSet(Up) /\ IsFiniteSet(Text(Up))
  BY TextFinite, FS_Subset
<1>8. Cardinality(P) >= TranscriptMax
  <2>1. ~(Cardinality(P) < TranscriptMax)
    BY <1>1 DEF Transcript
  <2>2. Cardinality(P) \in Nat
    BY <1>6, FS_CardinalityType
  <2> QED
    BY <2>1, <2>2, SizeAssumption
<1>9. Cardinality(P \cup {c}) = Cardinality(P) + 1 /\ Cardinality(P) \in Nat
  <2> HIDE DEF P
  <2> QED
    BY <1>5, <1>6, FS_AddElement, FS_CardinalityType
<1>10. Cardinality(P \cup {c}) <= Cardinality(Text(Up)) /\ Cardinality(Text(Up)) \in Nat
  <2>1. P \cup {c} \in SUBSET Text(Up)
    BY <1>2, <1>4
  <2> HIDE DEF P, Up
  <2> QED
    BY <1>7, <2>1, FS_Subset, FS_CardinalityType
<1> QED
  BY <1>8, <1>9, <1>10, SizeAssumption

\* A message that is there is not there without the earlier ones.
LEMMA TranscriptNoGap ==
  ASSUME NEW ms \in SUBSET Message, IsFiniteSet(ms),
         NEW c \in Transcript(ms), NEW m \in ms, m.at < c[1].at
  PROVE  Text({m}) \subseteq Transcript(ms)
<1> SUFFICES ASSUME NEW b \in Text({m}) PROVE b \in Transcript(ms)
  OBVIOUS
<1> DEFINE P(d) == {x \in Text(ms) : Before(x, d)}
<1>0. \A n \in ms : n.at \in Nat
  BY DEF Message
<1>1. b \in Text(ms) /\ b[1] = m /\ c \in Text(ms) /\ c[1] \in ms
  BY TextIs DEF Transcript
<1>2. \A x \in Text(ms) : x[1] \in ms
  BY TextIs
<1>3. P(b) \subseteq P(c)
  BY <1>0, <1>1, <1>2 DEF Before
<1>4. IsFiniteSet(Text(ms)) /\ IsFiniteSet(P(c))
  BY TextFinite, FS_Subset
<1>5. /\ Cardinality(P(b)) <= Cardinality(P(c))
      /\ Cardinality(P(b)) \in Nat /\ Cardinality(P(c)) \in Nat
  <2> HIDE DEF P
  <2> QED
    BY <1>3, <1>4, FS_Subset, FS_CardinalityType
<1>6. Cardinality(P(c)) < TranscriptMax
  BY DEF Transcript
<1>7. Cardinality(P(b)) < TranscriptMax
  BY <1>5, <1>6, SizeAssumption
<1> QED
  BY <1>1, <1>7 DEF Transcript

-----------------------------------------------------------------------------
(* Types.                                                                  *)

\* The conversation starts empty.
LEMMA TypeInit == Init => TypeOK
  BY RequestAssumption DEF Init, TypeOK, Asker

\* A prompt is made of messages of the conversation.
LEMMA RecentHistoryIs == RecentHistory \subseteq messages
  BY DEF RecentHistory

\* The domains of the variables are closed under every step of the code.
LEMMA TypeStep ==
  ASSUME TypeOK, [Next]_vars
  PROVE  TypeOK'
<1> USE DEF TypeOK, Asker
<1>1. ASSUME NEW t \in Turn, BeginTurn(t) PROVE TypeOK'
  BY <1>1 DEF BeginTurn, Begin, Step, rowVars, localVars
<1>2. ASSUME NEW t \in Turn, CommitQuestion(t) PROVE TypeOK'
  <2>1. [from |-> t, sender |-> "user", at |-> txn[t], done |-> clock] \in Message
    BY DEF Message
  <2> QED
    BY <1>2, <2>1 DEF CommitQuestion, Step, Post, localVars
<1>3. ASSUME NEW t \in Turn, AskModel(t) PROVE TypeOK'
  BY <1>3, RecentHistoryIs DEF AskModel, Step, rowVars
<1>4. ASSUME NEW t \in Turn, Reply(t) PROVE TypeOK'
  <2>1. [from |-> t, sender |-> "bot",
         at |-> IF t \in Streaming THEN clock ELSE txn[t], done |-> clock] \in Message
    BY DEF Message
  <2> QED
    BY <1>4, <2>1 DEF Reply, Step, Post, localVars
<1>5. ASSUME NEW e \in Escalation, LoadConversation(e) PROVE TypeOK'
  BY <1>5 DEF LoadConversation, Begin, Step, rowVars
<1>6. ASSUME NEW e \in Escalation, ListMessages(e) PROVE TypeOK'
  <2>1. Transcript(messages) \subseteq Message \X Nat
    BY TextIs DEF Transcript
  <2> QED
    BY <1>6, <2>1 DEF ListMessages, Step, rowVars
<1>7. ASSUME NEW e \in Escalation, Refuse(e) PROVE TypeOK'
  BY <1>7 DEF Refuse, Step, rowVars, localVars
<1>8. ASSUME NEW e \in Escalation, CommitTicket(e) PROVE TypeOK'
  <2>1. [from |-> e, sender |-> "bot", at |-> txn[e], done |-> clock] \in Message
    BY <1>8 DEF Message
  <2> QED
    BY <1>8, <2>1 DEF CommitTicket, Step, Post
<1>9. ASSUME NEW x \in Asker, Vanish(x) PROVE TypeOK'
  BY <1>9 DEF Vanish, rowVars, localVars
<1>10. CASE UNCHANGED vars
  BY <1>10 DEF vars, rowVars, localVars
<1> QED
  BY <1>1, <1>2, <1>3, <1>4, <1>5, <1>6, <1>7, <1>8, <1>9, <1>10 DEF Next

\* Every variable keeps its type, whatever the number of requests.
THEOREM TypeCorrect == Spec => []TypeOK
  BY TypeInit, TypeStep, PTL DEF Spec

-----------------------------------------------------------------------------
(* What a step can do to the messages and the times.                       *)

\* A step begins one request, or commits at most one message, at a time
\* later than every other.
Begins ==
  \E x \in Asker :
    /\ pc[x] = "idle" /\ pc'[x] \in {"begun", "loaded", "answered"}
    /\ arrived' = [arrived EXCEPT ![x] = clock]
    /\ txn' = [txn EXCEPT ![x] = clock]
    /\ clock' = clock + 1
    /\ \A y \in Asker \ {x} : pc'[y] = pc[y]
    /\ UNCHANGED <<messages, tickets, link, prompt, transcript, done>>

Posts ==
  \E x \in Asker, m \in Message :
    /\ m.from = x /\ m.done = clock /\ m.at \in {txn[x], clock}
    /\ pc'[x] \notin {"idle", "begun", "loaded", "triaging"}
    /\ \A y \in Asker \ {x} : pc'[y] = pc[y] /\ txn'[y] = txn[y]
    /\ \/ /\ pc[x] = "begun" /\ m.sender = "user" /\ m.at = txn[x]
          /\ txn'[x] = clock + 1 /\ clock' = clock + 2
       \/ /\ pc[x] \in {"thinking", "triaging"} /\ pc'[x] = "answered" /\ m.sender = "bot"
          /\ txn'[x] = txn[x] /\ clock' = clock + 1
    /\ messages' = messages \cup {m}
    /\ arrived' = arrived

Moves ==
  /\ UNCHANGED <<clock, messages, tickets, link, arrived, txn, done>>
  /\ \A x \in Asker : pc[x] # pc'[x] => pc[x] # "idle" /\ pc'[x] \in
       {"thinking", "triaging", "refused", "gone"}
  /\ \A x \in Asker : pc'[x] = "thinking" => pc[x] \in {"asked", "thinking"}
  /\ \A x \in Asker : pc'[x] = "triaging" => pc[x] \in {"loaded", "triaging"}

\* Every step of the code is of one of the three kinds.
LEMMA StepKinds ==
  ASSUME TypeOK, [Next]_vars
  PROVE  Begins \/ Posts \/ Moves
<1> USE DEF TypeOK
<1>0. Turn \subseteq Asker /\ Escalation \subseteq Asker
  BY DEF Asker
<1>1. ASSUME NEW t \in Turn, BeginTurn(t) PROVE Begins
  BY <1>0, <1>1 DEF BeginTurn, Begin, Step, Begins, rowVars, localVars
<1>2. ASSUME NEW t \in Turn, CommitQuestion(t) PROVE Posts
  <2> DEFINE m == [from |-> t, sender |-> "user", at |-> txn[t], done |-> clock]
  <2>1. m \in Message /\ m.from = t /\ m.sender = "user" /\ m.at = txn[t] /\ m.done = clock
    BY <1>0 DEF Message
  <2>2. messages' = messages \cup {m}
    BY <1>2 DEF CommitQuestion, Post
  <2> HIDE DEF m
  <2> QED
    BY <1>0, <1>2, <2>1, <2>2 DEF CommitQuestion, Step, Posts
<1>3. ASSUME NEW t \in Turn, AskModel(t) PROVE Moves
  BY <1>0, <1>3 DEF AskModel, Step, Moves, rowVars
<1>4. ASSUME NEW t \in Turn, Reply(t) PROVE Posts
  <2> DEFINE m == [from |-> t, sender |-> "bot",
                   at |-> IF t \in Streaming THEN clock ELSE txn[t], done |-> clock]
  <2>1. m \in Message /\ m.from = t /\ m.sender = "bot" /\ m.at \in {txn[t], clock} /\ m.done = clock
    BY <1>0 DEF Message
  <2>2. messages' = messages \cup {m}
    BY <1>4 DEF Reply, Post
  <2> HIDE DEF m
  <2> QED
    BY <1>0, <1>4, <2>1, <2>2 DEF Reply, Step, Posts
<1>5. ASSUME NEW e \in Escalation, LoadConversation(e) PROVE Begins
  BY <1>0, <1>5 DEF LoadConversation, Begin, Step, Begins, rowVars
<1>6. ASSUME NEW e \in Escalation, ListMessages(e) PROVE Moves
  BY <1>0, <1>6 DEF ListMessages, Step, Moves, rowVars
<1>7. ASSUME NEW e \in Escalation, Refuse(e) PROVE Moves
  BY <1>0, <1>7 DEF Refuse, Step, Moves, rowVars
<1>8. ASSUME NEW e \in Escalation, CommitTicket(e) PROVE Posts
  <2> DEFINE m == [from |-> e, sender |-> "bot", at |-> txn[e], done |-> clock]
  <2>1. m \in Message /\ m.from = e /\ m.sender = "bot" /\ m.at = txn[e] /\ m.done = clock
    BY <1>0 DEF Message
  <2>2. messages' = messages \cup {m}
    BY <1>8 DEF CommitTicket, Post
  <2> HIDE DEF m
  <2> QED
    BY <1>0, <1>8, <2>1, <2>2 DEF CommitTicket, Step, Posts
<1>9. ASSUME NEW x \in Asker, Vanish(x) PROVE Moves
  BY <1>9 DEF Vanish, Moves, rowVars, localVars
<1>10. CASE UNCHANGED vars
  BY <1>10 DEF vars, rowVars, localVars, Moves
<1> QED
  BY <1>1, <1>2, <1>3, <1>4, <1>5, <1>6, <1>7, <1>8, <1>9, <1>10 DEF Next

-----------------------------------------------------------------------------
(* Times and messages.                                                     *)

\* Times on record stay behind the clock, and apart from each other.
LEMMA ClockStep ==
  ASSUME TypeOK, ClockAhead, QuestionsFirst, [Next]_vars
  PROVE  ClockAhead'
<1> USE DEF TypeOK, ClockAhead
<1>0. messages \subseteq Message /\ \A m \in Message : m.from \in Asker /\ m.at \in Nat /\ m.done \in Nat
  BY DEF Message
<1>1. CASE Begins
  <2>1. PICK x \in Asker :
          /\ pc[x] = "idle" /\ clock' = clock + 1 /\ messages' = messages
          /\ arrived' = [arrived EXCEPT ![x] = clock] /\ txn' = [txn EXCEPT ![x] = clock]
    BY <1>1 DEF Begins
  <2>2. \A m \in messages : m.from # x
    BY <2>1 DEF QuestionsFirst
  <2>3. \A y \in Asker : arrived'[y] <= txn'[y] /\ txn'[y] < clock'
    BY <2>1
  <2>4. \A m \in messages :
          /\ arrived'[m.from] <= m.at /\ m.at <= m.done /\ m.done < clock'
          /\ \A y \in Asker : m.done # arrived'[y]
    BY <1>0, <2>1, <2>2
  <2> QED
    BY <2>1, <2>3, <2>4
<1>2. CASE Posts
  <2>1. PICK x \in Asker, m \in Message :
          /\ m.from = x /\ m.done = clock /\ m.at \in {txn[x], clock}
          /\ \A y \in Asker \ {x} : txn'[y] = txn[y]
          /\ \/ txn'[x] = clock + 1 /\ clock' = clock + 2
             \/ txn'[x] = txn[x] /\ clock' = clock + 1
          /\ messages' = messages \cup {m} /\ arrived' = arrived
    BY <1>2 DEF Posts
  <2>2. \A y \in Asker : arrived'[y] <= txn'[y] /\ txn'[y] < clock'
    BY <2>1
  <2>3. \A n \in messages' :
          /\ arrived'[n.from] <= n.at /\ n.at <= n.done /\ n.done < clock'
          /\ \A y \in Asker : n.done # arrived'[y]
    BY <1>0, <2>1
  <2> QED
    BY <2>2, <2>3
<1>3. CASE Moves
  BY <1>3 DEF Moves
<1> QED
  BY <1>1, <1>2, <1>3, StepKinds

\* A reply is always listed below its question.
LEMMA QuestionsStep ==
  ASSUME TypeOK, ClockAhead, QuestionsFirst, [Next]_vars
  PROVE  QuestionsFirst'
<1> USE DEF TypeOK, QuestionsFirst
<1>0. messages \subseteq Message /\ \A m \in Message : m.from \in Asker /\ m.at \in Nat /\ m.done \in Nat
  BY DEF Message
<1>1. CASE Begins
  <2>1. PICK x \in Asker :
          /\ pc[x] = "idle" /\ messages' = messages
          /\ txn' = [txn EXCEPT ![x] = clock]
          /\ \A y \in Asker \ {x} : pc'[y] = pc[y]
    BY <1>1 DEF Begins
  <2>2. \A m \in messages : m.from # x
    BY <2>1
  <2> QED
    BY <1>0, <2>1, <2>2
<1>2. CASE Posts
  <2>1. PICK x \in Asker, m \in Message :
          /\ m.from = x /\ m.done = clock /\ m.at \in {txn[x], clock}
          /\ pc'[x] \notin {"idle", "begun", "loaded", "triaging"}
          /\ \A y \in Asker \ {x} : pc'[y] = pc[y] /\ txn'[y] = txn[y]
          /\ \/ /\ pc[x] = "begun" /\ m.sender = "user" /\ m.at = txn[x]
                /\ txn'[x] = clock + 1 /\ clock' = clock + 2
             \/ /\ pc[x] \in {"thinking", "triaging"} /\ pc'[x] = "answered" /\ m.sender = "bot"
                /\ txn'[x] = txn[x] /\ clock' = clock + 1
          /\ messages' = messages \cup {m}
    BY <1>2 DEF Posts
  <2>2. txn[x] < clock
    BY DEF ClockAhead
  <2>3. \A n \in messages' :
          /\ pc'[n.from] \notin {"idle", "begun", "loaded", "triaging"}
          /\ n.sender = "user" /\ pc'[n.from] \in {"asked", "thinking"} => n.at < txn'[n.from]
    <3>1. CASE pc[x] = "begun"
      <4>1. \A n \in messages : n.from # x
        BY <3>1
      <4> QED
        BY <1>0, <2>1, <2>2, <3>1, <4>1
    <3>2. CASE pc[x] \in {"thinking", "triaging"}
      BY <1>0, <2>1, <3>2
    <3> QED
      BY <2>1, <3>1, <3>2
  <2>4. ASSUME NEW n \in messages', NEW k \in messages',
               n.from = k.from, n.sender = "user", k.sender = "bot"
        PROVE  n.at < k.at
    <3>1. CASE n \in messages /\ k \in messages
      BY <2>4, <3>1
    <3>2. CASE n \in messages /\ k = m
      <4>1. pc[x] = "thinking" /\ n.from = x
        BY <2>1, <2>4, <3>2
      <4>2. n.at < txn[x]
        BY <2>4, <3>2, <4>1
      <4> QED
        BY <1>0, <2>1, <2>2, <3>2, <4>2
    <3>3. CASE n = m
      BY <2>1, <2>4, <3>3
    <3> QED
      BY <2>1, <3>1, <3>2, <3>3
  <2> QED
    BY <2>3, <2>4
<1>3. CASE Moves
  <2>1. ASSUME NEW m \in messages
        PROVE  /\ pc'[m.from] \notin {"idle", "begun", "loaded", "triaging"}
               /\ pc'[m.from] \in {"asked", "thinking"} => pc[m.from] \in {"asked", "thinking"}
    BY <1>0, <1>3 DEF Moves
  <2>2. messages' = messages /\ txn' = txn
    BY <1>3 DEF Moves
  <2> QED
    BY <2>1, <2>2
<1> QED
  BY <1>1, <1>2, <1>3, StepKinds

-----------------------------------------------------------------------------
(* Tickets.                                                                *)

\* Only a request that found no link makes a ticket, and it began before
\* every ticket made meanwhile was committed.
LEMMA TicketsStep ==
  ASSUME TypeOK, ClockAhead, TicketsKnown, [Next]_vars
  PROVE  TicketsKnown'
<1> USE DEF TypeOK
<1>0. Escalation \subseteq Asker /\ Turn \subseteq Asker /\ Turn \cap Escalation = {}
      /\ NoTicket \notin Escalation
  BY RequestAssumption DEF Asker
<1>1. ASSUME NEW t \in Turn, BeginTurn(t) PROVE TicketsKnown'
  <2>1. \A e \in Escalation : pc'[e] = pc[e] /\ arrived'[e] = arrived[e]
    BY <1>0, <1>1 DEF BeginTurn, Begin, Step
  <2>2. UNCHANGED <<link, tickets, done, answer>> /\ clock' = clock + 1
    BY <1>1 DEF BeginTurn, Begin, rowVars, localVars
  <2> QED
    BY <2>1, <2>2 DEF TicketsKnown, TicketsOverlap
<1>2. ASSUME NEW t \in Turn, CommitQuestion(t) \/ AskModel(t) \/ Reply(t) PROVE TicketsKnown'
  <2>1. \A e \in Escalation : pc'[e] = pc[e] /\ arrived'[e] = arrived[e]
    BY <1>0, <1>2 DEF CommitQuestion, AskModel, Reply, Step
  <2>2. UNCHANGED <<link, tickets, done, answer>> /\ clock' \in {clock, clock + 1, clock + 2}
    BY <1>2 DEF CommitQuestion, AskModel, Reply, rowVars, localVars
  <2> QED
    BY <2>1, <2>2 DEF TicketsKnown, TicketsOverlap
<1>3. ASSUME NEW e \in Escalation, LoadConversation(e) PROVE TicketsKnown'
  <2>1. UNCHANGED <<link, tickets, done>> /\ clock' = clock + 1
    BY <1>3 DEF LoadConversation, Begin, rowVars
  <2>2. e \notin tickets
    BY <1>3 DEF LoadConversation, Begin, Step, TicketsKnown
  <2>3. \A d \in Escalation \ {e} : pc'[d] = pc[d] /\ arrived'[d] = arrived[d] /\ answer'[d] = answer[d]
    BY <1>0, <1>3 DEF LoadConversation, Begin, Step
  <2>4. answer'[e] = link /\ (pc'[e] \in {"loaded", "triaging"} => link = NoTicket)
    BY <1>0, <1>3 DEF LoadConversation, Begin, Step
  <2> QED
    BY <2>1, <2>2, <2>3, <2>4 DEF TicketsKnown, TicketsOverlap
<1>4. ASSUME NEW e \in Escalation, ListMessages(e) \/ Refuse(e) PROVE TicketsKnown'
  <2>1. \A d \in Escalation : pc'[d] = pc[d] \/ (pc[d] = "loaded" /\ pc'[d] \in {"triaging", "refused"})
    BY <1>0, <1>4 DEF ListMessages, Refuse, Step
  <2>2. UNCHANGED <<clock, link, tickets, arrived, done, answer>>
    BY <1>4 DEF ListMessages, Refuse, rowVars, localVars
  <2> QED
    BY <2>1, <2>2 DEF TicketsKnown, TicketsOverlap
<1>5. ASSUME NEW e \in Escalation, CommitTicket(e) PROVE TicketsKnown'
  <2>1. /\ tickets' = tickets \cup {e} /\ link' = e /\ clock' = clock + 1 /\ arrived' = arrived
        /\ done' = [done EXCEPT ![e] = clock] /\ answer' = [answer EXCEPT ![e] = e]
        /\ pc[e] = "triaging" /\ pc' = [pc EXCEPT ![e] = "answered"]
    BY <1>5 DEF CommitTicket, Step
  <2>2. e \notin tickets
    BY <2>1 DEF TicketsKnown
  <2>3. \A d \in tickets : arrived[e] < done[d]
    BY <2>1 DEF TicketsKnown
  <2>4. \A d \in Escalation : arrived[d] < clock
    BY <1>0 DEF ClockAhead
  <2>5. IsFiniteSet(tickets')
    BY <2>1, FS_AddElement DEF TicketsKnown
  <2>6. \A d \in tickets' : pc'[d] = "answered" /\ arrived'[d] < done'[d] /\ done'[d] < clock'
    BY <1>0, <2>1, <2>2, <2>4 DEF TicketsKnown
  <2>7. \A d \in Escalation : pc'[d] \in {"loaded", "triaging"} =>
          \A c \in tickets' : arrived'[d] < done'[c]
    BY <1>0, <2>1, <2>2, <2>4 DEF TicketsKnown
  <2>8. TicketsOverlap'
    BY <2>1, <2>2, <2>3, <2>4 DEF TicketsKnown, TicketsOverlap
  <2> QED
    BY <1>0, <2>1, <2>5, <2>6, <2>7, <2>8 DEF TicketsKnown
<1>6. ASSUME NEW x \in Asker, Vanish(x) PROVE TicketsKnown'
  <2>1. \A d \in Escalation : pc'[d] = pc[d] \/ (pc'[d] = "gone" /\ pc[d] # "answered")
    BY <1>0, <1>6 DEF Vanish
  <2>2. UNCHANGED <<clock, link, tickets, arrived, done, answer>>
    BY <1>6 DEF Vanish, rowVars, localVars
  <2> QED
    BY <2>1, <2>2 DEF TicketsKnown, TicketsOverlap
<1>7. CASE UNCHANGED vars
  BY <1>7 DEF vars, rowVars, localVars, TicketsKnown, TicketsOverlap
<1> QED
  BY <1>1, <1>2, <1>3, <1>4, <1>5, <1>6, <1>7 DEF Next

-----------------------------------------------------------------------------
(* Transcripts and prompts.                                                *)

\* What is listed is held at the time of the listing.
LEMMA HeldWhenListed ==
  ASSUME NEW ms \in SUBSET Message, IsFiniteSet(ms), NEW a, NEW t \in Nat,
         \A m \in ms : m.done < t,
         \E m \in ms : m.sender = "user"
  PROVE  Held(ms, Transcript(ms), a, t)
<1>1. ASSUME NEW m \in ms
      PROVE  \/ Text({m}) \subseteq Transcript(ms)
             \/ Cardinality(Text({n \in ms : n.at <= m.at /\ n.done < t})) > TranscriptMax
  <2>1. {n \in ms : n.at <= m.at /\ n.done < t} = {n \in ms : n.at <= m.at}
    OBVIOUS
  <2> QED
    BY <2>1, TranscriptKeeps
<1>2. ASSUME NEW c \in Transcript(ms)
      PROVE  /\ c[1] \in ms /\ c[1].done < t
             /\ \A m \in ms : m.at < c[1].at => Text({m}) \subseteq Transcript(ms)
  <2>1. c[1] \in ms
    BY TextIs DEF Transcript
  <2> QED
    BY <2>1, TranscriptNoGap
<1> QED
  BY <1>1, <1>2 DEF Held

\* Messages committed later take nothing from it.
LEMMA HeldStays ==
  ASSUME NEW ns \in SUBSET Message, IsFiniteSet(ns), NEW ms \in SUBSET ns, NEW T,
         NEW a \in Nat, NEW t \in Nat, NEW u \in Nat, a <= t, t <= u,
         \A n \in ns : n \in ms \/ n.done >= t,
         Held(ms, T, a, t)
  PROVE  Held(ns, T, a, u)
<1>0. \A n \in ns : n.done \in Nat
  BY DEF Message
<1>1. \E m \in ns : m.sender = "user" /\ m.done < u
  BY <1>0 DEF Held
<1>2. ASSUME NEW m \in ns, m.done < a, ~(Text({m}) \subseteq T)
      PROVE  Cardinality(Text({n \in ns : n.at <= m.at /\ n.done < u})) > TranscriptMax
  <2> DEFINE Old == {n \in ms : n.at <= m.at /\ n.done < t}
             Now == {n \in ns : n.at <= m.at /\ n.done < u}
  <2>1. m \in ms
    BY <1>0, <1>2
  <2>2. Cardinality(Text(Old)) > TranscriptMax
    BY <1>2, <2>1 DEF Held
  <2>3. Old \in SUBSET Now
    BY <1>0
  <2>4. Now \in SUBSET Message /\ IsFiniteSet(Now)
    BY FS_Subset
  <2> HIDE DEF Old, Now
  <2>5. IsFiniteSet(Text(Now)) /\ Text(Old) \in SUBSET Text(Now)
    BY <2>3, <2>4, TextFinite, TextMonotone
  <2>6. /\ Cardinality(Text(Old)) <= Cardinality(Text(Now))
        /\ Cardinality(Text(Old)) \in Nat /\ Cardinality(Text(Now)) \in Nat
    BY <2>5, FS_Subset, FS_CardinalityType
  <2>7. Cardinality(Text(Now)) > TranscriptMax
    BY <2>2, <2>6, SizeAssumption
  <2> QED
    BY <2>7 DEF Now
<1>3. ASSUME NEW c \in T
      PROVE  /\ c[1] \in ns /\ c[1].done < u
             /\ \A m \in ns : m.at < c[1].at /\ m.done < c[1].done => Text({m}) \subseteq T
  <2>1. c[1] \in ms /\ c[1].done < t
    BY DEF Held
  <2>2. \A m \in ns : m.done < c[1].done => m \in ms
    BY <1>0, <2>1
  <2> QED
    BY <1>0, <2>1, <2>2 DEF Held
<1> QED
  BY <1>1, <1>2, <1>3 DEF Held

\* A transcript misses only what came after its request, and what is beyond
\* the cap.
LEMMA TranscriptsStep ==
  ASSUME TypeOK, TypeOK', ClockAhead, TicketsKnown, TranscriptsKnown,
         IsFiniteSet(messages), IsFiniteSet(messages)', [Next]_vars
  PROVE  TranscriptsKnown'
<1> USE DEF TypeOK
<1>0. Escalation \subseteq Asker /\ Turn \subseteq Asker /\ Turn \cap Escalation = {}
  BY RequestAssumption DEF Asker
<1>1. messages \subseteq messages' /\ \A m \in messages' : m \in messages \/ m.done = clock
  BY StepKinds DEF Begins, Posts, Moves
<1>2. clock' \in {clock, clock + 1, clock + 2}
  BY StepKinds DEF Begins, Posts, Moves
<1>3. \A m \in messages : m.done \in Nat /\ m.done < clock
  BY DEF ClockAhead, Message
<1>4. ASSUME NEW e \in Escalation,
             arrived'[e] = arrived[e], transcript'[e] = transcript[e],
             pc'[e] = "triaging" => pc[e] = "triaging",
             e \in tickets' => \/ pc[e] = "triaging" /\ done'[e] = clock
                               \/ e \in tickets /\ done'[e] = done[e]
      PROVE  /\ pc'[e] = "triaging" => Held(messages', transcript'[e], arrived'[e], clock')
             /\ e \in tickets' => Held(messages', transcript'[e], arrived'[e], done'[e])
  <2>1. /\ arrived[e] < clock /\ arrived[e] \in Nat
        /\ clock \in Nat /\ clock' \in Nat /\ clock <= clock'
    BY <1>0, <1>2 DEF ClockAhead
  <2>2. /\ messages' \in SUBSET Message /\ messages \in SUBSET messages'
        /\ \A m \in messages' : m \in messages \/ m.done >= clock
    BY <1>1
  <2>3. ASSUME Held(messages, transcript[e], arrived[e], clock), NEW u \in Nat, clock <= u
        PROVE  Held(messages', transcript[e], arrived[e], u)
    BY <2>1, <2>2, <2>3, HeldStays
  <2>4. ASSUME e \in tickets
        PROVE  Held(messages', transcript[e], arrived[e], done[e])
    <3>1. arrived[e] < done[e] /\ done[e] < clock /\ done[e] \in Nat
      BY <2>4 DEF TicketsKnown
    <3>2. \A m \in messages' : m \in messages \/ m.done >= done[e]
      BY <1>1, <2>1, <3>1
    <3>3. Held(messages, transcript[e], arrived[e], done[e])
      BY <2>4 DEF TranscriptsKnown
    <3>4. arrived[e] <= done[e] /\ done[e] <= done[e]
      BY <2>1, <3>1
    <3> QED
      BY <2>1, <2>2, <3>1, <3>2, <3>3, <3>4, HeldStays
  <2>5. pc[e] = "triaging" => Held(messages, transcript[e], arrived[e], clock)
    BY DEF TranscriptsKnown
  <2> QED
    BY <1>4, <2>1, <2>3, <2>4, <2>5
<1>5. ASSUME NEW t \in Turn, BeginTurn(t) \/ CommitQuestion(t) \/ AskModel(t) \/ Reply(t)
      PROVE  TranscriptsKnown'
  <2>1. \A e \in Escalation : pc'[e] = pc[e] /\ arrived'[e] = arrived[e]
    BY <1>0, <1>5 DEF BeginTurn, Begin, CommitQuestion, AskModel, Reply, Step
  <2>2. UNCHANGED <<tickets, done, transcript>>
    BY <1>5 DEF BeginTurn, CommitQuestion, AskModel, Reply, rowVars, localVars
  <2> QED
    BY <1>4, <2>1, <2>2 DEF TranscriptsKnown
<1>6. ASSUME NEW e \in Escalation, LoadConversation(e) PROVE TranscriptsKnown'
  <2>1. UNCHANGED <<tickets, done, transcript>> /\ e \notin tickets
    BY <1>6 DEF LoadConversation, Begin, Step, rowVars, TicketsKnown
  <2>2. \A d \in Escalation \ {e} : pc'[d] = pc[d] /\ arrived'[d] = arrived[d]
    BY <1>0, <1>6 DEF LoadConversation, Begin, Step
  <2>3. pc'[e] # "triaging" /\ e \notin tickets'
    BY <1>0, <1>6, <2>1 DEF LoadConversation, Begin, Step
  <2> QED
    BY <1>4, <2>1, <2>2, <2>3 DEF TranscriptsKnown
<1>7. ASSUME NEW e \in Escalation, ListMessages(e) PROVE TranscriptsKnown'
  <2>1. UNCHANGED <<clock, messages, tickets, arrived, done>> /\ e \notin tickets
    BY <1>7 DEF ListMessages, Step, rowVars, TicketsKnown
  <2>2. \A d \in Escalation \ {e} : pc'[d] = pc[d] /\ transcript'[d] = transcript[d]
    BY <1>0, <1>7 DEF ListMessages, Step
  <2>3. transcript'[e] = Transcript(messages) /\ \E m \in messages : m.sender = "user"
    BY <1>7 DEF ListMessages
  <2>4. Held(messages, Transcript(messages), arrived[e], clock)
    BY <1>3, <2>3, HeldWhenListed
  <2>5. Held(messages', transcript'[e], arrived'[e], clock')
    BY <2>1, <2>3, <2>4
  <2> QED
    BY <1>4, <2>1, <2>2, <2>5 DEF TranscriptsKnown
<1>8. ASSUME NEW e \in Escalation, CommitTicket(e) PROVE TranscriptsKnown'
  <2>1. UNCHANGED <<arrived, transcript>> /\ pc[e] = "triaging"
        /\ pc' = [pc EXCEPT ![e] = "answered"] /\ tickets' = tickets \cup {e}
        /\ done' = [done EXCEPT ![e] = clock]
    BY <1>8 DEF CommitTicket, Step
  <2>2. e \notin tickets
    BY <2>1 DEF TicketsKnown
  <2>3. \A d \in Escalation : pc'[d] = "triaging" => pc[d] = "triaging"
    BY <1>0, <2>1
  <2>4. \A d \in Escalation : d \in tickets' =>
          \/ pc[d] = "triaging" /\ done'[d] = clock
          \/ d \in tickets /\ done'[d] = done[d]
    BY <2>1, <2>2
  <2>5. \A d \in Escalation : arrived'[d] = arrived[d] /\ transcript'[d] = transcript[d]
    BY <2>1
  <2> QED
    BY <1>4, <2>3, <2>4, <2>5 DEF TranscriptsKnown
<1>9. CASE (\E e \in Escalation : Refuse(e)) \/ (\E x \in Asker : Vanish(x)) \/ UNCHANGED vars
  <2>1. UNCHANGED <<arrived, tickets, done, transcript>>
    BY <1>9 DEF Refuse, Vanish, vars, rowVars, localVars
  <2>2. \A e \in Escalation : pc'[e] = "triaging" => pc[e] = "triaging"
    BY <1>0, <1>9 DEF Refuse, Vanish, Step, vars
  <2> QED
    BY <1>4, <2>1, <2>2 DEF TranscriptsKnown
<1> QED
  BY <1>5, <1>6, <1>7, <1>8, <1>9 DEF Next


\* The newest message of a prompt is the newest of the conversation: what a
\* prompt leaves out is older than all it holds.
LEMMA NewestIsNewest ==
  ASSUME messages \subseteq Message, IsFiniteSet(messages), NEW m \in RecentHistory,
         \A n \in RecentHistory : n.at <= m.at
  PROVE  \A n \in messages : n.at <= m.at
<1> SUFFICES ASSUME NEW n \in messages, ~(n.at <= m.at) PROVE FALSE
  OBVIOUS
<1> DEFINE After(k) == {l \in messages : l.at > k.at}
<1>1. \A k \in messages : k.at \in Nat
  BY DEF Message
<1>2. m \in messages /\ n.at > m.at /\ After(n) \subseteq After(m)
  BY <1>1, RecentHistoryIs
<1>3. IsFiniteSet(After(m))
  BY FS_Subset
<1>4. /\ Cardinality(After(n)) <= Cardinality(After(m))
      /\ Cardinality(After(n)) \in Nat /\ Cardinality(After(m)) \in Nat
  BY <1>2, <1>3, FS_Subset, FS_CardinalityType
<1>5. Cardinality(After(m)) < HistoryLimit
  BY DEF RecentHistory
<1>6. n \in RecentHistory
  BY <1>4, <1>5, HistoryAssumption DEF RecentHistory
<1> QED
  BY <1>1, <1>2, <1>6

\* The model is given the own question last, or a message committed since
\* the turn began.
LEMMA PromptsStep ==
  ASSUME TypeOK, ClockAhead, PromptsKnown, [Next]_vars
  PROVE  PromptsKnown'
<1> USE DEF TypeOK
<1>0. Turn \subseteq Asker /\ Escalation \subseteq Asker /\ Turn \cap Escalation = {}
  BY RequestAssumption DEF Asker
<1>1. IsFiniteSet(messages') /\ messages \subseteq messages'
  BY StepKinds, FS_AddElement DEF PromptsKnown, Begins, Posts, Moves
<1>2. ASSUME NEW t \in Turn,
             pc'[t] = "asked" => pc[t] = "asked", pc'[t] = "idle" => pc[t] = "idle",
             prompt'[t] = prompt[t], pc[t] = "idle" \/ arrived'[t] = arrived[t]
      PROVE  /\ pc'[t] = "asked" => \E q \in messages' : q.from = t
             /\ pc'[t] = "idle" => prompt'[t] = {}
             /\ \A m \in prompt'[t] : (\A n \in prompt'[t] : n.at <= m.at) =>
                  m.from = t \/ m.done > arrived'[t]
  BY <1>1, <1>2 DEF PromptsKnown, PromptEndsWithQuestion
<1>3. ASSUME NEW t \in Turn, CommitQuestion(t) PROVE PromptsKnown'
  <2>1. /\ pc[t] = "begun" /\ pc' = [pc EXCEPT ![t] = "asked"]
        /\ UNCHANGED <<arrived, prompt>>
    BY <1>3 DEF CommitQuestion, Step, localVars
  <2>2. \E q \in messages' : q.from = t
    <3> DEFINE q == [from |-> t, sender |-> "user", at |-> txn[t], done |-> clock]
    <3>1. q \in messages' /\ q.from = t
      BY <1>3 DEF CommitQuestion, Post
    <3> QED
      BY <3>1
  <2>3. \A u \in Turn \ {t} : pc'[u] = pc[u]
    BY <1>0, <2>1
  <2>4. pc'[t] # "idle"
    BY <1>0, <2>1
  <2> QED
    BY <1>1, <1>2, <2>1, <2>2, <2>3, <2>4 DEF PromptsKnown, PromptEndsWithQuestion
<1>4. ASSUME NEW t \in Turn, AskModel(t) PROVE PromptsKnown'
  <2>1. /\ pc[t] = "asked" /\ pc' = [pc EXCEPT ![t] = "thinking"]
        /\ UNCHANGED <<arrived, messages>> /\ prompt' = [prompt EXCEPT ![t] = RecentHistory]
    BY <1>4 DEF AskModel, Step, rowVars
  <2>2. \A u \in Turn \ {t} : pc'[u] = pc[u] /\ prompt'[u] = prompt[u]
    BY <1>0, <2>1
  <2>3. PICK q \in messages : q.from = t
    BY <2>1 DEF PromptsKnown
  <2>4. prompt'[t] = RecentHistory
    BY <2>1
  <2>5. ASSUME NEW m \in RecentHistory, \A n \in RecentHistory : n.at <= m.at
        PROVE  m.done > arrived[t]
    <3>1. m \in messages /\ q.at <= m.at
      BY <2>5, NewestIsNewest, RecentHistoryIs DEF PromptsKnown
    <3>2. arrived[t] <= q.at /\ m.at <= m.done /\ m.done # arrived[t]
      BY <1>0, <2>3, <3>1 DEF ClockAhead
    <3>3. q.at \in Nat /\ m.at \in Nat /\ m.done \in Nat /\ arrived[t] \in Nat
      BY <1>0, <3>1 DEF Message
    <3> QED
      BY <3>1, <3>2, <3>3
  <2>6. pc'[t] = "thinking"
    BY <1>0, <2>1
  <2> QED
    BY <1>1, <1>2, <2>1, <2>2, <2>4, <2>5, <2>6 DEF PromptsKnown, PromptEndsWithQuestion
<1>5. ASSUME \A t \in Turn : pc'[t] = "asked" => pc[t] = "asked",
             \A t \in Turn : pc'[t] = "idle" => pc[t] = "idle",
             prompt' = prompt,
             \A t \in Turn : pc[t] = "idle" \/ arrived'[t] = arrived[t]
      PROVE  PromptsKnown'
  BY <1>1, <1>2, <1>5 DEF PromptsKnown, PromptEndsWithQuestion
<1>6. ASSUME NEW t \in Turn, BeginTurn(t) \/ Reply(t) PROVE PromptsKnown'
  <2>1. \A u \in Turn : /\ pc'[u] = "asked" => pc[u] = "asked"
                        /\ pc'[u] = "idle" => pc[u] = "idle"
                        /\ pc[u] = "idle" \/ arrived'[u] = arrived[u]
    BY <1>0, <1>6 DEF BeginTurn, Begin, Reply, Step
  <2>2. prompt' = prompt
    BY <1>6 DEF BeginTurn, Reply, localVars
  <2> QED
    BY <1>5, <2>1, <2>2
<1>7. ASSUME NEW e \in Escalation,
             LoadConversation(e) \/ ListMessages(e) \/ Refuse(e) \/ CommitTicket(e)
      PROVE  PromptsKnown'
  <2>1. \A u \in Turn : pc'[u] = pc[u] /\ arrived'[u] = arrived[u]
    BY <1>0, <1>7 DEF LoadConversation, Begin, ListMessages, Refuse, CommitTicket, Step
  <2>2. prompt' = prompt
    BY <1>7 DEF LoadConversation, ListMessages, Refuse, CommitTicket, localVars
  <2> QED
    BY <1>5, <2>1, <2>2
<1>8. CASE (\E x \in Asker : Vanish(x)) \/ UNCHANGED vars
  <2>1. \A u \in Turn : (pc'[u] = pc[u] \/ pc'[u] = "gone") /\ arrived'[u] = arrived[u]
    BY <1>0, <1>8 DEF Vanish, vars
  <2>2. prompt' = prompt
    BY <1>8 DEF Vanish, vars, localVars
  <2> QED
    BY <1>5, <2>1, <2>2
<1> QED
  BY <1>3, <1>4, <1>6, <1>7, <1>8 DEF Next

-----------------------------------------------------------------------------
(* The invariant, and what follows from it.                                *)

\* The invariant holds of a conversation nobody has written in.
LEMMA InductiveInit == Init => Inductive
<1> SUFFICES ASSUME Init PROVE Inductive
  OBVIOUS
<1> USE DEF Init
<1>1. Turn \subseteq Asker /\ Escalation \subseteq Asker
  BY DEF Asker
<1>2. ClockAhead /\ QuestionsFirst
  BY DEF ClockAhead, QuestionsFirst
<1>3. TicketsKnown
  BY FS_EmptySet DEF TicketsKnown, TicketsOverlap
<1>4. TranscriptsKnown
  BY <1>1 DEF TranscriptsKnown
<1>5. PromptsKnown
  BY <1>1, FS_EmptySet DEF PromptsKnown, PromptEndsWithQuestion
<1> QED
  BY <1>2, <1>3, <1>4, <1>5, TypeInit DEF Inductive

\* Every step of the code keeps it.
LEMMA InductiveStep == Inductive /\ [Next]_vars => Inductive'
<1> SUFFICES ASSUME Inductive, [Next]_vars PROVE Inductive'
  OBVIOUS
<1>1. TypeOK' /\ PromptsKnown'
  BY TypeStep, PromptsStep DEF Inductive
<1>2. TranscriptsKnown'
  BY <1>1, TranscriptsStep DEF Inductive, PromptsKnown
<1> QED
  BY <1>1, <1>2, ClockStep, QuestionsStep, TicketsStep DEF Inductive

THEOREM Invariance == Spec => []Inductive
  BY InductiveInit, InductiveStep, PTL DEF Spec

\* An escalation that begins after another one has committed makes no
\* ticket: two tickets come only from escalations that overlap.
THEOREM OnlyOverlapDuplicates == Spec => []TicketsOverlap
<1>1. Inductive => TicketsOverlap
  BY DEF Inductive, TicketsKnown
<1> QED
  BY <1>1, Invariance, PTL

\* Every ticket a caller was told of was committed, and is the linked one as
\* long as there is only one.
THEOREM AgreedAnswers == Spec => []AnswersAgree
<1>1. ASSUME TicketsKnown, NEW e \in Escalation, answer[e] # NoTicket, answer[e] # link
      PROVE  Cardinality(tickets) > 1
  <2>1. answer[e] \in tickets /\ link \in tickets
    BY <1>1 DEF TicketsKnown
  <2>2. IsFiniteSet({link}) /\ Cardinality({link}) = 1
    BY FS_Singleton
  <2>3. IsFiniteSet({link} \cup {answer[e]}) /\ Cardinality({link} \cup {answer[e]}) = 2
    BY <1>1, <2>2, FS_AddElement
  <2>4. Cardinality({link} \cup {answer[e]}) <= Cardinality(tickets) /\ Cardinality(tickets) \in Nat
    BY <1>1, <2>1, FS_Subset, FS_CardinalityType DEF TicketsKnown
  <2> QED
    BY <2>3, <2>4
<1>2. Inductive => AnswersAgree
  BY <1>1 DEF Inductive, TicketsKnown, AnswersAgree
<1> QED
  BY <1>2, Invariance, PTL

\* A ticket's conversation has a question in it, and its transcript misses
\* of what was committed before the escalation was requested only text
\* beyond the cap; it has no gap, and nothing that followed the ticket.  This
\* holds for every cap and all lengths of the messages.
THEOREM CompleteTranscripts == Spec => []TranscriptComplete
<1>1. Inductive => TranscriptComplete
  BY DEF Inductive, TypeOK, TranscriptsKnown, Held, TranscriptComplete
<1> QED
  BY <1>1, Invariance, PTL

\* The order in which messages are listed is causal, although createdAt is
\* the begin of a transaction.
THEOREM CausalOrder == Spec => []ShownInCausalOrder
<1>1. ASSUME Inductive, NEW m \in messages, NEW n \in messages, m.done < arrived[n.from]
      PROVE  m.at < n.at
  <2>1. m.at <= m.done /\ arrived[n.from] <= n.at
    BY <1>1 DEF Inductive, ClockAhead
  <2>2. m.at \in Nat /\ m.done \in Nat /\ n.at \in Nat /\ arrived[n.from] \in Nat
    BY <1>1 DEF Inductive, TypeOK, Message
  <2> QED
    BY <1>1, <2>1, <2>2
<1>2. Inductive => ShownInCausalOrder
  BY <1>1 DEF Inductive, QuestionsFirst, ShownInCausalOrder
<1> QED
  BY <1>2, Invariance, PTL

\* The model answers the question of its own turn, for any length of the
\* history.
THEOREM OwnQuestionLast == Spec => []PromptEndsWithQuestion
<1>1. Inductive => PromptEndsWithQuestion
  BY DEF Inductive, PromptsKnown
<1> QED
  BY <1>1, Invariance, PTL
=============================================================================
