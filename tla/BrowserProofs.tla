---------------------------- MODULE BrowserProofs ----------------------------
(* Proofs about the two browser modules whose state is one screen and the     *)
(* requests it waits for: AssistantChat (a chat with its cards) and           *)
(* KnowledgePages (the three pages that show help articles).  Both invariants *)
(* need the same thing said of the requests: who still listens to an answer,  *)
(* and that there is one listener for what the screen says is under way.      *)
EXTENDS AssistantChat, KnowledgePages, FiniteSetTheorems, TLAPS

-----------------------------------------------------------------------------
(* Sequences.                                                              *)

\* Taking one element out of a sequence moves the later ones up.
LEMMA WithoutIs ==
  ASSUME NEW T, NEW s \in Seq(T), NEW i \in 1..Len(s)
  PROVE  /\ RemoveAt(s, i) \in Seq(T)
         /\ Len(RemoveAt(s, i)) = Len(s) - 1
         /\ \A j \in 1..(Len(s) - 1) :
              RemoveAt(s, i)[j] = IF j < i THEN s[j] ELSE s[j + 1]
<1> DEFINE a == SubSeq(s, 1, i - 1)
           b == SubSeq(s, i + 1, Len(s))
<1>1. a \in Seq(T) /\ Len(a) = i - 1 /\ \A j \in 1..(i - 1) : a[j] = s[j]
  OBVIOUS
<1>2. /\ b \in Seq(T) /\ Len(b) = Len(s) - i
      /\ \A j \in 1..(Len(s) - i) : b[j] = s[j + i]
  OBVIOUS
<1>3. RemoveAt(s, i) = a \o b
  BY DEF RemoveAt
<1> HIDE DEF a, b
<1>4. RemoveAt(s, i) \in Seq(T) /\ Len(RemoveAt(s, i)) = Len(s) - 1
  BY <1>1, <1>2, <1>3
<1>5. ASSUME NEW j \in 1..(Len(s) - 1)
      PROVE  RemoveAt(s, i)[j] = IF j < i THEN s[j] ELSE s[j + 1]
  <2>1. CASE j < i
    BY <1>1, <1>2, <1>3, <2>1
  <2>2. CASE ~(j < i)
    <3>1. j - (i - 1) \in 1..(Len(s) - i) /\ (j - (i - 1)) + i = j + 1
      BY <2>2
    <3>2. RemoveAt(s, i)[j] = b[j - (i - 1)]
      BY <1>1, <1>2, <1>3, <2>2, <3>1
    <3> QED
      BY <1>2, <2>2, <3>1, <3>2
  <2> QED
    BY <2>1, <2>2
<1> QED
  BY <1>4, <1>5

-----------------------------------------------------------------------------
(* AssistantChat: the inductive invariant.                                 *)

Ids == Tickets \cup {NoTicket}
Lines == {"user", "assistant"} \X (0..Offline)
Drafts == UNION {[places -> Lines] : places \in SUBSET Nat}

CardRec ==
  [kind : Kinds \cup {"none"}, status : CardStatus, on : Ids, draft : Drafts,
   edited : BOOLEAN, tries : Nat, result : Ids]

MessageRec ==
  [role : {"user", "assistant"}, body : 0..Offline, streaming : BOOLEAN, action : CardRec]

HookRec ==
  [messages : Seq(MessageRec), streaming : BOOLEAN, ticket : Ids, escalating : BOOLEAN,
   conversation : BOOLEAN, error : {"none", "offline", "failed", "incomplete"}]

TurnRec ==
  [phase : {"idle", "creating", "streaming", "offline"}, bot : Nat,
   wants : BOOLEAN, had : BOOLEAN]

FilingRec ==
  [chat : Chats, card : Nat, kind : Kinds, on : Ids, state : {"sent", "ok", "error"},
   got : Ids, here : BOOLEAN]

TicketRec == [chat : Chats, card : Nat, told : BOOLEAN]

Drafted(m) ==
  \A i \in 1..Len(m) : m[i].action.kind = "create" =>
    m[i].action.draft = Transcript(SubSeq(m, 1, i - 1))

\* A card that was confirmed counts that.
Tried(card) ==
  card.kind # "none" /\ card.status \in {"executing", "completed", "failed"} => card.tries > 0

\* A card with another below it is open only if it failed once.
Alone(m) ==
  \A i, j \in 1..Len(m) :
    /\ i < j /\ m[i].action.kind # "none" /\ m[j].action.kind # "none" /\ Open(m[i].action)
    => m[i].action.tries > 0

\* The messages of a chat whose reply that is coming is the one at b, or none.
Kept(m, b) ==
  /\ m \in Seq(MessageRec)
  /\ b = 0 \/ b = Len(m)
  /\ \A i \in 1..Len(m) : m[i].streaming <=> i = b
  /\ \A i \in 1..Len(m) : Tried(m[i].action)
  /\ Drafted(m)
  /\ Alone(m)

Coming(u) == IF u.phase = "idle" THEN 0 ELSE u.bot

HookKept(s, u) ==
  /\ s \in HookRec /\ u \in TurnRec
  /\ Kept(s.messages, Coming(u))
  /\ s.streaming <=> u.phase # "idle"
  /\ u.phase # "idle" => u.bot > 0

CardIn(m, i, status) ==
  i \in 1..Len(m) /\ m[i].action.kind # "none" /\ m[i].action.status = status

\* A request somebody waits for comes from a busy card, a busy card has one,
\* and a ticket that was told of belongs to a card that is done or just filing it.
Asks(f, c, i) == f.here /\ f.chat = c /\ f.card = i

Filed(h, fs, ts) ==
  /\ fs \in Seq(FilingRec)
  /\ DOMAIN ts \subseteq Tickets /\ ts \in [DOMAIN ts -> TicketRec]
  /\ \A k \in 1..Len(fs) : fs[k].here => CardIn(h[fs[k].chat].messages, fs[k].card, "executing")
  /\ \A k, l \in 1..Len(fs) : \A c \in Chats : \A i \in Nat :
       Asks(fs[k], c, i) /\ Asks(fs[l], c, i) => k = l
  /\ \A c \in Chats : \A i \in Nat : CardIn(h[c].messages, i, "executing") =>
       \E k \in 1..Len(fs) : Asks(fs[k], c, i)
  /\ \A t \in DOMAIN ts : ts[t].told =>
       \/ CardIn(h[ts[t].chat].messages, ts[t].card, "completed")
       \/ \E k \in 1..Len(fs) :
            Asks(fs[k], ts[t].chat, ts[t].card) /\ fs[k].state = "ok" /\ fs[k].got = t
  /\ \A t, v \in DOMAIN ts :
       ts[t].told /\ ts[v].told /\ ts[t].chat = ts[v].chat /\ ts[t].card = ts[v].card => t = v

ChatInductive ==
  /\ chat \in [Chats -> HookRec] /\ turn \in [Chats -> TurnRec]
  /\ \A c \in Chats : HookKept(chat[c], turn[c])
  /\ Filed(chat, filings, tickets)
  /\ moves \in 0..MaxMoves

-----------------------------------------------------------------------------
(* Messages.                                                               *)

LEMMA MessageIs ==
  ASSUME NEW m \in Seq(MessageRec), NEW i \in 1..Len(m)
  PROVE  /\ m[i] \in MessageRec /\ m[i].action \in CardRec
         /\ m[i].role \in {"user", "assistant"} /\ m[i].body \in 0..Offline
         /\ m[i].streaming \in BOOLEAN
<1>1. m[i] \in MessageRec
  OBVIOUS
<1> QED
  BY <1>1 DEF MessageRec

\* A transcript is a draft.
LEMMA TranscriptIs ==
  ASSUME NEW m \in Seq(MessageRec)
  PROVE  Transcript(m) \in Drafts
<1> DEFINE places == {j \in DOMAIN m : m[j].body # Empty}
<1>1. places \in SUBSET Nat
  OBVIOUS
<1>2. ASSUME NEW i \in places
      PROVE  <<m[i].role, m[i].body>> \in Lines
  BY MessageIs DEF Lines
<1>3. Transcript(m) = [i \in places |-> <<m[i].role, m[i].body>>]
  BY DEF Transcript
<1> HIDE DEF places
<1>4. Transcript(m) \in [places -> Lines]
  BY <1>2, <1>3
<1> QED
  BY <1>1, <1>4 DEF Drafts

\* Conversations that say the same have the same transcript.
LEMMA SameTranscript ==
  ASSUME NEW m \in Seq(MessageRec), NEW n \in Seq(MessageRec), NEW k \in Nat,
         k <= Len(m), k <= Len(n),
         \A j \in 1..k : m[j].role = n[j].role /\ m[j].body = n[j].body
  PROVE  Transcript(SubSeq(m, 1, k)) = Transcript(SubSeq(n, 1, k))
<1> DEFINE a == SubSeq(m, 1, k)
           b == SubSeq(n, 1, k)
<1>1. DOMAIN a = 1..k /\ \A j \in 1..k : a[j] = m[j]
  OBVIOUS
<1>2. DOMAIN b = 1..k /\ \A j \in 1..k : b[j] = n[j]
  OBVIOUS
<1> HIDE DEF a, b
<1>3. \A j \in 1..k : a[j].role = b[j].role /\ a[j].body = b[j].body
  BY <1>1, <1>2
<1>4. {j \in DOMAIN a : a[j].body # Empty} = {j \in DOMAIN b : b[j].body # Empty}
  BY <1>1, <1>2, <1>3
<1>5. \A i \in {j \in DOMAIN a : a[j].body # Empty} :
        <<a[i].role, a[i].body>> = <<b[i].role, b[i].body>>
  BY <1>1, <1>3
<1>6. Transcript(a) = Transcript(b)
  BY <1>4, <1>5 DEF Transcript
<1> QED
  BY <1>6 DEF a, b

\* What the cards of a chat tell the requests: which are busy, which are done.
SettledSame(m, n) ==
  \A i : /\ CardIn(n, i, "executing") <=> CardIn(m, i, "executing")
         /\ CardIn(m, i, "completed") => CardIn(n, i, "completed")

\* Whether the proposals stay true to the conversation depends on who said what.
LEMMA SameDrafts ==
  ASSUME NEW m \in Seq(MessageRec), NEW n \in Seq(MessageRec), Drafted(m), Len(n) = Len(m),
         \A i \in 1..Len(m) : i < Len(m) => m[i].role = n[i].role /\ m[i].body = n[i].body,
         \A i \in 1..Len(m) : /\ n[i].action.kind = m[i].action.kind
                              /\ n[i].action.draft = m[i].action.draft
  PROVE  Drafted(n)
<1> SUFFICES ASSUME NEW i \in 1..Len(n), n[i].action.kind = "create"
             PROVE  n[i].action.draft = Transcript(SubSeq(n, 1, i - 1))
  BY DEF Drafted
<1>1. m[i].action.draft = Transcript(SubSeq(m, 1, i - 1))
  BY DEF Drafted
<1>2. \A j \in 1..(i - 1) : m[j].role = n[j].role /\ m[j].body = n[j].body
  OBVIOUS
<1>3. i - 1 \in Nat /\ i - 1 <= Len(m) /\ i - 1 <= Len(n)
  OBVIOUS
<1>4. Transcript(SubSeq(m, 1, i - 1)) = Transcript(SubSeq(n, 1, i - 1))
  BY <1>2, <1>3, SameTranscript
<1> QED
  BY <1>1, <1>4

\* A card may change its status and what it carries, as long as it stays the
\* card of the same proposal and is opened again only after a confirmation.
LEMMA PatchedCard ==
  ASSUME NEW m, NEW b, Kept(m, b), NEW i \in 1..Len(m), NEW card \in CardRec, NEW n,
         n = [m EXCEPT ![i] = [m[i] EXCEPT !.action = card]],
         card.kind = m[i].action.kind, card.draft = m[i].action.draft, Tried(card),
         card.tries >= m[i].action.tries,
         Open(card) => Open(m[i].action) \/ card.tries > 0
  PROVE  /\ Kept(n, b) /\ Len(n) = Len(m)
         /\ n[i].action = card /\ \A j \in 1..Len(m) : j # i => n[j] = m[j]
<1>1. m \in Seq(MessageRec) /\ Len(m) \in Nat /\ DOMAIN m = 1..Len(m)
  BY DEF Kept
<1>2. m[i] \in MessageRec /\ m[i].action \in CardRec
  BY <1>1, MessageIs
<1>3. [m[i] EXCEPT !.action = card] \in MessageRec
  BY <1>2 DEF MessageRec
<1>4. n \in Seq(MessageRec) /\ Len(n) = Len(m)
  BY <1>1, <1>3
<1>5. n[i] = [m[i] EXCEPT !.action = card] /\ \A j \in 1..Len(m) : j # i => n[j] = m[j]
  BY <1>1
<1>6. n[i].action = card /\ n[i].role = m[i].role /\ n[i].body = m[i].body
      /\ n[i].streaming = m[i].streaming
  BY <1>2, <1>5 DEF MessageRec
<1>7. \A j \in 1..Len(m) : /\ n[j].role = m[j].role /\ n[j].body = m[j].body
                           /\ n[j].streaming = m[j].streaming
                           /\ n[j].action.kind = m[j].action.kind
                           /\ n[j].action.draft = m[j].action.draft
  BY <1>5, <1>6
<1>8. Drafted(n)
  BY <1>1, <1>4, <1>7, SameDrafts, ZenonT(60) DEF Kept
<1>9. \A j \in 1..Len(n) : (n[j].streaming <=> j = b) /\ Tried(n[j].action)
  BY <1>4, <1>5, <1>6, <1>7 DEF Kept
<1>10. Alone(n)
  <2> SUFFICES ASSUME NEW j \in 1..Len(n), NEW k \in 1..Len(n), j < k,
                      n[j].action.kind # "none", n[k].action.kind # "none", Open(n[j].action)
               PROVE  n[j].action.tries > 0
    BY DEF Alone
  <2>1. m[j].action.kind # "none" /\ m[k].action.kind # "none"
    BY <1>4, <1>7
  <2>2. Open(m[j].action) => m[j].action.tries > 0
    BY <1>4, <2>1 DEF Kept, Alone
  <2>3. m[i].action.tries \in Nat /\ card.tries \in Nat
    BY <1>2 DEF CardRec
  <2> QED
    BY <1>4, <1>5, <1>6, <2>2, <2>3
<1> QED
  BY <1>4, <1>5, <1>6, <1>8, <1>9, <1>10 DEF Kept

\* The reply that is coming grows, or ends.
LEMMA PatchedReply ==
  ASSUME NEW m, NEW b, Kept(m, b), b > 0, NEW on \in BOOLEAN, NEW n \in Seq(MessageRec),
         Len(n) = Len(m), \A j \in 1..Len(m) : j # b => n[j] = m[j],
         n[b].action = m[b].action, n[b].role = m[b].role, n[b].streaming = on
  PROVE  Kept(n, IF on THEN b ELSE 0) /\ SettledSame(m, n)
<1>1. m \in Seq(MessageRec) /\ Len(m) \in Nat /\ DOMAIN m = 1..Len(m) /\ b = Len(m) /\ b \in 1..Len(m)
  BY DEF Kept
<1>7. \A j \in 1..Len(m) : n[j].action = m[j].action /\ n[j].role = m[j].role
  OBVIOUS
<1>8. Drafted(n)
  <2>1. \A j \in 1..Len(m) : j < Len(m) => m[j].role = n[j].role /\ m[j].body = n[j].body
    BY <1>1
  <2>2. \A j \in 1..Len(m) : /\ n[j].action.kind = m[j].action.kind
                             /\ n[j].action.draft = m[j].action.draft
    BY <1>7
  <2>3. Drafted(m)
    BY DEF Kept
  <2> QED
    BY <1>1, <2>1, <2>2, <2>3, SameDrafts
<1>9. \A j \in 1..Len(n) : n[j].streaming <=> j = (IF on THEN b ELSE 0)
  BY <1>1 DEF Kept
<1>10. Alone(n) /\ \A j \in 1..Len(n) : Tried(n[j].action)
  BY <1>7 DEF Kept, Alone
<1>11. SettledSame(m, n)
  BY <1>7 DEF SettledSame, CardIn
<1> QED
  BY <1>1, <1>8, <1>9, <1>10, <1>11 DEF Kept

\* A message is added below, with a proposal only when no card is open.
LEMMA AddedMessage ==
  ASSUME NEW m, Kept(m, 0), NEW x \in MessageRec,
         x.action.kind # "none" =>
           /\ ~hasOpenAction(m) /\ x.action.status \in {"pending", "editing"}
           /\ x.action.kind = "create" => x.action.draft = Transcript(m)
  PROVE  /\ Kept(Append(m, x), IF x.streaming THEN Len(m) + 1 ELSE 0)
         /\ Len(Append(m, x)) = Len(m) + 1
         /\ SettledSame(m, Append(m, x))
<1> DEFINE n == Append(m, x)
<1>1. m \in Seq(MessageRec) /\ Len(m) \in Nat /\ DOMAIN m = 1..Len(m)
  BY DEF Kept
<1>2. /\ n \in Seq(MessageRec) /\ Len(n) = Len(m) + 1 /\ n[Len(m) + 1] = x
      /\ \A j \in 1..Len(m) : n[j] = m[j]
  BY <1>1
<1>3. SubSeq(n, 1, Len(m)) = m
  BY <1>1
<1> HIDE DEF n
<1>4. x.streaming \in BOOLEAN
  BY DEF MessageRec
<1>5. \A j \in 1..Len(n) : j \in 1..Len(m) \/ j = Len(m) + 1
  BY <1>1, <1>2
<1>6. \A j \in 1..Len(n) : n[j].streaming <=> j = (IF x.streaming THEN Len(m) + 1 ELSE 0)
  BY <1>1, <1>2, <1>4, <1>5 DEF Kept
<1>7. \A j \in 1..Len(n) : Tried(n[j].action)
  <2>1. Tried(x.action)
    BY DEF Tried
  <2> QED
    BY <1>2, <1>5, <2>1 DEF Kept
<1>8. Drafted(n)
  <2> SUFFICES ASSUME NEW i \in 1..Len(n), n[i].action.kind = "create"
               PROVE  n[i].action.draft = Transcript(SubSeq(n, 1, i - 1))
    BY DEF Drafted
  <2>1. CASE i = Len(m) + 1
    <3>1. i - 1 = Len(m) /\ n[i] = x
      BY <1>1, <1>2, <2>1
    <3> QED
      BY <1>3, <3>1
  <2>2. CASE i \in 1..Len(m)
    <3>1. n[i].action.draft = Transcript(SubSeq(m, 1, i - 1))
      BY <1>2, <2>2 DEF Kept, Drafted
    <3>2. i - 1 \in Nat /\ i - 1 <= Len(m) /\ i - 1 <= Len(n)
      BY <1>1, <1>2, <2>2
    <3>3. \A j \in 1..(i - 1) : m[j].role = n[j].role /\ m[j].body = n[j].body
      BY <1>1, <1>2, <2>2
    <3>4. Transcript(SubSeq(m, 1, i - 1)) = Transcript(SubSeq(n, 1, i - 1))
      BY <1>1, <1>2, <3>2, <3>3, SameTranscript
    <3> QED
      BY <3>1, <3>4
  <2> QED
    BY <1>5, <2>1, <2>2
<1>9. Alone(n)
  <2> SUFFICES ASSUME NEW j \in 1..Len(n), NEW k \in 1..Len(n), j < k,
                      n[j].action.kind # "none", n[k].action.kind # "none", Open(n[j].action)
               PROVE  n[j].action.tries > 0
    BY DEF Alone
  <2>1. j \in 1..Len(m) /\ n[j] = m[j]
    BY <1>1, <1>2
  <2>2. CASE k \in 1..Len(m)
    BY <1>2, <2>1, <2>2 DEF Kept, Alone
  <2>3. CASE k = Len(m) + 1
    <3>1. ~hasOpenAction(m)
      BY <1>2, <2>3
    <3> QED
      BY <1>1, <2>1, <3>1 DEF hasOpenAction
  <2> QED
    BY <1>5, <2>2, <2>3
<1>10. SettledSame(m, n)
  <2>1. ~CardIn(n, Len(m) + 1, "executing")
    BY <1>2 DEF CardIn
  <2> QED
    BY <1>1, <1>2, <1>5, <2>1 DEF SettledSame, CardIn
<1>11. Kept(n, IF x.streaming THEN Len(m) + 1 ELSE 0)
  BY <1>2, <1>4, <1>6, <1>7, <1>8, <1>9 DEF Kept
<1> QED
  BY <1>2, <1>10, <1>11 DEF n

-----------------------------------------------------------------------------
(* The state of a hook.                                                    *)

LEMMA NoDraft == <<>> \in Drafts
<1>1. <<>> \in [{} -> Lines]
  OBVIOUS
<1>2. {} \in SUBSET Nat
  OBVIOUS
<1> QED
  BY <1>1, <1>2 DEF Drafts

LEMMA NewCard ==
  ASSUME NEW kind \in Kinds \cup {"none"}, NEW status \in CardStatus, NEW on \in Ids,
         NEW draft \in Drafts
  PROVE  /\ Card(kind, status, on, draft) \in CardRec
         /\ Card(kind, status, on, draft).kind = kind
         /\ Card(kind, status, on, draft).status = status
         /\ Card(kind, status, on, draft).draft = draft
<1>1. NoTicket \in Ids
  BY DEF Ids
<1> HIDE DEF Drafts
<1> QED
  BY <1>1 DEF Card, CardRec

LEMMA NoCardIs == NoCard \in CardRec /\ NoCard.kind = "none"
<1>1. "none" \in Kinds \cup {"none"} /\ "cancelled" \in CardStatus /\ NoTicket \in Ids
  BY DEF CardStatus, Ids
<1> QED
  BY <1>1, NoDraft, NewCard DEF NoCard

LEMMA TextIs == Text \in 0..Offline /\ Empty \in 0..Offline /\ Offline \in 0..Offline
BY ChatAssumption DEF Text, Empty, Offline

LEMMA MessageOf ==
  ASSUME NEW role \in {"user", "assistant"}, NEW body \in 0..Offline, NEW on \in BOOLEAN,
         NEW card \in CardRec
  PROVE  /\ Message(role, body, on, card) \in MessageRec
         /\ Message(role, body, on, card).streaming = on
         /\ Message(role, body, on, card).action = card
BY DEF Message, MessageRec

LEMMA PatchActionIs ==
  ASSUME NEW s \in HookRec, NEW i \in 1..Len(s.messages), NEW card \in CardRec
  PROVE  LET p == patchAction(s, i, card)
         IN /\ p.messages = [s.messages EXCEPT ![i] = [s.messages[i] EXCEPT !.action = card]]
            /\ p.messages \in Seq(MessageRec) => p \in HookRec
            /\ p.streaming = s.streaming
BY DEF patchAction, HookRec

LEMMA PatchMessageIs ==
  ASSUME NEW s \in HookRec, NEW i \in 1..Len(s.messages), NEW body \in 0..Offline, NEW on \in BOOLEAN,
         NEW p, p = patchMessage(s, i, body, on)
  PROVE  /\ p \in HookRec /\ p.streaming = s.streaming
         /\ p.messages \in Seq(MessageRec) /\ Len(p.messages) = Len(s.messages)
         /\ \A j \in 1..Len(s.messages) : j # i => p.messages[j] = s.messages[j]
         /\ p.messages[i].action = s.messages[i].action
         /\ p.messages[i].role = s.messages[i].role
         /\ p.messages[i].streaming = on
<1> DEFINE r == [s.messages[i] EXCEPT !.body = body, !.streaming = on]
<1>1. s.messages \in Seq(MessageRec)
  BY DEF HookRec
<1>2. s.messages[i] \in MessageRec
  BY <1>1, MessageIs
<1>3. /\ r \in MessageRec
      /\ r.action = s.messages[i].action /\ r.role = s.messages[i].role /\ r.streaming = on
  BY <1>2 DEF MessageRec
<1>4. /\ p.messages = [s.messages EXCEPT ![i] = r] /\ p.streaming = s.streaming
      /\ p.messages \in Seq(MessageRec) => p \in HookRec
  BY DEF patchMessage, HookRec
<1> HIDE DEF r
<1>5. /\ p.messages \in Seq(MessageRec) /\ Len(p.messages) = Len(s.messages) /\ p.messages[i] = r
      /\ \A j \in 1..Len(s.messages) : j # i => p.messages[j] = s.messages[j]
  BY <1>1, <1>3, <1>4
<1> QED
  BY <1>3, <1>4, <1>5

\* One hook moves on, the others stay.
LEMMA OneHook ==
  ASSUME ChatInductive, NEW c \in Chats, NEW s, NEW u, HookKept(s, u),
         chat' = [chat EXCEPT ![c] = s], turn' = [turn EXCEPT ![c] = u]
  PROVE  /\ chat' \in [Chats -> HookRec] /\ turn' \in [Chats -> TurnRec]
         /\ \A d \in Chats : HookKept(chat'[d], turn'[d])
         /\ chat'[c] = s /\ \A d \in Chats : d # c => chat'[d] = chat[d]
<1>1. chat \in [Chats -> HookRec] /\ turn \in [Chats -> TurnRec]
  BY DEF ChatInductive
<1>2. s \in HookRec /\ u \in TurnRec
  BY DEF HookKept
<1>3. chat'[c] = s /\ turn'[c] = u
      /\ \A d \in Chats : d # c => chat'[d] = chat[d] /\ turn'[d] = turn[d]
  BY <1>1
<1>4. \A d \in Chats : HookKept(chat'[d], turn'[d])
  <2> SUFFICES ASSUME NEW d \in Chats
               PROVE  HookKept(chat'[d], turn'[d])
    OBVIOUS
  <2>1. CASE d = c
    BY <1>3, <2>1
  <2>2. CASE d # c
    BY <1>3, <2>2 DEF ChatInductive
  <2> QED
    BY <2>1, <2>2
<1> QED
  BY <1>1, <1>2, <1>3, <1>4

\* As long as the busy and the finished cards stay what they are, the requests
\* and the tickets fit the cards.
LEMMA FiledStays ==
  ASSUME NEW h, NEW g, NEW fs, NEW ts, Filed(h, fs, ts),
         \A c \in Chats : SettledSame(h[c].messages, g[c].messages)
  PROVE  Filed(g, fs, ts)
<1>1. fs \in Seq(FilingRec) /\ DOMAIN ts \subseteq Tickets /\ ts \in [DOMAIN ts -> TicketRec]
  BY DEF Filed
<1>2. ASSUME NEW k \in 1..Len(fs), fs[k].here
      PROVE  CardIn(g[fs[k].chat].messages, fs[k].card, "executing")
  <2>1. fs[k] \in FilingRec
    BY <1>1
  <2>2. fs[k].chat \in Chats
    BY <2>1 DEF FilingRec
  <2>3. CardIn(h[fs[k].chat].messages, fs[k].card, "executing")
    BY <1>2 DEF Filed
  <2> QED
    BY <2>2, <2>3 DEF SettledSame
<1>3. ASSUME NEW c \in Chats, NEW i \in Nat, CardIn(g[c].messages, i, "executing")
      PROVE  \E k \in 1..Len(fs) : Asks(fs[k], c, i)
  <2>1. CardIn(h[c].messages, i, "executing")
    BY <1>3 DEF SettledSame
  <2> QED
    BY <2>1 DEF Filed
<1>4. ASSUME NEW t \in DOMAIN ts, ts[t].told
      PROVE  \/ CardIn(g[ts[t].chat].messages, ts[t].card, "completed")
             \/ \E k \in 1..Len(fs) :
                  Asks(fs[k], ts[t].chat, ts[t].card) /\ fs[k].state = "ok" /\ fs[k].got = t
  <2>1. ts[t] \in TicketRec
    BY <1>1
  <2>2. ts[t].chat \in Chats
    BY <2>1 DEF TicketRec
  <2>3. \/ CardIn(h[ts[t].chat].messages, ts[t].card, "completed")
        \/ \E k \in 1..Len(fs) :
             Asks(fs[k], ts[t].chat, ts[t].card) /\ fs[k].state = "ok" /\ fs[k].got = t
    BY <1>4 DEF Filed
  <2> QED
    BY <2>2, <2>3 DEF SettledSame
<1>5. /\ \A k, l \in 1..Len(fs) : \A c \in Chats : \A i \in Nat :
           Asks(fs[k], c, i) /\ Asks(fs[l], c, i) => k = l
      /\ \A t, v \in DOMAIN ts :
           ts[t].told /\ ts[v].told /\ ts[t].chat = ts[v].chat /\ ts[t].card = ts[v].card => t = v
  BY DEF Filed
<1> QED
  BY <1>1, <1>2, <1>3, <1>4, <1>5 DEF Filed

\* A step of one hook that no request and no ticket hears of.
LEMMA QuietHook ==
  ASSUME ChatInductive, NEW c \in Chats, NEW s, NEW u, HookKept(s, u),
         chat' = [chat EXCEPT ![c] = s], turn' = [turn EXCEPT ![c] = u],
         SettledSame(chat[c].messages, s.messages),
         UNCHANGED <<filings, tickets>>, moves' \in 0..MaxMoves
  PROVE  ChatInductive'
<1>1. /\ chat' \in [Chats -> HookRec] /\ turn' \in [Chats -> TurnRec]
      /\ \A d \in Chats : HookKept(chat'[d], turn'[d])
      /\ chat'[c] = s /\ \A d \in Chats : d # c => chat'[d] = chat[d]
  BY OneHook
<1>2. \A d \in Chats : SettledSame(chat[d].messages, chat'[d].messages)
  BY <1>1 DEF SettledSame
<1>3. Filed(chat, filings, tickets)
  BY DEF ChatInductive
<1>4. Filed(chat', filings, tickets)
  BY <1>2, <1>3, FiledStays
<1> QED
  BY <1>1, <1>4 DEF ChatInductive

LEMMA MoveIs ==
  ASSUME moves \in 0..MaxMoves, Move
  PROVE  moves' \in 0..MaxMoves
BY ChatAssumption DEF Move

LEMMA HookIs ==
  ASSUME ChatInductive, NEW c \in Chats
  PROVE  /\ HookKept(chat[c], turn[c]) /\ chat[c] \in HookRec /\ turn[c] \in TurnRec
         /\ chat[c].messages \in Seq(MessageRec)
         /\ DOMAIN chat[c].messages = 1..Len(chat[c].messages)
         /\ Len(chat[c].messages) \in Nat
         /\ Kept(chat[c].messages, Coming(turn[c]))
         /\ turn = [turn EXCEPT ![c] = turn[c]]
         /\ chat[c].ticket \in Ids /\ chat[c].streaming \in BOOLEAN
<1>1. HookKept(chat[c], turn[c]) /\ turn = [turn EXCEPT ![c] = turn[c]]
  BY DEF ChatInductive
<1>2. chat[c] \in HookRec /\ turn[c] \in TurnRec /\ Kept(chat[c].messages, Coming(turn[c]))
  BY <1>1 DEF HookKept
<1> HIDE DEF MessageRec
<1>3. chat[c].messages \in Seq(MessageRec) /\ chat[c].ticket \in Ids /\ chat[c].streaming \in BOOLEAN
  BY <1>2 DEF HookRec
<1> QED
  BY <1>1, <1>2, <1>3

LEMMA SettledTwice ==
  ASSUME NEW m, NEW n, NEW p, SettledSame(m, n), SettledSame(n, p)
  PROVE  SettledSame(m, p)
BY DEF SettledSame

-----------------------------------------------------------------------------
(* send() and its stream.                                                  *)

LEMMA TwoAppended ==
  ASSUME NEW T, NEW m \in Seq(T), NEW x \in T, NEW y \in T
  PROVE  m \o <<x, y>> = Append(Append(m, x), y)
OBVIOUS

LEMMA SendStep ==
  ASSUME ChatInductive, NEW c \in Chats, NEW wants \in BOOLEAN, Send(c, wants)
  PROVE  ChatInductive'
<1> DEFINE s == chat[c]
           x == Message("user", Text, FALSE, NoCard)
           y == Message("assistant", Empty, TRUE, NoCard)
           said == s.messages \o <<x, y>>
           s2 == [s EXCEPT !.messages = said, !.streaming = TRUE, !.error = "none"]
           u2 == [phase |-> IF s.conversation THEN "streaming" ELSE "creating",
                  bot |-> Len(said), wants |-> wants, had |-> s.ticket # NoTicket]
<1>1. /\ s \in HookRec /\ s.messages \in Seq(MessageRec) /\ Len(s.messages) \in Nat
      /\ Kept(s.messages, Coming(turn[c])) /\ HookKept(s, turn[c])
  BY HookIs
<1>2. Kept(s.messages, 0)
  <2>1. ~s.streaming
    BY DEF Send
  <2>2. turn[c].phase = "idle"
    BY <1>1, <2>1 DEF HookKept
  <2> QED
    BY <1>1, <2>2 DEF Coming
<1>3. x \in MessageRec /\ x.streaming = FALSE /\ x.action.kind = "none"
  <2>1. Text \in 0..Offline /\ NoCard \in CardRec /\ NoCard.kind = "none"
    BY TextIs, NoCardIs
  <2>2. "user" \in {"user", "assistant"} /\ FALSE \in BOOLEAN
    OBVIOUS
  <2> QED
    BY <2>1, <2>2, MessageOf, ZenonT(60)
<1>4. y \in MessageRec /\ y.streaming = TRUE /\ y.action.kind = "none"
  <2>1. Empty \in 0..Offline /\ NoCard \in CardRec /\ NoCard.kind = "none"
    BY TextIs, NoCardIs
  <2>2. "assistant" \in {"user", "assistant"} /\ TRUE \in BOOLEAN
    OBVIOUS
  <2> QED
    BY <2>1, <2>2, MessageOf, ZenonT(60)
<1> HIDE DEF x, y
<1>5. said = Append(Append(s.messages, x), y)
  BY <1>1, <1>3, <1>4, TwoAppended, SMTT(60)
<1>6. /\ Kept(Append(s.messages, x), 0) /\ SettledSame(s.messages, Append(s.messages, x))
      /\ Len(Append(s.messages, x)) = Len(s.messages) + 1
  BY <1>2, <1>3, AddedMessage
<1>7. /\ Kept(said, Len(s.messages) + 2)
      /\ SettledSame(Append(s.messages, x), said) /\ Len(said) = Len(s.messages) + 2
  <2> DEFINE a == Append(s.messages, x)
  <2>1. /\ Kept(Append(a, y), IF y.streaming THEN Len(a) + 1 ELSE 0)
        /\ Len(Append(a, y)) = Len(a) + 1 /\ SettledSame(a, Append(a, y))
    <3> HIDE DEF a
    <3> QED
      BY <1>4, <1>6, AddedMessage DEF a
  <2> QED
    <3>1. Append(a, y) = said /\ Len(a) + 1 = Len(s.messages) + 2
      BY <1>1, <1>5, <1>6, SMTT(60)
    <3>2. (IF y.streaming THEN Len(a) + 1 ELSE 0) = Len(s.messages) + 2
      BY <1>4, <3>1
    <3>3. Len(said) = Len(s.messages) + 2
      BY <2>1, <3>1
    <3> QED
      BY <2>1, <3>1, <3>2, <3>3
<1>8. SettledSame(s.messages, said)
  BY <1>6, <1>7, SettledTwice
<1> HIDE DEF said
<1>9. said \in Seq(MessageRec)
  BY <1>7 DEF Kept
<1>10. s2 \in HookRec /\ s2.messages = said /\ s2.streaming
  BY <1>1, <1>9 DEF HookRec
<1>11. u2 \in TurnRec /\ u2.phase # "idle" /\ u2.bot = Len(s.messages) + 2
  BY <1>1, <1>7 DEF TurnRec
<1> HIDE DEF s2, u2
<1>12. HookKept(s2, u2)
  BY <1>1, <1>7, <1>10, <1>11 DEF HookKept, Coming
<1>13. /\ Move /\ chat' = [chat EXCEPT ![c] = s2] /\ turn' = [turn EXCEPT ![c] = u2]
       /\ UNCHANGED <<filings, tickets>>
  BY DEF Send, s2, u2, said, s, x, y
<1>14. moves' \in 0..MaxMoves
  BY <1>13, MoveIs DEF ChatInductive
<1> QED
  BY <1>8, <1>10, <1>12, <1>13, <1>14, QuietHook

LEMMA SettledItself == ASSUME NEW m PROVE SettledSame(m, m)
BY DEF SettledSame

LEMMA CreateConversationStep ==
  ASSUME ChatInductive, NEW c \in Chats, CreateConversation(c)
  PROVE  ChatInductive'
<1> DEFINE s2 == [chat[c] EXCEPT !.conversation = TRUE]
           u2 == [turn[c] EXCEPT !.phase = "streaming"]
<1>1. chat[c] \in HookRec /\ turn[c] \in TurnRec /\ HookKept(chat[c], turn[c])
  BY HookIs
<1>2. s2 \in HookRec /\ s2.messages = chat[c].messages /\ s2.streaming = chat[c].streaming
  BY <1>1 DEF HookRec
<1>3. u2 \in TurnRec /\ u2.phase = "streaming" /\ u2.bot = turn[c].bot
  BY <1>1 DEF TurnRec
<1>4. turn[c].phase # "idle"
  BY DEF CreateConversation
<1>5. /\ chat' = [chat EXCEPT ![c] = s2] /\ turn' = [turn EXCEPT ![c] = u2]
      /\ UNCHANGED <<filings, tickets, moves>>
  BY DEF CreateConversation
<1> HIDE DEF s2, u2
<1>6. HookKept(s2, u2)
  BY <1>1, <1>2, <1>3, <1>4 DEF HookKept, Coming
<1> QED
  BY <1>2, <1>5, <1>6, SettledItself, QuietHook DEF ChatInductive

LEMMA ErrorEventStep ==
  ASSUME ChatInductive, NEW c \in Chats, ErrorEvent(c)
  PROVE  ChatInductive'
<1> DEFINE s2 == [chat[c] EXCEPT !.error = "offline"]
           u2 == [turn[c] EXCEPT !.phase = "offline"]
<1>1. chat[c] \in HookRec /\ turn[c] \in TurnRec /\ HookKept(chat[c], turn[c])
  BY HookIs
<1>2. s2 \in HookRec /\ s2.messages = chat[c].messages /\ s2.streaming = chat[c].streaming
  BY <1>1 DEF HookRec
<1>3. u2 \in TurnRec /\ u2.phase = "offline" /\ u2.bot = turn[c].bot
  BY <1>1 DEF TurnRec
<1>4. turn[c].phase # "idle"
  BY DEF ErrorEvent
<1>5. /\ chat' = [chat EXCEPT ![c] = s2] /\ turn' = [turn EXCEPT ![c] = u2]
      /\ UNCHANGED <<filings, tickets, moves>>
  BY DEF ErrorEvent
<1> HIDE DEF s2, u2
<1>6. HookKept(s2, u2)
  BY <1>1, <1>2, <1>3, <1>4 DEF HookKept, Coming
<1> QED
  BY <1>2, <1>5, <1>6, SettledItself, QuietHook DEF ChatInductive

\* The reply of a chat whose turn is under way may be changed.
LEMMA ReplyIs ==
  ASSUME ChatInductive, NEW c \in Chats, turn[c].phase # "idle",
         NEW body \in 0..Offline, NEW on \in BOOLEAN
  PROVE  LET s == patchMessage(chat[c], turn[c].bot, body, on)
         IN /\ s \in HookRec /\ s.streaming = chat[c].streaming
            /\ Kept(s.messages, IF on THEN turn[c].bot ELSE 0)
            /\ SettledSame(chat[c].messages, s.messages)
            /\ turn[c].bot > 0
            /\ chat[c].messages[turn[c].bot].body \in 0..Offline
<1> DEFINE b == turn[c].bot
           m == chat[c].messages
           s == patchMessage(chat[c], b, body, on)
<1>1. /\ chat[c] \in HookRec /\ turn[c] \in TurnRec /\ HookKept(chat[c], turn[c])
      /\ m \in Seq(MessageRec) /\ Kept(m, Coming(turn[c])) /\ Len(m) \in Nat
  BY HookIs
<1>2. Kept(m, b) /\ b > 0
  BY <1>1 DEF HookKept, Coming
<1>3. b \in Nat
  BY <1>1 DEF TurnRec
<1>4. b \in 1..Len(m)
  BY <1>1, <1>2, <1>3 DEF Kept
<1>5. m[b].body \in 0..Offline
  BY <1>1, <1>4, MessageIs
<1>6. /\ s \in HookRec /\ s.streaming = chat[c].streaming
      /\ s.messages \in Seq(MessageRec) /\ Len(s.messages) = Len(m)
      /\ \A j \in 1..Len(m) : j # b => s.messages[j] = m[j]
      /\ s.messages[b].action = m[b].action /\ s.messages[b].role = m[b].role
      /\ s.messages[b].streaming = on
  <2>1. s = patchMessage(chat[c], b, body, on)
    OBVIOUS
  <2> HIDE DEF b, s
  <2> QED
    BY <1>1, <1>4, <2>1, PatchMessageIs, SMTT(60)
<1> HIDE DEF m, b, s
<1>7. Kept(s.messages, IF on THEN b ELSE 0) /\ SettledSame(m, s.messages)
  BY <1>2, <1>6, PatchedReply
<1> QED
  BY <1>2, <1>5, <1>6, <1>7 DEF m, b, s

LEMMA TokenStep ==
  ASSUME ChatInductive, NEW c \in Chats, Token(c)
  PROVE  ChatInductive'
<1> DEFINE b == turn[c].bot
           body == chat[c].messages[b].body
           s2 == patchMessage(chat[c], b, body + 1, TRUE)
<1>1. HookKept(chat[c], turn[c]) /\ turn[c] \in TurnRec /\ turn = [turn EXCEPT ![c] = turn[c]]
  BY HookIs
<1>2. /\ turn[c].phase # "idle" /\ body < MaxTokens /\ chat' = [chat EXCEPT ![c] = s2]
      /\ UNCHANGED <<turn, filings, tickets, moves>>
  BY DEF Token
<1>3. body \in 0..Offline
  BY <1>2, TextIs, ReplyIs
<1>4. body + 1 \in 0..Offline
  BY <1>2, <1>3, ChatAssumption, SMTT(60) DEF Offline
<1>5. /\ s2 \in HookRec /\ s2.streaming = chat[c].streaming /\ Kept(s2.messages, b)
      /\ SettledSame(chat[c].messages, s2.messages)
  BY <1>2, <1>4, ReplyIs
<1> HIDE DEF s2
<1>6. HookKept(s2, turn[c])
  BY <1>1, <1>2, <1>5 DEF HookKept, Coming
<1>7. turn' = [turn EXCEPT ![c] = turn[c]]
  BY <1>1, <1>2
<1> QED
  BY <1>2, <1>5, <1>6, <1>7, QuietHook DEF ChatInductive

\* A proposal is written below the chat if no card is open there.
LEMMA ProposalKept ==
  ASSUME NEW m, Kept(m, 0)
  PROVE  /\ Kept(withCreateProposalMessage(m), 0)
         /\ SettledSame(m, withCreateProposalMessage(m))
<1>1. CASE hasOpenAction(m)
  BY <1>1, SettledItself DEF withCreateProposalMessage
<1>2. CASE ~hasOpenAction(m)
  <2> DEFINE card == Card("create", "pending", NoTicket, Transcript(m))
             x == Message("assistant", Text, FALSE, card)
  <2>1. m \in Seq(MessageRec)
    BY DEF Kept
  <2>2. /\ "create" \in Kinds /\ "pending" \in CardStatus /\ NoTicket \in Ids
        /\ Transcript(m) \in Drafts
    BY <2>1, TranscriptIs DEF Kinds, CardStatus, Ids
  <2>3. /\ card \in CardRec /\ card.kind = "create" /\ card.status = "pending"
        /\ card.draft = Transcript(m)
    BY <2>2, NewCard
  <2> HIDE DEF card
  <2>4. Text \in 0..Offline /\ FALSE \in BOOLEAN /\ "assistant" \in {"user", "assistant"}
    BY TextIs
  <2>5. x \in MessageRec /\ x.streaming = FALSE /\ x.action = card
    BY <2>3, <2>4, MessageOf, ZenonT(60)
  <2>6. withCreateProposalMessage(m) = Append(m, x)
    BY <1>2 DEF withCreateProposalMessage, x, card
  <2> HIDE DEF x
  <2>7. /\ Kept(Append(m, x), IF x.streaming THEN Len(m) + 1 ELSE 0)
        /\ SettledSame(m, Append(m, x))
    BY <1>2, <2>3, <2>5, AddedMessage
  <2> QED
    BY <2>5, <2>6, <2>7
<1> QED
  BY <1>1, <1>2

LEMMA EndTurnStep ==
  ASSUME ChatInductive, NEW c \in Chats, NEW s \in HookRec, Kept(s.messages, 0),
         SettledSame(chat[c].messages, s.messages), EndTurn(c, s)
  PROVE  ChatInductive'
<1> DEFINE s2 == Finally(s, turn[c].wants, turn[c].had)
<1>1. /\ chat' = [chat EXCEPT ![c] = s2] /\ turn' = [turn EXCEPT ![c] = NoTurn]
      /\ UNCHANGED <<filings, tickets, moves>>
  BY DEF EndTurn
<1>2. /\ Kept(withCreateProposalMessage(s.messages), 0)
      /\ SettledSame(s.messages, withCreateProposalMessage(s.messages))
  BY ProposalKept
<1>3. \/ s2.messages = s.messages
      \/ s2.messages = withCreateProposalMessage(s.messages)
  BY DEF Finally, HookRec
<1>4. ~s2.streaming /\ (s2.messages \in Seq(MessageRec) => s2 \in HookRec)
  BY DEF Finally, HookRec
<1> HIDE DEF s2
<1>5. Kept(s2.messages, 0) /\ SettledSame(chat[c].messages, s2.messages)
  BY <1>2, <1>3, SettledTwice
<1>6. NoTurn \in TurnRec /\ NoTurn.phase = "idle"
  BY DEF NoTurn, TurnRec
<1>7. s2.messages \in Seq(MessageRec)
  BY <1>5 DEF Kept
<1>8. HookKept(s2, NoTurn)
  BY <1>4, <1>5, <1>6, <1>7 DEF HookKept, Coming
<1> QED
  BY <1>1, <1>5, <1>8, QuietHook DEF ChatInductive

LEMMA DoneStep ==
  ASSUME ChatInductive, NEW c \in Chats, Done(c)
  PROVE  ChatInductive'
<1> DEFINE body == chat[c].messages[turn[c].bot].body
           said == IF turn[c].phase = "streaming" THEN body
                   ELSE IF body = Empty THEN Offline ELSE body
           s == patchMessage(chat[c], turn[c].bot, said, FALSE)
<1>1. turn[c].phase # "idle" /\ EndTurn(c, s)
  BY DEF Done
<1>2. body \in 0..Offline
  BY <1>1, TextIs, ReplyIs
<1>3. said \in 0..Offline
  BY <1>2, TextIs
<1> HIDE DEF said
<1>4. s \in HookRec /\ Kept(s.messages, 0) /\ SettledSame(chat[c].messages, s.messages)
  BY <1>1, <1>3, ReplyIs, ZenonT(60)
<1> QED
  BY <1>1, <1>4, EndTurnStep

LEMMA TurnFailsStep ==
  ASSUME ChatInductive, NEW c \in Chats, TurnFails(c)
  PROVE  ChatInductive'
<1> DEFINE body == chat[c].messages[turn[c].bot].body
           said == IF body = Empty THEN Text ELSE body
           s == patchMessage(chat[c], turn[c].bot, said, FALSE)
           s2 == [s EXCEPT !.error = "failed"]
<1>1. turn[c].phase # "idle" /\ EndTurn(c, s2)
  BY ZenonT(60) DEF TurnFails
<1>2. body \in 0..Offline
  BY <1>1, TextIs, ReplyIs
<1>3. said \in 0..Offline
  BY <1>2, TextIs
<1> HIDE DEF said
<1>4. s \in HookRec /\ Kept(s.messages, 0) /\ SettledSame(chat[c].messages, s.messages)
  BY <1>1, <1>3, ReplyIs
<1> HIDE DEF s
<1>5. s2 \in HookRec /\ s2.messages = s.messages
  BY <1>4 DEF HookRec
<1> HIDE DEF s2
<1> QED
  BY <1>1, <1>4, <1>5, EndTurnStep, SMTT(60)

-----------------------------------------------------------------------------
(* Proposals and cards.                                                    *)

LEMMA ChangeStep ==
  ASSUME ChatInductive, NEW c \in Chats, NEW s, HookKept(s, turn[c]),
         SettledSame(chat[c].messages, s.messages), Change(c, s)
  PROVE  ChatInductive'
<1>1. /\ Move /\ chat' = [chat EXCEPT ![c] = s] /\ UNCHANGED <<turn, filings, tickets>>
  BY DEF Change
<1>2. turn' = [turn EXCEPT ![c] = turn[c]]
  BY <1>1, HookIs
<1>3. moves' \in 0..MaxMoves
  BY <1>1, MoveIs DEF ChatInductive
<1> QED
  BY <1>1, <1>2, <1>3, QuietHook

LEMMA IdleIs ==
  ASSUME ChatInductive, NEW c \in Chats, ~chat[c].streaming
  PROVE  turn[c].phase = "idle" /\ Coming(turn[c]) = 0 /\ Kept(chat[c].messages, 0)
<1>1. HookKept(chat[c], turn[c])
  BY HookIs
<1> QED
  BY <1>1 DEF HookKept, Coming

LEMMA ProposeCreateStep ==
  ASSUME ChatInductive, NEW c \in Chats, proposeCreate(c)
  PROVE  ChatInductive'
<1> DEFINE s == [chat[c] EXCEPT !.messages = withCreateProposalMessage(chat[c].messages)]
<1>1. Change(c, s) /\ ~chat[c].streaming
  BY DEF proposeCreate, canProposeCreate, CanPropose
<1>2. turn[c].phase = "idle" /\ Coming(turn[c]) = 0 /\ Kept(chat[c].messages, 0)
  BY <1>1, IdleIs
<1>3. /\ Kept(withCreateProposalMessage(chat[c].messages), 0)
      /\ SettledSame(chat[c].messages, withCreateProposalMessage(chat[c].messages))
  BY <1>2, ProposalKept
<1>4. withCreateProposalMessage(chat[c].messages) \in Seq(MessageRec)
  BY <1>3 DEF Kept
<1>5. chat[c] \in HookRec /\ turn[c] \in TurnRec
  BY HookIs
<1>6. s \in HookRec /\ s.messages = withCreateProposalMessage(chat[c].messages) /\ ~s.streaming
  BY <1>1, <1>4, <1>5 DEF HookRec
<1> HIDE DEF s
<1>7. HookKept(s, turn[c])
  BY <1>2, <1>3, <1>5, <1>6 DEF HookKept
<1> QED
  BY <1>1, <1>3, <1>6, <1>7, ChangeStep

LEMMA ProposeOtherStep ==
  ASSUME ChatInductive, NEW c \in Chats, NEW kind \in {"update", "comment"}, ProposeOther(c, kind)
  PROVE  ChatInductive'
<1> DEFINE m == chat[c].messages
           card == Card(kind, "editing", chat[c].ticket, <<>>)
           x == Message("assistant", Text, FALSE, card)
           s == [chat[c] EXCEPT !.messages = Append(m, x)]
<1>1. Change(c, s) /\ ~chat[c].streaming /\ ~hasOpenAction(m)
  BY DEF ProposeOther, CanPropose
<1>2. turn[c].phase = "idle" /\ Coming(turn[c]) = 0 /\ Kept(m, 0)
  BY <1>1, IdleIs
<1>3. chat[c] \in HookRec /\ turn[c] \in TurnRec /\ chat[c].ticket \in Ids
  BY HookIs
<1>4. kind \in Kinds /\ "editing" \in CardStatus
  BY DEF Kinds, CardStatus
<1>5. <<>> \in Drafts
  BY NoDraft
<1>6. card \in CardRec /\ card.kind = kind /\ card.status = "editing"
  BY <1>3, <1>4, <1>5, NewCard
<1> HIDE DEF card
<1>7. Text \in 0..Offline /\ FALSE \in BOOLEAN /\ "assistant" \in {"user", "assistant"}
  BY TextIs
<1>8. x \in MessageRec /\ x.streaming = FALSE /\ x.action = card
  BY <1>6, <1>7, MessageOf, ZenonT(60)
<1> HIDE DEF x
<1>9. Kept(Append(m, x), IF x.streaming THEN Len(m) + 1 ELSE 0) /\ SettledSame(m, Append(m, x))
  BY <1>1, <1>2, <1>6, <1>8, AddedMessage
<1>10. Kept(Append(m, x), 0) /\ Append(m, x) \in Seq(MessageRec)
  BY <1>8, <1>9 DEF Kept
<1>11. s \in HookRec /\ s.messages = Append(m, x) /\ ~s.streaming
  BY <1>1, <1>3, <1>10 DEF HookRec
<1> HIDE DEF s, m
<1>12. HookKept(s, turn[c])
  BY <1>2, <1>3, <1>10, <1>11 DEF HookKept
<1> QED
  BY <1>1, <1>9, <1>11, <1>12, ChangeStep DEF m

\* A card is changed in place.
LEMMA CardChanged ==
  ASSUME ChatInductive, NEW c \in Chats, NEW i \in 1..Len(chat[c].messages),
         NEW card \in CardRec, NEW s,
         s.messages = patchAction(chat[c], i, card).messages,
         s.messages \in Seq(MessageRec) => s \in HookRec, s.streaming = chat[c].streaming,
         CardAt(c, i).kind # "none",
         card.kind = CardAt(c, i).kind, card.draft = CardAt(c, i).draft, Tried(card),
         card.tries >= CardAt(c, i).tries,
         Open(card) => Open(CardAt(c, i)) \/ card.tries > 0
  PROVE  /\ HookKept(s, turn[c])
         /\ \A j, status : CardIn(s.messages, j, status) <=>
              IF j = i THEN card.status = status ELSE CardIn(chat[c].messages, j, status)
<1> DEFINE m == chat[c].messages
           n == s.messages
<1>1. /\ chat[c] \in HookRec /\ HookKept(chat[c], turn[c]) /\ m \in Seq(MessageRec)
      /\ Kept(m, Coming(turn[c])) /\ Len(m) \in Nat
  BY HookIs
<1>2. n = [m EXCEPT ![i] = [m[i] EXCEPT !.action = card]]
  BY <1>1, PatchActionIs
<1>3. CardAt(c, i) = m[i].action
  BY DEF CardAt
<1> HIDE DEF m, n
<1>4. /\ Kept(n, Coming(turn[c])) /\ Len(n) = Len(m)
      /\ n[i].action = card /\ \A j \in 1..Len(m) : j # i => n[j] = m[j]
  BY <1>1, <1>2, <1>3, PatchedCard, SMTT(60) DEF m
<1>5. n \in Seq(MessageRec)
  BY <1>4 DEF Kept
<1>6. HookKept(s, turn[c])
  BY <1>1, <1>4, <1>5 DEF HookKept, m, n
<1>7. ASSUME NEW j, NEW status
      PROVE  CardIn(n, j, status) <=>
               IF j = i THEN card.status = status ELSE CardIn(m, j, status)
  <2>1. CASE j = i
    BY <1>3, <1>4, <2>1 DEF CardIn, m
  <2>2. CASE j # i
    BY <1>4, <2>2 DEF CardIn
  <2> QED
    BY <2>1, <2>2
<1> QED
  BY <1>6, <1>7 DEF m, n

\* The user edits, cancels or saves a card that is neither busy nor done.
LEMMA EditedStep ==
  ASSUME ChatInductive, NEW c \in Chats, NEW i \in 1..Len(chat[c].messages),
         NEW card \in CardRec, Change(c, patchAction(chat[c], i, card)),
         CardAt(c, i).kind # "none", CardAt(c, i).status \in {"pending", "editing", "failed"},
         card.kind = CardAt(c, i).kind, card.draft = CardAt(c, i).draft,
         card.tries = CardAt(c, i).tries, card.status \in {"pending", "editing", "cancelled"}
  PROVE  ChatInductive'
<1> DEFINE s == patchAction(chat[c], i, card)
           old == CardAt(c, i)
<1>1. /\ chat[c] \in HookRec /\ Kept(chat[c].messages, Coming(turn[c]))
      /\ chat[c].messages \in Seq(MessageRec)
  BY HookIs
<1>2. old \in CardRec /\ old.tries \in Nat /\ Tried(old)
  BY <1>1, MessageIs DEF CardAt, CardRec, Kept
<1>3. /\ s.messages \in Seq(MessageRec) => s \in HookRec
      /\ s.streaming = chat[c].streaming
  BY <1>1, PatchActionIs
<1>4. Tried(card) /\ (Open(card) => Open(old) \/ card.tries > 0)
  BY <1>2 DEF Tried, Open
<1>5. card.tries >= old.tries
  BY <1>2
<1> HIDE DEF old
<1>6. /\ HookKept(s, turn[c])
      /\ \A j, status : CardIn(s.messages, j, status) <=>
           IF j = i THEN card.status = status ELSE CardIn(chat[c].messages, j, status)
  <2>1. s.messages = patchAction(chat[c], i, card).messages
    OBVIOUS
  <2> HIDE DEF s
  <2> QED
    BY <1>3, <1>4, <1>5, <2>1, CardChanged DEF old
<1>7. ~CardIn(chat[c].messages, i, "executing") /\ ~CardIn(chat[c].messages, i, "completed")
  BY DEF CardIn, CardAt
<1> HIDE DEF s
<1>8. SettledSame(chat[c].messages, s.messages)
  BY <1>6, <1>7 DEF SettledSame
<1> QED
  BY <1>6, <1>8, ChangeStep DEF s

LEMMA CardIs ==
  ASSUME ChatInductive, NEW c \in Chats, NEW i \in 1..Len(chat[c].messages)
  PROVE  CardAt(c, i) \in CardRec /\ CardAt(c, i).tries \in Nat /\ Tried(CardAt(c, i))
<1>1. /\ chat[c].messages \in Seq(MessageRec) /\ Kept(chat[c].messages, Coming(turn[c]))
  BY HookIs
<1> QED
  BY <1>1, MessageIs DEF CardAt, CardRec, Kept

LEMMA SetStatusStep ==
  ASSUME ChatInductive, NEW c \in Chats, NEW i \in 1..Len(chat[c].messages),
         NEW status \in {"pending", "editing", "cancelled"},
         HasCard(c, i), CardAt(c, i).status \in {"pending", "editing", "failed"},
         SetStatus(c, i, status)
  PROVE  ChatInductive'
<1> DEFINE card == [CardAt(c, i) EXCEPT !.status = status]
<1>1. CardAt(c, i) \in CardRec
  BY CardIs
<1>2. status \in CardStatus
  BY DEF CardStatus
<1>3. /\ card \in CardRec /\ card.kind = CardAt(c, i).kind /\ card.draft = CardAt(c, i).draft
      /\ card.tries = CardAt(c, i).tries /\ card.status = status
  BY <1>1, <1>2 DEF CardRec
<1>4. Change(c, patchAction(chat[c], i, card)) /\ CardAt(c, i).kind # "none"
  BY DEF SetStatus, HasCard
<1> HIDE DEF card
<1> QED
  BY <1>3, <1>4, EditedStep

LEMMA SaveEditStep ==
  ASSUME ChatInductive, NEW c \in Chats, NEW i \in 1..Len(chat[c].messages),
         NEW t \in Tickets \cup {NoTicket}, saveEditAction(c, i, t)
  PROVE  ChatInductive'
<1> DEFINE card == [CardAt(c, i) EXCEPT !.status = "pending", !.on = t, !.edited = TRUE]
<1>1. CardAt(c, i) \in CardRec
  BY CardIs
<1>2. "pending" \in CardStatus /\ t \in Ids
  BY DEF CardStatus, Ids
<1>3. /\ card \in CardRec /\ card.kind = CardAt(c, i).kind /\ card.draft = CardAt(c, i).draft
      /\ card.tries = CardAt(c, i).tries /\ card.status = "pending"
  BY <1>1, <1>2 DEF CardRec
<1>4. /\ Change(c, patchAction(chat[c], i, card)) /\ CardAt(c, i).kind # "none"
      /\ CardAt(c, i).status = "editing"
  BY DEF saveEditAction, HasCard
<1> HIDE DEF card
<1> QED
  BY <1>3, <1>4, EditedStep

-----------------------------------------------------------------------------
(* The requests and the tickets.                                           *)

LEMMA FilingIs ==
  ASSUME NEW fs \in Seq(FilingRec), NEW k \in 1..Len(fs)
  PROVE  /\ fs[k] \in FilingRec /\ fs[k].chat \in Chats /\ fs[k].card \in Nat
         /\ fs[k].here \in BOOLEAN /\ fs[k].state \in {"sent", "ok", "error"}
         /\ fs[k].got \in Ids /\ fs[k].on \in Ids /\ fs[k].kind \in Kinds
<1>1. fs[k] \in FilingRec
  OBVIOUS
<1> QED
  BY <1>1 DEF FilingRec

LEMMA TicketIs ==
  ASSUME NEW ts, ts \in [DOMAIN ts -> TicketRec], NEW t \in DOMAIN ts
  PROVE  ts[t] \in TicketRec /\ ts[t].chat \in Chats /\ ts[t].card \in Nat /\ ts[t].told \in BOOLEAN
<1>1. ts[t] \in TicketRec
  OBVIOUS
<1> QED
  BY <1>1 DEF TicketRec

\* A request that is known to be the one of its card: the card is busy, and
\* as long as there is no answer no ticket was told of.
LEMMA OwnRequest ==
  ASSUME NEW h, NEW fs, NEW ts, Filed(h, fs, ts), NEW k \in 1..Len(fs), fs[k].here,
         fs[k].state # "ok", NEW t \in DOMAIN ts, ts[t].told
  PROVE  ~(ts[t].chat = fs[k].chat /\ ts[t].card = fs[k].card)
<1> SUFFICES ASSUME ts[t].chat = fs[k].chat, ts[t].card = fs[k].card PROVE FALSE
  OBVIOUS
<1>1. fs \in Seq(FilingRec)
  BY DEF Filed
<1>2. fs[k].chat \in Chats /\ fs[k].card \in Nat
  BY <1>1, FilingIs
<1>3. CardIn(h[fs[k].chat].messages, fs[k].card, "executing")
  BY DEF Filed
<1>4. ~CardIn(h[fs[k].chat].messages, fs[k].card, "completed")
  BY <1>3 DEF CardIn
<1>5. PICK l \in 1..Len(fs) :
        Asks(fs[l], ts[t].chat, ts[t].card) /\ fs[l].state = "ok" /\ fs[l].got = t
  BY <1>4 DEF Filed
<1>6. Asks(fs[k], fs[k].chat, fs[k].card) /\ Asks(fs[l], fs[k].chat, fs[k].card)
  BY <1>5 DEF Asks
<1>7. k = l
  BY <1>2, <1>6 DEF Filed
<1> QED
  BY <1>5, <1>7

\* A confirmed card sends a request.
LEMMA FiledConfirmed ==
  ASSUME NEW h, NEW g, NEW fs, NEW ts, Filed(h, fs, ts), NEW r \in FilingRec, r.here,
         ~CardIn(h[r.chat].messages, r.card, "executing"),
         \A d \in Chats : \A j :
           /\ CardIn(g[d].messages, j, "executing") <=>
                CardIn(h[d].messages, j, "executing") \/ (d = r.chat /\ j = r.card)
           /\ CardIn(h[d].messages, j, "completed") => CardIn(g[d].messages, j, "completed")
  PROVE  Filed(g, Append(fs, r), ts)
<1> DEFINE n == Append(fs, r)
<1>1. fs \in Seq(FilingRec) /\ DOMAIN ts \subseteq Tickets /\ ts \in [DOMAIN ts -> TicketRec]
  BY DEF Filed
<1>2. /\ n \in Seq(FilingRec) /\ Len(n) = Len(fs) + 1 /\ Len(fs) \in Nat
      /\ n[Len(fs) + 1] = r /\ \A k \in 1..Len(fs) : n[k] = fs[k]
  BY <1>1
<1>3. r.chat \in Chats /\ r.card \in Nat
  BY DEF FilingRec
<1> HIDE DEF n
<1>4. \A k \in 1..Len(n) : k \in 1..Len(fs) \/ k = Len(fs) + 1
  BY <1>2
<1>5. ASSUME NEW k \in 1..Len(n), n[k].here
      PROVE  CardIn(g[n[k].chat].messages, n[k].card, "executing")
  <2>1. CASE k \in 1..Len(fs)
    <3>1. CardIn(h[fs[k].chat].messages, fs[k].card, "executing")
      BY <1>2, <1>5, <2>1 DEF Filed
    <3>2. fs[k].chat \in Chats
      BY <1>1, <2>1, FilingIs
    <3> QED
      BY <1>2, <2>1, <3>1, <3>2
  <2>2. CASE k = Len(fs) + 1
    BY <1>2, <1>3, <2>2
  <2> QED
    BY <1>4, <2>1, <2>2
<1>6. ASSUME NEW k \in 1..Len(fs)
      PROVE  ~Asks(fs[k], r.chat, r.card)
  BY DEF Filed, Asks
<1>7. ASSUME NEW k \in 1..Len(n), NEW l \in 1..Len(n), NEW d \in Chats, NEW j \in Nat,
             Asks(n[k], d, j), Asks(n[l], d, j)
      PROVE  k = l
  <2>1. Asks(r, d, j) => d = r.chat /\ j = r.card
    BY DEF Asks
  <2>2. CASE k \in 1..Len(fs) /\ l \in 1..Len(fs)
    BY <1>2, <1>7, <2>2 DEF Filed
  <2>3. CASE k = Len(fs) + 1 /\ l = Len(fs) + 1
    BY <2>3
  <2>4. CASE k \in 1..Len(fs) /\ l = Len(fs) + 1
    BY <1>2, <1>6, <1>7, <2>1, <2>4
  <2>5. CASE l \in 1..Len(fs) /\ k = Len(fs) + 1
    BY <1>2, <1>6, <1>7, <2>1, <2>5
  <2> QED
    BY <1>4, <2>2, <2>3, <2>4, <2>5
<1>8. ASSUME NEW d \in Chats, NEW j \in Nat, CardIn(g[d].messages, j, "executing")
      PROVE  \E k \in 1..Len(n) : Asks(n[k], d, j)
  <2>1. CASE d = r.chat /\ j = r.card
    <3>1. Len(fs) + 1 \in 1..Len(n) /\ Asks(n[Len(fs) + 1], d, j)
      BY <1>2, <2>1 DEF Asks
    <3> QED
      BY <3>1
  <2>2. CASE CardIn(h[d].messages, j, "executing")
    <3>1. PICK k \in 1..Len(fs) : Asks(fs[k], d, j)
      BY <2>2 DEF Filed
    <3>2. k \in 1..Len(n) /\ n[k] = fs[k]
      BY <1>2
    <3> QED
      BY <3>1, <3>2
  <2> QED
    BY <1>8, <2>1, <2>2
<1>9. ASSUME NEW t \in DOMAIN ts, ts[t].told
      PROVE  \/ CardIn(g[ts[t].chat].messages, ts[t].card, "completed")
             \/ \E k \in 1..Len(n) :
                  Asks(n[k], ts[t].chat, ts[t].card) /\ n[k].state = "ok" /\ n[k].got = t
  <2>1. ts[t].chat \in Chats
    BY <1>1, TicketIs
  <2>2. CASE CardIn(h[ts[t].chat].messages, ts[t].card, "completed")
    BY <2>1, <2>2
  <2>3. CASE ~CardIn(h[ts[t].chat].messages, ts[t].card, "completed")
    <3>1. PICK k \in 1..Len(fs) :
            Asks(fs[k], ts[t].chat, ts[t].card) /\ fs[k].state = "ok" /\ fs[k].got = t
      BY <1>9, <2>3 DEF Filed
    <3>2. k \in 1..Len(n) /\ n[k] = fs[k]
      BY <1>2
    <3> QED
      BY <3>1, <3>2
  <2> QED
    BY <2>2, <2>3
<1>10. \A t, v \in DOMAIN ts :
         ts[t].told /\ ts[v].told /\ ts[t].chat = ts[v].chat /\ ts[t].card = ts[v].card => t = v
  BY DEF Filed
<1>11. Filed(g, n, ts)
  BY <1>1, <1>2, <1>5, <1>7, <1>8, <1>9, <1>10 DEF Filed
<1> QED
  BY <1>11 DEF n

\* The server answers a request.
LEMMA FiledAnswered ==
  ASSUME NEW h, NEW fs, NEW ts, Filed(h, fs, ts), NEW i \in 1..Len(fs), fs[i].state = "sent",
         NEW r \in FilingRec, r.chat = fs[i].chat, r.card = fs[i].card, r.here = fs[i].here
  PROVE  Filed(h, [fs EXCEPT ![i] = r], ts)
<1> DEFINE n == [fs EXCEPT ![i] = r]
<1>1. fs \in Seq(FilingRec) /\ DOMAIN ts \subseteq Tickets /\ ts \in [DOMAIN ts -> TicketRec]
  BY DEF Filed
<1>2. /\ n \in Seq(FilingRec) /\ Len(n) = Len(fs)
      /\ n[i] = r /\ \A k \in 1..Len(fs) : k # i => n[k] = fs[k]
  BY <1>1
<1> HIDE DEF n
<1>3. ASSUME NEW k \in 1..Len(fs)
      PROVE  /\ n[k].here = fs[k].here /\ n[k].chat = fs[k].chat /\ n[k].card = fs[k].card
             /\ \A d, j : Asks(n[k], d, j) <=> Asks(fs[k], d, j)
             /\ fs[k].state = "ok" => n[k] = fs[k]
  <2>1. n[k].here = fs[k].here /\ n[k].chat = fs[k].chat /\ n[k].card = fs[k].card
    BY <1>2
  <2> QED
    BY <1>2, <2>1 DEF Asks
<1>4. \A k \in 1..Len(n) : n[k].here =>
        CardIn(h[n[k].chat].messages, n[k].card, "executing")
  BY <1>2, <1>3 DEF Filed
<1>5. \A k, l \in 1..Len(n) : \A c \in Chats : \A j \in Nat :
        Asks(n[k], c, j) /\ Asks(n[l], c, j) => k = l
  BY <1>2, <1>3, ZenonT(60) DEF Filed
<1>6. \A c \in Chats : \A j \in Nat : CardIn(h[c].messages, j, "executing") =>
        \E k \in 1..Len(n) : Asks(n[k], c, j)
  BY <1>2, <1>3, ZenonT(60) DEF Filed
<1>7. \A t \in DOMAIN ts : ts[t].told =>
        \/ CardIn(h[ts[t].chat].messages, ts[t].card, "completed")
        \/ \E k \in 1..Len(n) :
             Asks(n[k], ts[t].chat, ts[t].card) /\ n[k].state = "ok" /\ n[k].got = t
  <2> SUFFICES ASSUME NEW t \in DOMAIN ts, ts[t].told,
                      ~CardIn(h[ts[t].chat].messages, ts[t].card, "completed")
               PROVE  \E k \in 1..Len(n) :
                        Asks(n[k], ts[t].chat, ts[t].card) /\ n[k].state = "ok" /\ n[k].got = t
    OBVIOUS
  <2>1. PICK k \in 1..Len(fs) :
          Asks(fs[k], ts[t].chat, ts[t].card) /\ fs[k].state = "ok" /\ fs[k].got = t
    BY DEF Filed
  <2> QED
    BY <1>2, <1>3, <2>1
<1>8. \A t, v \in DOMAIN ts :
        ts[t].told /\ ts[v].told /\ ts[t].chat = ts[v].chat /\ ts[t].card = ts[v].card => t = v
  BY DEF Filed
<1>9. Filed(h, n, ts)
  BY <1>1, <1>2, <1>4, <1>5, <1>6, <1>7, <1>8 DEF Filed
<1> QED
  BY <1>9 DEF n

\* The ticket a request made is there, and told of once the request says so.
LEMMA FiledTicket ==
  ASSUME NEW h, NEW fs, NEW ts, Filed(h, fs, ts), NEW t \in Tickets, t \notin DOMAIN ts,
         NEW r \in TicketRec,
         r.told => /\ \E k \in 1..Len(fs) :
                        Asks(fs[k], r.chat, r.card) /\ fs[k].state = "ok" /\ fs[k].got = t
                   /\ \A v \in DOMAIN ts :
                        ts[v].told => ~(ts[v].chat = r.chat /\ ts[v].card = r.card),
         NEW n, n = [x \in DOMAIN ts \cup {t} |-> IF x = t THEN r ELSE ts[x]]
  PROVE  Filed(h, fs, n)
<1>1. fs \in Seq(FilingRec) /\ DOMAIN ts \subseteq Tickets /\ ts \in [DOMAIN ts -> TicketRec]
  BY DEF Filed
<1>2. DOMAIN n = DOMAIN ts \cup {t} /\ n[t] = r /\ \A v \in DOMAIN ts : n[v] = ts[v]
  OBVIOUS
<1>3. DOMAIN n \subseteq Tickets /\ n \in [DOMAIN n -> TicketRec]
  BY <1>1, <1>2
<1>4. ASSUME NEW v \in DOMAIN n, n[v].told
      PROVE  \/ CardIn(h[n[v].chat].messages, n[v].card, "completed")
             \/ \E k \in 1..Len(fs) :
                  Asks(fs[k], n[v].chat, n[v].card) /\ fs[k].state = "ok" /\ fs[k].got = v
  <2>1. CASE v = t
    BY <1>2, <1>4, <2>1
  <2>2. CASE v \in DOMAIN ts
    BY <1>2, <1>4, <2>2 DEF Filed
  <2> QED
    BY <1>2, <2>1, <2>2
<1>5. ASSUME NEW v \in DOMAIN n, NEW w \in DOMAIN n, n[v].told, n[w].told,
             n[v].chat = n[w].chat, n[v].card = n[w].card
      PROVE  v = w
  <2>1. CASE v \in DOMAIN ts /\ w \in DOMAIN ts
    BY <1>2, <1>5, <2>1 DEF Filed
  <2>2. CASE v = t \/ w = t
    BY <1>2, <1>5, <2>2
  <2> QED
    BY <1>2, <2>1, <2>2
<1> QED
  BY <1>1, <1>3, <1>4, <1>5 DEF Filed

\* An answer is taken: its card, if the chat is still there, is done or failed.
LEMMA FiledTaken ==
  ASSUME NEW h, NEW g, NEW fs, NEW ts, Filed(h, fs, ts), NEW i \in 1..Len(fs),
         \A d \in Chats : \A j :
           /\ CardIn(g[d].messages, j, "executing") <=>
                CardIn(h[d].messages, j, "executing") /\ ~Asks(fs[i], d, j)
           /\ CardIn(h[d].messages, j, "completed") => CardIn(g[d].messages, j, "completed")
           /\ Asks(fs[i], d, j) /\ fs[i].state = "ok" => CardIn(g[d].messages, j, "completed")
  PROVE  Filed(g, RemoveAt(fs, i), ts)
<1> DEFINE n == RemoveAt(fs, i)
           was(k) == IF k < i THEN k ELSE k + 1
           now(k) == IF k < i THEN k ELSE k - 1
<1>1. fs \in Seq(FilingRec) /\ DOMAIN ts \subseteq Tickets /\ ts \in [DOMAIN ts -> TicketRec]
      /\ Len(fs) \in Nat
  BY DEF Filed
<1>2. /\ n \in Seq(FilingRec) /\ Len(n) = Len(fs) - 1
      /\ \A k \in 1..(Len(fs) - 1) : n[k] = IF k < i THEN fs[k] ELSE fs[k + 1]
  BY <1>1, WithoutIs
<1> HIDE DEF n
<1>3. ASSUME NEW k \in 1..Len(n)
      PROVE  was(k) \in 1..Len(fs) /\ was(k) # i /\ n[k] = fs[was(k)]
  <2>1. k \in 1..(Len(fs) - 1)
    BY <1>2
  <2> QED
    BY <1>1, <1>2, <2>1
<1>4. ASSUME NEW k \in 1..Len(fs), k # i
      PROVE  now(k) \in 1..Len(n) /\ n[now(k)] = fs[k]
  <2>1. now(k) \in 1..(Len(fs) - 1) /\ was(now(k)) = k
    BY <1>1, <1>4
  <2> QED
    BY <1>2, <1>3, <2>1
<1>5. \A k, l \in 1..Len(n) : was(k) = was(l) => k = l
  BY <1>1, <1>2
<1> HIDE DEF was, now
<1>6. ASSUME NEW k \in 1..Len(n), n[k].here
      PROVE  CardIn(g[n[k].chat].messages, n[k].card, "executing")
  <2> DEFINE l == was(k)
  <2>1. l \in 1..Len(fs) /\ l # i /\ n[k] = fs[l]
    BY <1>3
  <2> HIDE DEF l
  <2>2. fs[l].chat \in Chats /\ fs[l].card \in Nat
    BY <1>1, <2>1, FilingIs
  <2>3. CardIn(h[fs[l].chat].messages, fs[l].card, "executing")
    BY <1>6, <2>1 DEF Filed
  <2>4. Asks(fs[l], fs[l].chat, fs[l].card)
    BY <1>6, <2>1 DEF Asks
  <2>5. ~Asks(fs[i], fs[l].chat, fs[l].card)
    BY <2>1, <2>2, <2>4 DEF Filed
  <2> QED
    BY <2>1, <2>2, <2>3, <2>5
<1>7. ASSUME NEW k \in 1..Len(n), NEW l \in 1..Len(n), NEW d \in Chats, NEW j \in Nat,
             Asks(n[k], d, j), Asks(n[l], d, j)
      PROVE  k = l
  <2>1. was(k) = was(l)
    BY <1>3, <1>7 DEF Filed
  <2> QED
    BY <1>5, <2>1
<1>8. ASSUME NEW d \in Chats, NEW j \in Nat, CardIn(g[d].messages, j, "executing")
      PROVE  \E k \in 1..Len(n) : Asks(n[k], d, j)
  <2>1. CardIn(h[d].messages, j, "executing") /\ ~Asks(fs[i], d, j)
    BY <1>8
  <2>2. PICK k \in 1..Len(fs) : Asks(fs[k], d, j)
    BY <2>1 DEF Filed
  <2>3. now(k) \in 1..Len(n) /\ n[now(k)] = fs[k]
    BY <1>4, <2>1, <2>2
  <2> QED
    BY <2>2, <2>3
<1>9. ASSUME NEW t \in DOMAIN ts, ts[t].told,
             ~CardIn(g[ts[t].chat].messages, ts[t].card, "completed")
      PROVE  \E k \in 1..Len(n) :
               Asks(n[k], ts[t].chat, ts[t].card) /\ n[k].state = "ok" /\ n[k].got = t
  <2>1. ts[t].chat \in Chats
    BY <1>1, TicketIs
  <2>2. ~CardIn(h[ts[t].chat].messages, ts[t].card, "completed")
    BY <1>9, <2>1
  <2>3. PICK k \in 1..Len(fs) :
          Asks(fs[k], ts[t].chat, ts[t].card) /\ fs[k].state = "ok" /\ fs[k].got = t
    BY <1>9, <2>2 DEF Filed
  <2>4. k # i
    BY <1>9, <2>1, <2>3
  <2>5. now(k) \in 1..Len(n) /\ n[now(k)] = fs[k]
    BY <1>4, <2>4
  <2> QED
    BY <2>3, <2>5
<1>10. \A t, v \in DOMAIN ts :
         ts[t].told /\ ts[v].told /\ ts[t].chat = ts[v].chat /\ ts[t].card = ts[v].card => t = v
  BY DEF Filed
<1>11. Filed(g, n, ts)
  BY <1>1, <1>2, <1>6, <1>7, <1>8, <1>9, <1>10 DEF Filed
<1> QED
  BY <1>11 DEF n

LEMMA Unheard ==
  ASSUME NEW r \in FilingRec, NEW q, q = [r EXCEPT !.here = FALSE]
  PROVE  q \in FilingRec /\ q.chat = r.chat /\ q.card = r.card /\ q.here = FALSE
BY DEF FilingRec

\* A chat is left: nobody waits for its requests, and none of its tickets was told of.
LEMMA FiledLeft ==
  ASSUME NEW h, NEW g, NEW fs, NEW ts, Filed(h, fs, ts), NEW c \in Chats,
         g[c].messages = <<>>, \A d \in Chats : d # c => g[d] = h[d],
         NEW n \in Seq(FilingRec), Len(n) = Len(fs),
         \A k \in 1..Len(fs) :
           /\ n[k].chat = fs[k].chat /\ n[k].card = fs[k].card
           /\ n[k].here <=> fs[k].here /\ fs[k].chat # c
           /\ fs[k].chat # c => n[k] = fs[k],
         NEW v, DOMAIN v = DOMAIN ts, v \in [DOMAIN v -> TicketRec],
         \A t \in DOMAIN ts :
           /\ v[t].chat = ts[t].chat /\ v[t].card = ts[t].card
           /\ v[t].told <=> ts[t].told /\ ts[t].chat # c
  PROVE  Filed(g, n, v)
<1>1. /\ fs \in Seq(FilingRec) /\ Len(fs) \in Nat /\ DOMAIN fs = 1..Len(fs)
      /\ DOMAIN ts \subseteq Tickets /\ ts \in [DOMAIN ts -> TicketRec]
  BY DEF Filed
<1>2. \A j, status : ~CardIn(g[c].messages, j, status)
  BY DEF CardIn
<1>3. \A k \in 1..Len(fs) : \A d, j : Asks(n[k], d, j) <=> Asks(fs[k], d, j) /\ d # c
  BY DEF Asks
<1>4. ASSUME NEW k \in 1..Len(n), n[k].here
      PROVE  CardIn(g[n[k].chat].messages, n[k].card, "executing")
  <2>1. fs[k].here /\ fs[k].chat # c /\ n[k] = fs[k]
    BY <1>4
  <2>2. CardIn(h[fs[k].chat].messages, fs[k].card, "executing")
    BY <2>1 DEF Filed
  <2>3. fs[k].chat \in Chats
    BY <1>1, FilingIs
  <2> QED
    BY <2>1, <2>2, <2>3
<1>5. \A k, l \in 1..Len(n) : \A d \in Chats : \A j \in Nat :
         Asks(n[k], d, j) /\ Asks(n[l], d, j) => k = l
  <2>1. \A k, l \in 1..Len(fs) : \A d \in Chats : \A j \in Nat :
          Asks(fs[k], d, j) /\ Asks(fs[l], d, j) => k = l
    BY DEF Filed
  <2>2. ASSUME NEW k \in 1..Len(n), NEW l \in 1..Len(n), NEW d \in Chats, NEW j \in Nat,
               Asks(n[k], d, j), Asks(n[l], d, j)
        PROVE  k = l
    <3>1. k \in 1..Len(fs) /\ l \in 1..Len(fs)
      OBVIOUS
    <3>2. Asks(fs[k], d, j) /\ Asks(fs[l], d, j)
      BY <1>3, <2>2, <3>1
    <3> QED
      BY <2>1, <3>1, <3>2
  <2> QED
    BY <2>2
<1>6. ASSUME NEW d \in Chats, NEW j \in Nat, CardIn(g[d].messages, j, "executing")
       PROVE  \E k \in 1..Len(n) : Asks(n[k], d, j)
  <2>1. d # c
    BY <1>2, <1>6
  <2>2. CardIn(h[d].messages, j, "executing")
    BY <1>6, <2>1
  <2>3. PICK k \in 1..Len(fs) : Asks(fs[k], d, j)
    BY <2>2 DEF Filed
  <2> QED
    BY <1>3, <2>1, <2>3
<1>7. ASSUME NEW t \in DOMAIN v, v[t].told,
              ~CardIn(g[v[t].chat].messages, v[t].card, "completed")
       PROVE  \E k \in 1..Len(n) :
                Asks(n[k], v[t].chat, v[t].card) /\ n[k].state = "ok" /\ n[k].got = t
  <2>1. t \in DOMAIN ts /\ ts[t].told /\ ts[t].chat # c
    BY <1>7
  <2>2. v[t].chat = ts[t].chat /\ v[t].card = ts[t].card /\ ts[t].chat \in Chats
    BY <1>1, <2>1, TicketIs
  <2>3. ~CardIn(h[ts[t].chat].messages, ts[t].card, "completed")
    BY <1>7, <2>1, <2>2
  <2>4. PICK k \in 1..Len(fs) :
          Asks(fs[k], ts[t].chat, ts[t].card) /\ fs[k].state = "ok" /\ fs[k].got = t
    BY <2>1, <2>3 DEF Filed
  <2>5. fs[k].chat # c
    BY <2>1, <2>4 DEF Asks
  <2>6. n[k] = fs[k]
    BY <2>5
  <2> QED
    BY <2>2, <2>4, <2>6
<1>8. ASSUME NEW t \in DOMAIN v, NEW w \in DOMAIN v, v[t].told, v[w].told,
              v[t].chat = v[w].chat, v[t].card = v[w].card
       PROVE  t = w
  <2>1. /\ ts[t].told /\ ts[w].told /\ t \in DOMAIN ts /\ w \in DOMAIN ts
        /\ ts[t].chat = ts[w].chat /\ ts[t].card = ts[w].card
    BY <1>8
  <2> QED
    BY <2>1 DEF Filed
<1>9. DOMAIN v \subseteq Tickets /\ v \in [DOMAIN v -> TicketRec]
  BY <1>1
<1> QED
  BY <1>4, <1>5, <1>6, <1>7, <1>8, <1>9 DEF Filed

LEMMA ConfirmStep ==
  ASSUME ChatInductive, NEW c \in Chats, NEW i \in 1..Len(chat[c].messages), confirmAction(c, i)
  PROVE  ChatInductive'
<1> DEFINE old == CardAt(c, i)
           whole == old.kind = "create" \/ old.on # NoTicket
           status == IF whole THEN "executing" ELSE "failed"
           card == [old EXCEPT !.status = status, !.tries = @ + 1]
           p == patchAction(chat[c], i, card)
           s == [p EXCEPT !.escalating = whole, !.error = IF whole THEN "none" ELSE "incomplete"]
           r == [chat |-> c, card |-> i, kind |-> old.kind, on |-> old.on,
                 state |-> "sent", got |-> NoTicket, here |-> TRUE]
<1>1. /\ Move /\ chat' = [chat EXCEPT ![c] = s] /\ UNCHANGED <<turn, tickets>>
      /\ filings' = IF ~whole THEN filings ELSE Append(filings, r)
  BY DEF confirmAction
<1>2. old.kind # "none" /\ old.status \in {"pending", "failed"}
  BY DEF confirmAction, Offered, HasCard
<1>3. old \in CardRec /\ old.tries \in Nat /\ Tried(old)
  BY CardIs
<1>4. /\ chat[c] \in HookRec /\ turn = [turn EXCEPT ![c] = turn[c]]
      /\ chat[c].messages \in Seq(MessageRec)
  BY HookIs
<1>5. status \in CardStatus
  BY DEF CardStatus
<1> HIDE DEF old
<1>6. /\ card \in CardRec /\ card.kind = old.kind /\ card.draft = old.draft
      /\ card.status = status /\ card.tries = old.tries + 1
  <2>1. old.tries + 1 \in Nat /\ card = [old EXCEPT !.status = status, !.tries = old.tries + 1]
    BY <1>3
  <2> HIDE DEF status, card
  <2> QED
    BY <1>3, <1>5, <2>1 DEF CardRec
<1>7. /\ p.streaming = chat[c].streaming /\ (p.messages \in Seq(MessageRec) => p \in HookRec)
      /\ p.messages = patchAction(chat[c], i, card).messages
  <2> HIDE DEF card
  <2> QED
    BY <1>4, <1>6, PatchActionIs, ZenonT(60)
<1> HIDE DEF card
<1>8. /\ s.messages = p.messages /\ s.streaming = p.streaming
      /\ s.messages \in Seq(MessageRec) => s \in HookRec
  <2>1. s.messages = p.messages /\ s.streaming = p.streaming
    BY DEF patchAction
  <2>2. ASSUME p \in HookRec
        PROVE  s \in HookRec
    <3> HIDE DEF p
    <3> QED
      BY <2>2 DEF HookRec
  <2> QED
    BY <1>7, <2>1, <2>2
<1> HIDE DEF p, s
<1>9. Tried(card) /\ card.tries > 0 /\ card.tries >= old.tries
  BY <1>3, <1>6 DEF Tried
<1>10. /\ HookKept(s, turn[c])
       /\ \A j, st : CardIn(s.messages, j, st) <=>
            IF j = i THEN card.status = st ELSE CardIn(chat[c].messages, j, st)
  <2>1. /\ s.messages = patchAction(chat[c], i, card).messages
        /\ s.messages \in Seq(MessageRec) => s \in HookRec
        /\ s.streaming = chat[c].streaming
    BY <1>7, <1>8
  <2>2. /\ CardAt(c, i).kind # "none"
        /\ card.kind = CardAt(c, i).kind /\ card.draft = CardAt(c, i).draft
        /\ card.tries >= CardAt(c, i).tries
    BY <1>2, <1>6, <1>9 DEF old
  <2> QED
    BY <1>6, <1>9, <2>1, <2>2, CardChanged
<1>11. moves' \in 0..MaxMoves
  BY <1>1, MoveIs DEF ChatInductive
<1>12. ~CardIn(chat[c].messages, i, "executing") /\ ~CardIn(chat[c].messages, i, "completed")
  BY <1>2 DEF CardIn, CardAt, old
<1>13. turn' = [turn EXCEPT ![c] = turn[c]]
  BY <1>1, <1>4
<1>14. CASE ~whole
  <2>1. SettledSame(chat[c].messages, s.messages)
    BY <1>6, <1>10, <1>12, <1>14 DEF SettledSame
  <2>2. UNCHANGED <<filings, tickets>>
    BY <1>1, <1>14
  <2> QED
    BY <1>1, <1>10, <1>11, <1>13, <2>1, <2>2, QuietHook
<1>15. CASE whole
  <2>1. /\ chat' \in [Chats -> HookRec] /\ turn' \in [Chats -> TurnRec]
        /\ \A d \in Chats : HookKept(chat'[d], turn'[d])
        /\ chat'[c] = s /\ \A d \in Chats : d # c => chat'[d] = chat[d]
    BY <1>1, <1>10, <1>13, OneHook
  <2>2. r \in FilingRec /\ r.chat = c /\ r.card = i /\ r.here
    <3>1. old.kind \in Kinds /\ old.on \in Ids /\ NoTicket \in Ids /\ i \in Nat
      BY <1>2, <1>3 DEF CardRec, Ids
    <3> QED
      BY <3>1 DEF FilingRec
  <2>3. card.status = "executing"
    BY <1>6, <1>15
  <2> HIDE DEF r
  <2>4. ASSUME NEW d \in Chats, NEW j
        PROVE  /\ CardIn(chat'[d].messages, j, "executing") <=>
                    CardIn(chat[d].messages, j, "executing") \/ (d = r.chat /\ j = r.card)
               /\ CardIn(chat[d].messages, j, "completed") =>
                    CardIn(chat'[d].messages, j, "completed")
    <3>1. CASE d # c
      BY <2>1, <2>2, <3>1
    <3>2. CASE d = c /\ j # i
      BY <1>10, <2>1, <2>2, <3>2
    <3>3. CASE d = c /\ j = i
      BY <1>10, <1>12, <2>1, <2>2, <2>3, <3>3
    <3> QED
      BY <3>1, <3>2, <3>3
  <2>5. Filed(chat, filings, tickets)
    BY DEF ChatInductive
  <2>6. ~CardIn(chat[r.chat].messages, r.card, "executing")
    BY <1>12, <2>2
  <2>7. Filed(chat', Append(filings, r), tickets)
    BY <2>2, <2>4, <2>5, <2>6, FiledConfirmed
  <2>8. filings' = Append(filings, r) /\ tickets' = tickets
    BY <1>1, <1>15
  <2> QED
    BY <1>11, <2>1, <2>7, <2>8 DEF ChatInductive
<1> QED
  BY <1>14, <1>15

\* What the server does with a request: it answers, with a ticket or without.
LEMMA ServeIs ==
  ASSUME ChatInductive, NEW i \in 1..Len(filings), Serve(i)
  PROVE  \E r \in FilingRec :
           /\ filings' = [filings EXCEPT ![i] = r]
           /\ r.chat = filings[i].chat /\ r.card = filings[i].card /\ r.here = filings[i].here
           /\ \/ tickets' = tickets
              \/ \E t \in Tickets \ DOMAIN tickets : \E q \in TicketRec :
                   /\ q.chat = r.chat /\ q.card = r.card
                   /\ q.told => r.state = "ok" /\ r.here /\ r.got = t
                   /\ tickets' = [x \in DOMAIN tickets \cup {t} |-> IF x = t THEN q ELSE tickets[x]]
<1> DEFINE f == filings[i]
           bad == [f EXCEPT !.state = "error"]
           good(t) == [f EXCEPT !.state = "ok", !.got = t]
<1>1. filings \in Seq(FilingRec)
  BY DEF ChatInductive, Filed
<1>2. /\ f \in FilingRec /\ f.chat \in Chats /\ f.card \in Nat /\ f.here \in BOOLEAN
      /\ f.on \in Ids
  BY <1>1, FilingIs
<1>3. /\ bad \in FilingRec /\ bad.state = "error"
      /\ bad.chat = f.chat /\ bad.card = f.card /\ bad.here = f.here
  BY <1>2 DEF FilingRec
<1>4. ASSUME NEW t \in Ids
      PROVE  /\ good(t) \in FilingRec /\ good(t).state = "ok" /\ good(t).got = t
             /\ good(t).chat = f.chat /\ good(t).card = f.card /\ good(t).here = f.here
  BY <1>2, <1>4 DEF FilingRec
<1>5. ASSUME NEW r \in FilingRec, filings' = [filings EXCEPT ![i] = r] PROVE filings'[i] = r
  BY <1>1, <1>5
<1>6. \/ /\ \/ filings' = [filings EXCEPT ![i] = bad]
            \/ filings' = [filings EXCEPT ![i] = good(f.on)]
         /\ tickets' = tickets
      \/ \E t \in Tickets \ (Mine \cup DOMAIN tickets) :
           /\ \/ filings' = [filings EXCEPT ![i] = good(t)]
              \/ filings' = [filings EXCEPT ![i] = bad]
           /\ tickets' = [x \in DOMAIN tickets \cup {t} |->
                IF x = t THEN [chat |-> f.chat, card |-> f.card,
                               told |-> filings'[i].state = "ok" /\ f.here]
                ELSE tickets[x]]
  BY DEF Serve
<1> HIDE DEF f, bad, good
<1>7. CASE filings' = [filings EXCEPT ![i] = bad] /\ tickets' = tickets
  BY <1>3, <1>7 DEF f
<1>8. CASE filings' = [filings EXCEPT ![i] = good(f.on)] /\ tickets' = tickets
  <2>1. good(f.on) \in FilingRec
    BY <1>2, <1>4
  <2> QED
    BY <1>2, <1>4, <1>8, <2>1 DEF f
<1>9. ASSUME NEW t \in Tickets \ (Mine \cup DOMAIN tickets), NEW r \in FilingRec,
             filings' = [filings EXCEPT ![i] = r],
             r.chat = f.chat, r.card = f.card, r.here = f.here, r.state = "ok" => r.got = t,
             tickets' = [x \in DOMAIN tickets \cup {t} |->
                IF x = t THEN [chat |-> f.chat, card |-> f.card,
                               told |-> filings'[i].state = "ok" /\ f.here]
                ELSE tickets[x]]
      PROVE  \E v \in Tickets \ DOMAIN tickets : \E q \in TicketRec :
               /\ q.chat = r.chat /\ q.card = r.card
               /\ q.told => r.state = "ok" /\ r.here /\ r.got = v
               /\ tickets' = [x \in DOMAIN tickets \cup {v} |-> IF x = v THEN q ELSE tickets[x]]
  <2> DEFINE told == filings'[i].state = "ok" /\ f.here
             q == [chat |-> f.chat, card |-> f.card, told |-> told]
  <2>1. filings'[i] = r
    BY <1>5, <1>9
  <2>2. told \in BOOLEAN /\ (told => r.state = "ok" /\ r.here /\ r.got = t)
    BY <1>2, <1>9, <2>1
  <2>3. q.chat = r.chat /\ q.card = r.card /\ q.told = told
    BY <1>9
  <2> HIDE DEF told
  <2>4. q \in TicketRec
    BY <1>2, <2>2 DEF TicketRec
  <2>5. tickets' = [x \in DOMAIN tickets \cup {t} |-> IF x = t THEN q ELSE tickets[x]]
    BY <1>9 DEF told
  <2>6. t \in Tickets \ DOMAIN tickets
    OBVIOUS
  <2> HIDE DEF q
  <2> QED
    BY <2>2, <2>3, <2>4, <2>5, <2>6
<1>10. ASSUME NEW t \in Tickets \ (Mine \cup DOMAIN tickets),
              \/ filings' = [filings EXCEPT ![i] = good(t)]
              \/ filings' = [filings EXCEPT ![i] = bad],
              tickets' = [x \in DOMAIN tickets \cup {t} |->
                IF x = t THEN [chat |-> f.chat, card |-> f.card,
                               told |-> filings'[i].state = "ok" /\ f.here]
                ELSE tickets[x]]
       PROVE  \E r \in FilingRec :
                /\ filings' = [filings EXCEPT ![i] = r]
                /\ r.chat = f.chat /\ r.card = f.card /\ r.here = f.here
                /\ r.state = "ok" => r.got = t
  <2>1. t \in Ids
    BY DEF Ids
  <2> QED
    BY <1>3, <1>4, <1>10, <2>1
<1>11. CASE \E t \in Tickets \ (Mine \cup DOMAIN tickets) :
           /\ \/ filings' = [filings EXCEPT ![i] = good(t)]
              \/ filings' = [filings EXCEPT ![i] = bad]
           /\ tickets' = [x \in DOMAIN tickets \cup {t} |->
                IF x = t THEN [chat |-> f.chat, card |-> f.card,
                               told |-> filings'[i].state = "ok" /\ f.here]
                ELSE tickets[x]]
  <2>1. PICK t \in Tickets \ (Mine \cup DOMAIN tickets) :
           /\ \/ filings' = [filings EXCEPT ![i] = good(t)]
              \/ filings' = [filings EXCEPT ![i] = bad]
           /\ tickets' = [x \in DOMAIN tickets \cup {t} |->
                IF x = t THEN [chat |-> f.chat, card |-> f.card,
                               told |-> filings'[i].state = "ok" /\ f.here]
                ELSE tickets[x]]
    BY <1>11
  <2>2. PICK r \in FilingRec :
          /\ filings' = [filings EXCEPT ![i] = r]
          /\ r.chat = f.chat /\ r.card = f.card /\ r.here = f.here
          /\ r.state = "ok" => r.got = t
    BY <1>10, <2>1
  <2>3. \E v \in Tickets \ DOMAIN tickets : \E q \in TicketRec :
          /\ q.chat = r.chat /\ q.card = r.card
          /\ q.told => r.state = "ok" /\ r.here /\ r.got = v
          /\ tickets' = [x \in DOMAIN tickets \cup {v} |-> IF x = v THEN q ELSE tickets[x]]
    BY <1>9, <2>1, <2>2
  <2> QED
    BY <2>2, <2>3 DEF f
<1> QED
  BY <1>6, <1>7, <1>8, <1>11

LEMMA ServeStep ==
  ASSUME ChatInductive, NEW i \in 1..Len(filings), Serve(i)
  PROVE  ChatInductive'
<1>1. PICK r \in FilingRec :
        /\ filings' = [filings EXCEPT ![i] = r]
        /\ r.chat = filings[i].chat /\ r.card = filings[i].card /\ r.here = filings[i].here
        /\ \/ tickets' = tickets
           \/ \E t \in Tickets \ DOMAIN tickets : \E q \in TicketRec :
                /\ q.chat = r.chat /\ q.card = r.card
                /\ q.told => r.state = "ok" /\ r.here /\ r.got = t
                /\ tickets' = [x \in DOMAIN tickets \cup {t} |-> IF x = t THEN q ELSE tickets[x]]
  BY ServeIs
<1>2. /\ Filed(chat, filings, tickets) /\ filings[i].state = "sent"
      /\ UNCHANGED <<chat, turn, moves>>
  BY DEF ChatInductive, Serve
<1>3. Filed(chat, filings', tickets)
  BY <1>1, <1>2, FiledAnswered
<1>4. filings \in Seq(FilingRec)
  BY <1>2 DEF Filed
<1>5. i \in 1..Len(filings') /\ filings'[i] = r
  BY <1>1, <1>4
<1>6. Filed(chat, filings', tickets')
  <2>1. CASE tickets' = tickets
    BY <1>3, <2>1
  <2>2. CASE \E t \in Tickets \ DOMAIN tickets : \E q \in TicketRec :
                /\ q.chat = r.chat /\ q.card = r.card
                /\ q.told => r.state = "ok" /\ r.here /\ r.got = t
                /\ tickets' = [x \in DOMAIN tickets \cup {t} |-> IF x = t THEN q ELSE tickets[x]]
    <3>1. PICK t \in Tickets \ DOMAIN tickets, q \in TicketRec :
            /\ q.chat = r.chat /\ q.card = r.card
            /\ q.told => r.state = "ok" /\ r.here /\ r.got = t
            /\ tickets' = [x \in DOMAIN tickets \cup {t} |-> IF x = t THEN q ELSE tickets[x]]
      BY <2>2
    <3>2. ASSUME q.told
          PROVE  /\ Asks(filings'[i], q.chat, q.card) /\ filings'[i].state = "ok"
                 /\ filings'[i].got = t
                 /\ filings[i].here
      BY <1>1, <1>5, <3>1, <3>2 DEF Asks
    <3>3. ASSUME q.told, NEW v \in DOMAIN tickets, tickets[v].told
          PROVE  ~(tickets[v].chat = q.chat /\ tickets[v].card = q.card)
      BY <1>1, <1>2, <3>1, <3>2, <3>3, OwnRequest
    <3> QED
      BY <1>3, <1>5, <3>1, <3>2, <3>3, FiledTicket
  <2> QED
    BY <1>1, <2>1, <2>2
<1> QED
  BY <1>2, <1>6 DEF ChatInductive

LEMMA TakeStep ==
  ASSUME ChatInductive, NEW i \in 1..Len(filings), Take(i)
  PROVE  ChatInductive'
<1> DEFINE f == filings[i]
           c == f.chat
           j == f.card
           old == CardAt(c, j)
<1>1. /\ Filed(chat, filings, tickets) /\ filings' = RemoveAt(filings, i)
      /\ UNCHANGED <<turn, tickets, moves>>
      /\ chat' = IF ~f.here THEN chat
                 ELSE [chat EXCEPT ![c] = IF f.state = "ok" THEN CompletedFiling(chat[c], f)
                                          ELSE FailedFiling(chat[c], f)]
      /\ f.state # "sent"
  BY DEF Take, ChatInductive
<1>2. /\ f \in FilingRec /\ c \in Chats /\ j \in Nat /\ f.here \in BOOLEAN
      /\ f.state \in {"sent", "ok", "error"} /\ f.got \in Ids
  BY <1>1, FilingIs DEF Filed
<1>3. CASE ~f.here
  <2>1. \A d, k : ~Asks(f, d, k)
    BY <1>3 DEF Asks
  <2>2. chat' = chat
    BY <1>1, <1>3
  <2>3. Filed(chat, RemoveAt(filings, i), tickets)
    BY <1>1, <2>1, FiledTaken
  <2> QED
    BY <1>1, <2>2, <2>3 DEF ChatInductive
<1>4. CASE f.here
  <2> DEFINE status == IF f.state = "ok" THEN "completed" ELSE "failed"
             card == IF f.state = "ok" THEN [old EXCEPT !.status = "completed", !.result = f.got]
                     ELSE [old EXCEPT !.status = "failed"]
             p == patchAction(chat[c], j, card)
             s == IF f.state = "ok" THEN CompletedFiling(chat[c], f)
                  ELSE FailedFiling(chat[c], f)
  <2>1. CardIn(chat[c].messages, j, "executing")
    BY <1>1, <1>4 DEF Filed
  <2>2. j \in 1..Len(chat[c].messages) /\ old.kind # "none" /\ old.status = "executing"
    BY <2>1 DEF CardIn, CardAt
  <2>3. old \in CardRec /\ old.tries \in Nat /\ Tried(old)
    BY <1>2, <2>2, CardIs
  <2>4. /\ chat[c] \in HookRec /\ turn = [turn EXCEPT ![c] = turn[c]]
        /\ chat[c].messages \in Seq(MessageRec) /\ chat[c].ticket \in Ids
    BY <1>2, HookIs
  <2>5. /\ card \in CardRec /\ card.kind = old.kind /\ card.draft = old.draft
        /\ card.status = status /\ card.tries = old.tries
    <3>1. "completed" \in CardStatus /\ "failed" \in CardStatus
      BY DEF CardStatus
    <3> HIDE DEF f, old
    <3> QED
      BY <1>2, <2>3, <3>1 DEF CardRec
  <2>6. /\ s.messages = p.messages /\ s.streaming = p.streaming
        /\ s = IF f.state = "ok"
               THEN [p EXCEPT !.escalating = FALSE,
                              !.ticket = IF f.kind = "create" THEN f.got ELSE @]
               ELSE [p EXCEPT !.escalating = FALSE, !.error = "failed"]
    <3>1. s = IF f.state = "ok"
              THEN [p EXCEPT !.escalating = FALSE,
                             !.ticket = IF f.kind = "create" THEN f.got ELSE @]
              ELSE [p EXCEPT !.escalating = FALSE, !.error = "failed"]
      BY DEF CompletedFiling, FailedFiling, CardAt
    <3>2. DOMAIN p = DOMAIN chat[c]
      BY DEF patchAction
    <3>3. {"escalating", "ticket", "error", "messages", "streaming"} \subseteq DOMAIN p
      BY <2>4, <3>2 DEF HookRec
    <3> HIDE DEF p, s, f
    <3> QED
      BY <3>1, <3>3, SMTT(60)
  <2>7. p.streaming = chat[c].streaming /\ (p.messages \in Seq(MessageRec) => p \in HookRec)
    <3> HIDE DEF card
    <3> QED
      BY <2>2, <2>4, <2>5, PatchActionIs
  <2>8. p \in HookRec => s \in HookRec
    <3> HIDE DEF p, s, f
    <3> QED
      BY <1>2, <2>6 DEF HookRec
  <2>9. p.messages = patchAction(chat[c], j, card).messages
    OBVIOUS
  <2> HIDE DEF card, p, s
  <2>10. Tried(card) /\ card.tries >= old.tries /\ ~Open(card)
    BY <2>2, <2>3, <2>5 DEF Tried, Open
  <2> HIDE DEF f
  <2>11. /\ HookKept(s, turn[c])
         /\ \A k, st : CardIn(s.messages, k, st) <=>
              IF k = j THEN card.status = st ELSE CardIn(chat[c].messages, k, st)
    <3>1. s.messages = patchAction(chat[c], j, card).messages
      BY <2>6, <2>9
    <3>2. s.messages \in Seq(MessageRec) => s \in HookRec
      BY <2>6, <2>7, <2>8
    <3>3. s.streaming = chat[c].streaming
      BY <2>6, <2>7
    <3> QED
      BY <1>2, <2>2, <2>5, <2>10, <3>1, <3>2, <3>3, CardChanged
  <2>12. chat' = [chat EXCEPT ![c] = s] /\ turn' = [turn EXCEPT ![c] = turn[c]]
    BY <1>1, <1>4, <2>4 DEF s
  <2>13. /\ chat' \in [Chats -> HookRec] /\ turn' \in [Chats -> TurnRec]
         /\ \A d \in Chats : HookKept(chat'[d], turn'[d])
         /\ chat'[c] = s /\ \A d \in Chats : d # c => chat'[d] = chat[d]
    BY <1>2, <2>11, <2>12, OneHook, ZenonT(60)
  <2>14. \A d, k : Asks(f, d, k) <=> d = c /\ k = j
    BY <1>4 DEF Asks
  <2>15. ASSUME NEW d \in Chats, NEW k
         PROVE  /\ CardIn(chat'[d].messages, k, "executing") <=>
                     CardIn(chat[d].messages, k, "executing") /\ ~Asks(f, d, k)
                /\ CardIn(chat[d].messages, k, "completed") =>
                     CardIn(chat'[d].messages, k, "completed")
                /\ Asks(f, d, k) /\ f.state = "ok" => CardIn(chat'[d].messages, k, "completed")
    <3>1. CASE d # c
      BY <2>13, <2>14, <3>1
    <3>2. CASE d = c /\ k # j
      BY <2>11, <2>13, <2>14, <3>2
    <3>3. CASE d = c /\ k = j
      <4>1. ~CardIn(chat[d].messages, k, "completed")
        BY <2>1, <3>3 DEF CardIn
      <4>2. card.status # "executing" /\ (f.state = "ok" => card.status = "completed")
        BY <2>5
      <4> QED
        BY <2>11, <2>13, <2>14, <3>3, <4>1, <4>2
    <3> QED
      BY <3>1, <3>2, <3>3
  <2>16. Filed(chat', RemoveAt(filings, i), tickets)
    BY <1>1, <2>15, FiledTaken DEF f
  <2> QED
    BY <1>1, <2>13, <2>16 DEF ChatInductive
<1> QED
  BY <1>3, <1>4

LEMMA InitKept == HookKept(InitChat, NoTurn) /\ InitChat.messages = <<>>
<1>1. NoTicket \in Ids
  BY DEF Ids
<1>2. InitChat \in HookRec /\ InitChat.messages = <<>> /\ InitChat.streaming = FALSE
  BY <1>1 DEF InitChat, HookRec
<1>3. NoTurn \in TurnRec /\ NoTurn.phase = "idle"
  BY DEF NoTurn, TurnRec
<1>4. Kept(<<>>, 0)
  <2>1. ASSUME NEW m \in Seq(MessageRec), Len(m) = 0 PROVE Kept(m, 0)
    <3>1. \A i : i \notin 1..Len(m)
      BY <2>1
    <3> QED
      BY <3>1 DEF Kept, Drafted, Alone
  <2>2. <<>> \in Seq(MessageRec) /\ Len(<<>>) = 0
    OBVIOUS
  <2> QED
    BY <2>1, <2>2
<1> QED
  BY <1>2, <1>3, <1>4 DEF HookKept, Coming

LEMMA LeaveStep ==
  ASSUME ChatInductive, NEW c \in Chats, Leave(c)
  PROVE  ChatInductive'
<1>1. /\ Move /\ chat' = [chat EXCEPT ![c] = InitChat] /\ turn' = [turn EXCEPT ![c] = NoTurn]
      /\ filings' = [k \in DOMAIN filings |->
           IF filings[k].chat = c THEN [filings[k] EXCEPT !.here = FALSE] ELSE filings[k]]
      /\ tickets' = [t \in DOMAIN tickets |->
           IF tickets[t].chat = c THEN [tickets[t] EXCEPT !.told = FALSE] ELSE tickets[t]]
  BY DEF Leave
<1>2. /\ chat' \in [Chats -> HookRec] /\ turn' \in [Chats -> TurnRec]
      /\ \A d \in Chats : HookKept(chat'[d], turn'[d])
      /\ chat'[c] = InitChat /\ \A d \in Chats : d # c => chat'[d] = chat[d]
  BY <1>1, InitKept, OneHook
<1>3. moves' \in 0..MaxMoves
  BY <1>1, MoveIs DEF ChatInductive
<1>4. Filed(chat, filings, tickets)
  BY DEF ChatInductive
<1>5. /\ filings \in Seq(FilingRec) /\ Len(filings) \in Nat /\ DOMAIN filings = 1..Len(filings)
      /\ DOMAIN tickets \subseteq Tickets /\ tickets \in [DOMAIN tickets -> TicketRec]
  BY <1>4 DEF Filed
<1>6. ASSUME NEW k \in 1..Len(filings)
      PROVE  /\ filings'[k] \in FilingRec /\ filings'[k].chat = filings[k].chat /\ filings'[k].card = filings[k].card
             /\ filings'[k].here <=> filings[k].here /\ filings[k].chat # c
             /\ filings[k].chat # c => filings'[k] = filings[k]
  <2>1. filings[k] \in FilingRec /\ filings[k].here \in BOOLEAN
    BY <1>5, FilingIs
  <2>2. filings'[k] = IF filings[k].chat = c THEN [filings[k] EXCEPT !.here = FALSE] ELSE filings[k]
    BY <1>1, <1>5
  <2>3. CASE filings[k].chat = c
    <3>1. filings'[k] = [filings[k] EXCEPT !.here = FALSE]
      BY <2>2, <2>3
    <3>2. /\ filings'[k] \in FilingRec /\ filings'[k].chat = filings[k].chat /\ filings'[k].card = filings[k].card
          /\ filings'[k].here = FALSE
      BY <2>1, <3>1, Unheard
    <3> QED
      BY <2>3, <3>2
  <2>4. CASE filings[k].chat # c
    BY <2>1, <2>2, <2>4
  <2> QED
    BY <2>3, <2>4
<1>7. DOMAIN filings' = 1..Len(filings) /\ filings' \in [1..Len(filings) -> FilingRec]
  BY <1>1, <1>5, <1>6
<1>8. filings' \in Seq(FilingRec) /\ Len(filings') = Len(filings)
  BY <1>5, <1>7
<1>9. ASSUME NEW t \in DOMAIN tickets
      PROVE  /\ tickets'[t] \in TicketRec /\ tickets'[t].chat = tickets[t].chat /\ tickets'[t].card = tickets[t].card
             /\ tickets'[t].told <=> tickets[t].told /\ tickets[t].chat # c
  <2>1. tickets[t] \in TicketRec /\ tickets[t].told \in BOOLEAN
    BY <1>5, TicketIs
  <2>2. tickets'[t] = IF tickets[t].chat = c THEN [tickets[t] EXCEPT !.told = FALSE] ELSE tickets[t]
    BY <1>1
  <2>3. CASE tickets[t].chat = c
    <3>1. tickets'[t] = [tickets[t] EXCEPT !.told = FALSE]
      BY <2>2, <2>3
    <3> QED
      BY <2>1, <2>3, <3>1 DEF TicketRec
  <2>4. CASE tickets[t].chat # c
    BY <2>1, <2>2, <2>4
  <2> QED
    BY <2>3, <2>4
<1>10. DOMAIN tickets' = DOMAIN tickets /\ tickets' \in [DOMAIN tickets -> TicketRec]
  BY <1>1, <1>9
<1>11. Filed(chat', filings', tickets')
  <2>1. chat'[c].messages = <<>>
    BY <1>2, InitKept
  <2>2. tickets' \in [DOMAIN tickets' -> TicketRec] /\ DOMAIN tickets' = DOMAIN tickets
    BY <1>10
  <2>3. \A k \in 1..Len(filings) :
          /\ filings'[k].chat = filings[k].chat /\ filings'[k].card = filings[k].card
          /\ filings'[k].here <=> filings[k].here /\ filings[k].chat # c
          /\ filings[k].chat # c => filings'[k] = filings[k]
    BY <1>6
  <2>4. \A t \in DOMAIN tickets :
          /\ tickets'[t].chat = tickets[t].chat /\ tickets'[t].card = tickets[t].card
          /\ tickets'[t].told <=> tickets[t].told /\ tickets[t].chat # c
    BY <1>9
  <2>5. \A d \in Chats : d # c => chat'[d] = chat[d]
    BY <1>2
  <2> QED
    BY <1>4, <1>8, <2>1, <2>2, <2>3, <2>4, <2>5, FiledLeft
<1> QED
  BY <1>2, <1>3, <1>11 DEF ChatInductive

LEMMA ChatInductiveInit == Init => ChatInductive
<1> SUFFICES ASSUME Init PROVE ChatInductive
  OBVIOUS
<1>1. /\ chat = [c \in Chats |-> InitChat] /\ turn = [c \in Chats |-> NoTurn]
      /\ filings = <<>> /\ tickets = <<>> /\ moves = 0
  BY DEF Init
<1>2. InitChat \in HookRec /\ NoTurn \in TurnRec
  BY InitKept DEF HookKept
<1>3. /\ chat \in [Chats -> HookRec] /\ turn \in [Chats -> TurnRec]
      /\ \A c \in Chats : HookKept(chat[c], turn[c])
  BY <1>1, <1>2, InitKept
<1>4. DOMAIN tickets = {} /\ tickets \in [DOMAIN tickets -> TicketRec]
  BY <1>1
<1>5. filings \in Seq(FilingRec) /\ Len(filings) = 0
  BY <1>1
<1>6. \A c \in Chats : \A j : ~CardIn(chat[c].messages, j, "executing")
  BY <1>1, InitKept DEF CardIn
<1>7. Filed(chat, filings, tickets)
  BY <1>4, <1>5, <1>6 DEF Filed
<1> QED
  BY <1>1, <1>3, <1>7, ChatAssumption DEF ChatInductive

LEMMA CardActsStep ==
  ASSUME ChatInductive, NEW c \in Chats, NEW i \in 1..Len(chat[c].messages),
         beginEditAction(c, i) \/ cancelAction(c, i) \/ cancelEditAction(c, i)
  PROVE  ChatInductive'
<1>1. PICK status \in {"pending", "editing", "cancelled"} :
        /\ HasCard(c, i) /\ CardAt(c, i).status \in {"pending", "editing", "failed"}
        /\ SetStatus(c, i, status)
  BY DEF beginEditAction, cancelAction, cancelEditAction, Offered
<1> QED
  BY <1>1, SetStatusStep

LEMMA ChatInductiveStep == ChatInductive /\ [Next]_vars => ChatInductive'
<1> SUFFICES ASSUME ChatInductive, [Next]_vars PROVE ChatInductive'
  OBVIOUS
<1>1. ASSUME NEW i \in DOMAIN filings, Serve(i) \/ Take(i) PROVE ChatInductive'
  <2>1. i \in 1..Len(filings)
    BY DEF ChatInductive, Filed
  <2> QED
    BY <1>1, <2>1, ServeStep, TakeStep
<1>2. ASSUME NEW c \in Chats, Stream(c) PROVE ChatInductive'
  BY <1>2, CreateConversationStep, TokenStep, ErrorEventStep, DoneStep, TurnFailsStep DEF Stream
<1>3. ASSUME NEW c \in Chats, UserActs(c) PROVE ChatInductive'
  <2>1. CASE \E wants \in BOOLEAN : Send(c, wants)
    BY <2>1, SendStep
  <2>2. CASE proposeCreate(c)
    BY <2>2, ProposeCreateStep
  <2>3. CASE \E kind \in {"update", "comment"} : ProposeOther(c, kind)
    BY <2>3, ProposeOtherStep
  <2>4. ASSUME NEW i \in DOMAIN chat[c].messages,
               \/ beginEditAction(c, i) \/ cancelAction(c, i) \/ cancelEditAction(c, i)
               \/ \E t \in Tickets \cup {NoTicket} : saveEditAction(c, i, t)
               \/ confirmAction(c, i)
        PROVE  ChatInductive'
    <3>1. i \in 1..Len(chat[c].messages)
      BY HookIs
    <3> QED
      BY <2>4, <3>1, CardActsStep, SaveEditStep, ConfirmStep
  <2>5. CASE Leave(c)
    BY <2>5, LeaveStep
  <2> QED
    BY <1>3, <2>1, <2>2, <2>3, <2>4, <2>5 DEF UserActs
<1>4. CASE UNCHANGED vars
  BY <1>4 DEF vars, ChatInductive
<1> QED
  BY <1>1, <1>2, <1>3, <1>4 DEF Next, Filing

-----------------------------------------------------------------------------
(* What a chat holds.                                                      *)

LEMMA ConsistentHolds == ChatInductive => Consistent
<1> SUFFICES ASSUME ChatInductive PROVE Consistent
  OBVIOUS
<1>1. ASSUME NEW c \in Chats
      PROVE  /\ chat[c].ticket \in Tickets \cup {NoTicket}
             /\ {chat[c].streaming, chat[c].escalating, chat[c].conversation} \subseteq BOOLEAN
             /\ turn[c].phase \in {"idle", "creating", "streaming", "offline"}
  <2>1. chat[c] \in HookRec /\ turn[c] \in TurnRec
    BY HookIs
  <2> QED
    BY <2>1 DEF HookRec, TurnRec, Ids
<1>2. ASSUME NEW c \in Chats, NEW i \in DOMAIN chat[c].messages
      PROVE  /\ i \in 1..Len(chat[c].messages)
             /\ chat[c].messages[i].role \in {"user", "assistant"}
             /\ chat[c].messages[i].body \in 0..Offline
             /\ CardAt(c, i).kind \in Kinds \cup {"none"}
             /\ CardAt(c, i).status \in CardStatus
             /\ {CardAt(c, i).on, CardAt(c, i).result} \subseteq Tickets \cup {NoTicket}
  <2>1. i \in 1..Len(chat[c].messages) /\ chat[c].messages \in Seq(MessageRec)
    BY HookIs
  <2>2. CardAt(c, i) \in CardRec
    BY <2>1, CardIs
  <2>3. chat[c].messages[i].role \in {"user", "assistant"} /\ chat[c].messages[i].body \in 0..Offline
    BY <2>1, MessageIs
  <2> QED
    BY <2>1, <2>2, <2>3 DEF CardRec, Ids
<1>3. DOMAIN tickets \subseteq Tickets /\ moves \in 0..MaxMoves
  BY DEF ChatInductive, Filed
<1>4. TypeOK
  BY <1>1, <1>2, <1>3 DEF TypeOK
<1>5. OneReplyAtATime
  <2> SUFFICES ASSUME NEW c \in Chats
               PROVE  /\ chat[c].streaming <=> turn[c].phase # "idle"
                      /\ \A i \in DOMAIN chat[c].messages :
                           chat[c].messages[i].streaming <=>
                             turn[c].phase # "idle" /\ i = turn[c].bot
    BY DEF OneReplyAtATime
  <2>1. HookKept(chat[c], turn[c])
    BY HookIs
  <2>2. ASSUME NEW i \in DOMAIN chat[c].messages
        PROVE  chat[c].messages[i].streaming <=> turn[c].phase # "idle" /\ i = turn[c].bot
    <3>1. i \in 1..Len(chat[c].messages)
      BY <1>2
    <3>2. chat[c].messages[i].streaming <=> i = Coming(turn[c])
      BY <2>1, <3>1 DEF HookKept, Kept
    <3> QED
      BY <3>1, <3>2 DEF Coming
  <2> QED
    BY <2>1, <2>2 DEF HookKept
<1>6. OneOpenUnlessFailed
  <2> SUFFICES ASSUME NEW c \in Chats, NEW i \in DOMAIN chat[c].messages,
                      NEW j \in DOMAIN chat[c].messages,
                      i < j, HasCard(c, i), HasCard(c, j), Open(CardAt(c, i))
               PROVE  CardAt(c, i).tries > 0
    BY DEF OneOpenUnlessFailed
  <2>1. i \in 1..Len(chat[c].messages) /\ j \in 1..Len(chat[c].messages)
    BY <1>2
  <2>2. Alone(chat[c].messages)
    BY HookIs DEF Kept
  <2> QED
    BY <2>1, <2>2 DEF Alone, HasCard, CardAt
<1>7. DraftIsConversation
  <2> SUFFICES ASSUME NEW c \in Chats, NEW i \in DOMAIN chat[c].messages,
                      CardAt(c, i).kind = "create"
               PROVE  CardAt(c, i).draft = Transcript(SubSeq(chat[c].messages, 1, i - 1))
    BY DEF DraftIsConversation
  <2>1. i \in 1..Len(chat[c].messages)
    BY <1>2
  <2>2. Drafted(chat[c].messages)
    BY HookIs DEF Kept
  <2> QED
    BY <2>1, <2>2 DEF Drafted, CardAt
<1>8. BusyHasRequest
  <2> SUFFICES ASSUME NEW c \in Chats, NEW i \in DOMAIN chat[c].messages,
                      HasCard(c, i), CardAt(c, i).status = "executing"
               PROVE  \E k \in DOMAIN filings :
                        filings[k].here /\ filings[k].chat = c /\ filings[k].card = i
    BY DEF BusyHasRequest
  <2>1. i \in 1..Len(chat[c].messages) /\ i \in Nat
    BY <1>2
  <2>2. CardIn(chat[c].messages, i, "executing")
    BY <2>1 DEF CardIn, HasCard, CardAt
  <2>3. Filed(chat, filings, tickets)
    BY DEF ChatInductive
  <2>4. PICK k \in 1..Len(filings) : Asks(filings[k], c, i)
    BY <2>1, <2>2, <2>3 DEF Filed
  <2>5. k \in DOMAIN filings
    BY <2>3 DEF Filed
  <2> QED
    BY <2>4, <2>5 DEF Asks
<1> QED
  BY <1>4, <1>5, <1>6, <1>7, <1>8 DEF Consistent

LEMMA FiledHolds == ChatInductive => FiledWhenConfirmed
<1> SUFFICES ASSUME ChatInductive, NEW c \in Chats, NEW i \in DOMAIN chat[c].messages,
                    HasCard(c, i)
             PROVE  LET told == {t \in FiledBy(c, i) : tickets[t].told}
                    IN /\ Cardinality(told) <= 1
                       /\ Cardinality(told) <= CardAt(c, i).tries
                       /\ CardAt(c, i).status \in {"failed", "cancelled"} => told = {}
  BY DEF FiledWhenConfirmed
<1> DEFINE told == {t \in FiledBy(c, i) : tickets[t].told}
<1>1. i \in 1..Len(chat[c].messages) /\ Filed(chat, filings, tickets)
  BY HookIs DEF ChatInductive
<1>2. CardAt(c, i).tries \in Nat /\ Tried(CardAt(c, i))
  BY <1>1, CardIs
<1>3. \A t \in told : /\ t \in DOMAIN tickets /\ tickets[t].told
                      /\ tickets[t].chat = c /\ tickets[t].card = i
  BY DEF FiledBy
<1> HIDE DEF told
<1>4. ASSUME NEW t \in told
      PROVE  CardAt(c, i).status \in {"executing", "completed"}
  <2>1. \/ CardIn(chat[c].messages, i, "completed")
        \/ \E k \in 1..Len(filings) : Asks(filings[k], c, i)
    BY <1>1, <1>3 DEF Filed
  <2>2. ASSUME NEW k \in 1..Len(filings), Asks(filings[k], c, i)
        PROVE  CardIn(chat[c].messages, i, "executing")
    BY <1>1, <2>2 DEF Filed, Asks
  <2> QED
    BY <2>1, <2>2 DEF CardIn, CardAt
<1>5. \A t, v \in told : t = v
  BY <1>1, <1>3 DEF Filed
<1>6. CASE told = {}
  <2>1. Cardinality(told) = 0
    BY <1>6, FS_EmptySet
  <2> QED
    BY <1>2, <1>6, <2>1 DEF told
<1>7. CASE told # {}
  <2>1. PICK t \in told : TRUE
    BY <1>7
  <2>2. told = {t}
    BY <1>5, <2>1
  <2>3. Cardinality(told) = 1
    BY <2>2, FS_Singleton
  <2>4. CardAt(c, i).status \in {"executing", "completed"}
    BY <1>4, <2>1
  <2>5. CardAt(c, i).tries > 0
    BY <1>2, <2>4 DEF Tried, HasCard
  <2>6. 1 <= CardAt(c, i).tries
    BY <1>2, <2>5
  <2> QED
    BY <2>3, <2>4, <2>6 DEF told
<1> QED
  BY <1>6, <1>7

THEOREM ChatConsistent == Spec => []Consistent
BY ChatInductiveInit, ChatInductiveStep, ConsistentHolds, PTL DEF Spec

THEOREM ChatFilesOnce == Spec => []FiledWhenConfirmed
BY ChatInductiveInit, ChatInductiveStep, FiledHolds, PTL DEF Spec

-----------------------------------------------------------------------------
(* KnowledgePages: the inductive invariant.                                *)


Article == [text : Questions, lang : Languages]

CallRec ==
  [kind : {"list", "create"}, row : [text : Questions \cup {Nothing}, lang : Languages],
   live : BOOLEAN, state : {"sent", "ok", "failed"}, got : Seq(Article)]

OfLanguage(list, lang) == \A k \in DOMAIN list : list[k].lang = lang

\* A request publishes a question that was typed, a list is in the language
\* it was asked for, and who waits for an answer shows a page in that language.
Good(call, lang, p) ==
  /\ call.kind = "create" => call.row.text \in Questions
  /\ OfLanguage(call.got, call.row.lang)
  /\ call.live => p # "away" /\ (call.kind = "list" => call.row.lang = lang)

\* One request of a kind is listened to at a time.
Fit(calls, lang, p) ==
  /\ calls \in Seq(CallRec)
  /\ \A i \in 1..Len(calls) : Good(calls[i], lang, p)
  /\ \A i, j \in 1..Len(calls) :
       calls[i].live /\ calls[j].live /\ calls[i].kind = calls[j].kind => i = j

HasLive(calls, kind) == \E i \in 1..Len(calls) : calls[i].kind = kind /\ calls[i].live

RowsKnown ==
  /\ rows \in [Languages -> Seq(Questions)]
  /\ Len(rows["en"]) + Len(rows["de"]) <= MaxRows

ScreenKnown ==
  /\ language \in Languages /\ loading \in BOOLEAN /\ error \in BOOLEAN
  /\ page \in {"away", "knowledge", "faq", "dashboard"}
  /\ articles \in Seq(Article)
  /\ form \in [open : BOOLEAN, text : Questions \cup {Nothing}, saving : BOOLEAN, failed : BOOLEAN]
  /\ page = "away" => articles = <<>> /\ ~loading /\ ~error
  /\ page # "knowledge" => form = NewForm
  /\ events \in 0..MaxEvents

CallsKnown == Fit(flight, language, page) /\ Len(flight) <= MaxFlight

\* What the page waits for is on its way.
WaitsKnown ==
  /\ form.saving <=> HasLive(flight, "create")
  /\ loading => HasLive(flight, "list")
  /\ HasLive(flight, "list") \/ error \/ OfLanguage(articles, language)

FaqInductive == RowsKnown /\ ScreenKnown /\ CallsKnown /\ WaitsKnown

-----------------------------------------------------------------------------
(* The requests of a page.                                                 *)

\* A request in a sequence of requests has the fields of one.
LEMMA CallIs ==
  ASSUME NEW calls \in Seq(CallRec), NEW i \in 1..Len(calls)
  PROVE  /\ calls[i] \in CallRec
         /\ calls[i].kind \in {"list", "create"} /\ calls[i].live \in BOOLEAN
         /\ calls[i].row \in [text : Questions \cup {Nothing}, lang : Languages]
         /\ calls[i].state \in {"sent", "ok", "failed"} /\ calls[i].got \in Seq(Article)
<1>1. calls[i] \in CallRec
  OBVIOUS
<1> QED
  BY <1>1 DEF CallRec

\* Giving requests up changes nothing else about them.
LEMMA CancelFits ==
  ASSUME NEW calls, NEW lang, NEW p, Fit(calls, lang, p), NEW kinds, NEW lang2, NEW p2,
         "list" \in kinds \/ lang2 = lang,
         p2 # "away" \/ {"list", "create"} \subseteq kinds
  PROVE  /\ Fit(Cancelled(calls, kinds), lang2, p2)
         /\ Len(Cancelled(calls, kinds)) = Len(calls)
         /\ \A kind : HasLive(Cancelled(calls, kinds), kind) <=>
                        kind \notin kinds /\ HasLive(calls, kind)
<1> DEFINE m == Cancelled(calls, kinds)
<1>1. calls \in Seq(CallRec) /\ DOMAIN calls = 1..Len(calls) /\ Len(calls) \in Nat
  BY DEF Fit
<1>2. DOMAIN m = 1..Len(calls)
  BY <1>1 DEF Cancelled
<1>3. ASSUME NEW i \in 1..Len(calls)
      PROVE  /\ m[i] \in CallRec
             /\ m[i].kind = calls[i].kind /\ m[i].row = calls[i].row /\ m[i].got = calls[i].got
             /\ m[i].live <=> calls[i].live /\ calls[i].kind \notin kinds
  <2>1. calls[i] \in CallRec
    BY <1>1, CallIs
  <2>2. m[i] = IF calls[i].kind \in kinds THEN [calls[i] EXCEPT !.live = FALSE] ELSE calls[i]
    BY <1>1 DEF Cancelled
  <2> QED
    BY <2>1, <2>2, ZenonT(60) DEF CallRec
<1>4. m \in Seq(CallRec) /\ Len(m) = Len(calls)
  <2>1. m \in [1..Len(calls) -> CallRec]
    BY <1>1, <1>2, <1>3 DEF Cancelled
  <2> QED
    BY <1>1, <2>1
<1> HIDE DEF m
<1>5. \A i \in 1..Len(m) : Good(m[i], lang2, p2)
  <2> SUFFICES ASSUME NEW i \in 1..Len(calls) PROVE Good(m[i], lang2, p2)
    BY <1>4
  <2>1. Good(calls[i], lang, p) /\ calls[i].kind \in {"list", "create"}
    BY <1>1, CallIs DEF Fit
  <2> QED
    BY <1>3, <2>1 DEF Good
<1>6. \A i, j \in 1..Len(m) : m[i].live /\ m[j].live /\ m[i].kind = m[j].kind => i = j
  BY <1>3, <1>4 DEF Fit
<1>7. Fit(m, lang2, p2)
  BY <1>4, <1>5, <1>6 DEF Fit
<1>8. \A kind : HasLive(m, kind) <=> kind \notin kinds /\ HasLive(calls, kind)
  BY <1>3, <1>4 DEF HasLive
<1> QED
  BY <1>4, <1>7, <1>8 DEF m

\* A request of a kind that nobody waits for yet can be sent.
LEMMA SendFits ==
  ASSUME NEW calls, NEW lang, NEW p, Fit(calls, lang, p), NEW call \in CallRec,
         Good(call, lang, p), ~HasLive(calls, call.kind), call.live
  PROVE  /\ Fit(Append(calls, call), lang, p)
         /\ Len(Append(calls, call)) = Len(calls) + 1
         /\ \A kind : HasLive(Append(calls, call), kind) <=>
                        HasLive(calls, kind) \/ call.kind = kind
<1> DEFINE m == Append(calls, call)
           N == Len(calls)
<1>1. calls \in Seq(CallRec) /\ N \in Nat
  BY DEF Fit
<1>2. /\ m \in Seq(CallRec) /\ Len(m) = N + 1 /\ m[N + 1] = call
      /\ \A i \in 1..N : m[i] = calls[i]
  BY <1>1
<1> HIDE DEF m
<1>3. \A i \in 1..(N + 1) : i \in 1..N \/ i = N + 1
  BY <1>1
<1>4. \A i \in 1..N : Good(calls[i], lang, p)
  BY DEF Fit
<1>5. \A i \in 1..N : ~(calls[i].live /\ calls[i].kind = call.kind)
  BY DEF HasLive
<1>6. \A i, j \in 1..N : calls[i].live /\ calls[j].live /\ calls[i].kind = calls[j].kind => i = j
  BY DEF Fit
<1>7. \A i \in 1..N : i \in 1..(N + 1)
  BY <1>1
<1>8. N + 1 \in 1..(N + 1)
  BY <1>1
<1> HIDE DEF N
<1>9. Fit(m, lang, p)
  BY <1>2, <1>3, <1>4, <1>5, <1>6 DEF Fit
<1>10. \A kind : HasLive(m, kind) <=> HasLive(calls, kind) \/ call.kind = kind
  BY <1>2, <1>3, <1>7, <1>8 DEF HasLive, N
<1> QED
  BY <1>2, <1>9, <1>10 DEF m, N

\* A list is asked for, and no other list is waited for.
LEMMA RelistFits ==
  ASSUME NEW calls, NEW lang0, NEW p0, Fit(calls, lang0, p0), NEW lang \in Languages, NEW p,
         p # "away", Relist(calls, lang)
  PROVE  /\ Fit(flight', lang, p)
         /\ Len(flight') <= MaxFlight
         /\ HasLive(flight', "list")
         /\ HasLive(flight', "create") <=> HasLive(calls, "create")
<1> DEFINE m == Cancelled(calls, {"list"})
<1>1. /\ Fit(m, lang, p) /\ Len(m) = Len(calls)
      /\ ~HasLive(m, "list")
      /\ HasLive(m, "create") <=> HasLive(calls, "create")
  BY CancelFits
<1> HIDE DEF m
<1>2. /\ flight' = Append(m, Lists(lang)) /\ Len(calls) < MaxFlight
  BY DEF Relist, m
<1>3. /\ Lists(lang) = [kind |-> "list", row |-> [text |-> Nothing, lang |-> lang], live |-> TRUE,
                        state |-> "sent", got |-> <<>>]
  BY DEF Lists, Call, Row
<1>4. Lists(lang) \in CallRec
  <2>1. <<>> \in Seq(Article)
    OBVIOUS
  <2> QED
    BY <1>3, <2>1 DEF CallRec
<1>5. Good(Lists(lang), lang, p)
  BY <1>3 DEF Good, OfLanguage
<1>6. Lists(lang).kind = "list" /\ Lists(lang).live
  BY <1>3
<1>7. /\ Fit(flight', lang, p) /\ Len(flight') = Len(m) + 1
      /\ \A kind : HasLive(flight', kind) <=> HasLive(m, kind) \/ kind = "list"
  BY <1>1, <1>2, <1>4, <1>5, <1>6, SendFits
<1>8. Len(calls) \in Nat /\ MaxFlight \in Nat
  BY KnowledgeAssumption DEF Fit
<1> QED
  BY <1>1, <1>2, <1>7, <1>8

\* A request that was answered is taken out.
LEMMA TakeFits ==
  ASSUME NEW calls, NEW lang, NEW p, Fit(calls, lang, p), NEW i \in 1..Len(calls)
  PROVE  /\ Fit(RemoveAt(calls, i), lang, p)
         /\ Len(RemoveAt(calls, i)) = Len(calls) - 1
         /\ \A kind : HasLive(RemoveAt(calls, i), kind) <=>
              HasLive(calls, kind) /\ ~(calls[i].live /\ calls[i].kind = kind)
<1> DEFINE m == RemoveAt(calls, i)
           N == Len(calls)
           old(j) == IF j < i THEN j ELSE j + 1
<1>1. calls \in Seq(CallRec) /\ N \in Nat
  BY DEF Fit
<1>2. /\ m \in Seq(CallRec) /\ Len(m) = N - 1
      /\ \A j \in 1..(N - 1) : m[j] = IF j < i THEN calls[j] ELSE calls[j + 1]
  BY <1>1, WithoutIs
<1> HIDE DEF m
<1>3. \A j \in 1..(N - 1) : m[j] = calls[old(j)] /\ old(j) \in 1..N /\ old(j) # i
  BY <1>1, <1>2
<1>4. \A j, k \in 1..(N - 1) : old(j) = old(k) => j = k
  BY <1>1
<1>5. \A k \in 1..N : k # i => \E j \in 1..(N - 1) : old(j) = k
  <2> SUFFICES ASSUME NEW k \in 1..N, k # i PROVE \E j \in 1..(N - 1) : old(j) = k
    OBVIOUS
  <2>1. CASE k < i
    BY <1>1, <2>1
  <2>2. CASE k > i
    <3>1. k - 1 \in 1..(N - 1) /\ old(k - 1) = k
      BY <1>1, <2>2
    <3> QED
      BY <3>1
  <2> QED
    BY <1>1, <2>1, <2>2
<1> HIDE DEF old
<1>6. \A j \in 1..(N - 1) : Good(m[j], lang, p)
  BY <1>3 DEF Fit
<1>7. \A j, k \in 1..(N - 1) : m[j].live /\ m[k].live /\ m[j].kind = m[k].kind => j = k
  BY <1>3, <1>4, SMTT(60) DEF Fit
<1>8. Fit(m, lang, p)
  BY <1>2, <1>6, <1>7 DEF Fit
<1>9. ASSUME NEW kind
      PROVE  HasLive(m, kind) <=> HasLive(calls, kind) /\ ~(calls[i].live /\ calls[i].kind = kind)
  <2>1. ASSUME HasLive(m, kind)
        PROVE  HasLive(calls, kind) /\ ~(calls[i].live /\ calls[i].kind = kind)
    <3>1. PICK j \in 1..(N - 1) : m[j].kind = kind /\ m[j].live
      BY <1>2, <2>1 DEF HasLive
    <3> QED
      BY <1>3, <3>1 DEF HasLive, Fit
  <2>2. ASSUME HasLive(calls, kind), ~(calls[i].live /\ calls[i].kind = kind)
        PROVE  HasLive(m, kind)
    <3>1. PICK k \in 1..N : calls[k].kind = kind /\ calls[k].live
      BY <2>2 DEF HasLive
    <3>2. k # i
      BY <2>2, <3>1
    <3>3. PICK j \in 1..(N - 1) : old(j) = k
      BY <1>5, <3>2
    <3> QED
      BY <1>2, <1>3, <3>1, <3>3 DEF HasLive
  <2> QED
    BY <2>1, <2>2
<1> QED
  BY <1>2, <1>8, <1>9 DEF m

\* An answer comes in the language of its request.
LEMMA AnswerFits ==
  ASSUME NEW lang, NEW p, Fit(flight, lang, p), NEW i \in 1..Len(flight),
         NEW state \in {"ok", "failed"}, NEW got \in Seq(Article),
         OfLanguage(got, flight[i].row.lang), Answer(i, state, got)
  PROVE  /\ Fit(flight', lang, p)
         /\ Len(flight') = Len(flight)
         /\ \A kind : HasLive(flight', kind) <=> HasLive(flight, kind)
<1> DEFINE N == Len(flight)
<1>1. flight \in Seq(CallRec) /\ N \in Nat /\ flight[i] \in CallRec
  BY CallIs DEF Fit
<1>2. /\ flight' = [flight EXCEPT ![i].state = state, ![i].got = got]
  BY DEF Answer
<1> DEFINE new == [flight[i] EXCEPT !.state = state, !.got = got]
<1>3. /\ new \in CallRec /\ new.kind = flight[i].kind /\ new.row = flight[i].row
      /\ new.live = flight[i].live /\ new.got = got
  BY <1>1 DEF CallRec
<1>4. flight' = [flight EXCEPT ![i] = new]
  BY <1>1, <1>2
<1> HIDE DEF new
<1>5. /\ flight' \in Seq(CallRec) /\ Len(flight') = N
      /\ \A j \in 1..N : flight'[j] = IF j = i THEN new ELSE flight[j]
  BY <1>1, <1>3, <1>4
<1>6. \A j \in 1..N : Good(flight[j], lang, p)
  BY DEF Fit
<1>7. Good(new, lang, p)
  BY <1>3, <1>6 DEF Good
<1>8. \A j \in 1..N : Good(flight'[j], lang, p)
  BY <1>5, <1>6, <1>7
<1>9. \A j \in 1..N : flight'[j].kind = flight[j].kind /\ flight'[j].live = flight[j].live
  BY <1>3, <1>5
<1>10. Fit(flight', lang, p)
  BY <1>5, <1>8, <1>9 DEF Fit
<1>11. \A kind : HasLive(flight', kind) <=> HasLive(flight, kind)
  BY <1>5, <1>9 DEF HasLive
<1> QED
  BY <1>5, <1>10, <1>11

-----------------------------------------------------------------------------
(* The lists.                                                              *)

\* A saved row counts once, in its language.
LEMMA InsertKeeps ==
  ASSUME RowsKnown, NEW row, row.text \in Questions, row.lang \in Languages, HasRoom, Insert(row)
  PROVE  RowsKnown'
<1>1. /\ rows["en"] \in Seq(Questions) /\ rows["de"] \in Seq(Questions)
      /\ row.lang \in {"en", "de"} /\ MaxRows \in Nat
  BY KnowledgeAssumption DEF RowsKnown, Languages
<1>2. Append(rows[row.lang], row.text) \in Seq(Questions)
      /\ Len(Append(rows[row.lang], row.text)) = Len(rows[row.lang]) + 1
  BY <1>1
<1>3. rows' = [rows EXCEPT ![row.lang] = Append(rows[row.lang], row.text)]
  BY DEF Insert
<1>4. rows' \in [Languages -> Seq(Questions)]
  BY <1>2, <1>3 DEF RowsKnown
<1>5. Len(rows'["en"]) + Len(rows'["de"]) = Len(rows["en"]) + Len(rows["de"]) + 1
  <2>1. Len(rows["en"]) \in Nat /\ Len(rows["de"]) \in Nat
    BY <1>1
  <2>2. CASE row.lang = "en"
    BY <1>2, <1>3, <2>1, <2>2 DEF RowsKnown, Languages
  <2>3. CASE row.lang = "de"
    BY <1>2, <1>3, <2>1, <2>3 DEF RowsKnown, Languages
  <2> QED
    BY <1>1, <2>2, <2>3
<1>6. /\ Len(rows["en"]) \in Nat /\ Len(rows["de"]) \in Nat
      /\ Len(rows'["en"]) \in Nat /\ Len(rows'["de"]) \in Nat
  BY <1>1, <1>4 DEF Languages
<1>7. Len(rows["en"]) + Len(rows["de"]) < MaxRows
  BY DEF HasRoom
<1>8. Len(rows'["en"]) + Len(rows'["de"]) <= MaxRows
  <2>1. \A a, b, c, d \in Nat : a + b = c + d + 1 /\ c + d < MaxRows => a + b <= MaxRows
    BY <1>1
  <2> QED
    BY <1>5, <1>6, <1>7, <2>1
<1> QED
  BY <1>4, <1>8 DEF RowsKnown

\* The server answers in the language it was asked for.
LEMMA ListedIs ==
  ASSUME RowsKnown, NEW lang \in Languages
  PROVE  InLanguage(lang) \in Seq(Article) /\ OfLanguage(InLanguage(lang), lang)
<1>1. rows[lang] \in Seq(Questions)
  BY DEF RowsKnown
<1>2. DOMAIN rows[lang] = 1..Len(rows[lang]) /\ Len(rows[lang]) \in Nat
      /\ \A i \in 1..Len(rows[lang]) : rows[lang][i] \in Questions
  BY <1>1
<1>3. \A i \in 1..Len(rows[lang]) : Row(rows[lang][i], lang) \in Article
                                    /\ Row(rows[lang][i], lang).lang = lang
  BY <1>2 DEF Row, Article
<1>4. InLanguage(lang) \in [1..Len(rows[lang]) -> Article]
  BY <1>2, <1>3 DEF InLanguage
<1>5. InLanguage(lang) \in Seq(Article)
  BY <1>2, <1>4
<1>6. OfLanguage(InLanguage(lang), lang)
  BY <1>2, <1>3 DEF InLanguage, OfLanguage
<1> QED
  BY <1>5, <1>6

\* The first of a list are in its language.
LEMMA PreviewIs ==
  ASSUME NEW data \in Seq(Article)
  PROVE  /\ Preview(data) \in Seq(Article)
         /\ \A lang : OfLanguage(data, lang) => OfLanguage(Preview(data), lang)
<1> DEFINE n == IF Len(data) < 3 THEN Len(data) ELSE 3
<1>1. n \in Nat /\ n <= Len(data) /\ Len(data) \in Nat
  OBVIOUS
<1>2. Preview(data) = SubSeq(data, 1, n)
  BY DEF Preview
<1> HIDE DEF n
<1>3. /\ Preview(data) \in Seq(Article) /\ Len(Preview(data)) = n
      /\ \A k \in 1..n : Preview(data)[k] = data[k] /\ k \in DOMAIN data
  BY <1>1, <1>2
<1>4. DOMAIN Preview(data) = 1..n
  BY <1>3
<1> QED
  BY <1>3, <1>4 DEF OfLanguage

LEMMA NoneShown == <<>> \in Seq(Article) /\ \A lang : OfLanguage(<<>>, lang)
  BY DEF OfLanguage

LEMMA NewFormIs ==
  /\ NewForm \in [open : BOOLEAN, text : Questions \cup {Nothing}, saving : BOOLEAN, failed : BOOLEAN]
  /\ NewForm.saving = FALSE
  BY DEF NewForm

LEMMA EventIs == ASSUME events \in 0..MaxEvents, Event PROVE events' \in 0..MaxEvents
  BY KnowledgeAssumption DEF Event

-----------------------------------------------------------------------------
(* The steps.                                                              *)

LEMMA OpenStep ==
  ASSUME FaqInductive, NEW p \in {"knowledge", "faq", "dashboard"}, OpenPage(p)
  PROVE  FaqInductive'
<1> USE DEF FaqInductive
<1> DEFINE m == Cancelled(flight, {"list", "create"})
<1>1. /\ page' = p /\ articles' = <<>> /\ loading' = (p # "dashboard") /\ error' = FALSE
      /\ form' = NewForm /\ rows' = rows /\ language' = language
      /\ Relist(m, language) /\ events' \in 0..MaxEvents
  BY EventIs DEF OpenPage, ScreenKnown
<1>2. Fit(m, language, page) /\ ~HasLive(m, "create")
  <2>1. \A kind : HasLive(m, kind) <=> kind \notin {"list", "create"} /\ HasLive(flight, kind)
    BY CancelFits DEF CallsKnown
  <2> QED
    BY <2>1, CancelFits DEF CallsKnown
<1> HIDE DEF m
<1>3. language \in Languages
  BY DEF ScreenKnown
<1>4. /\ Fit(flight', language, p) /\ Len(flight') <= MaxFlight
      /\ HasLive(flight', "list") /\ ~HasLive(flight', "create")
  BY <1>1, <1>2, <1>3, RelistFits
<1>5. RowsKnown' /\ CallsKnown'
  BY <1>1, <1>4 DEF RowsKnown, CallsKnown
<1>6. ScreenKnown'
  BY <1>1, <1>3, NoneShown, NewFormIs DEF ScreenKnown
<1>7. WaitsKnown'
  BY <1>1, <1>4, NewFormIs DEF WaitsKnown
<1> QED
  BY <1>5, <1>6, <1>7

LEMMA CloseStep ==
  ASSUME FaqInductive, ClosePage
  PROVE  FaqInductive'
<1> USE DEF FaqInductive
<1>1. /\ page' = "away" /\ articles' = <<>> /\ loading' = FALSE /\ error' = FALSE
      /\ form' = NewForm /\ rows' = rows /\ language' = language
      /\ flight' = Cancelled(flight, {"list", "create"}) /\ events' \in 0..MaxEvents
  BY EventIs DEF ClosePage, ScreenKnown
<1>2. /\ Fit(flight', language, "away") /\ Len(flight') = Len(flight)
      /\ \A kind : HasLive(flight', kind) <=> kind \notin {"list", "create"} /\ HasLive(flight, kind)
  BY <1>1, CancelFits DEF CallsKnown
<1>3. ~HasLive(flight', "create") /\ language \in Languages
  BY <1>2 DEF ScreenKnown
<1>4. RowsKnown' /\ CallsKnown'
  BY <1>1, <1>2 DEF RowsKnown, CallsKnown
<1>5. ScreenKnown'
  BY <1>1, <1>3, NoneShown, NewFormIs DEF ScreenKnown
<1>6. WaitsKnown'
  BY <1>1, <1>3, NoneShown, NewFormIs DEF WaitsKnown
<1> QED
  BY <1>4, <1>5, <1>6

LEMMA LanguageStep ==
  ASSUME FaqInductive, NEW lang \in Languages, changeLanguage(lang)
  PROVE  FaqInductive'
<1> USE DEF FaqInductive
<1>1. /\ language' = lang /\ events' \in 0..MaxEvents
      /\ UNCHANGED <<rows, page, articles, loading, error, form>>
  BY EventIs DEF changeLanguage, ScreenKnown
<1>2. RowsKnown' /\ ScreenKnown'
  BY <1>1 DEF RowsKnown, ScreenKnown
<1>3. CASE page = "away"
  <2>1. flight' = flight
    BY <1>3 DEF changeLanguage
  <2>2. \A i \in 1..Len(flight) : ~flight[i].live
    BY <1>3 DEF CallsKnown, Fit, Good
  <2>3. Fit(flight, lang, page)
    BY <2>2 DEF CallsKnown, Fit, Good
  <2>4. CallsKnown' /\ articles' = <<>>
    BY <1>1, <1>3, <2>1, <2>3 DEF CallsKnown, ScreenKnown
  <2> QED
    BY <1>1, <1>2, <2>1, <2>4, NoneShown DEF WaitsKnown
<1>4. CASE page # "away"
  <2>1. Relist(flight, lang)
    BY <1>4 DEF changeLanguage
  <2>2. /\ Fit(flight', lang, page) /\ Len(flight') <= MaxFlight /\ HasLive(flight', "list")
        /\ HasLive(flight', "create") <=> HasLive(flight, "create")
    BY <1>4, <2>1, RelistFits DEF CallsKnown
  <2> QED
    BY <1>1, <1>2, <2>2 DEF CallsKnown, WaitsKnown
<1> QED
  BY <1>3, <1>4

\* The list is asked for again from one's own page, with the form as given.
LEMMA RefreshStep ==
  ASSUME FaqInductive, NEW calls, Fit(calls, language, page), refresh(calls),
         page # "away", UNCHANGED <<rows, language, page, articles>>,
         form' \in [open : BOOLEAN, text : Questions \cup {Nothing}, saving : BOOLEAN, failed : BOOLEAN],
         page # "knowledge" => form' = NewForm,
         form'.saving <=> HasLive(calls, "create"),
         events' \in 0..MaxEvents
  PROVE  FaqInductive'
<1> USE DEF FaqInductive
<1>1. loading' = TRUE /\ error' = FALSE /\ Relist(calls, language)
  BY DEF refresh
<1>2. language \in Languages
  BY DEF ScreenKnown
<1>3. /\ Fit(flight', language, page) /\ Len(flight') <= MaxFlight /\ HasLive(flight', "list")
      /\ HasLive(flight', "create") <=> HasLive(calls, "create")
  BY <1>1, <1>2, RelistFits
<1>4. RowsKnown' /\ CallsKnown'
  BY <1>3 DEF RowsKnown, CallsKnown
<1>5. ScreenKnown'
  BY <1>1 DEF ScreenKnown
<1>6. WaitsKnown'
  BY <1>3 DEF WaitsKnown
<1> QED
  BY <1>4, <1>5, <1>6

LEMMA RetryStep ==
  ASSUME FaqInductive, Retry
  PROVE  FaqInductive'
<1> USE DEF FaqInductive
<1>1. /\ refresh(flight) /\ UNCHANGED <<rows, language, page, articles, form>>
      /\ page # "away" /\ events' \in 0..MaxEvents
  BY EventIs DEF Retry, ScreenKnown, HasSign
<1>2. Fit(flight, language, page)
  BY DEF CallsKnown
<1>3. /\ form' \in [open : BOOLEAN, text : Questions \cup {Nothing}, saving : BOOLEAN, failed : BOOLEAN]
      /\ page # "knowledge" => form' = NewForm
      /\ form'.saving <=> HasLive(flight, "create")
  BY <1>1 DEF ScreenKnown, WaitsKnown
<1> QED
  BY <1>1, <1>2, <1>3, RefreshStep

\* The form changes, not what it waits for.
LEMMA FormStep ==
  ASSUME FaqInductive, page = "knowledge", events' \in 0..MaxEvents,
         form' \in [open : BOOLEAN, text : Questions \cup {Nothing}, saving : BOOLEAN, failed : BOOLEAN],
         form'.saving = form.saving,
         UNCHANGED <<rows, language, page, articles, loading, error, flight>>
  PROVE  FaqInductive'
<1> USE DEF FaqInductive
<1>1. RowsKnown' /\ CallsKnown'
  BY DEF RowsKnown, CallsKnown
<1>2. ScreenKnown'
  BY DEF ScreenKnown
<1>3. WaitsKnown'
  BY DEF WaitsKnown
<1> QED
  BY <1>1, <1>2, <1>3

LEMMA ToggleStep ==
  ASSUME FaqInductive, ToggleForm
  PROVE  FaqInductive'
<1>1. form \in [open : BOOLEAN, text : Questions \cup {Nothing}, saving : BOOLEAN, failed : BOOLEAN]
      /\ events' \in 0..MaxEvents
  BY EventIs DEF FaqInductive, ScreenKnown, ToggleForm
<1>2. form' = [form EXCEPT !.open = ~@]
  BY DEF ToggleForm
<1> QED
  BY <1>1, <1>2, FormStep DEF ToggleForm

LEMMA TypeFormStep ==
  ASSUME FaqInductive, NEW q \in Questions, Type(q)
  PROVE  FaqInductive'
<1>1. form \in [open : BOOLEAN, text : Questions \cup {Nothing}, saving : BOOLEAN, failed : BOOLEAN]
      /\ events' \in 0..MaxEvents
  BY EventIs DEF FaqInductive, ScreenKnown, Type
<1>2. form' = [form EXCEPT !.text = q] /\ form.open
  BY DEF Type
<1>3. page = "knowledge"
  BY <1>2 DEF FaqInductive, ScreenKnown, NewForm
<1> QED
  BY <1>1, <1>2, <1>3, FormStep DEF Type

LEMMA CreateFormStep ==
  ASSUME FaqInductive, handleCreate
  PROVE  FaqInductive'
<1> USE DEF FaqInductive
<1> DEFINE call == Call("create", Row(form.text, language))
<1>1. /\ form \in [open : BOOLEAN, text : Questions \cup {Nothing}, saving : BOOLEAN, failed : BOOLEAN]
      /\ language \in Languages /\ events' \in 0..MaxEvents
  BY EventIs DEF ScreenKnown, handleCreate
<1>2. /\ form.open /\ form.text # Nothing /\ ~form.saving
      /\ form' = [form EXCEPT !.saving = TRUE, !.failed = FALSE]
      /\ flight' = Append(flight, call) /\ Len(flight) < MaxFlight
      /\ UNCHANGED <<rows, language, page, articles, loading, error>>
  BY DEF handleCreate
<1>3. page = "knowledge"
  BY <1>2 DEF ScreenKnown, NewForm
<1>4. call = [kind |-> "create", row |-> [text |-> form.text, lang |-> language], live |-> TRUE,
              state |-> "sent", got |-> <<>>]
  BY DEF Call, Row
<1>5. /\ call \in CallRec /\ call.kind = "create" /\ call.live
      /\ Good(call, language, page)
  <2>1. form.text \in Questions
    BY <1>1, <1>2
  <2>2. call \in CallRec
    <3>1. [text |-> form.text, lang |-> language] \in [text : Questions \cup {Nothing}, lang : Languages]
      BY <1>1, <2>1
    <3> HIDE DEF call
    <3> QED
      BY <1>4, <3>1, NoneShown DEF CallRec
  <2>3. /\ call.kind = "create" /\ call.live /\ call.got = <<>>
        /\ call.row.text = form.text /\ call.row.lang = language
    BY <1>4
  <2> HIDE DEF call
  <2> QED
    BY <1>3, <2>1, <2>2, <2>3, NoneShown DEF Good
<1> HIDE DEF call
<1>6. Fit(flight, language, page) /\ ~HasLive(flight, "create") /\ Len(flight) \in Nat
  BY <1>2 DEF CallsKnown, WaitsKnown, Fit
<1>7. /\ Fit(flight', language, page) /\ Len(flight') = Len(flight) + 1
      /\ \A kind : HasLive(flight', kind) <=> HasLive(flight, kind) \/ kind = "create"
  BY <1>2, <1>5, <1>6, SendFits
<1>8. RowsKnown' /\ CallsKnown'
  <2>1. Len(flight') <= MaxFlight
    BY <1>2, <1>6, <1>7, KnowledgeAssumption
  <2>2. RowsKnown'
    BY <1>2 DEF RowsKnown
  <2> QED
    BY <1>2, <1>7, <2>1, <2>2 DEF CallsKnown
<1>9. form'.saving = TRUE
      /\ form' \in [open : BOOLEAN, text : Questions \cup {Nothing}, saving : BOOLEAN, failed : BOOLEAN]
  BY <1>1, <1>2
<1>10. ScreenKnown'
  BY <1>1, <1>2, <1>3, <1>9 DEF ScreenKnown
<1>11. WaitsKnown'
  BY <1>2, <1>7, <1>9 DEF WaitsKnown
<1> QED
  BY <1>8, <1>10, <1>11

\* The server answers a request; whether it is listened to stays the same.
LEMMA ServeFaqStep ==
  ASSUME FaqInductive, NEW i \in DOMAIN flight, ServeFaq(i)
  PROVE  FaqInductive'
<1> USE DEF FaqInductive
<1>1. /\ Fit(flight, language, page) /\ i \in 1..Len(flight)
      /\ UNCHANGED <<language, page, articles, loading, error, form, events>>
  BY DEF CallsKnown, ServeFaq, Fit
<1>2. /\ flight[i].row.lang \in Languages /\ flight[i].kind \in {"list", "create"}
      /\ flight[i].kind = "create" => flight[i].row.text \in Questions
  <2>1. flight[i].row \in [text : Questions \cup {Nothing}, lang : Languages]
    BY <1>1, CallIs DEF Fit
  <2> QED
    BY <1>1, <2>1, CallIs DEF Fit, Good
<1>3. ASSUME NEW state \in {"ok", "failed"}, NEW got \in Seq(Article),
             OfLanguage(got, flight[i].row.lang), Answer(i, state, got), RowsKnown'
      PROVE  FaqInductive'
  <2>1. /\ Fit(flight', language, page) /\ Len(flight') = Len(flight)
        /\ \A kind : HasLive(flight', kind) <=> HasLive(flight, kind)
    BY <1>1, <1>3, AnswerFits
  <2>2. CallsKnown'
    BY <1>1, <2>1 DEF CallsKnown
  <2>3. ScreenKnown'
    BY <1>1 DEF ScreenKnown
  <2>4. WaitsKnown'
    BY <1>1, <2>1 DEF WaitsKnown
  <2> QED
    BY <1>3, <2>2, <2>3, <2>4
<1>4. CASE ServeList(i)
  <2>1. Answer(i, "ok", InLanguage(flight[i].row.lang)) /\ rows' = rows
    BY <1>4 DEF ServeList
  <2>2. RowsKnown'
    BY <2>1 DEF RowsKnown
  <2> QED
    BY <1>2, <1>3, <2>1, <2>2, ListedIs
<1>5. CASE ServeCreate(i)
  <2>1. HasRoom /\ Insert(flight[i].row) /\ flight[i].kind = "create"
    BY <1>5 DEF ServeCreate
  <2>2. RowsKnown'
    BY <1>2, <2>1, InsertKeeps
  <2>3. \E state \in {"ok", "failed"} : Answer(i, state, <<>>)
    BY <1>5 DEF ServeCreate
  <2> QED
    BY <1>3, <2>2, <2>3, NoneShown
<1>6. CASE Answer(i, "failed", <<>>) /\ UNCHANGED rows
  <2>1. RowsKnown'
    BY <1>6 DEF RowsKnown
  <2> QED
    BY <1>3, <1>6, <2>1, NoneShown
<1> QED
  BY <1>4, <1>5, <1>6 DEF ServeFaq

LEMMA StaffStep ==
  ASSUME FaqInductive, NEW q \in Questions, NEW lang \in Languages, Staff(q, lang)
  PROVE  FaqInductive'
<1> USE DEF FaqInductive
<1>1. Row(q, lang).text \in Questions /\ Row(q, lang).lang \in Languages
  BY DEF Row
<1>2. HasRoom /\ Insert(Row(q, lang)) /\ events' \in 0..MaxEvents
      /\ UNCHANGED <<language, page, articles, loading, error, form, flight>>
  BY EventIs DEF Staff, ScreenKnown
<1>3. RowsKnown'
  BY <1>1, <1>2, InsertKeeps
<1> QED
  BY <1>2, <1>3 DEF ScreenKnown, CallsKnown, WaitsKnown

\* An answer that is listened to is the one that its page waits for.
LEMMA TakeAnswerStep ==
  ASSUME FaqInductive, NEW i \in DOMAIN flight, TakeAnswer(i)
  PROVE  FaqInductive'
<1> USE DEF FaqInductive
<1> DEFINE call == flight[i]
           rest == RemoveAt(flight, i)
<1>1. /\ Fit(flight, language, page) /\ Len(flight) <= MaxFlight /\ Len(flight) \in Nat
      /\ i \in 1..Len(flight) /\ flight \in Seq(CallRec)
      /\ rows' = rows /\ language' = language /\ page' = page /\ events' = events
  BY DEF CallsKnown, TakeAnswer, Fit
<1>2. /\ call.kind \in {"list", "create"} /\ call.live \in BOOLEAN /\ call.got \in Seq(Article)
      /\ Good(call, language, page)
  BY <1>1, CallIs DEF Fit
<1>3. /\ Fit(rest, language, page) /\ Len(rest) = Len(flight) - 1
      /\ \A kind : HasLive(rest, kind) <=> HasLive(flight, kind) /\ ~(call.live /\ call.kind = kind)
  BY <1>1, TakeFits
<1>4. Len(rest) <= MaxFlight
  BY <1>1, <1>3, KnowledgeAssumption
<1>5. RowsKnown' /\ events' \in 0..MaxEvents
  BY <1>1 DEF RowsKnown, ScreenKnown
<1>6. CASE ~call.live
  <2>1. flight' = rest /\ UNCHANGED <<articles, loading, error, form>>
    BY <1>6 DEF TakeAnswer, Listens
  <2> HIDE DEF rest, call
  <2>2. CallsKnown'
    BY <1>1, <1>3, <1>4, <2>1 DEF CallsKnown
  <2>3. WaitsKnown'
    BY <1>1, <1>3, <1>6, <2>1 DEF WaitsKnown
  <2> QED
    BY <1>1, <1>5, <2>1, <2>2, <2>3 DEF ScreenKnown
<1>7. CASE call.live /\ call.kind = "list"
  <2>1. TakeList(call, rest)
    BY <1>7 DEF TakeAnswer, Listens
  <2>2. page # "away" /\ OfLanguage(call.got, language)
    BY <1>2, <1>7 DEF Good
  <2> HIDE DEF rest, call
  <2>3. /\ flight' = rest /\ form' = form /\ loading' = FALSE /\ error' \in BOOLEAN
        /\ articles' \in Seq(Article)
        /\ error' \/ OfLanguage(articles', language)
    <3>1. flight' = rest /\ form' = form
      BY <2>1 DEF TakeList
    <3>2. CASE call.state = "ok"
      <4>1. /\ articles' = IF HasSign THEN call.got ELSE Preview(call.got)
            /\ error' = FALSE /\ loading' = FALSE
        BY <2>1, <3>2 DEF TakeList
      <4> QED
        BY <1>2, <2>2, <3>1, <4>1, PreviewIs
    <3>3. CASE call.state # "ok"
      <4>1. /\ loading' = FALSE /\ error' = HasSign
            /\ articles' = IF HasSign THEN articles ELSE <<>>
        BY <2>1, <3>3 DEF TakeList, ListFailed
      <4>2. HasSign \in BOOLEAN /\ articles \in Seq(Article)
        BY DEF HasSign, ScreenKnown
      <4> QED
        BY <3>1, <4>1, <4>2, NoneShown
    <3> QED
      BY <3>2, <3>3
  <2>4. CallsKnown'
    BY <1>1, <1>3, <1>4, <2>3 DEF CallsKnown
  <2>5. ScreenKnown'
    BY <1>1, <1>5, <2>2, <2>3 DEF ScreenKnown
  <2>6. HasLive(flight', "create") <=> HasLive(flight, "create")
    BY <1>3, <1>7, <2>3
  <2>7. WaitsKnown'
    BY <1>1, <2>3, <2>6 DEF WaitsKnown
  <2> QED
    BY <1>5, <2>4, <2>5, <2>7
<1>8. CASE call.live /\ call.kind = "create"
  <2>1. TakeCreate(call, rest)
    BY <1>8 DEF TakeAnswer, Listens
  <2>2. HasLive(flight, "create") /\ form.saving
    BY <1>1, <1>8 DEF HasLive, WaitsKnown
  <2>3. page = "knowledge"
    BY <2>2 DEF ScreenKnown, NewForm
  <2> HIDE DEF rest, call
  <2>4. ~HasLive(rest, "create") /\ HasLive(rest, "list") <=> HasLive(flight, "list")
    BY <1>3, <1>8
  <2>5. ~HasLive(rest, "create")
    BY <1>3, <1>8
  <2>6. CASE call.state = "ok"
    <3>1. form' = NewForm /\ refresh(rest) /\ articles' = articles
      BY <2>1, <2>6 DEF TakeCreate, Published
    <3> QED
      BY <1>1, <1>3, <1>5, <2>3, <2>5, <3>1, NewFormIs, RefreshStep
  <2>7. CASE call.state # "ok"
    <3>1. /\ form' = [form EXCEPT !.failed = TRUE, !.saving = FALSE] /\ flight' = rest
          /\ UNCHANGED <<loading, error, articles>>
      BY <2>1, <2>7 DEF TakeCreate, FormFailed
    <3>2. /\ form' \in [open : BOOLEAN, text : Questions \cup {Nothing}, saving : BOOLEAN, failed : BOOLEAN]
          /\ form'.saving = FALSE
      BY <3>1 DEF ScreenKnown
    <3>3. CallsKnown'
      BY <1>1, <1>3, <1>4, <3>1 DEF CallsKnown
    <3>4. ScreenKnown'
      BY <1>1, <1>5, <2>3, <3>1, <3>2 DEF ScreenKnown
    <3>5. HasLive(flight', "list") <=> HasLive(flight, "list")
      BY <1>3, <1>8, <3>1
    <3>6. WaitsKnown'
      BY <1>1, <2>5, <3>1, <3>2, <3>5 DEF WaitsKnown
    <3> QED
      BY <1>5, <3>3, <3>4, <3>6
  <2> QED
    BY <2>6, <2>7
<1> QED
  BY <1>2, <1>6, <1>7, <1>8

-----------------------------------------------------------------------------
(* What a page shows.                                                      *)

LEMMA FaqInductiveInit == FaqInit => FaqInductive
<1> SUFFICES ASSUME FaqInit PROVE FaqInductive
  OBVIOUS
<1>1. RowsKnown
  <2>1. PICK first \in {<<>>} \cup {<<q>> : q \in Questions} : rows = [lang \in Languages |-> first]
    BY DEF FaqInit
  <2>2. first \in Seq(Questions) /\ Len(first) <= 1 /\ Len(first) \in Nat
    <3>1. CASE first = <<>>
      BY <3>1
    <3>2. ASSUME NEW q \in Questions, first = <<q>>
          PROVE  first \in Seq(Questions) /\ Len(first) <= 1 /\ Len(first) \in Nat
      BY <3>2
    <3> QED
      BY <3>1, <3>2
  <2>3. rows["en"] = first /\ rows["de"] = first /\ rows \in [Languages -> Seq(Questions)]
    BY <2>1, <2>2 DEF Languages
  <2>4. MaxRows \in Nat /\ MaxRows >= 2
    BY KnowledgeAssumption
  <2> QED
    BY <2>2, <2>3, <2>4 DEF RowsKnown
<1>2. ScreenKnown
  <2>1. events \in 0..MaxEvents
    BY KnowledgeAssumption DEF FaqInit
  <2> QED
    BY <2>1, NoneShown, NewFormIs DEF FaqInit, ScreenKnown
<1>3. flight = <<>> /\ flight \in Seq(CallRec) /\ Len(flight) = 0
  BY DEF FaqInit
<1>4. CallsKnown
  BY <1>3, KnowledgeAssumption DEF CallsKnown, Fit
<1>5. WaitsKnown
  BY <1>3, NoneShown, NewFormIs DEF FaqInit, WaitsKnown, HasLive
<1> QED
  BY <1>1, <1>2, <1>4, <1>5 DEF FaqInductive

LEMMA FaqInductiveStep ==
  ASSUME FaqInductive, [FaqNext]_faqVars
  PROVE  FaqInductive'
<1>1. CASE UNCHANGED faqVars
  BY <1>1 DEF faqVars, FaqInductive, RowsKnown, ScreenKnown, CallsKnown, WaitsKnown
<1> QED
  BY <1>1, OpenStep, CloseStep, LanguageStep, RetryStep, ToggleStep, TypeFormStep, CreateFormStep,
     ServeFaqStep, TakeAnswerStep, StaffStep
     DEF FaqNext, FaqUserActs, Network

\* No more than one request of a kind is awaited.
LEMMA AwaitedIs ==
  ASSUME NEW kind, Fit(flight, language, page)
  PROVE  /\ Awaited(kind) = {} <=> ~HasLive(flight, kind)
         /\ Cardinality(Awaited(kind)) <= 1
<1>1. DOMAIN flight = 1..Len(flight)
  BY DEF Fit
<1>2. Awaited(kind) = {} <=> ~HasLive(flight, kind)
  BY <1>1 DEF Awaited, HasLive
<1>3. CASE Awaited(kind) = {}
  <2>1. Cardinality(Awaited(kind)) = 0
    BY <1>3, FS_EmptySet
  <2> QED
    BY <1>2, <2>1
<1>4. CASE Awaited(kind) # {}
  <2>1. PICK i : i \in Awaited(kind)
    BY <1>4
  <2>2. \A j \in Awaited(kind) : j = i
    BY <1>1, <2>1 DEF Awaited, Fit
  <2>3. Awaited(kind) = {i}
    BY <2>1, <2>2
  <2>4. Cardinality(Awaited(kind)) = 1
    BY <2>3, FS_Singleton
  <2> QED
    BY <1>2, <2>4
<1> QED
  BY <1>3, <1>4

LEMMA FaqHolds == FaqInductive => FaqConsistent
<1> SUFFICES ASSUME FaqInductive PROVE FaqConsistent
  OBVIOUS
<1> USE DEF FaqInductive
<1>1. \A kind : /\ Awaited(kind) = {} <=> ~HasLive(flight, kind)
                /\ Cardinality(Awaited(kind)) <= 1
  BY AwaitedIs DEF CallsKnown
<1>2. Len(flight) <= MaxFlight
  BY DEF CallsKnown
<1>3. FaqTypeOK
  <2>1. \A i \in DOMAIN articles : articles[i] \in [text : Questions, lang : Languages]
    <3>1. \A i \in DOMAIN articles : articles[i] \in Article
      BY DEF ScreenKnown
    <3> QED
      BY <3>1, Zenon DEF Article
  <2> QED
    BY <1>2, <2>1, Zenon DEF FaqTypeOK, RowsKnown, ScreenKnown
<1>4. BusyHasCause
  BY <1>1 DEF BusyHasCause, WaitsKnown
<1>5. InChosenLanguage
  BY <1>1 DEF InChosenLanguage, WaitsKnown, OfLanguage
<1> QED
  BY <1>3, <1>4, <1>5 DEF FaqConsistent

\* The knowledge pages are never busy without the one request that ends it,
\* and never show articles of another language than the chosen one when no
\* list is awaited: whatever is given up, left, lost or late.
THEOREM KnowledgeConsistent == FaqSpec => []FaqConsistent
  BY FaqInductiveInit, FaqInductiveStep, FaqHolds, PTL DEF FaqSpec
==============================================================================
