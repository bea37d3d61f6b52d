-------------------------- MODULE ChatConversation --------------------------
(***************************************************************************)
(* One conversation with the assistant: the message turns and the          *)
(* escalation of app/services/chat.py, and the streaming handler of        *)
(* app/api/v1/chat.py.                                                     *)
(*                                                                         *)
(* The user may have several requests on the conversation at once (two     *)
(* tabs, a repeated click).  Each reads committed rows, waits for a model  *)
(* (embedder, LLM, triage) with nothing locked, and commits.  createdAt is *)
(* the server's now(), the time the TRANSACTION of the insert began: it    *)
(* can lie long before the commit, and lists are ordered by it.            *)
(*                                                                         *)
(* Of a message's text the model keeps its length (no user message is      *)
(* blank).  Left out: the knowledge-base excerpts put into a prompt.  A    *)
(* model that cannot be reached changes the text of a reply or of a ticket *)
(* and nothing else.                                                       *)
(***************************************************************************)
EXTENDS Naturals, FiniteSets

CONSTANTS
  Turn,         \* requests that send a message
  Streaming,    \* those through the SSE endpoint
  Escalation,   \* requests that escalate the conversation
  NoTicket,     \* escalatedTicketId is NULL
  HistoryLimit, \* HISTORY_LIMIT
  Size,         \* length of a request's message in a transcript, by its sender
  TranscriptMax \* TRANSCRIPT_MAX_CHARS

ASSUME RequestAssumption ==
  /\ Streaming \subseteq Turn
  /\ Turn \cap Escalation = {} /\ NoTicket \notin Escalation
ASSUME HistoryAssumption == HistoryLimit \in Nat \ {0}
ASSUME SizeAssumption ==
  /\ Size \in [Turn \cup Escalation -> [{"user", "bot"} -> Nat \ {0}]]
  /\ TranscriptMax \in Nat \ {0}

VARIABLES
  clock,       \* the server's clock
  messages,    \* the committed ChatMessage rows
  link,        \* committed escalatedTicketId; a ticket is named by its request
  tickets,     \* the requests that committed a Ticket
  pc,          \* where each request stands
  arrived,     \* history: when each request began
  txn,         \* when the transaction a request is in began
  prompt,      \* the messages the model of a turn was given
  transcript,  \* the text an escalation has listed, as far as it goes
  done,        \* history: when an escalation committed
  answer       \* the ticket an escalation was told

rowVars == <<messages, link, tickets>>
localVars == <<prompt, transcript, answer>>
vars == <<clock, rowVars, pc, arrived, txn, localVars, done>>

Asker == Turn \cup Escalation
Message == [from : Asker, sender : {"user", "bot"}, at : Nat, done : Nat]

Init ==
  /\ clock = 1
  /\ messages = {}
  /\ link = NoTicket
  /\ tickets = {}
  /\ pc = [x \in Asker |-> "idle"]
  /\ arrived = [x \in Asker |-> 0]
  /\ txn = [x \in Asker |-> 0]
  /\ prompt = [t \in Turn |-> {}]
  /\ transcript = [e \in Escalation |-> {}]
  /\ done = [e \in Escalation |-> 0]
  /\ answer = [e \in Escalation |-> NoTicket]

Step(x, from, to) == pc[x] = from /\ pc' = [pc EXCEPT ![x] = to]

\* A committed insert whose transaction began at the given time.
Post(x, sender, at) ==
  messages' = messages \cup {[from |-> x, sender |-> sender, at |-> at, done |-> clock]}

\* The request is authenticated, which begins its first transaction.
Begin(x, to) ==
  /\ Step(x, "idle", to)
  /\ arrived' = [arrived EXCEPT ![x] = clock]
  /\ txn' = [txn EXCEPT ![x] = clock]
  /\ clock' = clock + 1

\* The client is gone, the process dies, or an exception ends the request.
Vanish(x) ==
  /\ pc[x] \notin {"idle", "answered", "refused", "gone"}
  /\ pc' = [pc EXCEPT ![x] = "gone"]
  /\ UNCHANGED <<clock, rowVars, arrived, txn, localVars, done>>

-----------------------------------------------------------------------------
(* A turn: send_message, or stream_message.                                *)

BeginTurn(t) == Begin(t, "begun") /\ UNCHANGED <<rowVars, localVars, done>>

\* Mutant: no new transaction, the reply gets the createdAt of the question.
CommitQuestionOnly(t) ==
  /\ Step(t, "begun", "asked")
  /\ Post(t, "user", txn[t])
  /\ clock' = clock + 1
  /\ UNCHANGED <<link, tickets, arrived, txn, localVars, done>>

\* start_user_turn commits the question; the refresh after it begins the
\* transaction the rest of the request runs in.
CommitQuestion(t) ==
  /\ Step(t, "begun", "asked")
  /\ Post(t, "user", txn[t])
  /\ txn' = [txn EXCEPT ![t] = clock + 1]
  /\ clock' = clock + 2
  /\ UNCHANGED <<link, tickets, arrived, localVars, done>>

\* Mutant: the oldest messages instead of the latest.
RecentHistoryOldest ==
  {m \in messages : Cardinality({n \in messages : n.at < m.at}) < HistoryLimit}

\* _recent_history: the HistoryLimit messages created last.
RecentHistory ==
  {m \in messages : Cardinality({n \in messages : n.at > m.at}) < HistoryLimit}

\* After the retrieval the prompt is built and the model is called.
AskModel(t) ==
  /\ Step(t, "asked", "thinking")
  /\ prompt' = [prompt EXCEPT ![t] = RecentHistory]
  /\ UNCHANGED <<clock, rowVars, arrived, txn, transcript, answer, done>>

\* finish_bot_turn, with the model's text or the offline reply: in the
\* transaction begun after the question, but the stream, whose request
\* session is closed by then, opens a session of its own.
Reply(t) ==
  /\ Step(t, "thinking", "answered")
  /\ Post(t, "bot", IF t \in Streaming THEN clock ELSE txn[t])
  /\ clock' = clock + 1
  /\ UNCHANGED <<link, tickets, arrived, txn, localVars, done>>

-----------------------------------------------------------------------------
(* escalate_to_ticket.                                                     *)

\* Mutant: a linked ticket is not looked at.
LoadConversationUnchecked(e) ==
  /\ Begin(e, "loaded")
  /\ UNCHANGED <<rowVars, localVars, done>>

\* get_conversation; a linked ticket is the answer.
LoadConversation(e) ==
  /\ Begin(e, IF link = NoTicket THEN "loaded" ELSE "answered")
  /\ answer' = [answer EXCEPT ![e] = link]
  /\ UNCHANGED <<rowVars, prompt, transcript, done>>

\* The text of messages: pairs of a message and a position in its line.
Text(ms) == UNION {{m} \X (1..Size[m.from][m.sender]) : m \in ms}
Before(c, d) == c[1].at < d[1].at \/ (c[1] = d[1] /\ c[2] < d[2])

\* Mutant: the cut keeps the end of the text.
TranscriptNewest(ms) ==
  {c \in Text(ms) : Cardinality({d \in Text(ms) : Before(c, d)}) < TranscriptMax}

\* _format_transcript: the lines in the order of createdAt, cut after
\* TranscriptMax characters, which drops the newest.
Transcript(ms) ==
  {c \in Text(ms) : Cardinality({d \in Text(ms) : Before(d, c)}) < TranscriptMax}

\* list_messages, and the transcript that triage waits on.
ListMessages(e) ==
  /\ \E m \in messages : m.sender = "user"
  /\ Step(e, "loaded", "triaging")
  /\ transcript' = [transcript EXCEPT ![e] = Transcript(messages)]
  /\ UNCHANGED <<clock, rowVars, arrived, txn, prompt, answer, done>>

\* BadRequestError: the user has not asked anything.
Refuse(e) ==
  /\ ~\E m \in messages : m.sender = "user"
  /\ Step(e, "loaded", "refused")
  /\ UNCHANGED <<clock, rowVars, arrived, txn, localVars, done>>

\* Mutant: the ticket is committed, the link and the confirmation are lost.
CommitTicketUnlinked(e) ==
  /\ Step(e, "triaging", "answered")
  /\ tickets' = tickets \cup {e}
  /\ done' = [done EXCEPT ![e] = clock]
  /\ answer' = [answer EXCEPT ![e] = e]
  /\ clock' = clock + 1
  /\ UNCHANGED <<messages, link, arrived, txn, prompt, transcript>>

\* Triage has answered or failed: the ticket, the link (whatever it is by
\* now) and the confirmation are committed together.
CommitTicket(e) ==
  /\ Step(e, "triaging", "answered")
  /\ tickets' = tickets \cup {e}
  /\ link' = e
  /\ Post(e, "bot", txn[e])
  /\ done' = [done EXCEPT ![e] = clock]
  /\ answer' = [answer EXCEPT ![e] = e]
  /\ clock' = clock + 1
  /\ UNCHANGED <<arrived, txn, prompt, transcript>>

-----------------------------------------------------------------------------

Next ==
  \/ \E t \in Turn : BeginTurn(t) \/ CommitQuestion(t) \/ AskModel(t) \/ Reply(t)
  \/ \E e \in Escalation :
       LoadConversation(e) \/ ListMessages(e) \/ Refuse(e) \/ CommitTicket(e)
  \/ \E x \in Asker : Vanish(x)

Spec == Init /\ [][Next]_vars

-----------------------------------------------------------------------------
(* Properties.                                                             *)

\* Every variable stays in its domain.
TypeOK ==
  /\ clock \in Nat
  /\ messages \subseteq Message
  /\ link \in Escalation \cup {NoTicket}
  /\ tickets \subseteq Escalation
  /\ pc \in [Asker -> {"idle", "begun", "asked", "thinking", "loaded", "triaging",
                       "answered", "refused", "gone"}]
  /\ arrived \in [Asker -> Nat]
  /\ txn \in [Asker -> Nat]
  /\ prompt \in [Turn -> SUBSET Message]
  /\ transcript \in [Escalation -> SUBSET (Message \X Nat)]
  /\ done \in [Escalation -> Nat]
  /\ answer \in [Escalation -> Escalation \cup {NoTicket}]

\* Escalating again after an escalation has succeeded makes no ticket: two
\* tickets of one conversation come only from requests that overlapped.
TicketsOverlap ==
  \A d, e \in tickets : d # e => arrived[d] < done[e]

\* Every caller that got a ticket was told one that was committed, and it is
\* the linked one unless a second ticket has been made.
AnswersAgree ==
  \A e \in Escalation : answer[e] # NoTicket =>
    /\ answer[e] \in tickets
    /\ answer[e] = link \/ Cardinality(tickets) > 1

\* A ticket is made of a conversation with a question in it, and of its
\* transcript only the end is ever missing: every message committed before
\* the escalation was requested is in the description in full, unless the
\* text up to its end, as of the ticket's commit, is longer than the cap.  A
\* message that is there at all is not there without the earlier ones that
\* were committed before it, and nothing committed after the ticket is there
\* (_format_transcript, escalate_to_ticket).
TranscriptComplete ==
  \A e \in tickets :
    LET Earlier(m) == {n \in messages : n.at <= m.at /\ n.done < done[e]}
        InFull(m) == Text({m}) \subseteq transcript[e]
    IN
    /\ \E m \in messages : m.sender = "user" /\ m.done < done[e]
    /\ \A m \in messages : m.done < arrived[e] =>
         InFull(m) \/ Cardinality(Text(Earlier(m))) > TranscriptMax
    /\ \A c \in transcript[e] :
         /\ c[1].done < done[e]
         /\ \A m \in messages : m.at < c[1].at /\ m.done < c[1].done => InFull(m)

\* The order in which the chat is shown is causal: what was committed before
\* a request began is listed above everything that request adds, and a reply
\* is listed below its question.
ShownInCausalOrder ==
  \A m, n \in messages :
    \/ m.done < arrived[n.from]
    \/ m.from = n.from /\ m.sender = "user" /\ n.sender = "bot"
    => m.at < n.at

\* The model answers the question of its own turn, the newest message of the
\* prompt, unless another request of the conversation was under way.
PromptEndsWithQuestion ==
  \A t \in Turn : \A m \in prompt[t] :
    (\A n \in prompt[t] : n.at <= m.at) =>
      m.from = t \/ m.done > arrived[t]

\* What escalate_to_ticket says of itself: "Idempotent per conversation".
Idempotent == Cardinality(tickets) <= 1
=============================================================================
