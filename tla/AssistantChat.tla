----------------------------- MODULE AssistantChat -----------------------------
(* The assistant in the browser: hooks/useAssistantChat.ts, the stream reader *)
(* of lib/api/chat.ts, the action cards of components/chat and the two places *)
(* that use them (AssistantPage and the floating ChatbotFab, each with a hook *)
(* of its own).  A chat files, changes or comments on a ticket only through a *)
(* card that the user confirms; requests are answered, refused or lost.       *)
EXTENDS Naturals, Sequences, FiniteSets, SequencesExt

CONSTANTS
  Chats,              \* the hooks on the screen
  Tickets, NoTicket,  \* ids of tickets, and no ticket
  Mine,               \* the tickets the user has at first
  Faults,             \* subset of {"refuse", "lose", "offline", "leave"}
  MaxMoves, MaxTokens \* bounds: user events, tokens of a reply

ASSUME ChatAssumption ==
  /\ NoTicket \notin Tickets /\ Mine \subseteq Tickets
  /\ Faults \subseteq {"refuse", "lose", "offline", "leave"}
  /\ MaxMoves \in Nat /\ MaxTokens \in Nat \ {0}

VARIABLES
  chat,    \* chat[c]: the state of the hook
  turn,    \* turn[c]: the send() under way
  filings, \* the requests of confirmed cards, oldest first
  tickets, \* the server: id |-> what the ticket was made of, for all there are
  moves    \* user events so far

vars == <<chat, turn, filings, tickets, moves>>

(***************************************************************************)
(* Messages and action cards.                                              *)
(***************************************************************************)
Kinds == {"create", "update", "comment"}
CardStatus ==
  {"pending", "editing", "executing", "completed", "failed", "cancelled"}

\* draft: the conversation a proposal was written from; tries: confirmations.
Card(kind, status, on, draft) ==
  [kind |-> kind, status |-> status, on |-> on, draft |-> draft,
   edited |-> FALSE, tries |-> 0, result |-> NoTicket]

NoCard == Card("none", "cancelled", NoTicket, <<>>)

\* body: the number of tokens shown, or the offline text.
Message(role, body, streaming, card) ==
  [role |-> role, body |-> body, streaming |-> streaming, action |-> card]

Empty == 0
Offline == MaxTokens + 1
Text == MaxTokens

Open(card) == card.status \in {"pending", "editing", "executing"}

hasOpenAction(messages) ==
  \E i \in DOMAIN messages : messages[i].action.kind # "none" /\ Open(messages[i].action)

\* The messages with text, each with its place in the chat.
Transcript(messages) ==
  [i \in {j \in DOMAIN messages : messages[j].body # Empty} |->
     <<messages[i].role, messages[i].body>>]

\* Mutant: a proposal does not look for an open card.
ProposalAlways(messages) ==
  Append(messages, Message("assistant", Text, FALSE,
                     Card("create", "pending", NoTicket, Transcript(messages))))

withCreateProposalMessage(messages) ==
  IF hasOpenAction(messages) THEN messages
  ELSE Append(messages, Message("assistant", Text, FALSE,
                          Card("create", "pending", NoTicket, Transcript(messages))))

InitChat ==
  [messages |-> <<>>, streaming |-> FALSE, ticket |-> NoTicket,
   escalating |-> FALSE, conversation |-> FALSE, error |-> "none"]

NoTurn == [phase |-> "idle", bot |-> 0, wants |-> FALSE, had |-> FALSE]

patchMessage(s, i, body, streaming) ==
  [s EXCEPT !.messages[i].body = body, !.messages[i].streaming = streaming]

patchAction(s, i, card) == [s EXCEPT !.messages[i].action = card]

(***************************************************************************)
(* send(): a user turn, its stream, and the proposal it may end with.      *)
(***************************************************************************)
Move == moves < MaxMoves /\ moves' = moves + 1

Send(c, wants) ==
  LET s == chat[c]
      said == s.messages \o <<Message("user", Text, FALSE, NoCard),
                              Message("assistant", Empty, TRUE, NoCard)>>
  IN /\ ~s.streaming
     /\ Move
     /\ chat' = [chat EXCEPT ![c] = [@ EXCEPT !.messages = said,
                   !.streaming = TRUE, !.error = "none"]]
     /\ turn' = [turn EXCEPT ![c] =
          [phase |-> IF s.conversation THEN "streaming" ELSE "creating",
           bot |-> Len(said), wants |-> wants, had |-> s.ticket # NoTicket]]
     /\ UNCHANGED <<filings, tickets>>

CreateConversation(c) ==
  /\ turn[c].phase = "creating"
  /\ chat' = [chat EXCEPT ![c].conversation = TRUE]
  /\ turn' = [turn EXCEPT ![c].phase = "streaming"]
  /\ UNCHANGED <<filings, tickets, moves>>

Token(c) ==
  LET body == chat[c].messages[turn[c].bot].body
  IN /\ turn[c].phase = "streaming"
     /\ body < MaxTokens
     /\ chat' = [chat EXCEPT ![c] = patchMessage(@, turn[c].bot, body + 1, TRUE)]
     /\ UNCHANGED <<turn, filings, tickets, moves>>

\* The server could not reach the model; it stores its offline text and goes on.
ErrorEvent(c) ==
  /\ "offline" \in Faults
  /\ turn[c].phase = "streaming"
  /\ chat' = [chat EXCEPT ![c].error = "offline"]
  /\ turn' = [turn EXCEPT ![c].phase = "offline"]
  /\ UNCHANGED <<filings, tickets, moves>>

\* The finally block.
Finally(s, wants, had) ==
  [s EXCEPT !.streaming = FALSE,
            !.messages = IF wants /\ ~had THEN withCreateProposalMessage(@) ELSE @]

EndTurn(c, s) ==
  /\ chat' = [chat EXCEPT ![c] = Finally(s, turn[c].wants, turn[c].had)]
  /\ turn' = [turn EXCEPT ![c] = NoTurn]
  /\ UNCHANGED <<filings, tickets, moves>>

\* The done event, with what the server stored: the tokens or its offline text.
Done(c) ==
  LET body == chat[c].messages[turn[c].bot].body
  IN \/ /\ turn[c].phase = "streaming" /\ body = MaxTokens
        /\ EndTurn(c, patchMessage(chat[c], turn[c].bot, body, FALSE))
     \/ /\ turn[c].phase = "offline"
        /\ EndTurn(c, patchMessage(chat[c], turn[c].bot,
                        IF body = Empty THEN Offline ELSE body, FALSE))

\* createConversation or streamMessage throws.
TurnFails(c) ==
  LET body == chat[c].messages[turn[c].bot].body
  IN /\ "refuse" \in Faults
     /\ turn[c].phase \in {"creating", "streaming"}
     /\ EndTurn(c, [patchMessage(chat[c], turn[c].bot,
                      IF body = Empty THEN Text ELSE body, FALSE)
                    EXCEPT !.error = "failed"])

(***************************************************************************)
(* Proposals and their cards.                                              *)
(***************************************************************************)
CanPropose(s) == ~hasOpenAction(s.messages) /\ ~s.streaming

canProposeCreate(s) ==
  /\ CanPropose(s) /\ s.ticket = NoTicket
  /\ \E i \in DOMAIN s.messages : s.messages[i].role = "user"

Change(c, s) ==
  /\ Move
  /\ chat' = [chat EXCEPT ![c] = s]
  /\ UNCHANGED <<turn, filings, tickets>>

proposeCreate(c) ==
  /\ canProposeCreate(chat[c]) /\ ~chat[c].escalating
  /\ Change(c, [chat[c] EXCEPT !.messages = withCreateProposalMessage(@)])

\* AssistantPage: proposeUpdate() without a ticket, proposeComment() either way.
ProposeOther(c, kind) ==
  /\ CanPropose(chat[c]) /\ ~chat[c].escalating
  /\ kind = "update" => chat[c].ticket = NoTicket
  /\ Change(c, [chat[c] EXCEPT !.messages = Append(@,
       Message("assistant", Text, FALSE, Card(kind, "editing", chat[c].ticket, <<>>)))])

CardAt(c, i) == chat[c].messages[i].action
HasCard(c, i) == CardAt(c, i).kind # "none"

\* Mutant: a card can be confirmed while it is being executed.
OfferedBusy(c, i) ==
  HasCard(c, i) /\ CardAt(c, i).status \in {"pending", "failed", "executing"}

\* The buttons of a card that is neither busy nor settled nor being edited.
Offered(c, i) == HasCard(c, i) /\ CardAt(c, i).status \in {"pending", "failed"}

SetStatus(c, i, status) ==
  Change(c, patchAction(chat[c], i, [CardAt(c, i) EXCEPT !.status = status]))

beginEditAction(c, i) == Offered(c, i) /\ SetStatus(c, i, "editing")
cancelAction(c, i) == Offered(c, i) /\ SetStatus(c, i, "cancelled")
cancelEditAction(c, i) ==
  HasCard(c, i) /\ CardAt(c, i).status = "editing" /\ SetStatus(c, i, "pending")

\* The form keeps the card's ticket or takes one of the user's.
saveEditAction(c, i, t) ==
  LET card == CardAt(c, i)
  IN /\ HasCard(c, i) /\ card.status = "editing"
     /\ IF card.kind = "create" THEN t = NoTicket
        ELSE t # NoTicket /\ t \in {card.on} \cup Mine \cup DOMAIN tickets
     /\ Change(c, patchAction(chat[c], i,
                    [card EXCEPT !.status = "pending", !.on = t, !.edited = TRUE]))

\* A card that names no ticket throws at once.
confirmAction(c, i) ==
  LET card == CardAt(c, i)
      whole == card.kind = "create" \/ card.on # NoTicket
  IN /\ Offered(c, i)
     /\ Move
     /\ chat' = [chat EXCEPT ![c] =
          [patchAction(@, i, [card EXCEPT !.status = IF whole THEN "executing" ELSE "failed",
                                          !.tries = @ + 1])
           EXCEPT !.escalating = whole, !.error = IF whole THEN "none" ELSE "incomplete"]]
     /\ filings' = IF ~whole THEN filings
                   ELSE Append(filings, [chat |-> c, card |-> i, kind |-> card.kind,
                          on |-> card.on, state |-> "sent", got |-> NoTicket, here |-> TRUE])
     /\ UNCHANGED <<turn, tickets>>

(***************************************************************************)
(* The server works on a request; its answer is taken in any order.        *)
(***************************************************************************)
Serve(i) ==
  LET f == filings[i]
      Answered(good) ==
        \/ filings' = [filings EXCEPT ![i] = good]
        \/ "lose" \in Faults /\ filings' = [filings EXCEPT ![i].state = "error"]
  IN /\ f.state = "sent"
     /\ \/ /\ f.kind = "create"
           /\ \E t \in Tickets \ (Mine \cup DOMAIN tickets) :
                /\ Answered([f EXCEPT !.state = "ok", !.got = t])
                /\ tickets' = [x \in DOMAIN tickets \cup {t} |->
                     IF x = t THEN [chat |-> f.chat, card |-> f.card,
                                    told |-> filings'[i].state = "ok" /\ f.here]
                     ELSE tickets[x]]
        \/ /\ f.kind # "create"
           /\ Answered([f EXCEPT !.state = "ok", !.got = f.on])
           /\ UNCHANGED tickets
        \/ /\ "refuse" \in Faults
           /\ filings' = [filings EXCEPT ![i].state = "error"]
           /\ UNCHANGED tickets
  /\ UNCHANGED <<chat, turn, moves>>

\* Mutant: a card that failed stays busy.
FailedFilingStuck(s, f) == [s EXCEPT !.escalating = FALSE, !.error = "failed"]

FailedFiling(s, f) ==
  [patchAction(s, f.card, [s.messages[f.card].action EXCEPT !.status = "failed"])
   EXCEPT !.escalating = FALSE, !.error = "failed"]

CompletedFiling(s, f) ==
  [patchAction(s, f.card, [s.messages[f.card].action EXCEPT
                             !.status = "completed", !.result = f.got])
   EXCEPT !.escalating = FALSE,
          !.ticket = IF f.kind = "create" THEN f.got ELSE @]

Take(i) ==
  LET f == filings[i]
  IN /\ f.state # "sent"
     /\ filings' = RemoveAt(filings, i)
     /\ chat' = IF ~f.here THEN chat
                ELSE [chat EXCEPT ![f.chat] =
                       IF f.state = "ok" THEN CompletedFiling(@, f) ELSE FailedFiling(@, f)]
     /\ UNCHANGED <<turn, tickets, moves>>

\* The page is left and later opened anew: the hook starts over, its stream
\* is aborted, its requests go on and their answers find nobody.
Leave(c) ==
  /\ "leave" \in Faults
  /\ chat[c] # InitChat
  /\ Move
  /\ chat' = [chat EXCEPT ![c] = InitChat]
  /\ turn' = [turn EXCEPT ![c] = NoTurn]
  /\ filings' = [i \in DOMAIN filings |->
       IF filings[i].chat = c THEN [filings[i] EXCEPT !.here = FALSE] ELSE filings[i]]
  /\ tickets' = [t \in DOMAIN tickets |->
       IF tickets[t].chat = c THEN [tickets[t] EXCEPT !.told = FALSE] ELSE tickets[t]]

(***************************************************************************)
(* The specification.                                                      *)
(***************************************************************************)
Init ==
  /\ chat = [c \in Chats |-> InitChat]
  /\ turn = [c \in Chats |-> NoTurn]
  /\ filings = <<>> /\ tickets = <<>> /\ moves = 0

UserActs(c) ==
  \/ \E wants \in BOOLEAN : Send(c, wants)
  \/ proposeCreate(c)
  \/ \E kind \in {"update", "comment"} : ProposeOther(c, kind)
  \/ \E i \in DOMAIN chat[c].messages :
       \/ beginEditAction(c, i) \/ cancelAction(c, i) \/ cancelEditAction(c, i)
       \/ \E t \in Tickets \cup {NoTicket} : saveEditAction(c, i, t)
       \/ confirmAction(c, i)
  \/ Leave(c)

Stream(c) ==
  CreateConversation(c) \/ Token(c) \/ ErrorEvent(c) \/ Done(c) \/ TurnFails(c)

Filing == \E i \in DOMAIN filings : Serve(i) \/ Take(i)

Next == Filing \/ \E c \in Chats : UserActs(c) \/ Stream(c)

\* A stream goes on or ends, a request is answered or times out.
Fairness == WF_vars(Filing) /\ \A c \in Chats : WF_vars(Stream(c))

Spec == Init /\ [][Next]_vars /\ Fairness

(***************************************************************************)
(* Properties.                                                             *)
(***************************************************************************)
TypeOK ==
  /\ \A c \in Chats :
       /\ chat[c].ticket \in Tickets \cup {NoTicket}
       /\ {chat[c].streaming, chat[c].escalating, chat[c].conversation} \subseteq BOOLEAN
       /\ \A i \in DOMAIN chat[c].messages :
            /\ chat[c].messages[i].role \in {"user", "assistant"}
            /\ chat[c].messages[i].body \in 0..Offline
            /\ CardAt(c, i).kind \in Kinds \cup {"none"}
            /\ CardAt(c, i).status \in CardStatus
            /\ {CardAt(c, i).on, CardAt(c, i).result} \subseteq Tickets \cup {NoTicket}
       /\ turn[c].phase \in {"idle", "creating", "streaming", "offline"}
  /\ DOMAIN tickets \subseteq Tickets
  /\ moves \in 0..MaxMoves

\* One reply is coming at a time: the typing sign, the caret of a message and
\* the stream itself agree, so a chat is never left typing for ever and no
\* token lands in an older reply.
OneReplyAtATime ==
  \A c \in Chats :
    /\ chat[c].streaming <=> turn[c].phase # "idle"
    /\ \A i \in DOMAIN chat[c].messages :
         chat[c].messages[i].streaming <=> turn[c].phase # "idle" /\ i = turn[c].bot

\* What a proposal is written from is the whole conversation above it, replies
\* included, and that part of the conversation does not change any more.
DraftIsConversation ==
  \A c \in Chats : \A i \in DOMAIN chat[c].messages :
    CardAt(c, i).kind = "create" =>
      CardAt(c, i).draft = Transcript(SubSeq(chat[c].messages, 1, i - 1))

\* A second card is open beside another one only after one of them failed:
\* failed cards keep their buttons, and opening one again asks nobody.
OneOpenUnlessFailed ==
  \A c \in Chats : \A i, j \in DOMAIN chat[c].messages :
    /\ i < j /\ HasCard(c, i) /\ HasCard(c, j)
    /\ Open(CardAt(c, i)) /\ Open(CardAt(c, j))
    => CardAt(c, i).tries > 0

FiledBy(c, i) == {t \in DOMAIN tickets : tickets[t].chat = c /\ tickets[t].card = i}

\* A card that is busy has its request in flight.
BusyHasRequest ==
  \A c \in Chats : \A i \in DOMAIN chat[c].messages :
    HasCard(c, i) /\ CardAt(c, i).status = "executing" =>
      \E k \in DOMAIN filings :
        filings[k].here /\ filings[k].chat = c /\ filings[k].card = i

\* Every ticket that came of a card was confirmed by the user there, one
\* confirmation for one ticket, and only lost answers let a card file again.
FiledWhenConfirmed ==
  \A c \in Chats : \A i \in DOMAIN chat[c].messages :
    LET told == {t \in FiledBy(c, i) : tickets[t].told}
    IN HasCard(c, i) =>
         /\ Cardinality(told) <= 1
         /\ Cardinality(told) <= CardAt(c, i).tries
         /\ CardAt(c, i).status \in {"failed", "cancelled"} => told = {}

\* What a chat holds is consistent at every moment: one reply, one open card,
\* drafts of the whole conversation, no card that is busy without a request.
Consistent ==
  /\ TypeOK /\ OneReplyAtATime /\ OneOpenUnlessFailed
  /\ DraftIsConversation /\ BusyHasRequest

RepliesEnd == \A c \in Chats : chat[c].streaming ~> ~chat[c].streaming
CardsSettle ==
  \A c \in Chats :
    (\E i \in DOMAIN chat[c].messages : CardAt(c, i).status = "executing") ~>
      ~\E i \in DOMAIN chat[c].messages : CardAt(c, i).status = "executing"

\* A reply that is coming ends and a card that is busy settles, whatever fails.
ComesToRest == RepliesEnd /\ CardsSettle
==============================================================================
