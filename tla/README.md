# A TLA+ verification of UniTik

UniTik is a ticketing system for a college: students open tickets (by a form or out of a
chat with an assistant), staff answer them, and two background workers send e-mail and
compute embeddings of the FAQ. This directory holds TLA+ models of the parts of it whose
correctness depends on the order in which things happen, in the backend and in the browser,
the TLC instances that check them, and TLAPS proofs of what matters most. Paths below are
relative to `src/`; `app/` and `scripts/` stand for `src/backend/app/` and
`src/backend/scripts/`, and `ts/` for `src/frontend/src/`.

## 1. Inventory

| Component | State | Operations | Interacts with |
|---|---|---|---|
| Outbound e-mail queue (`services/notify_jobs.py`, `scripts/notify_worker.py`, `notifications.notify_many`) | table `NotifyJob` | enqueue with the caller's transaction; claim, send, complete; fail in a second session | ticket service (producer), SMTP relay, any number of worker processes |
| Embedding queue (`services/embedding_jobs.py`, `scripts/embedding_worker.py`) and its writers (`kb.py`, `scripts/ingest_kb.py`) | tables `EmbeddingJob`, `FaqEntry` | create a FAQ, ingest (queued or `--sync`), re-embed; claim, embed, complete, fail | embedder, workers, the unique index of migration 006 |
| Ticket lifecycle (`services/tickets.py`, `services/sla.py`, `services/notifications.py`) | `Ticket`, `TicketStatusHistory`, `TicketComment`, `Notification` | create, load (with breach stamp), PATCH, comment | e-mail queue, chat |
| Assistant chat (`services/chat.py`, `api/v1/chat.py`) | `ChatConversation`, `ChatMessage` | message turn (blocking or streamed), escalation to a ticket | LLM, triage, ticket tables |
| LLM client and triage (`app/ai/*`) | the filter's buffer | complete, stream, `ThinkTagFilter`, `parse_suggestion` | LLM server |
| Ticket routing (`services/ticket_routing.py`) | none | keyword score to department | ticket service |
| Rate limiter (`core/rate_limit.py`) | a window per key, in the memory of each process or in Redis | check and record, fail over | Redis, the limited endpoints (login, register) |
| Cache (`core/cache.py`) | values with an expiry, in memory and Redis | get, set, delete | Redis, LLM health |
| Attachments (`services/attachments.py`, `storage.py`) | rows and files | upload, download, delete | disk |
| Users, roles, departments, tenants | `User`, `Department`, `Tenant` | create, change role, get-or-create | tickets |
| Authentication, SSO | stateless tokens | login, callback | identity provider |
| Ticket store and its pages (`ts/stores/ticketStore.ts`, `ts/lib/api/tickets.ts`, dashboards, lists, queue, ticket pages, forms) | `items`, `selected`, filters, page, three spinners; a page's selection | list, open, change, comment, upload, bulk actions | HTTP API, other people's changes |
| Session store, interceptors, guards, sign-in pages (`ts/stores/authStore.ts`, `ts/lib/api/client.ts`, `ts/app/ProtectedRoute.tsx`) | the session in memory, in `localStorage`, in `sessionStorage`; the preference | sign in, register, reload, probe, 401, sign out | HTTP API, other tabs, the other stores |
| Notification store, bell and page (`ts/stores/notificationStore.ts`) | items with a read flag | list, mark, mark all, choose | HTTP API, other devices |
| Assistant hook and action cards (`ts/hooks/useAssistantChat.ts`, `ts/lib/api/chat.ts`) | messages, cards, a stream | send, propose, edit, confirm, cancel | chat API (streamed), ticket API |
| Knowledge pages and language (`ts/pages/agent/KnowledgePage.tsx`, FAQ page, dashboard) | articles of one language, a form | list, publish, switch the language | HTTP API |

What is hard in the backend. Nearly all state is in Postgres under READ COMMITTED, and most
services read without a lock, decide on the loaded copy (often after waiting for a slow service) and
commit later. The workers take row locks with `FOR UPDATE SKIP LOCKED`, but a failed job is
recorded by a second session that takes none. The ORM writes only the columns whose value
changed against the loaded copy, so what two overlapping handlers leave behind is a mixture
of their writes. Processes die, commits fail or lose their answer, the relay can accept a
mail and still raise.

What is hard in the browser. No request is ever cancelled but the probe, the stream and the
lists of the knowledge pages: every other answer is written into a shared store whatever the store shows by
then. Answers can overtake each other, be lost after the server has acted, or arrive at a
page that was left. An effect that watches what an answer writes can ask again. Two tabs
share one `localStorage`. `PROJECT.json` lists each such place, at its line, under `hazards`.

What makes each component correct:

* **E-mail queue**: nobody mails about a rolled-back change; every mail of a committed one
  goes out; no two workers send one mail together; duplicates are bounded by the faults.
* **Embedding queue**: a FAQ whose vector is out of date is never forgotten; vectors do not
  go back in time; the table converges to fresh vectors (all but beside `--sync`, section 4).
* **Tickets**: the status log is the history of the status; a breach stamp belongs to the
  running clock; a reply on a resolved ticket reopens it; moves are announced.
* **Chat**: one ticket per conversation unless escalations overlap; transcripts are complete
  up to their cap;
  the order of the messages shown is causal; a prompt ends with its own question.
* **Rate limiter**: no more than the allowance in any window of one store, nobody turned away
  below it, and a bound on what a failover adds. **Attachments**: every row has its file.
* **Ticket pages**: no comment under a foreign ticket, no spinner without a request, a screen
  at rest is the server's, a bulk action reports what happened, and the pages stop asking.
* **Sessions**: one session, kept where the user asked for it; an ended one does not come
  back; the guard's blank page ends.
* **Inbox**: what is shown as read is read, and stays so; a chosen notification opens.
* **Assistant in the browser**: one reply at a time; a ticket is filed only by a confirmed
  card, once; everything that is busy settles.
* **Knowledge pages**: articles of the chosen language; what was published comes to be listed.

## 2. Modules

| Module | Models | Lines of code behind it |
|---|---|---|
| `MailOutbox` | abstract at-least-once outbox: publish, deliver | promise of the e-mail queue |
| `NotifyQueue` | e-mail queue, requests and workers | `notify_jobs.py`, `notify_worker.py`, `notifications.py:90-123`, `email.py` |
| `NotifyQueueProofs` | theorems about `NotifyQueue` | |
| `EmbeddingQueue` | embedding jobs, FAQ rows, workers, writers | `embedding_jobs.py`, `embedding_worker.py`, `kb.py`, `ingest_kb.py` |
| `EmbeddingQueueProofs` | theorems about `EmbeddingQueue` | |
| `TicketLifecycle` | one ticket and the requests on it | `tickets.py`, `sla.py`, `notifications.py`, `chat.py:322-351` |
| `TicketLifecycleProofs` | theorems about `TicketLifecycle` | |
| `ChatConversation` | one conversation, its turns and escalations | `chat.py`, `api/v1/chat.py` |
| `ChatConversationProofs` | theorems about `ChatConversation` | |
| `RateLimit` | the requests of one key, the memories and Redis | `rate_limit.py` |
| `TicketStore` | the browser's ticket store over the ticket API | `ticketStore.ts`, `lib/api/tickets.ts` |
| `TicketPages` | dashboards, lists, queue, ticket pages and forms, composed over `TicketStore` | `pages/agent/*`, `pages/student/*`, `components/tickets/*` |
| `TicketPagesProofs` | theorems about `TicketPages` | |
| `AuthSession` | tabs, storages, interceptors, probe, sign-in pages | `authStore.ts`, `client.ts`, `ProtectedRoute.tsx`, `LoginPage.tsx`, `RegisterPage.tsx` |
| `NotificationStore` | bell and page of notifications | `notificationStore.ts`, `NotificationCenter.tsx`, `NotificationsPage.tsx` |
| `NotificationStoreProofs` | theorems about `NotificationStore` | |
| `AssistantChat` | the assistant's hook, stream and cards | `useAssistantChat.ts`, `lib/api/chat.ts`, `components/chat/*` |
| `KnowledgePages` | FAQ pages, form and language | `KnowledgePage.tsx`, `FaqPage.tsx`, `DashboardPage.tsx`, `LanguageSelector` |
| `SignInProofs` | theorems about `RateLimit`, which guards login and register, and `AuthSession` | |
| `BrowserProofs` | theorems about `AssistantChat` and `KnowledgePages` | |
| `MC*` | the bounded instances | |

`NotifyQueue` implements `MailOutbox` (`ImplementsOutbox`), and `TicketPages` extends
`TicketStore` as the pages use the store. The other modules interact
through the database or the HTTP API only and are modelled apart: `TicketLifecycle.Notify` counts in-app
notes, and the e-mail job that goes with each is a request of `NotifyQueue`;
`TicketLifecycle.EscalateToTicket` is the ticket that `ChatConversation.CommitTicket` makes. The
browser's modules carry as much of the server as their requests read and write.

A definition "Mutant: ..." is a defective variant of the operator it stands beside, with a bug
that code could plausibly have. It is used by no specification; each property of a passing
run is violated when the variant named for it in `PROJECT.json` takes the operator's place.

### Correspondence and abstraction: backend

**NotifyQueue.** `row` is the committed table. What a worker flushed but did not commit
(`processing`, `lockedAt`, `attempts + 1`) and its row lock are in `pc[w]`, `job[w]`. No
transaction commits `processing`, so `reclaim_stale_jobs` matches nothing and `Claim` leaves
it out. One `process_one` is `Claim`, `Send | SendRaises`, `Commit | CommitRaises`, and after
an exception `LoadFailed`, `RecordFailure`; each is what the session does between two points
where another session can see or change something. `SendRaises` lets the relay keep the mail
or not; `CommitRaises` lets the commit have happened or not. A job is named by its request
and recipient: a request that mails one user twice (the creator who is also the assignee)
appears as one job. `stamp` is `createdAt`, common to the jobs of one transaction.

**EmbeddingQueue.** A text is its version number, a vector the version it was made of, and 0
is none. The job rows of an entry are `MaxJobs` slots, and a FAQ is created while one is free
(`HasFreeSlot`). A writer's `tx` holds its unfinished
`enqueue_embedding` (which rows it has locked, what it inserted). The unique index over active
rows is in `Insert` and `RecordFailure`, lock waits are guards, `DeadlockVictim` and `Abort`
are the server ending a cycle. Branches for an entry that was deleted are unreachable (nothing
deletes one).
`ingest --sync` is `BeginSync`, which loads an entry after the corpus is embedded, and `CommitSync`, which
writes the vector of the corpus, and the text where it differs from the loaded one. Neither looks for
workers or other ingests, because `ingest_kb.py:38-64` does not: "Use `--sync` only for emergency/CI when no
worker is available" (`docs/knowledge-base/README.md:150`) is a rule for the operator. Two history variables say
what comes of breaking it: `outrun`, the workers whose text is older than what `--sync` has written since they
read it, and `spoilt`, the entries whose vector was left older than their text by such a worker, or by a
`--sync` whose loaded text had been replaced. The next write of the text by an ingest, or of a current vector,
takes an entry out of `spoilt`. The model follows one entry of a `--sync` run, since it writes them alike.

**TicketLifecycle.** One ticket. `GetTicket` copies the row; `WriteTicket` merges the changed
columns of a handler's copy into the row as it is by then (`Merge`), which is what the ORM's
UPDATE does. Time is in days and a restart of the clock always counts as a change of `due`
(the code's clock has microseconds). The arguments of a request are chosen at its commit,
before which nothing depends on them. A PATCH with an explicit null status or priority
fails (`status.value` of the note, the NOT NULL of the column) and is a `Leave`. Subject,
description, category and department are left out. The creator is a student; a comment of the student is public, of staff public
or internal.

**ChatConversation.** One conversation. `createdAt` is Postgres' `now()`, the begin of the
inserting transaction, kept in `txn`; `done` of a message is when it was committed. A turn is
`BeginTurn`, `CommitQuestion` (`start_user_turn`), `AskModel`, `Reply` (`finish_bot_turn`); a
streamed turn replies in a session of its own. An escalation is `LoadConversation`,
`ListMessages`, the wait for triage, `CommitTicket`. `Vanish` is a client that leaves, a
process that dies, or an exception; the database then forgets the open transaction. Of what messages say only
the length is kept: `Size` of each, and `TranscriptMax` for `TRANSCRIPT_MAX_CHARS` (`chat.py:26`). A text is a
set of places in lines, and `Transcript` the first `TranscriptMax` of it in the order of `createdAt`
(`_format_transcript`, `:291-297`), so that a long chat loses its newest messages in the ticket. The line that
says so there is left out. User messages are never blank, and the model texts, including the fallback
when the LLM cannot be reached, are just replies.

**RateLimit.** The requests of one key, each used once; an entry is the request that made it,
its score the `time` that request read (`now`). The script's members are distinct, since the
`:seq` counter lives as long as the set it numbers. `Check` is `_check_memory` and the script,
which decide alike: memory keeps `t > windowStart`, the script removes up to `windowStart`. The
memory's lock is never held across an `await`, so a memory check is one step; without Redis the
clock is read in the same step (`CheckLocally`), on a failover long before (`RedisRaises`).
`Live` is the expiry of the key in Redis. A restarted process has an empty memory and is another
`Process`. `counted`, `newest` and `overtaken` are history: what a store has ever admitted, the
latest time it has decided on, and whether it decided too late (below). The processes share one
clock; the response headers and `rate_limit_enabled` are left out. Its names begin with `Limit` where
`AuthSession` has the same one, so that one module of proofs can extend both.

### Correspondence and abstraction: browser

JavaScript runs to completion, so what a function does between two `await`s is one step. Each
function is split where it waits: an action for the `set()` before the request, which also puts the
request in flight; one for the server (`Serve`), which acts and answers, refuses, or acts
and loses the answer; and one for the code after the `await` (`Take`). Requests in flight are a
sequence in sending order (`calls`, `flight`, `filings`) or a set (`requests`). A flag `live`
or `here` says whether the page that sent a request still listens; code that writes into a
store does so without it. Faults are constants, or belong to a session: `"lose"` (no answer
within the 15 s of `client.ts`, with or without the server having acted), `"refuse"`, and what others
do (`"others"`, `"device"`, `"staff"`, `"promote"`, `"expire"`, `"revoke"`, `"offline"`, `"leave"`).
`moves` bounds the events of people.

**TicketStore, TicketPages.** `store` is the state of `useTicketStore`, one record; each of its
functions is an operator on it before and one after the request. The list endpoint has no
parameters: the browser fetches all rows and filters and cuts them (`filterTickets`,
`paginate`), as `lib/api/tickets.ts` does. What is selected from a list is given by places (`EntriesAt`). Filters are status and assignee (text, department and
sort only select among rows in the same way). A list page's effect is `Refetch`, due when
what it watches (`Deps`) differs from what it last ran with (`seen`); all other steps wait while it is
due, since React runs effects before the next event. A `session` fixes whose browser it is, which
pages are visited, what is done there, the faults, and whether answers keep their order. The ticket page looks up the
name of a new assignee in the staff list it has fetched (`AgentTicketDetailPage.tsx:68-96`), which may lack
it: `Reassign` sends the name or none along, and `Renamed` shows it.

**AuthSession.** `stores` maps `"local"` and each tab (its `sessionStorage`) to a set of at most
one session. `tabs[t]` is the tab's memory, with `probed` (the token the guard has asked about)
and `cache` (whose data the other stores hold). A token is a number, `issued[n]` what was signed
into it. `Dismiss` is `clearSession` with a new document, which forgets every request of the
tab; `clearSession` alone leaves them to be answered. `Load` is a reload, `Reopen` a new tab.

**NotificationStore.** `items` against the server's `inbox`; `markAllRead` and `markRead` set
items when the answer comes, `fetchAll` replaces them all. The panel loads from `Init` on, as the bell
is mounted with the layout.

**AssistantChat.** `chat[c]` is one hook; `turn[c]` its `send()` under way, with the index of the
message that is being streamed. A text is the number of its tokens. A card carries the
transcript its draft was made from, and `tries`, how often it was confirmed. `filings` are the
requests of confirmed cards.

**KnowledgePages.** Its names begin with `Faq` where `AssistantChat` has the same one, so that one
module of proofs can extend both. `rows` keeps the server's rows of each language, oldest first. One page is open at a time; a new run of its effect gives up the one before
(`Cancelled`). `refresh` after an article was saved is a change of the effect's counter.
Search, filters and open rows change only what is shown of the articles.

## 3. Runs

| Run | Instance | What it shows |
|---|---|---|
| `notify` | 2 workers (one `--once`), 2 requests, 2 recipients, 2 attempts, 2 faults | all properties of the e-mail queue, refinement and liveness included |
| `embed` | 2 workers, 2 writers, 1 FAQ, 2 versions, 2 job slots, 2 faults | all properties of the embedding queue |
| `tickets` | 3 requests, 1 student, 2 staff, 2 priorities, 2 days | what holds under lost updates and what only without |
| `chat` | 2 turns (1 streamed), 2 escalations, history of 2, transcripts of 4 | all properties of the conversation |
| `rate` | 4 requests, 2 processes and Redis, limit 1, window 2, 3 ticks | what each store guarantees, and the failover |
| `pages` | 3 tickets, 2 accounts, pages of 2, 4 requests in flight; five sessions of 3 to 5 events | what the ticket pages show, report and stop doing |
| `assistant` | 1 chat, 6 events, replies of 1 token, 3 tickets, all faults | one reply, one filing per confirmation, everything settles |
| `auth` | 2 tabs, 1 account and 1 to register, 2 tokens, 4 events, all faults | where sessions are kept and that they end |
| `inbox` | 2 notifications, 4 events, 3 requests in flight, all faults, in and out of order | what is read, stays read and opens |
| `knowledge` | 2 questions, 2 languages, 2 rows, 6 events, 3 requests in flight, all faults | right language, nothing published is lost |
| `embed_retries` | 1 worker, 1 entry the embedder rejects | violated: retries are never exhausted |
| `chat_idempotent` | as `chat` | violated: overlapping escalations make two tickets |

### Properties

* `NoConcurrentSend`, `DuplicatesBounded` (`accepted <= 1 + 2 * faults`): one fault costs *two*
  extra copies because a send that raised after the relay took the mail is followed by a
  `fail_job` that can put back to pending what another worker has completed meanwhile.
  `SettledWasDelivered`: a row ends `done` or `failed` only after a delivery, and `failed` only
  after `maxAttempts` deliveries, since failures are not counted. `OnlyCommittedMail`,
  `QueueSettles`, `ImplementsOutbox`.
* `StaleIsQueued`, `OneEmbedderPerFaq`, `VectorNeverOlder`, `EventuallyFresh`. All but the second excuse
  the entries in `spoilt`, which only `--sync` beside another writer of the vector can leave there. The last
  also excuses an entry whose job is `failed`: a job that was put back to pending after
  completions counts these as attempts and can be given up with a newer text waiting.
* `LogEndsAtStatus` under every interleaving; `ChainUnlessRaced` and `BreachUnlessRaced` when no
  handler wrote over a version it had not loaded (`raced` is set by just that event);
  `MovesAnnounced`; `ReplyHeardUnlessRaced`.
* `TicketsOverlap`, `AnswersAgree`, `TranscriptComplete`, `ShownInCausalOrder`,
  `PromptEndsWithQuestion`: each says what holds under every overlap of requests, and names
  the overlap that excuses the rest. `TranscriptComplete`: what was committed before an escalation was
  requested is in the ticket in full, or the text up to its end is longer than the cap; what is there has no
  gap, whatever was committed while triage was waited for.
* `WindowUnlessOvertaken`: a store keeps to the limit in every window, unless it decided on a
  request after one with a later time, or after the key expired though the request is older
  than that (`TooLate`). `RejectedWhenFull` needs no excuse: out of order or after a failure, a
  rejection always rests on `MaxRequests` younger requests of one store. `AllowancesAddUp`: over
  all stores a client gets at most the sum of the allowances in use.
* Each browser module has one invariant `Consistent` (`FaqConsistent` of the knowledge pages): its type invariant and what must agree at
  every moment, whatever fails and in whatever order answers come.
  *pages*: `SpinnersHaveCause`, `ThreadsBelong`, `NameMatches` (the name beside the open ticket is its
  assignee's or missing).
  *assistant*: `OneReplyAtATime`, `DraftIsConversation`, `OneOpenUnlessFailed`, `BusyHasRequest`.
  *auth*: `KeptWhereAsked`. *inbox*: `LoadingHasCause`, `ShownReadIsRead`. *knowledge*:
  `BusyHasCause`, `InChosenLanguage`.
* `Settled`: with nothing in flight and no error shown, the screen is what the server has, if answers
  keep their order. `ListSettled` says so of lists in sessions whose tickets change by bulk actions only
  (`Undisturbed`): the answer to a form or to a change on the ticket page goes into the list whatever that
  shows by then. `DetailSettled` says so of the ticket page while no answer is lost, because the next
  change clears the error of a lost one; and with the status as `UpToDate` has it (section 4).
  `ThreadStays`: a thread on the screen loses no comment but by another fetch. `BulkHonest`: what a bulk
  action takes off the selection was done, where nobody can have changed the ticket again since
  (`SingleHanded`). `ComesToRest` excuses two lists that set page or size in turn
  (`Disagree`), which keep the effect fetching (section 4).
* `FiledWhenConfirmed`: every ticket of a card was confirmed there, one confirmation for one ticket, and
  only a lost answer lets a card file again. `ComesToRest` (assistant): replies end, busy cards settle.
* `EndedStaysEnded`: a token that no tab, no store and no sign-in answer holds is never held again.
  `BlankEnds`. `ReadStaysRead`, `SelectionsOpen`.
* `PublishedIsListed`: a saved article comes to be listed, unless the list fails or the user changes the
  language or the page first; and after any such change, from some time on no list of its language that
  is at rest and without an error lacks it.

### Bounds

`MaxFaults` (notify, embed) bounds provider errors, failed commits and crashes; two are needed
for a job that is completed, put back, and hit again. Two workers are needed for one to complete a job between
the other's two sessions. `MaxAttempts = 2` tells a first from a last attempt. `MaxRuns`,
`MaxVersion`, `MaxJobs` (embed) bound the writers' transactions, the rewrites and the rows of
an entry: one active row and one settled row are what the unique index tells apart, and two
versions make one of them old. `MaxTime = 1` (tickets) is the due time of the priority HIGH, and
below that of MEDIUM, so that tickets do and do not become overdue; three requests let one handler be
overtaken twice. The chat has four requests, each used once. A question
fills 1 place of a transcript, a reply or a confirmation 2, and `TranscriptMax = 4`: texts below, at and above
the cap, and cuts within a line and between two. `rate`
has a request more than its three stores admit, and time for a window of 2 to pass and another to begin. Requests, staff and escalations
are interchangeable where no liveness is checked (`SYMMETRY`).

In the browser `MaxMoves` (in `pages`: `events` of a session) counts what people do, and answers,
effects and probes come on top. Two events and their answers make a race; three to five also let the page
be left and opened again between them, a card fail and be confirmed anew (six events), a published article be
looked for after the language was changed and changed back (six), or a second sign-in follow a refused one.
`MaxCalls` and `MaxFlight` let every request of these events be open at once or nearly so. Pages of two
rows over three tickets make a second page; the agent's dashboard asks for three, so that page sizes
differ. `MaxTokens` bounds the sign-ins (auth: two, so that one can end and another begin) and
the length of a reply (assistant: empty, partial by failure, whole). `MaxRows` leaves room for an article published
here and one by others.

The five sessions of `pages`: an admin who browses dashboards, lists, filters and pages (`Browsing`), one
with the selection and the bulk actions (`Bulking`), an agent on two tickets with answers in order
(`Working`) and with answers lost, late and others writing (`Racing`), and a student who creates,
uploads and replies, also to a resolved ticket (`Studying`). They are one run because they ask the same questions.

### Fairness and deadlock

Weak fairness is assumed for what the code schedules: the steps of the workers' `while True`
loop, the end of an open transaction (the deadlock detector or a rollback at the latest), and
`Restart`: the workers are processes of their own (`python -m scripts.embedding_worker`,
`docs/knowledge-base/README.md:131`) that nothing in the code restarts, so this one is an
assumption about whoever operates them. Nothing is assumed of requests, faults, crashes, the
wish of a writer to begin. `TicketLifecycle`, `ChatConversation` and `RateLimit` have no fairness: their properties are
safety.

In the browser, weak fairness of `ServeAny`, `TakeAny`, `Network` and `Filing` says that a
request is answered or ends with the 15 s timeout of `lib/api/client.ts`; of `Stream`, that the
events of a stream go on or the reader ends it; of `Refetch` and `Probe`, that React runs the effect of a rendered
page. Users need not do anything, and `Notice` (a guard that finds the token too old) is not fair,
for nothing renders an idle page.

The runs of requests that are used once, and of users who may stop and whose events are bounded,
set `CHECK_DEADLOCK FALSE`, because the system stops when all is answered. The queues' runs check deadlock.

### Running

`tlc -config MCNotifyQueue.cfg MCNotifyQueue` (likewise the other `MC*` modules with each of
their `.cfg` files) and `tlapm NotifyQueueProofs.tla`. The longest runs take a minute or two.

## 4. Findings

1. `embed_retries`: `fail_job` never sees exhausted attempts, for the claim's `attempts + 1` is
   rolled back with the claim. A text that cannot be embedded is retried for ever, and
   `--once` does not exit. (`notify_jobs` has the same structure.)
2. `chat_idempotent`: two overlapping escalations create two tickets.

### Observed without a run of their own

The models contain these behaviours; the property named holds because it excuses just that case.

*Backend.*

* `ingest --sync` beside a worker that has read the old text: the worker then writes the vector of that text
  over the new one and completes its job, so that a stale vector is left and no job that would repair it
  (`scripts/ingest_kb.py:58`). Likewise a `--sync` that has loaded an entry which another ingest rewrites
  before the commit. The code looks for neither; `docs/knowledge-base/README.md:150` asks the operator to see to it
  (`StaleIsQueued`, `VectorNeverOlder` and `EventuallyFresh` excuse `spoilt`).
* A ticket made of a long chat lacks its newest messages, which are often what the student escalates for:
  the transcript is cut at its end (`services/chat.py:295`). This is intended (`test_transcript_is_capped`; `TranscriptComplete` excuses it).
* A student's reply may miss a resolve that commits between its load and its own commit; the ticket
  stays RESOLVED (`services/tickets.py:255`, against `docs/architecture/README.md:128-131`;
  `ReplyHeardUnlessRaced`).
* A breach stamp decided on a loaded copy can land on a restarted clock (`services/sla.py:56`;
  `BreachUnlessRaced`).
* `escalate_to_ticket` creates its ticket without `apply_sla_clock` (`services/chat.py:323`): it has no
  due time, against the comment of `services/sla.py:3`.
* `EXPIRE` counts from the run of the script, the scores from the arrival of the
  requests (`core/rate_limit.py:50`). A request that reads the clock just before the key expires, and is checked just
  after, misses entries of its own window and is admitted beyond `max_requests` (`WindowUnlessOvertaken`).

*Ticket pages.*

* An answer sets `page` and `pageSize`, which the effect of the list pages watches
  (`ts/stores/ticketStore.ts:129`): two lists in flight with different pages, or with the page size of a
  dashboard, can trigger each other without end (`ComesToRest` excuses `Disagree`).
* A late list fills the store whatever scope and filters are chosen by then (`:126`), and a late
  `fetchById` selects a ticket that the user has left (`:145`); `Settled` asks for answers in order.
* A student's reply reopens a resolved ticket at the server (`services/tickets.py:257`), as
  `docs/architecture/README.md` section 8 asks, but the store takes a comment alone (`ticketStore.ts:254`): the ticket
  page calls the ticket resolved until it is fetched again (`UpToDate`). The proof of `Settled` brought this up.
* A created ticket whose file was still uploading is put on top of a list that may have been
  fetched with it meanwhile, and then stands there twice (`:189`).
* A ticket that is reassigned while the staff list is missing, or lacks the new assignee, shows no name until it
  is fetched again (`ts/pages/agent/AgentTicketDetailPage.tsx:82`; `NameMatches` allows it).
* Tickets stay ticked when the filter or the page hides them; "Assign" then means a hidden assigned
  ticket as well, without saying "Reassign" (`ts/pages/agent/QueuePage.tsx:104`). The form for
  staff (`AgentCreateTicketPage.tsx:65`) sends nothing.

*Sessions.*

* The 401 of a request of an earlier session ends the present one (`ts/lib/api/client.ts:72`).
* A list answered after the sign-out fills the caches again (`ts/stores/authStore.ts:110`), and a probe
  answered after the profile was edited takes the edit back (`:97`).
* A refused sign-in in a second tab has already moved the session of the first
  (`LoginPage.tsx:76`); `KeptWhereAsked` speaks of one open tab.

*Inbox, assistant, knowledge pages.*

* A list that was served before a mark and answered after it shows the item unread again
  (`ts/stores/notificationStore.ts:38`), and "mark all" shows items as read that came later (`:86`), when
  answers overtake each other.
* Whether the chat has its ticket is read before the reply and used after it: a conversation that is
  filed meanwhile is proposed again (`ts/hooks/useAssistantChat.ts:124`).
* Publishing again after a lost answer makes a second article (`KnowledgePage.tsx:99`).

## 5. Proofs

The theorems hold for any number of workers, writers, requests, recipients, members of staff, turns and
escalations and for any bounds, from the named assumptions of each module (`ASSUME`), which TLC
evaluates on its instances. The type invariants of `NotifyQueue`, `TicketLifecycle`,
`ChatConversation` and `RateLimit` are proved only; the others are also checked by TLC.

**NotifyQueueProofs.** The inductive invariant `Inductive` joins `TypeOK` and
`NoConcurrentSend` with: a locked row is pending (`LocksPending`), so no worker can complete a
row under another's lock; a row exists only for a committed request (`OnlyCommittedRows`); every
attempt counted in a row is a delivery (`AttemptsAreDeliveries`); and an account of the copies
(`CopiesArePaidFor`): the copies accepted, plus one for each worker still to run the second
session of a job, are at most twice the faults, plus one when the row is settled or the mail
is out. `CopiesArePaidFor` is kept by every step from `Inductive`; it is needed because a bare bound
on `accepted` is not inductive: a worker between its sessions carries the right to one more
copy. From it follow `MutualExclusion`, `CommittedMail`, `SettledDelivered`, `BoundedDuplicates`,
and `Refinement`: each step of the queue is a step or a stutter of `MailOutbox`.

**EmbeddingQueueProofs.** `StaleIsQueued` is not inductive: it says nothing of a rewrite that is not
committed, nor of a worker that has read an old text and is about to settle the job. `Inductive`
adds `OneActive` (the unique index: one active row per entry), `LocksHold` (the job a worker has locked is
active, held by no other worker and touched by no open writer), `InsertsHold` (an insert that waits for
its commit keeps its entry free of active rows), `WritersKnown`
and `JobsKnown` (what writers and workers are busy with exists), `RewritesCovered` (a text that is rewritten
but not committed is covered by a row that was found, touched or inserted, pending or given up),
`ReadingCurrent` (unless `--sync` has outrun the worker, the text it has read is the current one, or the entry
has a job that was given up, and it is no older than the vector) and `VectorNotAhead`. Two steps carry the argument. When a
rewrite commits while a worker reads, the writer cannot have touched the row the worker
has locked, so another row covers it. When `fail_job` puts a row back, the unique index leaves
nobody who reads for that entry. `OneEmbedderPerFaq` then follows from `OneActive` and `LocksHold`;
`VectorNeverOlder` from `VectorNotAhead` for `--sync` and from `ReadingCurrent` for a worker. No assumption keeps
`--sync` away from the others: `outrun` and `spoilt` say which of its orders leave a stale vector, and the theorems
that no other order does.

**TicketLifecycleProofs.** `LogIsCurrent`: a handler logs exactly when it writes the status, so
the end of the log follows the row. `LogIsChain` and `StampsAreDue` need to know what a copy
says about the row: a request that holds the current version holds the current row, and the due
time or breach of an old copy matters only to a write that sets `raced`. The lemmas about
`Merge` (a write from a current copy leaves the row equal to the new copy) carry the step.

`MovesAnnounced` follows from counting: a handler of the staff appends one move to the log and one
note in the same step, and a merge that loses the status loses no entry of the log.
`ReplyHeardUnlessRaced` is a step property: a reply from a current copy writes the copy it decided on.

**ChatConversationProofs.** `OnlyOverlapDuplicates` and `AgreedAnswers` rest on: the link is
unset exactly while there is no ticket, and an escalation still on its way began before every
ticket committed. `CausalOrder` rests on the clock being ahead of every
time recorded and on the transaction of a request beginning after its arrival. `CompleteTranscripts` says of a
ticket's transcript what `Held` says of any listed text from the time it was listed (`HeldWhenListed`), while
messages are committed after it (`HeldStays`). When it is listed, a message whose text up to its end fits the cap is
kept in full (`TranscriptKeeps`: no more than `TranscriptMax` places precede any of it), and whatever precedes a place that is
kept is kept (`TranscriptNoGap`); both for any cap and any lengths. `OwnQuestionLast` adds that
what a prompt leaves out is older than all it holds (`NewestIsNewest`), so that its last message is the
last of the conversation. The lemma `StepKinds` sorts the steps into those that begin a request, those
that commit a message and those that do neither, which is all the times depend on.

**SignInProofs.** *Rate limiter.* `LimitInductive` carries the proof. `WindowUnlessOvertaken` is not inductive: it says nothing of what a store
still has. `EntriesKept` does: a store in time has every entry younger than a window before its
newest decision, and the key expires no earlier than any entry leaves its window. So a check in
time counts all that matters, and the windows that end before the new entry stay as they are
(`CheckKeepsWindow`). `CountedKnown` places each request: one that waits for the script is in no
store, one that has its answer in no memory. `DenialsFounded` is kept because what a store has
counted only grows (`FullStays`). Each action reduces to one check of one store (`CheckKeepsAll`)
or to a step that checks nothing (`LimitQuiet`). `AllowancesAddUp` needs that whoever was admitted was
counted by a store in use (`AdmittedCounted`); each such store has at most `MaxRequests` of a window
(`StoreShare`), and a set covered by finitely many such shares has at most their sum (`CoverIsSmall`, by
the least number of stores that would refute it).

*Sessions.* `Inductive` says of each tab that its session belongs to the user its token
was signed for and that a tab never opened has none (`TabsKeep`), of each storage that it holds one
such session at most (`StoresKeep`), of each request that its tab is open and that a probe still
listened to asks about the token of its tab (`RequestsFit`), and joins `KeptWhereAsked`. `RequestsFit`
is what `EndedStaysEnded` needs: a profile laid over a session brings no token but the one that is there.
The steps are of three kinds: one tab gets another session, which is stored (`SessionStep`); nobody
does (`QuietStep`); the preference moves what is stored (`LoginStep`). Each kind is shown once to keep
`Inductive` and to bring no token back, and each action reduced to its kind.

**NotificationStoreProofs.** The argument is about what the user sees or will see as read: `Sure(n, i)`
says that the items, or the answers before the `i`-th in flight, show `n` as read (listed so, marked, or
marked with all that was listed before). Where answers keep their order, `Inductive` says that requests
are served first to last, that what is sure is read at the server (`SureIsRead`) and that no list brings
back unread what the answers before it make sure (`ListsAreNewer`); in any order, that each list has a
row once (`Once`) and rows of the inbox only (`Known`, which `mark all` needs: the server marks what the
store may show). Taking the first answer moves its content into the items, so what is sure one place
earlier afterwards was sure before (`TakeStep`); that step also gives `ReadStaysRead`. The four kinds of
steps (`QuietStep`, `PushStep`, `ServeStep`, `TakeStep`) are shown once, the actions reduced to them.

**BrowserProofs.** *Assistant.* `ChatInductive` says of each hook (`HookKept`) that only the last message can be
streaming, and does so just while a turn listens; that the draft of a card was made from the messages before it,
which no later step changes (`Drafted`, `SettledSame`); and that a card which is proposed again was
confirmed and failed before (`Tried`). Of the requests (`Filed`) it says that the cards that are executing and the filings
somebody listens to correspond one to one, that a ticket whose filing was not lost on the way (`told`) belongs
to a card that is completed, or executing with that answer in flight, and that no card has two of
these. `Filed` is kept by a confirmation (`FiledConfirmed`), the server (`FiledTicket`,
`FiledAnswered`), the answer (`FiledTaken`) and by leaving the page, which leaves nobody listening (`FiledLeft`); all
other steps change neither cards under way nor filings (`FiledStays`). `Consistent` and
`FiledWhenConfirmed` follow. *Knowledge pages.* `FaqInductive` says what articles, screen and requests are
made of (`RowsKnown`, `ScreenKnown`, `CallsKnown`) and that each sign of loading, refreshing or saving has
one request that is still listened to (`WaitsKnown`); `Good` and `Fit` say it of a list of requests, and the lemmas
about `Cancel`, sending, serving and taking keep them whatever the page does.

**TicketPagesProofs.** The screen is filled from answers, which were made when the request was served and
come when the server has moved on, so `PagesInductive` says of every request in flight what its answer may
hold (`CallsFit`): a list or a PATCH answers with a bare ticket, which has no thread and the name of its
assignee (`Bare`); a detail with a ticket whose thread is part of the one the server has by now; a comment
is confirmed only when it is in that thread. The store (`StoreFits`) has only tickets that exist, each thread
part of the server's, and the name of the open ticket is its assignee's or missing (`Named`); each spinner has a request of its
kind (`Waits`). Threads at the server only grow (`Grows`), so what fits an answer or the store fits later
as well (`CallsFitLater`, `StoreFitsLater`). Each function of the
store is shown once to keep `StoreFits`. That the bulk action's `reduce` does so is the least
counterexample again (`ReduceIs`), as is what `EntriesAt` selects (`PlaceIs`). A spinner that a failed or
a late answer puts out is out whatever else is in flight, and one that a function lights has just got its
request; so `Waits` is kept although requests share the spinners. `PagesConsistent` follows.
`ThreadsStay` is an action property: `ThreadKept` says of one step that the open ticket is another one or its
thread goes on, and is shown of every function of the store but the one that takes a detail; `merge` keeps
the thread of the ticket it meets, and a comment goes to its end.

`BulksHonest`: the answer of a bulk action says of each ticket what was true when it was PATCHed.
`BulksInductive` adds that one change is in flight at most, because the buttons know of it
(`mutating`), so that what was true then is true when the answer is taken (`BulkDone`).

`PagesSettled`: at rest there is nothing in flight to speak of, so the proof says of a page on its way
what it will show. *Lists.* `ListsInductive`: unless a bulk action is under way, after which the page asks
anew, the last request in flight is a list that asks for what the filters say, and has the server's
answer if it was served (`ListsFit`). The effect of the page (`RefetchDue`) is what
restores this when a filter, the page or its size moves on. *The ticket page.* `DetailInductive`: either
the page's fetch is still being served, and the parts read so far are those of the row (`PartsNow`); or
there is a sequence of screens, from what is shown (or from what was fetched) through the effect of each answer still to come
(`AfterCall`), that ends in the row (`Right`). It needs that the server has begun nothing
before it is done with what was sent earlier (`TurnsInductive`), so a part that was read is not changed
by a request sent before the fetch; and that the requests after the fetch are the page's own
(`Follows`). `StaysRight` says of each kind of request that serving it moves row and screen alike.

**Model-checked only.** Liveness (`QueueSettles`, the fairness of `ImplementsOutbox`,
`EventuallyFresh`, both `ComesToRest`, `BlankEnds`, `SelectionsOpen`, `PublishedIsListed`), which is beyond the prover.
Every safety property of a passing run is a theorem.

## 6. Not modelled

* Access control, department scope and mark-as-read of the backend: single-row reads and writes
  under a role check. A member of staff who loses the role keeps the assigned tickets
  (`services/users.py:123`), and `get_or_create_department` can meet the unique constraint
  (`services/departments.py:26`); a model would only restate the statement.
* Attachments in the backend: one file beside one row, each written once. A failure between them leaves a
  file without a row (`services/attachments.py:60`) or a download without a file (`:91`); nothing later
  depends on either. The browser's side is in `TicketStore`.
* The cache (`core/cache.py`), which holds health summaries only; the routing classifier, the LLM
  client, `ThinkTagFilter` and `parse_suggestion`, which are text filters without shared state.
* Password hashing, signatures, the SSO redirect: libraries and an external service.
* Knowledge-base search, prompts, markdown parsing: read-only, ranking is the database's.
* Settings and department screens, toasts, the health poll, e-mail and ticket texts of the
  frontend: presentation of one request each.
* HTTP layer, configuration, seed data, containers: no decisions of
  their own that a model would check. The archived scaffold is not part of the program.

## 7. Plan

1. *Done*: e-mail queue with refinement and proofs; embedding queue with proofs; tickets, chat and rate
   limiter with proofs; the browser: sessions, inbox, assistant, knowledge pages and ticket pages with proofs.
2. *Abstract specifications worth stating*: an atomic ticket (every request one step) that the
   lifecycle implements while not `raced`; for the ticket pages, "the list is the answer to the last question",
   which holds once late answers are told apart.
3. *Modules worth adding if the code grows*: attachments, should files be cleaned up or shared; the
   cache, should it hold more than health summaries; `ThinkTagFilter` against "remove what lies between the
   tags", over all splits into chunks of short inputs.
