---------------------------- MODULE KnowledgePages ----------------------------
(* The FAQ in the browser: KnowledgePage of the staff with its form, FaqPage  *)
(* and the suggestions of DashboardPage, in the language chosen in            *)
(* LanguageSelector, against GET and POST /kb/faq.  Pages keep their articles *)
(* themselves: an answer to a page that was left, or to a request that was    *)
(* given up, is dropped.  Search, filters and the open row only change what   *)
(* is shown of the articles and are left out.  BrowserProofs extends this     *)
(* module and AssistantChat, so names both would use begin with Faq here.     *)
EXTENDS Naturals, Sequences, FiniteSets, SequencesExt

CONSTANTS
  Questions, Nothing,            \* what can be typed; an empty form
  FaqFaults,                      \* subset of {"lose", "refuse", "staff"}
  MaxEvents, MaxFlight, MaxRows   \* bounds: events of people, requests, FAQ rows

ASSUME KnowledgeAssumption ==
  /\ Nothing \notin Questions
  /\ FaqFaults \subseteq {"lose", "refuse", "staff"}
  /\ MaxEvents \in Nat /\ MaxFlight \in Nat
  /\ MaxRows \in Nat \ {0, 1}

VARIABLES
  rows,      \* rows[lang]: the server's FAQ rows of a language, oldest first
  language,  \* i18n.resolvedLanguage
  page,      \* "away", "knowledge", "faq" or "dashboard"
  articles,  \* the state of the page that is open
  loading,
  error,
  form,      \* the form of KnowledgePage
  flight,    \* requests and answers, oldest first
  events

faqVars == <<rows, language, page, articles, loading, error, form, flight, events>>

Languages == {"en", "de"}
Row(q, lang) == [text |-> q, lang |-> lang]
InLanguage(lang) == [i \in DOMAIN rows[lang] |-> Row(rows[lang][i], lang)]
HasRoom == Len(rows["en"]) + Len(rows["de"]) < MaxRows

NewForm == [open |-> FALSE, text |-> Nothing, saving |-> FALSE, failed |-> FALSE]

\* DashboardPage has neither a sign nor an error, and shows three at most.
HasSign == page \in {"knowledge", "faq"}
Preview(data) == SubSeq(data, 1, IF Len(data) < 3 THEN Len(data) ELSE 3)

(***************************************************************************)
(* Requests.  live: the page, or the run of the effect, that sent it is    *)
(* still there.                                                            *)
(***************************************************************************)
Call(kind, row) ==
  [kind |-> kind, row |-> row, live |-> TRUE, state |-> "sent", got |-> <<>>]

Lists(lang) == Call("list", Row(Nothing, lang))

Cancelled(calls, kinds) ==
  [i \in DOMAIN calls |->
     IF calls[i].kind \in kinds THEN [calls[i] EXCEPT !.live = FALSE] ELSE calls[i]]

Event == events < MaxEvents /\ events' = events + 1

\* The effect of every page: what runs is given up, the list is asked for.
Relist(calls, lang) ==
  /\ Len(calls) < MaxFlight
  /\ flight' = Append(Cancelled(calls, {"list"}), Lists(lang))

OpenPage(p) ==
  /\ Event
  /\ page # p
  /\ page' = p
  /\ articles' = <<>> /\ loading' = (p # "dashboard") /\ error' = FALSE
  /\ form' = NewForm
  /\ Relist(Cancelled(flight, {"list", "create"}), language)
  /\ UNCHANGED <<rows, language>>

ClosePage ==
  /\ Event
  /\ page # "away"
  /\ page' = "away"
  /\ articles' = <<>> /\ loading' = FALSE /\ error' = FALSE
  /\ form' = NewForm
  /\ flight' = Cancelled(flight, {"list", "create"})
  /\ UNCHANGED <<rows, language>>

\* The effect depends on the language; the sign is not turned on.
changeLanguage(lang) ==
  /\ Event
  /\ language # lang
  /\ language' = lang
  /\ IF page = "away" THEN UNCHANGED flight ELSE Relist(flight, lang)
  /\ UNCHANGED <<rows, page, articles, loading, error, form>>

refresh(calls) ==
  /\ loading' = TRUE /\ error' = FALSE
  /\ Relist(calls, language)

Retry ==
  /\ Event
  /\ error /\ HasSign
  /\ refresh(flight)
  /\ UNCHANGED <<rows, language, page, articles, form>>

ToggleForm ==
  /\ Event
  /\ page = "knowledge"
  /\ form' = [form EXCEPT !.open = ~@]
  /\ UNCHANGED <<rows, language, page, articles, loading, error, flight>>

\* Nobody types a question that is in the FAQ.  The fields stay enabled.
Type(q) ==
  /\ Event
  /\ form.open /\ form.text # q
  /\ \A lang \in Languages : q \notin Range(rows[lang])
  /\ form' = [form EXCEPT !.text = q]
  /\ UNCHANGED <<rows, language, page, articles, loading, error, flight>>

handleCreate ==
  /\ Event
  /\ form.open /\ form.text # Nothing /\ ~form.saving
  /\ form' = [form EXCEPT !.saving = TRUE, !.failed = FALSE]
  /\ Len(flight) < MaxFlight
  /\ flight' = Append(flight, Call("create", Row(form.text, language)))
  /\ UNCHANGED <<rows, language, page, articles, loading, error>>

(***************************************************************************)
(* The server.                                                             *)
(***************************************************************************)
Answer(i, state, got) ==
  flight' = [flight EXCEPT ![i].state = state, ![i].got = got]

ServeList(i) ==
  /\ flight[i].kind = "list"
  /\ Answer(i, "ok", InLanguage(flight[i].row.lang))
  /\ UNCHANGED rows

Insert(row) == rows' = [rows EXCEPT ![row.lang] = Append(@, row.text)]

ServeCreate(i) ==
  /\ flight[i].kind = "create"
  /\ HasRoom
  /\ Insert(flight[i].row)
  /\ \/ Answer(i, "ok", <<>>)
     \/ "lose" \in FaqFaults /\ Answer(i, "failed", <<>>)

ServeFaq(i) ==
  /\ flight[i].state = "sent"
  /\ \/ ServeList(i)
     \/ ServeCreate(i)
     \/ /\ "refuse" \in FaqFaults \/ ~HasRoom
        /\ Answer(i, "failed", <<>>)
        /\ UNCHANGED rows
  /\ UNCHANGED <<language, page, articles, loading, error, form, events>>

Staff(q, lang) ==
  /\ "staff" \in FaqFaults
  /\ Event
  /\ HasRoom
  /\ Insert(Row(q, lang))
  /\ UNCHANGED <<language, page, articles, loading, error, form, flight>>

(***************************************************************************)
(* Answers.                                                                *)
(***************************************************************************)
\* Mutant: a run that was given up is listened to.
ListensAnyway(call) == call.live \/ (call.kind = "list" /\ page # "away")

Listens(call) == call.live

ListFailed ==
  /\ loading' = FALSE
  /\ error' = HasSign
  /\ articles' = IF HasSign THEN articles ELSE <<>>

TakeList(call, rest) ==
  /\ IF call.state = "ok"
     THEN /\ articles' = IF HasSign THEN call.got ELSE Preview(call.got)
          /\ error' = FALSE /\ loading' = FALSE
     ELSE ListFailed
  /\ flight' = rest
  /\ UNCHANGED form

\* Mutant: the article is saved and the list is not asked for again.
Unlisted(rest) == flight' = rest /\ UNCHANGED <<loading, error>>

Published(rest) == refresh(rest)

FormFailed == [form EXCEPT !.failed = TRUE, !.saving = FALSE]

\* The form is emptied and closed, whatever was typed since.
TakeCreate(call, rest) ==
  /\ IF call.state = "ok"
     THEN form' = NewForm /\ Published(rest)
     ELSE /\ form' = FormFailed
          /\ flight' = rest
          /\ UNCHANGED <<loading, error>>
  /\ UNCHANGED articles

TakeAnswer(i) ==
  LET call == flight[i]
      rest == RemoveAt(flight, i)
  IN /\ call.state # "sent"
     /\ CASE ~Listens(call) -> flight' = rest /\ UNCHANGED <<articles, loading, error, form>>
          [] Listens(call) /\ call.kind = "list" -> TakeList(call, rest)
          [] Listens(call) /\ call.kind = "create" -> TakeCreate(call, rest)
     /\ UNCHANGED <<rows, language, page, events>>

(***************************************************************************)
(* The specification.                                                      *)
(***************************************************************************)
\* The corpus has one document in both languages or is empty.
FaqInit ==
  /\ \E first \in {<<>>} \cup {<<q>> : q \in Questions} : rows = [lang \in Languages |-> first]
  /\ language \in Languages
  /\ page = "away" /\ articles = <<>> /\ loading = FALSE /\ error = FALSE
  /\ form = NewForm
  /\ flight = <<>> /\ events = 0

FaqUserActs ==
  \/ \E p \in {"knowledge", "faq", "dashboard"} : OpenPage(p)
  \/ \E lang \in Languages : changeLanguage(lang)
  \/ ClosePage \/ Retry \/ ToggleForm \/ handleCreate
  \/ \E q \in Questions : Type(q)

Network == \E i \in DOMAIN flight : ServeFaq(i) \/ TakeAnswer(i)

FaqNext == FaqUserActs \/ Network \/ \E q \in Questions, lang \in Languages : Staff(q, lang)

\* A request is answered or times out.
FaqFairness == WF_faqVars(Network)

FaqSpec == FaqInit /\ [][FaqNext]_faqVars /\ FaqFairness

(***************************************************************************)
(* Properties.                                                             *)
(***************************************************************************)
\* Types, and that a page that is closed or has no form keeps nothing.
FaqTypeOK ==
  /\ rows \in [Languages -> Seq(Questions)] /\ Len(rows["en"]) + Len(rows["de"]) <= MaxRows
  /\ language \in Languages /\ loading \in BOOLEAN /\ error \in BOOLEAN
  /\ page \in {"away", "knowledge", "faq", "dashboard"}
  /\ \A i \in DOMAIN articles : articles[i] \in [text : Questions, lang : Languages]
  /\ form \in [open : BOOLEAN, text : Questions \cup {Nothing}, saving : BOOLEAN, failed : BOOLEAN]
  /\ page = "away" => articles = <<>> /\ ~loading /\ ~error
  /\ page # "knowledge" => form = NewForm
  /\ Len(flight) <= MaxFlight
  /\ events \in 0..MaxEvents

Awaited(kind) == {i \in DOMAIN flight : flight[i].kind = kind /\ flight[i].live}

\* The sign of the list and the disabled button of the form each have the one
\* request that will end them, whatever was given up or left meanwhile.
BusyHasCause ==
  /\ loading => Awaited("list") # {}
  /\ form.saving <=> Awaited("create") # {}
  /\ Cardinality(Awaited("list")) <= 1 /\ Cardinality(Awaited("create")) <= 1

\* Articles of another language than the chosen one stand on the page only
\* while the list in that language is awaited or could not be had, however
\* late the answers to earlier choices come.
InChosenLanguage ==
  Awaited("list") = {} /\ ~error => \A i \in DOMAIN articles : articles[i].lang = language

\* What the page that is open holds is consistent at every moment.
FaqConsistent == FaqTypeOK /\ BusyHasCause /\ InChosenLanguage

Confirmed(row) ==
  \E i \in Awaited("create") : flight[i].state = "ok" /\ flight[i].row = row

\* A list page at rest, without an error, in the given language.
ListsHere(lang) ==
  page \in {"knowledge", "faq"} /\ language = lang /\ ~error /\ Awaited("list") = {}

\* An article that was saved comes to stand in the list of the page, unless
\* that cannot be had or the user moves on; and from some time on, whatever
\* pages and languages are chosen, no list in its language is without it.
PublishedIsListed ==
  \A q \in Questions, lang \in Languages :
    LET listed == Row(q, lang) \in Range(articles) IN
    /\ Confirmed(Row(q, lang)) ~> \/ page # "knowledge" \/ language # lang \/ error
                                  \/ listed
    /\ Confirmed(Row(q, lang)) ~> [](ListsHere(lang) => listed)
==============================================================================
