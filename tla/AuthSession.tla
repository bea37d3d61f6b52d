------------------------------ MODULE AuthSession ------------------------------
(* Sessions in the browser: stores/authStore.ts with its two places to keep a *)
(* session, the interceptors of lib/api/client.ts, the probe of the guards in *)
(* app/ProtectedRoute.tsx, LoginPage, RegisterPage and ProfilePage.  Tabs run *)
(* side by side on one localStorage; answers come in any order.               *)
EXTENDS Naturals, Sequences, FiniteSets

CONSTANTS
  Tabs,                \* the tabs of one browser
  Users, NoUser,       \* accounts that exist or can be registered
  Members,             \* those that exist at first
  Faults,              \* subset of {"lose", "refuse", "expire", "revoke", "promote"}
  MaxMoves, MaxTokens  \* bounds: events of users and outside, sign-ins that succeed

ASSUME AuthAssumption ==
  /\ NoUser \notin Users /\ Members \subseteq Users
  /\ "local" \notin Tabs
  /\ Faults \subseteq {"lose", "refuse", "expire", "revoke", "promote"}
  /\ MaxMoves \in Nat /\ MaxTokens \in Nat

VARIABLES
  tabs,      \* tabs[t]: the memory of a tab
  stores,    \* localStorage ("local") and each tab's sessionStorage
  stay,      \* the preference kept in localStorage
  requests,  \* requests that wait for an answer, and answers not yet taken
  issued,    \* issued[n]: account and role that token n was signed for
  expired,   \* tokens too old by the browser's clock
  revoked,   \* tokens the server does not accept any more
  roles,     \* the server: the role of every account, "none" before it exists
  moves      \* events of users and outside so far

vars == <<tabs, stores, stay, requests, issued, expired, revoked, roles, moves>>
server == <<issued, revoked, roles>>

Roles == {"student", "agent"}

(***************************************************************************)
(* Sessions, and where the browser keeps them.  A store holds at most one. *)
(***************************************************************************)
Session(who, role, name, token) ==
  [who |-> who, role |-> role, name |-> name, token |-> token]

Nobody == Session(NoUser, "none", "none", 0)

setItem(kept, where, t, s) ==
  [kept EXCEPT !["local"] = IF where THEN {s} ELSE {},
               ![t] = IF where THEN {} ELSE {s}]

getItem(kept, t) == IF kept["local"] # {} THEN kept["local"] ELSE kept[t]

\* Mutant: the preference is set and nothing is moved.
LeaveStored(kept, t, keep) == kept

\* setStayLoggedInPreference: what is stored moves to the place now preferred.
MoveStored(kept, t, keep) ==
  IF keep
  THEN IF kept[t] = {} THEN kept ELSE [kept EXCEPT !["local"] = kept[t], ![t] = {}]
  ELSE IF kept["local"] = {} THEN kept
       ELSE [kept EXCEPT ![t] = kept["local"], !["local"] = {}]

\* The profile stays, the role is the token's.
hydrateSession(stored) ==
  IF \A s \in stored : s.token \in {0} \cup expired THEN Nobody
  ELSE LET s == CHOOSE x \in stored : TRUE
       IN [s EXCEPT !.role = issued[s.token].role]

(***************************************************************************)
(* The memory of a tab.  open: false until the tab is first opened;        *)
(* probed: the token the guard has asked about;                            *)
(* cache: whose tickets and notifications the stores hold; resetting: the  *)
(* reset of those stores is being loaded.                                  *)
(***************************************************************************)
Tab(s) ==
  [open |-> TRUE, session |-> s, probed |-> 0, cache |-> NoUser, resetting |-> FALSE]

Alone(t) == \A u \in Tabs \ {t} : ~tabs[u].open

SignedIn(t) == tabs[t].session.token # 0
Shown(t) == SignedIn(t) /\ tabs[t].probed = tabs[t].session.token
Blank(t) == SignedIn(t) /\ ~Shown(t)

Move == moves < MaxMoves /\ moves' = moves + 1

Put(t, s, m) ==
  /\ tabs' = [tabs EXCEPT ![t] = m]
  /\ stores' = setItem(stores, stay, t, s)

\* A probe whose effect was cleaned up is not listened to any more.
Cancelled(rs, t) ==
  {IF r.tab = t /\ r.kind = "me" THEN [r EXCEPT !.live = FALSE] ELSE r : r \in rs}

Ended(t) == Nobody

\* clearSession in the running page, which goes to the sign-in page.
clearSession(t, rs) ==
  /\ Put(t, Ended(t), [tabs[t] EXCEPT !.session = Ended(t), !.probed = 0, !.resetting = TRUE])
  /\ requests' = Cancelled(rs, t)

\* clearSession and redirectToLogin: the document is loaded anew.
Dismiss(t, rs) ==
  /\ Put(t, Nobody, Tab(Nobody))
  /\ requests' = {r \in rs : r.tab # t}

Load(t) ==
  LET s == hydrateSession(getItem(stores, t))
  IN /\ tabs[t].open
     /\ Move
     /\ Put(t, s, Tab(s))
     /\ requests' = {r \in requests : r.tab # t}
     /\ UNCHANGED <<stay, expired, server>>

\* The tab is opened, or closed and opened anew: its sessionStorage is empty.
Reopen(t) ==
  LET kept == [stores EXCEPT ![t] = {}]
      s == hydrateSession(getItem(kept, t))
  IN /\ Move
     /\ tabs' = [tabs EXCEPT ![t] = Tab(s)]
     /\ stores' = setItem(kept, stay, t, s)
     /\ requests' = {r \in requests : r.tab # t}
     /\ UNCHANGED <<stay, expired, server>>

(***************************************************************************)
(* Requests.                                                               *)
(***************************************************************************)
NewRequest(t, kind, who, token) ==
  [tab |-> t, kind |-> kind, who |-> who, token |-> token, live |-> TRUE,
   state |-> "sent", got |-> Nobody]

Signing == {"login", "register"}

\* A form is sent once at a time, and so is a list asked for.
Ask(r) ==
  /\ ~\E q \in requests : q.tab = r.tab /\ q.kind = r.kind /\ q.token = r.token /\ q.live
  /\ requests' = requests \cup {r}

\* LoginPage: the preference is set before the answer is known.
SubmitLogin(t, u, keep) ==
  /\ tabs[t].open /\ ~SignedIn(t) /\ u \in Members
  /\ Move
  /\ stay' = keep
  /\ stores' = MoveStored(stores, t, keep)
  /\ Ask(NewRequest(t, "login", u, 0))
  /\ UNCHANGED <<tabs, expired, server>>

SubmitRegister(t, u) ==
  /\ tabs[t].open /\ ~SignedIn(t) /\ u \notin Members
  /\ Move
  /\ Ask(NewRequest(t, "register", u, 0))
  /\ UNCHANGED <<tabs, stores, stay, expired, server>>

\* The guard asks /auth/me about a token once; the interceptor looks first.
Probe(t) ==
  LET token == tabs[t].session.token
  IN /\ Blank(t)
     /\ IF token \in expired THEN Dismiss(t, requests)
        ELSE Ask(NewRequest(t, "me", NoUser, token)) /\ UNCHANGED <<tabs, stores>>
     /\ UNCHANGED <<stay, expired, server, moves>>

\* A page loads a list.
Fetch(t) ==
  LET token == tabs[t].session.token
  IN /\ Shown(t)
     /\ Move
     /\ IF token \in expired THEN Dismiss(t, requests)
        ELSE Ask(NewRequest(t, "data", NoUser, token)) /\ UNCHANGED <<tabs, stores>>
     /\ UNCHANGED <<stay, expired, server>>

Answer(r, a) == requests' = (requests \ {r}) \cup {a}

ServeSigning(r) ==
  /\ r.kind \in Signing
  /\ r.kind = "register" => roles[r.who] = "none"
  /\ Len(issued) < MaxTokens
  /\ LET role == IF r.kind = "register" THEN "student" ELSE roles[r.who]
     IN /\ issued' = Append(issued, [who |-> r.who, role |-> role])
        /\ roles' = [roles EXCEPT ![r.who] = role]
        /\ Answer(r, [r EXCEPT !.state = "ok",
                               !.got = Session(r.who, role, "given", Len(issued'))])
  /\ UNCHANGED revoked

ServeBearer(r) ==
  /\ r.kind \notin Signing
  /\ LET who == issued[r.token].who
     IN Answer(r, IF r.token \in revoked THEN [r EXCEPT !.state = "401"]
                  ELSE [r EXCEPT !.state = "ok",
                                 !.got = Session(who, roles[who], "given", r.token)])
  /\ UNCHANGED server

\* A wrong password, an address in use; or no answer within the timeout.
Fail(r) ==
  /\ \/ r.kind \in Signing /\ ("refuse" \in Faults \/ Len(issued) = MaxTokens
                                 \/ (r.kind = "register" /\ roles[r.who] # "none"))
     \/ "lose" \in Faults
  /\ Answer(r, [r EXCEPT !.state = "failed"])
  /\ UNCHANGED server

Serve(r) ==
  /\ r.state = "sent"
  /\ ServeSigning(r) \/ ServeBearer(r) \/ Fail(r)
  /\ UNCHANGED <<tabs, stores, stay, expired, moves>>

(***************************************************************************)
(* Answers.                                                                *)
(***************************************************************************)
\* setSession and the way home; a probe of another token is given up.
TakeSigning(r) ==
  /\ Put(r.tab, r.got, [tabs[r.tab] EXCEPT !.session = r.got])
  /\ requests' = Cancelled(requests \ {r}, r.tab)

\* Mutant: the answer of a probe that was given up is taken all the same.
ListensAnyway(r) == TRUE

Listens(r) == r.live

\* Mutant: only a profile that came makes the token known.
TakeProbeOnSuccess(r) ==
  LET m == tabs[r.tab]
      s == IF m.session.who = r.got.who THEN [m.session EXCEPT
              !.role = r.got.role, !.name = r.got.name, !.token = r.token] ELSE r.got
  IN /\ IF Listens(r) /\ r.state = "ok"
        THEN Put(r.tab, s, [m EXCEPT !.session = s, !.probed = r.token])
        ELSE UNCHANGED <<tabs, stores>>
     /\ requests' = requests \ {r}

\* The profile is laid over the user in memory if it is the same person.
TakeProbe(r) ==
  LET m == tabs[r.tab]
      s == IF m.session.who = r.got.who THEN [m.session EXCEPT
              !.role = r.got.role, !.name = r.got.name, !.token = r.token] ELSE r.got
  IN /\ CASE ~Listens(r) -> UNCHANGED <<tabs, stores>>
          [] Listens(r) /\ r.state = "ok" ->
               Put(r.tab, s, [m EXCEPT !.session = s, !.probed = r.token])
          [] OTHER -> /\ tabs' = [tabs EXCEPT ![r.tab].probed = r.token]
                      /\ UNCHANGED stores
     /\ requests' = requests \ {r}

TakeData(r) ==
  /\ tabs' = [tabs EXCEPT ![r.tab].cache = IF r.state = "ok" THEN r.got.who ELSE @]
  /\ requests' = requests \ {r}
  /\ UNCHANGED stores

\* The interceptor: whatever session is there ends; the sign-in page stays.
Unauthorized(r) ==
  IF SignedIn(r.tab) THEN Dismiss(r.tab, requests)
  ELSE clearSession(r.tab, requests \ {r})

Take(r) ==
  /\ r.state # "sent"
  /\ CASE r.state = "401" -> Unauthorized(r)
       [] r.state # "401" /\ r.kind \in Signing ->
            IF r.state = "ok" THEN TakeSigning(r)
            ELSE requests' = requests \ {r} /\ UNCHANGED <<tabs, stores>>
       [] r.state # "401" /\ r.kind = "me" -> TakeProbe(r)
       [] r.state # "401" /\ r.kind = "data" -> TakeData(r)
  /\ UNCHANGED <<stay, expired, server, moves>>

(***************************************************************************)
(* The rest of a session.                                                  *)
(***************************************************************************)
\* signOut has nothing to ask the server.
SignOut(t) ==
  /\ Shown(t)
  /\ Move
  /\ clearSession(t, requests)
  /\ UNCHANGED <<stay, expired, server>>

\* A guard that renders with a token too old ends the session.
Notice(t) ==
  /\ SignedIn(t) /\ tabs[t].session.token \in expired
  /\ clearSession(t, requests)
  /\ UNCHANGED <<stay, expired, server, moves>>

\* The module that resets the other stores has come.
ResetStores(t) ==
  /\ tabs[t].resetting
  /\ tabs' = [tabs EXCEPT ![t].resetting = FALSE, ![t].cache = NoUser]
  /\ UNCHANGED <<stores, stay, requests, expired, server, moves>>

updateProfile(t) ==
  LET s == [tabs[t].session EXCEPT !.name = "chosen"]
  IN /\ Shown(t) /\ tabs[t].session.name # "chosen"
     /\ Move
     /\ Put(t, s, [tabs[t] EXCEPT !.session = s])
     /\ UNCHANGED <<stay, requests, expired, server>>

Expire(n) ==
  /\ "expire" \in Faults
  /\ n \notin expired
  /\ Move
  /\ expired' = expired \cup {n}
  /\ UNCHANGED <<tabs, stores, stay, requests, server>>

\* The server's own clock, another signing key, an account that is gone.
Revoke(n) ==
  /\ "revoke" \in Faults
  /\ n \notin revoked
  /\ Move
  /\ revoked' = revoked \cup {n}
  /\ UNCHANGED <<tabs, stores, stay, requests, issued, expired, roles>>

Promote(u) ==
  /\ "promote" \in Faults
  /\ roles[u] # "none"
  /\ Move
  /\ \E role \in Roles \ {roles[u]} : roles' = [roles EXCEPT ![u] = role]
  /\ UNCHANGED <<tabs, stores, stay, requests, issued, expired, revoked>>

(***************************************************************************)
(* The specification.                                                      *)
(***************************************************************************)
\* A browser that was never used, with one tab, which has stored that nobody
\* is there.
Init ==
  /\ \E first \in Tabs : tabs = [t \in Tabs |-> [Tab(Nobody) EXCEPT !.open = (t = first)]]
  /\ stores = [x \in {"local"} \cup Tabs |-> IF x = "local" THEN {Nobody} ELSE {}]
  /\ stay = TRUE
  /\ requests = {}
  /\ issued = <<>> /\ expired = {} /\ revoked = {}
  /\ roles = [u \in Users |-> IF u \in Members THEN "student" ELSE "none"]
  /\ moves = 0

UserActs(t) ==
  \/ \E u \in Users, keep \in BOOLEAN : SubmitLogin(t, u, keep)
  \/ \E u \in Users : SubmitRegister(t, u)
  \/ Load(t) \/ Reopen(t) \/ Fetch(t) \/ SignOut(t) \/ updateProfile(t)

Outside ==
  \/ \E n \in DOMAIN issued : Expire(n) \/ Revoke(n)
  \/ \E u \in Users : Promote(u)

Network == \E r \in requests : Serve(r) \/ Take(r)

Effects(t) == Probe(t) \/ Notice(t) \/ ResetStores(t)

Next == Network \/ Outside \/ \E t \in Tabs : UserActs(t) \/ Effects(t)

\* Requests are answered or time out, and a guard that renders asks.  Nothing
\* makes an idle page render, so Notice need not happen.
Fairness == WF_vars(Network) /\ \A t \in Tabs : WF_vars(Probe(t))

Spec == Init /\ [][Next]_vars /\ Fairness

(***************************************************************************)
(* Properties.                                                             *)
(***************************************************************************)
Sessions ==
  {Session(u, role, name, n) : u \in Users \cup {NoUser}, role \in Roles \cup {"none"},
                               name \in {"none", "given", "chosen"}, n \in 0..MaxTokens}

\* Types, and that a session in memory or in a store is whole: the user is
\* the one its token was signed for.
Whole(s) ==
  /\ s \in Sessions
  /\ IF s.token = 0 THEN s = Nobody ELSE s.who = issued[s.token].who

TypeOK ==
  /\ \A t \in Tabs :
       /\ Whole(tabs[t].session)
       /\ tabs[t].probed \in 0..Len(issued)
       /\ tabs[t].cache \in Users \cup {NoUser}
       /\ {tabs[t].open, tabs[t].resetting} \subseteq BOOLEAN
  /\ \A x \in {"local"} \cup Tabs :
       Cardinality(stores[x]) <= 1 /\ \A s \in stores[x] : Whole(s)
  /\ \A r \in requests : r.state \in {"sent", "ok", "401", "failed"} /\ Whole(r.got)
  /\ stay \in BOOLEAN /\ Len(issued) <= MaxTokens
  /\ expired \cup revoked \subseteq DOMAIN issued
  /\ moves \in 0..MaxMoves

\* While one tab is open the session in memory is kept where the user asked
\* for it and nowhere else, signed out or in, while sign-ins are under way.
KeptWhereAsked ==
  \A t \in Tabs : Alone(t) =>
    stores = [x \in {"local"} \cup Tabs |->
                IF x = (IF stay THEN "local" ELSE t) THEN {tabs[t].session} ELSE {}]

Consistent == TypeOK /\ KeptWhereAsked

Held(n) ==
  \/ \E t \in Tabs : tabs[t].session.token = n
  \/ \E x \in DOMAIN stores : \E s \in stores[x] : s.token = n
  \/ \E r \in requests : r.kind \in Signing /\ r.got.token = n

\* A session that no tab and no store holds any more does not come back, not
\* even by the answer of a probe that was on its way.
EndedStaysEnded == [][ \A n \in DOMAIN issued : ~Held(n) => ~Held(n)' ]_vars

\* A guard shows nothing while it asks about a token; it does not stay so.
BlankEnds == \A t \in Tabs : Blank(t) ~> ~Blank(t)
==============================================================================
