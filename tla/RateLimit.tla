------------------------------ MODULE RateLimit ------------------------------
(***************************************************************************)
(* The sliding-window rate limiter of app/core/rate_limit.py, for the      *)
(* requests of one key (path and client).                                  *)
(*                                                                         *)
(* A window is kept in Redis, where one script checks and records, or in   *)
(* the memory of each process: when no Redis is configured, and when Redis *)
(* fails and the limit is fail-open.  A request reads the clock when it    *)
(* arrives; the script runs when the call reaches the server, and the      *)
(* answer can be lost.  The check of the memory store has no await but its *)
(* lock, which is never held across one: it is a single step.              *)
(*                                                                         *)
(* A restarted process has an empty memory: it is another Process.  Left   *)
(* out: the response headers and the switch that turns the limiter off.    *)
(***************************************************************************)
EXTENDS Naturals, FiniteSets

CONSTANTS
  Request,      \* the requests on the key, each used once
  Process,      \* the server's processes
  Redis,        \* the shared store
  MaxRequests,  \* max_requests
  Window,       \* window_seconds
  MaxTime       \* bound: how far the clock runs

ASSUME StoreAssumption == IsFiniteSet(Process) /\ Redis \notin Process
ASSUME LimitAssumption == MaxRequests \in Nat /\ Window \in Nat \ {0} /\ MaxTime \in Nat

Store == Process \cup {Redis}

VARIABLES
  clock,
  useRedis,   \* REDIS_URL is set
  failOpen,   \* the limit's fail_open
  pc,         \* where each request stands
  time,       \* "now" of each request
  entries,    \* the requests recorded in each store
  expiry,     \* when the key expires in Redis
  counted,    \* history: every request a store has admitted
  newest,     \* history: the latest "now" a store has decided on
  overtaken   \* history: the stores that decided on a request too late

configVars == <<useRedis, failOpen>>
storeVars == <<entries, expiry, counted, newest, overtaken>>
limitVars == <<clock, configVars, pc, time, storeVars>>

LimitInit ==
  /\ clock = 0
  /\ useRedis \in BOOLEAN
  /\ failOpen \in BOOLEAN
  /\ pc = [r \in Request |-> "idle"]
  /\ time = [r \in Request |-> 0]
  /\ entries = [s \in Store |-> {}]
  /\ expiry = 0
  /\ counted = [s \in Store |-> {}]
  /\ newest = [s \in Store |-> 0]
  /\ overtaken = {}

-----------------------------------------------------------------------------
(* A check: drop what left the window, count, record.                      *)

\* What Redis has deleted with the key no longer counts.
Live(s) == IF s = Redis /\ expiry <= clock THEN {} ELSE entries[s]

\* Mutant: nothing is dropped.
RecentAll(s, now) == Live(s)
Recent(s, now) == {q \in Live(s) : time[q] + Window > now}

HasRoom(s, now) == Cardinality(Recent(s, now)) < MaxRequests

\* Mutant: the key expires a window after its first entry.
NewExpiryOnce(s) == IF s = Redis /\ expiry <= clock THEN clock + Window ELSE expiry

\* The script renews the expiry of the key with every entry.
NewExpiry(s) == IF s = Redis THEN clock + Window ELSE expiry

\* A request decided on after one that read the clock later, or after the
\* key expired although it read the clock before.
TooLate(s, now) ==
  \/ now < newest[s]
  \/ s = Redis /\ now < expiry /\ expiry <= clock

\* _check_memory and SLIDING_WINDOW_LUA.
Check(s, r, now, yes, no) ==
  LET admitted == IF HasRoom(s, now) THEN {r} ELSE {} IN
  /\ entries' = [entries EXCEPT ![s] = Recent(s, now) \cup admitted]
  /\ counted' = [counted EXCEPT ![s] = @ \cup admitted]
  /\ expiry' = IF admitted # {} THEN NewExpiry(s) ELSE expiry
  /\ newest' = [newest EXCEPT ![s] = IF now > @ THEN now ELSE @]
  /\ overtaken' = IF TooLate(s, now) THEN overtaken \cup {s} ELSE overtaken
  /\ pc' = [pc EXCEPT ![r] = IF admitted # {} THEN yes ELSE no]

-----------------------------------------------------------------------------
(* The dependency of a limited endpoint.                                   *)

\* No Redis is configured: clock and check in one step, in some process.
CheckLocally(r) ==
  /\ pc[r] = "idle" /\ ~useRedis
  /\ time' = [time EXCEPT ![r] = clock]
  /\ \E p \in Process : Check(p, r, clock, "admitted", "rejected")
  /\ UNCHANGED <<clock, configVars>>

AskRedis(r) ==
  /\ pc[r] = "idle" /\ useRedis
  /\ time' = [time EXCEPT ![r] = clock]
  /\ pc' = [pc EXCEPT ![r] = "asking"]
  /\ UNCHANGED <<clock, configVars, storeVars>>

\* The script runs on the server.
RunScript(r) ==
  /\ pc[r] = "asking"
  /\ Check(Redis, r, time[r], "granted", "denied")
  /\ UNCHANGED <<clock, configVars, time>>

ReceiveAnswer(r) ==
  /\ pc[r] \in {"granted", "denied"}
  /\ pc' = [pc EXCEPT ![r] = IF @ = "granted" THEN "admitted" ELSE "rejected"]
  /\ UNCHANGED <<clock, configVars, time, storeVars>>

\* Mutant: a store error lets the request pass without counting it.
RedisRaisesUncounted(r) ==
  /\ pc[r] \in {"asking", "granted", "denied"}
  /\ pc' = [pc EXCEPT ![r] = "admitted"]
  /\ UNCHANGED <<clock, configVars, time, storeVars>>

\* The call raises, whether or not the script has run: memory decides if
\* the limit is fail-open, and a 429 is the answer if not.
RedisRaises(r) ==
  /\ pc[r] \in {"asking", "granted", "denied"}
  /\ \/ /\ failOpen
        /\ \E p \in Process : Check(p, r, time[r], "admitted", "rejected")
     \/ /\ ~failOpen
        /\ pc' = [pc EXCEPT ![r] = "unavailable"]
        /\ UNCHANGED storeVars
  /\ UNCHANGED <<clock, configVars, time>>

\* The client is gone, or the process is.
Vanish(r) ==
  /\ pc[r] \in {"asking", "granted", "denied"}
  /\ pc' = [pc EXCEPT ![r] = "gone"]
  /\ UNCHANGED <<clock, configVars, time, storeVars>>

Tick ==
  /\ clock < MaxTime
  /\ clock' = clock + 1
  /\ UNCHANGED <<configVars, pc, time, storeVars>>

LimitNext ==
  \/ \E r \in Request :
       \/ CheckLocally(r) \/ AskRedis(r) \/ RunScript(r) \/ ReceiveAnswer(r)
       \/ RedisRaises(r) \/ Vanish(r)
  \/ Tick

LimitSpec == LimitInit /\ [][LimitNext]_limitVars

-----------------------------------------------------------------------------
(* Properties.                                                             *)

\* Every variable stays in its domain.
LimitTypeOK ==
  /\ clock \in Nat
  /\ useRedis \in BOOLEAN /\ failOpen \in BOOLEAN
  /\ pc \in [Request -> {"idle", "asking", "granted", "denied", "admitted", "rejected",
                         "unavailable", "gone"}]
  /\ time \in [Request -> Nat]
  /\ entries \in [Store -> SUBSET Request]
  /\ expiry \in Nat
  /\ counted \in [Store -> SUBSET Request]
  /\ newest \in [Store -> Nat]
  /\ overtaken \subseteq Store

InWindow(S, t) == {q \in S : time[q] <= t /\ time[q] + Window > t}

\* A store admits no more than MaxRequests in any window, unless it decided
\* on a request too late: neither the expiry of the key nor what a rejected
\* request drops loses an entry that still counts.
WindowUnlessOvertaken ==
  \A s \in Store \ overtaken : \A a \in counted[s] :
    Cardinality(InWindow(counted[s], time[a])) <= MaxRequests

\* A client is turned away only if a store has counted MaxRequests other
\* requests younger than the window, whatever failed or came late.
RejectedWhenFull ==
  \A r \in Request : pc[r] = "rejected" =>
    \E s \in Store :
      Cardinality({q \in counted[s] \ {r} : time[q] + Window > time[r]}) >= MaxRequests

\* With Redis failing over, a client gets the sum of the allowances of the
\* stores in use, and never more; with a fail-closed limit, Redis's alone.
Admitted == {r \in Request : pc[r] = "admitted"}
InUse == IF ~useRedis THEN Process ELSE IF failOpen THEN Store ELSE {Redis}
AllowancesAddUp ==
  overtaken = {} => \A a \in Admitted :
    Cardinality(InWindow(Admitted, time[a])) <= MaxRequests * Cardinality(InUse)
=============================================================================
