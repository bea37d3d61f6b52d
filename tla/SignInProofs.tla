---------------------------- MODULE SignInProofs ----------------------------
(***************************************************************************)
(* Signing in: what RateLimit, which guards the sign-in endpoints,         *)
(* guarantees for any number of requests and processes, any limit and any  *)
(* window, and what AuthSession guarantees for any number of tabs,         *)
(* accounts and tokens.                                                    *)
(***************************************************************************)
EXTENDS RateLimit, AuthSession, FiniteSetTheorems, FunctionTheorems, WellFoundedInduction, TLAPS

-----------------------------------------------------------------------------
(* The rate limiter.                                                       *)

\* The history of a store: finite, of requests that have read the clock,
\* none of them later than its newest decision; a request that waits for
\* the script is in no store, one that has its answer in no memory.
CountedKnown ==
  /\ \A r \in Request : time[r] <= clock
  /\ \A s \in Store :
       /\ IsFiniteSet(counted[s]) /\ entries[s] \subseteq counted[s]
       /\ newest[s] <= clock
       /\ \A q \in counted[s] :
            /\ pc[q] \notin {"idle", "asking"} /\ time[q] <= newest[s]
            /\ s # Redis => pc[q] = "admitted"

\* Nothing that still counts has been dropped: what Redis deletes with the
\* key is older than the window of every request that comes in time.
EntriesKept ==
  /\ \A q \in counted[Redis] : time[q] + Window <= expiry
  /\ \A s \in Store \ overtaken : \A q \in counted[s] :
       time[q] + Window > newest[s] => q \in entries[s]

\* A rejection was, and stays, founded.
Full(s, r) == Cardinality({q \in counted[s] \ {r} : time[q] + Window > time[r]}) >= MaxRequests
DenialsFounded ==
  \A r \in Request : pc[r] \in {"denied", "rejected"} => \E s \in Store : Full(s, r)

LimitInductive ==
  /\ LimitTypeOK
  /\ CountedKnown
  /\ EntriesKept
  /\ WindowUnlessOvertaken
  /\ DenialsFounded

-----------------------------------------------------------------------------
(* Types.                                                                  *)

LEMMA LimitTypeInit == LimitInit => LimitTypeOK
  BY DEF LimitInit, LimitTypeOK

\* A check keeps a store's entries and history sets of requests.
LEMMA TypeCheck ==
  ASSUME LimitTypeOK, NEW s \in Store, NEW r \in Request, NEW now \in Nat,
         NEW yes \in {"admitted", "granted"}, NEW no \in {"rejected", "denied"},
         Check(s, r, now, yes, no)
  PROVE  /\ pc' \in [Request -> {"idle", "asking", "granted", "denied", "admitted",
                                 "rejected", "unavailable", "gone"}]
         /\ entries' \in [Store -> SUBSET Request]
         /\ expiry' \in Nat
         /\ counted' \in [Store -> SUBSET Request]
         /\ newest' \in [Store -> Nat]
         /\ overtaken' \subseteq Store
<1> USE DEF LimitTypeOK
<1>1. Recent(s, now) \subseteq Request
  BY DEF Recent, Live
<1> DEFINE new == IF HasRoom(s, now) THEN {r} ELSE {}
<1>2. /\ entries' = [entries EXCEPT ![s] = Recent(s, now) \cup new]
      /\ counted' = [counted EXCEPT ![s] = @ \cup new]
      /\ expiry' = IF new # {} THEN NewExpiry(s) ELSE expiry
      /\ newest' = [newest EXCEPT ![s] = IF now > @ THEN now ELSE @]
      /\ overtaken' = IF TooLate(s, now) THEN overtaken \cup {s} ELSE overtaken
      /\ pc' = [pc EXCEPT ![r] = IF new # {} THEN yes ELSE no]
  BY DEF Check
<1>3. NewExpiry(s) \in Nat
  BY LimitAssumption DEF NewExpiry
<1>4. new \in SUBSET Request
  OBVIOUS
<1> HIDE DEF new
<1> QED
  BY <1>1, <1>2, <1>3, <1>4

LEMMA LimitTypeStep ==
  ASSUME LimitTypeOK, [LimitNext]_limitVars
  PROVE  LimitTypeOK'
<1> Process \subseteq Store /\ Redis \in Store
  BY DEF Store
<1>1. ASSUME NEW r \in Request, CheckLocally(r) PROVE LimitTypeOK'
  <2>1. PICK p \in Process : Check(p, r, clock, "admitted", "rejected")
    BY <1>1 DEF CheckLocally
  <2>2. clock \in Nat
    BY DEF LimitTypeOK
  <2> QED
    BY <1>1, <2>1, <2>2, TypeCheck DEF CheckLocally, configVars, LimitTypeOK
<1>2. ASSUME NEW r \in Request, AskRedis(r) PROVE LimitTypeOK'
  BY <1>2 DEF AskRedis, configVars, storeVars, LimitTypeOK
<1>3. ASSUME NEW r \in Request, RunScript(r) PROVE LimitTypeOK'
  <2>1. time[r] \in Nat
    BY DEF LimitTypeOK
  <2> QED
    BY <1>3, <2>1, TypeCheck DEF RunScript, configVars, LimitTypeOK
<1>4. ASSUME NEW r \in Request, ReceiveAnswer(r) PROVE LimitTypeOK'
  BY <1>4 DEF ReceiveAnswer, configVars, storeVars, LimitTypeOK
<1>5. ASSUME NEW r \in Request, RedisRaises(r) PROVE LimitTypeOK'
  <2>1. time[r] \in Nat
    BY DEF LimitTypeOK
  <2>2. ASSUME NEW p \in Process, Check(p, r, time[r], "admitted", "rejected") PROVE LimitTypeOK'
    BY <1>5, <2>1, <2>2, TypeCheck DEF RedisRaises, configVars, LimitTypeOK
  <2>3. CASE pc' = [pc EXCEPT ![r] = "unavailable"] /\ UNCHANGED storeVars
    BY <1>5, <2>3 DEF RedisRaises, configVars, storeVars, LimitTypeOK
  <2> QED
    BY <1>5, <2>2, <2>3 DEF RedisRaises
<1>6. ASSUME NEW r \in Request, Vanish(r) PROVE LimitTypeOK'
  BY <1>6 DEF Vanish, configVars, storeVars, LimitTypeOK
<1>7. CASE Tick
  BY <1>7 DEF Tick, configVars, storeVars, LimitTypeOK
<1>8. CASE UNCHANGED limitVars
  BY <1>8 DEF limitVars, configVars, storeVars, LimitTypeOK
<1> QED
  BY <1>1, <1>2, <1>3, <1>4, <1>5, <1>6, <1>7, <1>8 DEF LimitNext

\* Every variable keeps its type.
THEOREM LimitTypes == LimitSpec => []LimitTypeOK
  BY LimitTypeInit, LimitTypeStep, PTL DEF LimitSpec

-----------------------------------------------------------------------------
(* One check of one store.                                                 *)

\* The requests a check may be made for: one that reads the clock just now,
\* or one that waits for Redis.  A memory is asked after Redis's answer, too.
Checks(s, r, now) ==
  /\ \E yes \in {"admitted", "granted"}, no \in {"rejected", "denied"} :
       Check(s, r, now, yes, no) /\ (s # Redis => yes = "admitted")
  /\ pc[r] \in {"idle", "asking"} \/ (s # Redis /\ pc[r] \in {"granted", "denied"})
  /\ clock' = clock /\ now <= clock
  /\ time' = [time EXCEPT ![r] = now]
  /\ pc[r] = "idle" \/ time[r] = now

\* What a check does, with the requests it admits as a set of at most one.
Checked(s, r, now, new) ==
  /\ entries' = [entries EXCEPT ![s] = Recent(s, now) \cup new]
  /\ counted' = [counted EXCEPT ![s] = @ \cup new]
  /\ expiry' = IF new # {} THEN NewExpiry(s) ELSE expiry
  /\ newest' = [newest EXCEPT ![s] = IF now > @ THEN now ELSE @]
  /\ overtaken' = IF TooLate(s, now) THEN overtaken \cup {s} ELSE overtaken
  /\ \A q \in Request \ {r} : pc'[q] = pc[q] /\ time'[q] = time[q]
  /\ time'[r] = now
  /\ new # {} => /\ Cardinality(Recent(s, now)) < MaxRequests
                 /\ pc'[r] \in {"admitted", "granted"}
                 /\ s # Redis => pc'[r] = "admitted"
  /\ new = {} => /\ ~(Cardinality(Recent(s, now)) < MaxRequests)
                 /\ pc'[r] \in {"rejected", "denied"}

LEMMA CheckIs ==
  ASSUME LimitTypeOK, CountedKnown, NEW s \in Store, NEW r \in Request, NEW now \in Nat,
         Checks(s, r, now)
  PROVE  \E new \in SUBSET {r} : Checked(s, r, now, new)
<1>1. PICK yes \in {"admitted", "granted"}, no \in {"rejected", "denied"} :
        Check(s, r, now, yes, no) /\ (s # Redis => yes = "admitted")
  BY DEF Checks
<1> DEFINE new == IF HasRoom(s, now) THEN {r} ELSE {}
<1>2. /\ entries' = [entries EXCEPT ![s] = Recent(s, now) \cup new]
      /\ counted' = [counted EXCEPT ![s] = @ \cup new]
      /\ expiry' = IF new # {} THEN NewExpiry(s) ELSE expiry
      /\ newest' = [newest EXCEPT ![s] = IF now > @ THEN now ELSE @]
      /\ overtaken' = IF TooLate(s, now) THEN overtaken \cup {s} ELSE overtaken
      /\ pc' = [pc EXCEPT ![r] = IF new # {} THEN yes ELSE no]
  BY <1>1 DEF Check
<1>3. /\ \A q \in Request \ {r} : pc'[q] = pc[q] /\ time'[q] = time[q]
      /\ time'[r] = now /\ pc'[r] = IF new # {} THEN yes ELSE no
  BY <1>2 DEF Checks, LimitTypeOK
<1>4. /\ new # {} => Cardinality(Recent(s, now)) < MaxRequests
      /\ new = {} => ~(Cardinality(Recent(s, now)) < MaxRequests)
  BY DEF HasRoom
<1>5. new \in SUBSET {r}
  OBVIOUS
<1> HIDE DEF new
<1> QED
  BY <1>1, <1>2, <1>3, <1>4, <1>5 DEF Checked

\* Neither the requests a store has counted nor their times change, except
\* that the store checked counts one more.
LEMMA CountedGrows ==
  ASSUME LimitTypeOK, CountedKnown, NEW s \in Store, NEW r \in Request, NEW now \in Nat,
         Checks(s, r, now)
  PROVE  /\ r \notin counted[s]
         /\ counted'[s] \ {r} = counted[s]
         /\ \A s2 \in Store \ {s} : /\ counted'[s2] = counted[s2]
                                    /\ entries'[s2] = entries[s2]
                                    /\ newest'[s2] = newest[s2]
                                    /\ r \in counted[s2] => s2 = Redis
         /\ \A s2 \in Store : /\ counted[s2] \subseteq counted'[s2]
                              /\ IsFiniteSet(counted'[s2])
                              /\ \A q \in counted[s2] : time'[q] = time[q]
<1>1. r \notin counted[s]
  BY DEF Checks, CountedKnown
<1>2. PICK new \in SUBSET {r} : Checked(s, r, now, new)
  BY CheckIs
<1> USE DEF Checked
<1>3. counted'[s] = counted[s] \cup new /\ counted'[s] \ {r} = counted[s]
  BY <1>1, <1>2 DEF LimitTypeOK
<1>4. ASSUME NEW s2 \in Store \ {s}
      PROVE  /\ counted'[s2] = counted[s2] /\ entries'[s2] = entries[s2]
             /\ newest'[s2] = newest[s2]
             /\ r \in counted[s2] => s2 = Redis
  <2>1. r \in counted[s2] => s2 = Redis
    BY DEF Checks, CountedKnown
  <2> QED
    BY <1>2, <2>1 DEF LimitTypeOK
<1>5. ASSUME NEW s2 \in Store
      PROVE  /\ counted[s2] \subseteq counted'[s2] /\ IsFiniteSet(counted'[s2])
             /\ \A q \in counted[s2] : time'[q] = time[q]
  <2>1. IsFiniteSet(counted[s2])
    BY DEF CountedKnown
  <2>2. new = {} \/ new = {r}
    OBVIOUS
  <2>3. IsFiniteSet(counted[s2] \cup new)
    <3>1. IsFiniteSet(counted[s2] \cup {r})
      BY <2>1, FS_AddElement
    <3> QED
      BY <2>1, <2>2, <3>1
  <2>4. counted'[s2] = counted[s2] \/ counted'[s2] = counted[s2] \cup new
    BY <1>2 DEF LimitTypeOK
  <2>5. ASSUME NEW q \in counted[s2] PROVE time'[q] = time[q]
    <3>1. pc[q] # "idle" /\ q \in Request
      BY DEF CountedKnown, LimitTypeOK
    <3>2. CASE q = r
      BY <1>2, <3>1, <3>2 DEF Checks
    <3> QED
      BY <1>2, <3>1, <3>2
  <2> QED
    BY <2>1, <2>3, <2>4, <2>5
<1> QED
  BY <1>1, <1>3, <1>4, <1>5

LEMMA CheckKeepsCounted ==
  ASSUME LimitTypeOK, CountedKnown, NEW s \in Store, NEW r \in Request, NEW now \in Nat,
         Checks(s, r, now)
  PROVE  CountedKnown'
<1>1. PICK new \in SUBSET {r} : Checked(s, r, now, new)
  BY CheckIs
<1> USE DEF Checked
<1> USE CountedGrows
<1>2. clock' = clock /\ now <= clock /\ clock \in Nat
  BY DEF Checks, LimitTypeOK
<1>3. \A q \in Request : time'[q] <= clock'
  BY <1>1, <1>2 DEF CountedKnown
<1>4. /\ newest'[s] = IF now > newest[s] THEN now ELSE newest[s]
      /\ newest[s] \in Nat /\ newest[s] <= clock
      /\ counted'[s] = counted[s] \cup new /\ entries'[s] = Recent(s, now) \cup new
      /\ Recent(s, now) \subseteq counted[s]
  BY <1>1 DEF LimitTypeOK, CountedKnown, Recent, Live
<1>5. ASSUME NEW s2 \in Store, NEW q \in counted'[s2]
      PROVE  /\ pc'[q] \notin {"idle", "asking"} /\ time'[q] <= newest'[s2]
             /\ s2 # Redis => pc'[q] = "admitted"
  <2>1. CASE q = r /\ s2 = s
    BY <1>1, <1>2, <1>4, <2>1
  <2>2. CASE q = r /\ s2 # s
    <3>1. r \in counted[s2] /\ s2 = Redis /\ newest'[s2] = newest[s2]
      BY <2>2
    <3>2. time'[r] = time[r] /\ time[r] <= newest[s2]
      BY <3>1 DEF CountedKnown
    <3>3. pc'[r] \in {"admitted", "granted", "rejected", "denied"}
      BY <1>1
    <3> QED
      BY <2>2, <3>1, <3>2, <3>3
  <2>3. CASE q # r
    <3>1. q \in counted[s2] /\ q \in Request
      BY <1>1, <1>4, <2>3 DEF LimitTypeOK
    <3>2. pc'[q] = pc[q] /\ time'[q] = time[q]
      BY <1>1, <2>3, <3>1
    <3>3. /\ pc[q] \notin {"idle", "asking"} /\ time[q] <= newest[s2]
          /\ s2 # Redis => pc[q] = "admitted"
      BY <3>1 DEF CountedKnown
    <3>4. newest[s2] <= newest'[s2] /\ newest[s2] \in Nat /\ newest'[s2] \in Nat
          /\ time[q] \in Nat
      BY <1>4, <3>1 DEF LimitTypeOK
    <3> QED
      BY <3>2, <3>3, <3>4
  <2> QED
    BY <2>1, <2>2, <2>3
<1>6. ASSUME NEW s2 \in Store
      PROVE  entries'[s2] \subseteq counted'[s2] /\ newest'[s2] <= clock'
  BY <1>2, <1>4 DEF CountedKnown
<1> QED
  BY <1>3, <1>5, <1>6 DEF CountedKnown

\* What still counts has not been dropped, by the check or with the key.
LEMMA CheckKeepsEntries ==
  ASSUME LimitTypeOK, CountedKnown, EntriesKept, NEW s \in Store, NEW r \in Request,
         NEW now \in Nat, Checks(s, r, now)
  PROVE  EntriesKept'
<1> USE CountedGrows
<1>1. PICK new \in SUBSET {r} : Checked(s, r, now, new)
  BY CheckIs
<1> USE DEF Checked
<1>2. clock \in Nat /\ now <= clock /\ expiry \in Nat /\ Window \in Nat /\ Redis \in Store
  BY LimitAssumption DEF Checks, LimitTypeOK, Store
<1>3. /\ newest'[s] = IF now > newest[s] THEN now ELSE newest[s]
      /\ newest[s] \in Nat
      /\ counted'[s] = counted[s] \cup new /\ entries'[s] = Recent(s, now) \cup new
  BY <1>1 DEF LimitTypeOK
<1>4. ASSUME NEW q \in counted'[Redis] PROVE time'[q] + Window <= expiry'
  <2>1. CASE s = Redis /\ new # {}
    <3>1. expiry' = clock + Window
      BY <1>1, <2>1 DEF NewExpiry
    <3>2. time'[q] <= clock /\ time'[q] \in Nat
      BY CheckKeepsCounted, <1>1, <1>2, <1>3, <2>1 DEF CountedKnown, LimitTypeOK, Checks
    <3> QED
      BY <1>2, <3>1, <3>2
  <2>2. CASE ~(s = Redis /\ new # {})
    <3>1. expiry' = expiry /\ q \in counted[Redis]
      BY <1>1, <1>2, <1>3, <2>2 DEF NewExpiry
    <3> QED
      BY <1>2, <3>1 DEF EntriesKept
  <2> QED
    BY <2>1, <2>2
<1>5. ASSUME NEW s2 \in Store \ overtaken', NEW q \in counted'[s2],
             time'[q] + Window > newest'[s2]
      PROVE  q \in entries'[s2]
  <2>1. CASE s2 # s
    <3>1. s2 \in Store \ overtaken
      BY <1>1, <2>1
    <3>2. time'[q] = time[q] /\ q \in counted[s2]
      BY <2>1
    <3> QED
      BY <1>5, <2>1, <3>1, <3>2 DEF EntriesKept
  <2>2. CASE s2 = s
    <3>1. s \notin overtaken /\ ~TooLate(s, now)
      BY <1>1, <2>2
    <3>2. now >= newest[s] /\ newest'[s] = now
      BY <1>3, <3>1 DEF TooLate
    <3>3. CASE q \in new
      BY <1>3, <2>2, <3>3
    <3>4. CASE q \in counted[s]
      <4>1. time'[q] = time[q] /\ time[q] \in Nat /\ time[q] + Window > now
        BY <1>5, <2>2, <3>2, <3>4 DEF LimitTypeOK
      <4>2. q \in entries[s]
        BY <1>2, <1>3, <3>1, <3>2, <3>4, <4>1 DEF EntriesKept
      <4>3. ~(s = Redis /\ expiry <= clock)
        <5>1. s = Redis => time[q] + Window <= expiry
          BY <3>4 DEF EntriesKept
        <5> QED
          BY <1>2, <3>1, <4>1, <5>1 DEF TooLate
      <4> QED
        BY <1>3, <2>2, <4>1, <4>2, <4>3 DEF Recent, Live
    <3> QED
      BY <1>3, <2>2, <3>3, <3>4
  <2> QED
    BY <2>1, <2>2
<1> QED
  BY <1>4, <1>5 DEF EntriesKept

\* A new entry belongs to the windows that end with it, and the store has
\* counted everything in those; the windows before it stay as they are.
LEMMA CheckKeepsWindow ==
  ASSUME LimitTypeOK, CountedKnown, EntriesKept, WindowUnlessOvertaken,
         NEW s \in Store, NEW r \in Request, NEW now \in Nat, Checks(s, r, now)
  PROVE  WindowUnlessOvertaken'
<1>1. PICK new \in SUBSET {r} : Checked(s, r, now, new)
  BY CheckIs
<1> USE DEF Checked
<1> USE CountedGrows
<1>2. counted'[s] = counted[s] \cup new /\ newest[s] \in Nat
  BY <1>1 DEF LimitTypeOK
<1>3. \A s2 \in Store : \A q \in counted[s2] : time[q] \in Nat /\ time[q] <= newest[s2]
  BY DEF LimitTypeOK, CountedKnown
<1>4. ASSUME NEW s2 \in Store \ overtaken, NEW a \in counted[s2], NEW S \in SUBSET counted[s2],
             S = {q \in counted'[s2] : time'[q] <= time[a] /\ time'[q] + Window > time[a]}
      PROVE  Cardinality(S) <= MaxRequests
  <2>1. S = InWindow(counted[s2], time[a])
    BY <1>4 DEF InWindow
  <2> QED
    BY <2>1 DEF WindowUnlessOvertaken
<1>5. ASSUME NEW s2 \in Store \ overtaken', NEW a \in counted'[s2]
      PROVE  Cardinality({q \in counted'[s2] : time'[q] <= time'[a] /\ time'[q] + Window > time'[a]})
               <= MaxRequests
  <2> DEFINE S == {q \in counted'[s2] : time'[q] <= time'[a] /\ time'[q] + Window > time'[a]}
  <2>1. s2 \in Store \ overtaken
    BY <1>1
  <2>2. CASE s2 # s \/ new = {}
    <3>1. counted'[s2] = counted[s2]
      <4>1. CASE s2 # s
        BY <4>1
      <4>2. CASE s2 = s
        <5>1. new = {}
          BY <2>2, <4>2
        <5> QED
          BY <1>2, <4>2, <5>1
      <4> QED
        BY <4>1, <4>2
    <3>2. time'[a] = time[a] /\ S \subseteq counted[s2]
      BY <3>1
    <3> QED
      BY <1>4, <2>1, <3>1, <3>2
  <2>3. CASE s2 = s /\ new = {r}
    <3>1. now >= newest[s] /\ ~TooLate(s, now) /\ newest'[s] = now
      <4>1. ~TooLate(s, now)
        <5> HIDE DEF Checked
        <5>1. overtaken' = IF TooLate(s, now) THEN overtaken \cup {s} ELSE overtaken
          BY <1>1 DEF Checked
        <5> QED
          BY <1>5, <2>3, <5>1
      <4>2. now >= newest[s]
        BY <1>2, <4>1 DEF TooLate
      <4>3. newest'[s] = IF now > newest[s] THEN now ELSE newest[s]
        BY <1>1 DEF LimitTypeOK
      <4> QED
        BY <1>2, <4>1, <4>2, <4>3
    <3>2. CASE a # r /\ time[a] # now
      <4>1. a \in counted[s] /\ time'[a] = time[a] /\ time[a] < now
        BY <1>2, <1>3, <2>3, <3>1, <3>2
      <4>2. r \notin S
        BY <1>1, <1>3, <4>1
      <4>3. S \subseteq counted[s]
        BY <1>2, <2>3, <4>2
      <4> QED
        BY <1>4, <2>1, <2>3, <4>1, <4>3
    <3>3. CASE a = r \/ time[a] = now
      <4>1. time'[a] = now
        BY <1>1, <1>2, <2>3, <3>3
      <4>2. S \subseteq Recent(s, now) \cup {r}
        <5> SUFFICES ASSUME NEW q \in S, q # r PROVE q \in Recent(s, now)
          OBVIOUS
        <5>1. q \in counted[s] /\ time'[q] = time[q] /\ time'[q] + Window > now
          BY <1>2, <2>3, <4>1
        <5>2. q \in entries'[s]
          BY <2>3, <3>1, <5>1, CheckKeepsEntries DEF EntriesKept
        <5> QED
          BY <1>1, <2>3, <5>2 DEF LimitTypeOK
      <4>3. IsFiniteSet(Recent(s, now))
        BY FS_Subset DEF Recent, Live, CountedKnown
      <4>4. /\ IsFiniteSet(Recent(s, now) \cup {r})
            /\ Cardinality(Recent(s, now) \cup {r}) <= Cardinality(Recent(s, now)) + 1
            /\ Cardinality(Recent(s, now)) \in Nat
        <5>1. /\ IsFiniteSet(Recent(s, now) \cup {r})
              /\ \/ Cardinality(Recent(s, now) \cup {r}) = Cardinality(Recent(s, now))
                 \/ Cardinality(Recent(s, now) \cup {r}) = Cardinality(Recent(s, now)) + 1
          BY <4>3, FS_AddElement
        <5>2. Cardinality(Recent(s, now)) \in Nat
          BY <4>3, FS_CardinalityType
        <5> QED
          BY <5>1, <5>2
      <4>5. Cardinality(S) <= Cardinality(Recent(s, now) \cup {r}) /\ Cardinality(S) \in Nat
        BY <4>2, <4>4, FS_Subset, FS_CardinalityType
      <4>6. Cardinality(Recent(s, now)) < MaxRequests /\ MaxRequests \in Nat
        BY <1>1, <2>3, LimitAssumption
      <4>7. Cardinality(Recent(s, now) \cup {r}) \in Nat
        BY <4>4, FS_CardinalityType
      <4> HIDE DEF S
      <4>8. Cardinality(S) <= MaxRequests
        BY <4>4, <4>5, <4>6, <4>7
      <4> QED
        BY <4>8 DEF S
    <3> QED
      BY <3>2, <3>3
  <2> QED
    BY <2>2, <2>3
<1> QED
  BY <1>5 DEF WindowUnlessOvertaken, InWindow

\* What a store has counted only grows: a store that was full for a request
\* stays full for it.
LEMMA FullStays ==
  ASSUME LimitTypeOK, NEW s \in Store, NEW r \in Request, Full(s, r),
         counted[s] \subseteq counted'[s], IsFiniteSet(counted'[s]),
         \A q \in counted[s] : time'[q] = time[q], time'[r] = time[r]
  PROVE  Full(s, r)'
<1> DEFINE Before == {q \in counted[s] \ {r} : time[q] + Window > time[r]}
           After == {q \in counted'[s] \ {r} : time'[q] + Window > time'[r]}
<1>1. Before \subseteq After /\ After \subseteq counted'[s]
  OBVIOUS
<1>2. Cardinality(Before) <= Cardinality(After) /\ IsFiniteSet(Before) /\ IsFiniteSet(After)
  BY <1>1, FS_Subset
<1>3. Cardinality(Before) \in Nat /\ Cardinality(After) \in Nat
  BY <1>2, FS_CardinalityType
<1>4. Cardinality(Before) >= MaxRequests /\ MaxRequests \in Nat
  BY LimitAssumption DEF Full
<1> HIDE DEF Before, After
<1>5. Cardinality(After) >= MaxRequests
  BY <1>2, <1>3, <1>4
<1> QED
  BY <1>5 DEF After, Full

\* The store that turns a request down has counted enough others.
LEMMA CheckKeepsDenials ==
  ASSUME LimitTypeOK, CountedKnown, DenialsFounded,
         NEW s \in Store, NEW r \in Request, NEW now \in Nat, Checks(s, r, now)
  PROVE  DenialsFounded'
<1>1. PICK new \in SUBSET {r} : Checked(s, r, now, new)
  BY CheckIs
<1> USE DEF Checked
<1> USE CountedGrows
<1>2. ASSUME NEW q \in Request, q # r, pc'[q] \in {"denied", "rejected"}
      PROVE  \E s2 \in Store : Full(s2, q)'
  <2>1. PICK s2 \in Store : Full(s2, q)
    BY <1>1, <1>2 DEF DenialsFounded
  <2> QED
    BY <1>1, <1>2, <2>1, FullStays
<1>3. ASSUME pc'[r] \in {"denied", "rejected"}
      PROVE  Full(s, r)'
  <2> DEFINE After == {q \in counted'[s] \ {r} : time'[q] + Window > time'[r]}
  <2>1. Recent(s, now) \subseteq After
    BY <1>1 DEF Recent, Live, CountedKnown
  <2>2. IsFiniteSet(After) /\ Cardinality(Recent(s, now)) <= Cardinality(After)
        /\ IsFiniteSet(Recent(s, now))
    BY <2>1, FS_Subset
  <2>3. Cardinality(After) \in Nat /\ Cardinality(Recent(s, now)) \in Nat
    BY <2>2, FS_CardinalityType
  <2>4. Cardinality(Recent(s, now)) >= MaxRequests /\ MaxRequests \in Nat
    BY <1>1, <1>3, <2>3, LimitAssumption
  <2> HIDE DEF After
  <2>5. Cardinality(After) >= MaxRequests
    BY <2>2, <2>3, <2>4
  <2> QED
    BY <2>5 DEF After, Full
<1> QED
  <2> SUFFICES ASSUME NEW q \in Request, pc'[q] \in {"denied", "rejected"}
               PROVE  \E s2 \in Store : Full(s2, q)'
    BY DEF DenialsFounded
  <2>1. CASE q = r
    BY <1>3, <2>1
  <2> QED
    BY <1>2, <2>1

-----------------------------------------------------------------------------
(* The invariant.                                                          *)

LEMMA CheckKeepsAll ==
  ASSUME LimitInductive, LimitTypeOK', NEW s \in Store, NEW r \in Request, NEW now \in Nat,
         Checks(s, r, now)
  PROVE  LimitInductive'
  BY CheckKeepsCounted, CheckKeepsEntries, CheckKeepsWindow, CheckKeepsDenials DEF LimitInductive

\* A step that checks nothing: answers arrive or not, requests come, time
\* passes.
LEMMA LimitQuiet ==
  ASSUME LimitInductive, LimitTypeOK', UNCHANGED storeVars, clock' >= clock,
         \A q \in Request :
           /\ time'[q] <= clock' /\ (pc[q] # "idle" => time'[q] = time[q])
           /\ pc[q] \notin {"idle", "asking"} => pc'[q] \notin {"idle", "asking"}
           /\ pc[q] = "admitted" => pc'[q] = "admitted"
           /\ pc'[q] \in {"denied", "rejected"} => pc[q] \in {"denied", "rejected"}
  PROVE  LimitInductive'
<1> USE DEF storeVars
<1>1. \A s \in Store : \A q \in counted[s] : q \in Request /\ time'[q] = time[q]
  BY DEF LimitInductive, LimitTypeOK, CountedKnown
<1>2. CountedKnown'
  <2>1. ASSUME NEW s \in Store
        PROVE  newest'[s] <= clock' /\ newest'[s] \in Nat
    BY DEF LimitInductive, CountedKnown, LimitTypeOK
  <2> QED
    BY <1>1, <2>1 DEF LimitInductive, CountedKnown
<1>3. EntriesKept'
  <2>1. Redis \in Store
    BY DEF Store
  <2> QED
    BY <1>1, <2>1 DEF LimitInductive, EntriesKept
<1>4. WindowUnlessOvertaken'
  <2> SUFFICES ASSUME NEW s \in Store \ overtaken, NEW a \in counted[s]
               PROVE  Cardinality(InWindow(counted[s], time[a])') <= MaxRequests
    BY <1>1 DEF WindowUnlessOvertaken, InWindow
  <2>1. InWindow(counted[s], time[a])' = InWindow(counted[s], time[a])
    BY <1>1 DEF InWindow
  <2> QED
    BY <2>1 DEF LimitInductive, WindowUnlessOvertaken
<1>5. DenialsFounded'
  <2> SUFFICES ASSUME NEW q \in Request, pc'[q] \in {"denied", "rejected"}
               PROVE  \E s \in Store : Full(s, q)'
    BY DEF DenialsFounded
  <2>1. PICK s \in Store : Full(s, q)
    BY DEF LimitInductive, DenialsFounded
  <2>2. time'[q] = time[q] /\ IsFiniteSet(counted'[s])
    BY DEF LimitInductive, CountedKnown
  <2> QED
    BY <1>1, <2>1, <2>2, FullStays DEF LimitInductive
<1> QED
  BY <1>2, <1>3, <1>4, <1>5 DEF LimitInductive

LEMMA LimitInductiveInit == LimitInit => LimitInductive
<1> SUFFICES ASSUME LimitInit PROVE LimitInductive
  OBVIOUS
<1>1. Redis \in Store /\ IsFiniteSet({})
  BY FS_EmptySet DEF Store
<1>2. CountedKnown /\ EntriesKept /\ WindowUnlessOvertaken /\ DenialsFounded
  BY <1>1 DEF LimitInit, CountedKnown, EntriesKept, WindowUnlessOvertaken, DenialsFounded
<1> QED
  BY <1>2, LimitTypeInit DEF LimitInductive

LEMMA LimitInductiveStep ==
  ASSUME LimitInductive, [LimitNext]_limitVars
  PROVE  LimitInductive'
<1> Process \subseteq Store /\ Redis \in Store /\ \A p \in Process : p # Redis
  BY StoreAssumption DEF Store
<1>0. LimitTypeOK /\ LimitTypeOK'
  BY LimitTypeStep DEF LimitInductive
<1>1. /\ clock \in Nat
      /\ \A q \in Request : time[q] \in Nat /\ time[q] <= clock
  BY <1>0 DEF LimitInductive, LimitTypeOK, CountedKnown
<1>2. ASSUME NEW r \in Request, CheckLocally(r) PROVE LimitInductive'
  <2>1. PICK p \in Process : Check(p, r, clock, "admitted", "rejected")
    BY <1>2 DEF CheckLocally
  <2>2. Checks(p, r, clock)
    BY <1>1, <1>2, <2>1 DEF CheckLocally, Checks
  <2> QED
    BY <1>0, <1>1, <2>2, CheckKeepsAll
<1>3. ASSUME NEW r \in Request, AskRedis(r) PROVE LimitInductive'
  <2>1. clock' = clock /\ UNCHANGED storeVars
    BY <1>3 DEF AskRedis
  <2>2. ASSUME NEW q \in Request
        PROVE  /\ time'[q] <= clock' /\ (pc[q] # "idle" => time'[q] = time[q])
               /\ pc'[q] = pc[q] \/ (pc[q] = "idle" /\ pc'[q] = "asking")
    BY <1>0, <1>1, <1>3 DEF AskRedis, LimitTypeOK
  <2> QED
    BY <1>0, <1>1, <2>1, <2>2, LimitQuiet
<1>4. ASSUME NEW r \in Request, RunScript(r) PROVE LimitInductive'
  <2>1. Checks(Redis, r, time[r])
    BY <1>0, <1>1, <1>4 DEF RunScript, Checks, LimitTypeOK
  <2> QED
    BY <1>0, <1>1, <2>1, CheckKeepsAll
<1>5. ASSUME NEW r \in Request, ReceiveAnswer(r) PROVE LimitInductive'
  <2>1. clock' = clock /\ time' = time /\ UNCHANGED storeVars
    BY <1>5 DEF ReceiveAnswer
  <2>2. ASSUME NEW q \in Request
        PROVE  \/ pc'[q] = pc[q]
               \/ pc[q] = "granted" /\ pc'[q] = "admitted"
               \/ pc[q] = "denied" /\ pc'[q] = "rejected"
    BY <1>0, <1>5 DEF ReceiveAnswer, LimitTypeOK
  <2> QED
    BY <1>0, <1>1, <2>1, <2>2, LimitQuiet
<1>6. ASSUME NEW r \in Request, RedisRaises(r) PROVE LimitInductive'
  <2>1. clock' = clock /\ time' = time /\ pc[r] \in {"asking", "granted", "denied"}
    BY <1>6 DEF RedisRaises
  <2>2. ASSUME NEW p \in Process, Check(p, r, time[r], "admitted", "rejected")
        PROVE  LimitInductive'
    <3>1. Checks(p, r, time[r])
      BY <1>0, <1>1, <2>1, <2>2 DEF Checks, LimitTypeOK
    <3> QED
      BY <1>0, <1>1, <3>1, CheckKeepsAll
  <2>3. CASE pc' = [pc EXCEPT ![r] = "unavailable"] /\ UNCHANGED storeVars
    <3>1. ASSUME NEW q \in Request
          PROVE  \/ pc'[q] = pc[q]
                 \/ pc[q] \in {"asking", "granted", "denied"} /\ pc'[q] = "unavailable"
      BY <1>0, <2>1, <2>3 DEF LimitTypeOK
    <3> QED
      BY <1>0, <1>1, <2>1, <2>3, <3>1, LimitQuiet
  <2> QED
    BY <1>6, <2>2, <2>3 DEF RedisRaises
<1>7. ASSUME NEW r \in Request, Vanish(r) PROVE LimitInductive'
  <2>1. clock' = clock /\ time' = time /\ UNCHANGED storeVars
    BY <1>7 DEF Vanish
  <2>2. ASSUME NEW q \in Request
        PROVE  \/ pc'[q] = pc[q]
               \/ pc[q] \in {"asking", "granted", "denied"} /\ pc'[q] = "gone"
    BY <1>0, <1>7 DEF Vanish, LimitTypeOK
  <2> QED
    BY <1>0, <1>1, <2>1, <2>2, LimitQuiet
<1>8. CASE Tick
  <2>1. clock' = clock + 1 /\ time' = time /\ pc' = pc /\ UNCHANGED storeVars
    BY <1>8 DEF Tick
  <2>2. clock' >= clock /\ \A q \in Request : time'[q] <= clock'
    BY <1>1, <2>1
  <2> QED
    BY <1>0, <2>1, <2>2, LimitQuiet
<1>9. CASE UNCHANGED limitVars
  <2>1. clock' = clock /\ time' = time /\ pc' = pc /\ UNCHANGED storeVars
    BY <1>9 DEF limitVars
  <2> QED
    BY <1>0, <1>1, <2>1, LimitQuiet
<1> QED
  BY <1>2, <1>3, <1>4, <1>5, <1>6, <1>7, <1>8, <1>9 DEF LimitNext

\* A store never admits more than the limit in a window, but for decisions
\* that came after a later one or after the key expired.
THEOREM StoreWindow == LimitSpec => []WindowUnlessOvertaken
<1>1. LimitInductive => WindowUnlessOvertaken
  BY DEF LimitInductive
<1> QED
  BY <1>1, LimitInductiveInit, LimitInductiveStep, PTL DEF LimitSpec

\* Whoever is turned away shares a window with MaxRequests others, whatever
\* has failed or come late.
THEOREM FoundedRejections == LimitSpec => []RejectedWhenFull
<1>1. LimitInductive => RejectedWhenFull
  BY DEF LimitInductive, DenialsFounded, Full, RejectedWhenFull
<1> QED
  BY <1>1, LimitInductiveInit, LimitInductiveStep, PTL DEF LimitSpec
-----------------------------------------------------------------------------
(* The allowances of all stores.                                           *)

\* A set of numbers that is not empty has a least one.
LEMMA LeastNumber ==
  ASSUME NEW S \in SUBSET Nat, S # {}
  PROVE  \E x \in S : \A y \in S : x <= y
<1> DEFINE Less == OpToRel(<, Nat)
<1>1. IsWellFoundedOn(Less, Nat)
  BY NatLessThanWellFounded, Zenon
<1>2. \A m, n \in Nat : <<m, n>> \in Less <=> m < n
  BY Zenon DEF OpToRel
<1> HIDE DEF Less
<1>3. PICK x \in S : \A y \in S : ~(<<y, x>> \in Less)
  BY <1>1, WFMin, Zenon
<1>4. \A y \in S : ~(y < x)
  BY <1>2, <1>3
<1> QED
  BY <1>4

\* As many sets as I has members, none larger than k, cover no more than
\* k * Cardinality(I) elements.
LEMMA CoverIsSmall ==
  ASSUME NEW I, IsFiniteSet(I), NEW k \in Nat, NEW W, NEW A,
         \A i \in I : IsFiniteSet(W[i]) /\ Cardinality(W[i]) <= k,
         \A x \in A : \E i \in I : x \in W[i]
  PROVE  IsFiniteSet(A) /\ Cardinality(A) <= k * Cardinality(I)
<1>1. ASSUME NEW i \in I
      PROVE  \E g : g \in Injection(W[i], 1..k)
  <2>1. Cardinality(W[i]) \in Nat /\ ExistsBijection(1..Cardinality(W[i]), W[i])
    BY FS_CardinalityType
  <2>2. ExistsBijection(W[i], 1..Cardinality(W[i]))
    BY <2>1, Fun_ExistsBijSymmetric
  <2>3. PICK g : g \in Bijection(W[i], 1..Cardinality(W[i]))
    BY <2>2 DEF ExistsBijection
  <2>4. g \in [W[i] -> 1..Cardinality(W[i])] /\ IsInjective(g)
    BY <2>3 DEF Bijection, Injection
  <2>5. \A n \in 1..Cardinality(W[i]) : n \in 1..k
    BY <2>1
  <2>6. g \in [W[i] -> 1..k]
    BY <2>4, <2>5
  <2> QED
    BY <2>4, <2>6 DEF Injection
<1> DEFINE rank(i) == CHOOSE g : g \in Injection(W[i], 1..k)
           home(x) == CHOOSE i \in I : x \in W[i]
           f == [x \in A |-> <<home(x), rank(home(x))[x]>>]
<1>2. \A i \in I : /\ rank(i) \in [W[i] -> 1..k]
                   /\ \A x, y \in W[i] : rank(i)[x] = rank(i)[y] => x = y
  BY <1>1 DEF Injection, IsInjective
<1>3. \A x \in A : home(x) \in I /\ x \in W[home(x)]
  OBVIOUS
<1> HIDE DEF rank, home
<1>4. f \in [A -> I \X (1..k)]
  BY <1>2, <1>3
<1>5. \A x, y \in A : f[x] = f[y] => x = y
  <2> SUFFICES ASSUME NEW x \in A, NEW y \in A, f[x] = f[y] PROVE x = y
    OBVIOUS
  <2>1. home(x) = home(y) /\ rank(home(x))[x] = rank(home(y))[y]
    OBVIOUS
  <2> QED
    BY <1>2, <1>3, <2>1
<1>6. f \in Injection(A, I \X (1..k))
  BY <1>4, <1>5 DEF Injection, IsInjective
<1>7. /\ IsFiniteSet(I \X (1..k))
      /\ Cardinality(I \X (1..k)) = Cardinality(I) * k
      /\ Cardinality(I) \in Nat
  <2>1. IsFiniteSet(1..k) /\ Cardinality(1..k) = k
    BY FS_Interval
  <2> QED
    BY <2>1, FS_Product, FS_CardinalityType
<1>8. IsFiniteSet(A) /\ Cardinality(A) <= Cardinality(I) * k
  BY <1>6, <1>7, FS_Injection
<1> QED
  BY <1>7, <1>8

\* Whoever is admitted has been counted by a store in use.
AdmittedCounted ==
  \A r \in Request :
    /\ pc[r] \in {"asking", "granted", "denied"} => useRedis
    /\ pc[r] = "granted" => r \in counted[Redis]
    /\ pc[r] = "admitted" => \E s \in InUse : r \in counted[s]

\* A check counts what it admits and forgets nothing it has counted.
LEMMA CheckCounts ==
  ASSUME LimitTypeOK, NEW s \in Store, NEW r \in Request, NEW now \in Nat,
         NEW yes \in {"admitted", "granted"}, NEW no \in {"rejected", "denied"},
         Check(s, r, now, yes, no)
  PROVE  /\ \A s2 \in Store : counted[s2] \subseteq counted'[s2]
         /\ pc'[r] = no \/ (pc'[r] = yes /\ r \in counted'[s])
         /\ \A q \in Request \ {r} : pc'[q] = pc[q]
<1> DEFINE new == IF HasRoom(s, now) THEN {r} ELSE {}
<1>1. /\ counted' = [counted EXCEPT ![s] = @ \cup new]
      /\ pc' = [pc EXCEPT ![r] = IF new # {} THEN yes ELSE no]
  BY DEF Check
<1>2. new = {r} \/ new = {}
  OBVIOUS
<1> HIDE DEF new
<1> QED
  BY <1>1, <1>2 DEF LimitTypeOK

LEMMA AdmittedStep ==
  ASSUME LimitTypeOK, AdmittedCounted, [LimitNext]_limitVars
  PROVE  AdmittedCounted'
<1> Process \subseteq Store /\ Redis \in Store /\ InUse \subseteq Store
  BY DEF Store, InUse
<1>1. useRedis' = useRedis /\ InUse' = InUse
  BY DEF LimitNext, limitVars, configVars, CheckLocally, AskRedis, RunScript, ReceiveAnswer, RedisRaises,
         Vanish, Tick, InUse, Store
\* A check that admits must be of a store in use or, in Redis, be granted.
<1>2. ASSUME NEW r \in Request, NEW s \in Store, NEW now \in Nat,
             NEW yes \in {"admitted", "granted"}, NEW no \in {"rejected", "denied"},
             Check(s, r, now, yes, no),
             yes = "admitted" => s \in InUse,
             yes = "granted" => s = Redis /\ useRedis,
             no = "denied" => useRedis
      PROVE  AdmittedCounted'
  <2>1. /\ \A s2 \in Store : counted[s2] \subseteq counted'[s2]
        /\ pc'[r] = no \/ (pc'[r] = yes /\ r \in counted'[s])
        /\ \A q \in Request \ {r} : pc'[q] = pc[q]
    BY <1>2, CheckCounts
  <2> QED
    BY <1>1, <1>2, <2>1 DEF AdmittedCounted
<1>3. ASSUME counted' = counted,
             \A q \in Request :
               \/ pc'[q] = pc[q]
               \/ pc[q] = "idle" /\ pc'[q] = "asking" /\ useRedis
               \/ pc[q] = "granted" /\ pc'[q] = "admitted"
               \/ pc'[q] \in {"rejected", "unavailable", "gone"}
      PROVE  AdmittedCounted'
  <2>1. ASSUME NEW q \in Request, pc[q] = "granted"
        PROVE  \E s \in InUse : q \in counted[s]
    BY <2>1 DEF AdmittedCounted, InUse, Store
  <2> QED
    BY <1>1, <1>3, <2>1 DEF AdmittedCounted
<1>4. ASSUME NEW r \in Request, CheckLocally(r) PROVE AdmittedCounted'
  <2>1. PICK p \in Process : Check(p, r, clock, "admitted", "rejected")
    BY <1>4 DEF CheckLocally
  <2>2. clock \in Nat /\ p \in InUse
    BY <1>4 DEF LimitTypeOK, CheckLocally, InUse
  <2> QED
    BY <1>2, <2>1, <2>2
<1>5. ASSUME NEW r \in Request, AskRedis(r) PROVE AdmittedCounted'
  BY <1>3, <1>5 DEF AskRedis, storeVars, LimitTypeOK
<1>6. ASSUME NEW r \in Request, RunScript(r) PROVE AdmittedCounted'
  <2>1. time[r] \in Nat /\ useRedis
    BY <1>6 DEF LimitTypeOK, RunScript, AdmittedCounted
  <2> QED
    BY <1>2, <1>6, <2>1 DEF RunScript
<1>7. ASSUME NEW r \in Request, ReceiveAnswer(r) PROVE AdmittedCounted'
  BY <1>3, <1>7 DEF ReceiveAnswer, storeVars, LimitTypeOK
<1>8. ASSUME NEW r \in Request, RedisRaises(r) PROVE AdmittedCounted'
  <2>1. time[r] \in Nat /\ useRedis
    BY <1>8 DEF LimitTypeOK, RedisRaises, AdmittedCounted
  <2>2. CASE failOpen /\ \E p \in Process : Check(p, r, time[r], "admitted", "rejected")
    <3>1. PICK p \in Process : Check(p, r, time[r], "admitted", "rejected")
      BY <2>2
    <3>2. p \in InUse
      BY <2>1, <2>2 DEF InUse, Store
    <3> QED
      BY <1>2, <2>1, <3>1, <3>2
  <2>3. CASE pc' = [pc EXCEPT ![r] = "unavailable"] /\ UNCHANGED storeVars
    BY <1>3, <2>3 DEF storeVars, LimitTypeOK
  <2> QED
    BY <1>8, <2>2, <2>3 DEF RedisRaises
<1>9. ASSUME NEW r \in Request, Vanish(r) PROVE AdmittedCounted'
  BY <1>3, <1>9 DEF Vanish, storeVars, LimitTypeOK
<1>10. CASE Tick
  BY <1>3, <1>10 DEF Tick, storeVars
<1>11. CASE UNCHANGED limitVars
  BY <1>3, <1>11 DEF limitVars, storeVars
<1> QED
  BY <1>4, <1>5, <1>6, <1>7, <1>8, <1>9, <1>10, <1>11 DEF LimitNext

\* What one store admits in a window that ends at t: the latest of them
\* ends a window of its own that holds them all.
LEMMA StoreShare ==
  ASSUME LimitInductive, NEW s \in Store \ overtaken, NEW t \in Nat
  PROVE  /\ IsFiniteSet(InWindow(counted[s], t))
         /\ Cardinality(InWindow(counted[s], t)) <= MaxRequests
<1> DEFINE C == InWindow(counted[s], t)
           age == {n \in Nat : \E q \in C : n = t - time[q]}
<1>1. /\ IsFiniteSet(counted[s]) /\ MaxRequests \in Nat /\ Window \in Nat
      /\ \A q \in counted[s] : time[q] \in Nat
  BY LimitAssumption DEF LimitInductive, CountedKnown, LimitTypeOK
<1>2. IsFiniteSet(C)
  <2>1. C \in SUBSET counted[s]
    BY DEF InWindow
  <2> QED
    BY <1>1, <2>1, FS_Subset
<1>3. CASE C = {}
  <2>1. Cardinality(C) = 0
    BY <1>3, FS_EmptySet
  <2> HIDE DEF C
  <2>2. Cardinality(C) <= MaxRequests
    BY <1>1, <2>1
  <2> QED
    BY <1>2, <2>2 DEF C
<1>4. CASE C # {}
  <2>1. \A q \in C : /\ q \in counted[s] /\ time[q] \in Nat /\ time[q] <= t
                     /\ time[q] + Window > t /\ t - time[q] \in age
    BY <1>1 DEF InWindow
  <2>2. age # {} /\ age \in SUBSET Nat
    BY <1>4, <2>1
  <2> HIDE DEF age
  <2>3. PICK m \in age : \A n \in age : m <= n
    BY <2>2, LeastNumber
  <2>4. PICK b \in C : m = t - time[b]
    BY <2>3 DEF age
  <2>5. \A q \in C : q \in counted[s] /\ time[q] <= time[b] /\ time[q] + Window > time[b]
    <3> SUFFICES ASSUME NEW q \in C
                 PROVE  q \in counted[s] /\ time[q] <= time[b] /\ time[q] + Window > time[b]
      OBVIOUS
    <3>1. m <= t - time[q]
      BY <2>1, <2>3
    <3>2. /\ time[q] \in Nat /\ time[q] <= t /\ time[q] + Window > t /\ q \in counted[s]
          /\ time[b] \in Nat /\ time[b] <= t
      BY <2>1
    <3> HIDE DEF C
    <3> QED
      BY <1>1, <2>4, <3>1, <3>2
  <2> DEFINE D == InWindow(counted[s], time[b])
  <2>6. C \in SUBSET D /\ D \in SUBSET counted[s]
    BY <2>5 DEF InWindow
  <2>7. IsFiniteSet(D) /\ Cardinality(C) <= Cardinality(D)
    BY <1>1, <2>6, FS_Subset
  <2>8. Cardinality(D) <= MaxRequests
    BY <2>1 DEF LimitInductive, WindowUnlessOvertaken
  <2>9. Cardinality(C) \in Nat /\ Cardinality(D) \in Nat
    BY <1>2, <2>7, FS_CardinalityType
  <2> HIDE DEF C, D
  <2>10. Cardinality(C) <= MaxRequests
    BY <1>1, <2>7, <2>8, <2>9
  <2> QED
    BY <1>2, <2>10 DEF C
<1> QED
  BY <1>3, <1>4

LEMMA SharesAddUp ==
  ASSUME LimitInductive, AdmittedCounted
  PROVE  AllowancesAddUp
<1> SUFFICES ASSUME overtaken = {}, NEW a \in Admitted
             PROVE  Cardinality(InWindow(Admitted, time[a])) <= MaxRequests * Cardinality(InUse)
  BY DEF AllowancesAddUp
<1>1. time[a] \in Nat /\ MaxRequests \in Nat
  BY LimitAssumption DEF Admitted, LimitInductive, LimitTypeOK
<1>2. InUse \subseteq Store /\ IsFiniteSet(InUse)
  <2>1. IsFiniteSet(Process) /\ IsFiniteSet(Process \cup {Redis}) /\ IsFiniteSet({Redis})
    BY StoreAssumption, FS_AddElement, FS_Singleton
  <2> QED
    BY <2>1 DEF InUse, Store
<1> DEFINE W == [s \in InUse |-> InWindow(counted[s], time[a])]
           A == InWindow(Admitted, time[a])
<1>3. \A s \in InUse : IsFiniteSet(W[s]) /\ Cardinality(W[s]) <= MaxRequests
  BY <1>1, <1>2, StoreShare
<1>4. \A x \in A : \E s \in InUse : x \in W[s]
  BY DEF AdmittedCounted, Admitted, InWindow
<1> HIDE DEF W
<1>5. Cardinality(A) <= MaxRequests * Cardinality(InUse)
  BY <1>1, <1>2, <1>3, <1>4, CoverIsSmall
<1> QED
  BY <1>5

\* The admitted of a window never exceed the allowances of the stores in
\* use, when none of them has decided too late: whatever fails, is lost or
\* falls back, and however many processes there are.
THEOREM AllowancesSum == LimitSpec => []AllowancesAddUp
<1>1. LimitInit => AdmittedCounted
  BY DEF LimitInit, AdmittedCounted
<1>2. LimitInductive /\ AdmittedCounted /\ [LimitNext]_limitVars => AdmittedCounted'
  BY AdmittedStep DEF LimitInductive
<1>3. LimitInductive /\ AdmittedCounted => AllowancesAddUp
  BY SharesAddUp
<1> QED
  BY <1>1, <1>2, <1>3, LimitInductiveInit, LimitInductiveStep, PTL DEF LimitSpec

-----------------------------------------------------------------------------
(* Sessions in the browser.                                                *)

SessionRec ==
  [who : Users \cup {NoUser}, role : Roles \cup {"none"},
   name : {"none", "given", "chosen"}, token : 0..MaxTokens]

TabRec ==
  [open : BOOLEAN, session : SessionRec, probed : 0..MaxTokens,
   cache : Users \cup {NoUser}, resetting : BOOLEAN]

RequestRec ==
  [tab : Tabs, kind : Signing \cup {"me", "data"}, who : Users \cup {NoUser},
   token : 0..MaxTokens, live : BOOLEAN, state : {"sent", "ok", "401", "failed"},
   got : SessionRec]

Issue == [who : Users, role : Roles \cup {"none"}]

\* A session of a token that was issued, to whom it was issued.
Sound(s) ==
  /\ s \in SessionRec
  /\ s.token \in 0..Len(issued)
  /\ s.token = 0 => s = Nobody
  /\ s.token # 0 => s.who = issued[s.token].who

\* A tab: one that was never opened is empty.
Keeps(m) ==
  /\ m \in TabRec /\ Sound(m.session)
  /\ m.probed \in 0..Len(issued)
  /\ ~m.open => m.session = Nobody

\* A request, whose tab is open.  A probe that is still listened to asks
\* about the token of the tab.
Fits(r) ==
  /\ r \in RequestRec /\ Sound(r.got)
  /\ r.kind \in Signing => r.who \in Users
  /\ r.kind \notin Signing => r.token \in 1..Len(issued)
  /\ r.kind \notin Signing /\ r.state = "ok" => r.got.token = r.token
  /\ tabs[r.tab].open
  /\ r.kind = "me" /\ r.live => tabs[r.tab].session.token = r.token

TabsKeep == tabs \in [Tabs -> TabRec] /\ \A t \in Tabs : Keeps(tabs[t])

StoresKeep ==
  /\ stores \in [{"local"} \cup Tabs -> SUBSET SessionRec]
  /\ \A x \in {"local"} \cup Tabs :
       /\ \A s \in stores[x] : Sound(s)
       /\ \A s, u \in stores[x] : s = u

RequestsFit == \A r \in requests : Fits(r)

Rest ==
  /\ stay \in BOOLEAN
  /\ issued \in Seq(Issue) /\ Len(issued) <= MaxTokens
  /\ roles \in [Users -> Roles \cup {"none"}]
  /\ expired \cup revoked \subseteq DOMAIN issued
  /\ moves \in 0..MaxMoves

Inductive == Rest /\ TabsKeep /\ StoresKeep /\ RequestsFit /\ KeptWhereAsked

\* No token that is gone is there again.
NoneReturns == \A n \in DOMAIN issued : ~Held(n) => ~Held(n)'
-----------------------------------------------------------------------------
(* Helpers.                                                                *)

\* Nobody is a sound session, without a token.
LEMMA NobodyIsSound == Rest => Nobody \in SessionRec /\ Sound(Nobody) /\ Nobody.token = 0
BY AuthAssumption DEF Rest, Nobody, Session, SessionRec, Sound

\* One more token is issued, or none.
IssuedGrows == issued' = issued \/ \E x \in Issue : issued' = Append(issued, x)

\* What was sound stays so when another token is issued.
LEMMA SoundStays ==
  ASSUME Rest, IssuedGrows
  PROVE  /\ Len(issued) <= Len(issued')
         /\ \A n \in 1..Len(issued) : issued'[n] = issued[n]
         /\ \A s : Sound(s) => Sound(s)'
<1>1. Len(issued) \in Nat /\ Len(issued) <= Len(issued') /\ Len(issued') \in Nat
      /\ \A n \in 1..Len(issued) : issued'[n] = issued[n]
  BY DEF Rest, IssuedGrows
<1> QED
  BY <1>1 DEF Sound

\* A store holds at most one session; what comes out of it is sound.
LEMMA HydratedIs ==
  ASSUME Rest, NEW stored \in SUBSET SessionRec,
         \A s \in stored : Sound(s), \A s, u \in stored : s = u
  PROVE  /\ Sound(hydrateSession(stored))
         /\ \/ hydrateSession(stored) = Nobody
            \/ \E s \in stored : hydrateSession(stored).token = s.token
<1>1. CASE \A s \in stored : s.token \in {0} \cup expired
  BY <1>1, NobodyIsSound DEF hydrateSession
<1>2. CASE ~\A s \in stored : s.token \in {0} \cup expired
  <2> DEFINE c == CHOOSE x \in stored : TRUE
  <2>1. c \in stored /\ c.token # 0 /\ Sound(c)
    BY <1>2
  <2> HIDE DEF c
  <2>2. c \in SessionRec /\ c.token \in 1..Len(issued) /\ c.who = issued[c.token].who
    BY <2>1 DEF Sound, Rest
  <2>3. issued[c.token].role \in Roles \cup {"none"}
    <3>1. issued[c.token] \in Issue
      BY <2>2 DEF Rest
    <3> QED
      BY <3>1 DEF Issue
  <2>4. hydrateSession(stored) = [c EXCEPT !.role = issued[c.token].role]
    BY <1>2 DEF hydrateSession, c
  <2>5. /\ [c EXCEPT !.role = issued[c.token].role] \in SessionRec
        /\ [c EXCEPT !.role = issued[c.token].role].token = c.token
        /\ [c EXCEPT !.role = issued[c.token].role].who = c.who
    BY <2>2, <2>3 DEF SessionRec
  <2> QED
    BY <2>1, <2>2, <2>4, <2>5 DEF Sound
<1> QED
  BY <1>1, <1>2

-----------------------------------------------------------------------------
(* The kinds of steps.                                                     *)

\* No request is new, and those that are listened to ask about this token.
Narrowed(t, token) ==
  \A r \in requests' :
    /\ \E q \in requests : r = q \/ r = [q EXCEPT !.live = FALSE]
    /\ r.tab = t /\ r.kind = "me" /\ r.live => r.token = token

\* One tab gets another session, or its user another name: it is stored, and
\* no probe of another token is listened to any more.
LEMMA SessionStep ==
  ASSUME Inductive, Rest', NEW t \in Tabs, NEW m, NEW s, NEW kept,
         Keeps(m), m.open, m.session = s,
         s.token = 0 \/ Held(s.token),
         kept = stores \/ kept = [stores EXCEPT ![t] = {}],
         tabs' = [tabs EXCEPT ![t] = m],
         stores' = setItem(kept, stay, t, s),
         Narrowed(t, s.token),
         UNCHANGED <<stay, issued>>
  PROVE  Inductive' /\ NoneReturns
<1>1. /\ m \in TabRec /\ s \in SessionRec /\ Sound(s)
      /\ tabs \in [Tabs -> TabRec] /\ \A u \in Tabs : Keeps(tabs[u])
  BY DEF Keeps, Sound, Inductive, TabsKeep
<1>2. /\ tabs' \in [Tabs -> TabRec] /\ tabs'[t] = m /\ \A u \in Tabs \ {t} : tabs'[u] = tabs[u]
  BY <1>1
<1>3. \A x : (Sound(x) <=> Sound(x)') /\ (Keeps(x) <=> Keeps(x)')
  BY DEF Sound, Keeps
<1>4. TabsKeep'
  BY <1>1, <1>2, <1>3 DEF TabsKeep
<1>5. /\ kept \in [{"local"} \cup Tabs -> SUBSET SessionRec]
      /\ \A x \in {"local"} \cup Tabs : kept[x] \subseteq stores[x]
  <2>1. stores \in [{"local"} \cup Tabs -> SUBSET SessionRec]
    BY DEF Inductive, StoresKeep
  <2>2. CASE kept = stores
    BY <2>1, <2>2
  <2>3. CASE kept = [stores EXCEPT ![t] = {}]
    BY <2>1, <2>3
  <2> QED
    BY <2>2, <2>3
<1>6. /\ stores' \in [{"local"} \cup Tabs -> SUBSET SessionRec]
      /\ stores'["local"] = (IF stay THEN {s} ELSE {})
      /\ stores'[t] = (IF stay THEN {} ELSE {s})
      /\ \A u \in Tabs \ {t} : stores'[u] = kept[u]
  <2>1. stay \in BOOLEAN
    BY DEF Inductive, Rest
  <2>2. stores' = [kept EXCEPT !["local"] = IF stay THEN {s} ELSE {},
                               ![t] = IF stay THEN {} ELSE {s}]
    BY DEF setItem
  <2> DEFINE a == IF stay THEN {s} ELSE {}
             b == IF stay THEN {} ELSE {s}
  <2>3. a \in SUBSET SessionRec /\ b \in SUBSET SessionRec
    BY <1>1, <2>1
  <2>4. t # "local" /\ "local" \notin Tabs
    BY AuthAssumption
  <2>5. stores' = [kept EXCEPT !["local"] = a, ![t] = b]
    BY <2>2
  <2>6. /\ a = (IF stay THEN {s} ELSE {})
        /\ b = (IF stay THEN {} ELSE {s})
    OBVIOUS
  <2> HIDE DEF a, b
  <2>7. /\ stores' \in [{"local"} \cup Tabs -> SUBSET SessionRec]
        /\ stores'["local"] = a /\ stores'[t] = b
    BY <1>5, <2>3, <2>4, <2>5
  <2>8. \A u \in Tabs \ {t} : stores'[u] = kept[u]
    BY <1>5, <2>4, <2>5
  <2> QED
    BY <2>6, <2>7, <2>8
<1>7. StoresKeep'
  <2>1. \A u \in Tabs \ {t} : /\ \A y \in stores'[u] : Sound(y)'
                              /\ \A y, z \in stores'[u] : y = z
    BY <1>3, <1>5, <1>6 DEF Inductive, StoresKeep
  <2> QED
    BY <1>1, <1>3, <1>6, <2>1 DEF StoresKeep
<1>8. \A r \in requests' : \E q \in requests :
        /\ r \in RequestRec /\ r.tab = q.tab /\ r.kind = q.kind /\ r.who = q.who
        /\ r.token = q.token /\ r.state = q.state /\ r.got = q.got
        /\ r.live => q.live
  <2> SUFFICES ASSUME NEW r \in requests'
               PROVE  \E q \in requests :
        /\ r \in RequestRec /\ r.tab = q.tab /\ r.kind = q.kind /\ r.who = q.who
        /\ r.token = q.token /\ r.state = q.state /\ r.got = q.got
        /\ r.live => q.live
    OBVIOUS
  <2>1. PICK q \in requests : r = q \/ r = [q EXCEPT !.live = FALSE]
    BY DEF Narrowed
  <2>2. q \in RequestRec
    BY DEF Inductive, RequestsFit, Fits
  <2> QED
    BY <2>1, <2>2 DEF RequestRec
<1>9. RequestsFit'
  <2> SUFFICES ASSUME NEW r \in requests'
               PROVE  Fits(r)'
    BY DEF RequestsFit
  <2>1. PICK q \in requests :
        /\ r \in RequestRec /\ r.tab = q.tab /\ r.kind = q.kind /\ r.who = q.who
        /\ r.token = q.token /\ r.state = q.state /\ r.got = q.got
        /\ r.live => q.live
    BY <1>8
  <2>2. Fits(q)
    BY DEF Inductive, RequestsFit
  <2>3. Sound(r.got)' /\ r.tab \in Tabs
    BY <2>1, <2>2 DEF Fits, RequestRec, Sound
  <2>4. tabs'[r.tab].open /\ (r.kind = "me" /\ r.live => tabs'[r.tab].session.token = r.token)
    <3>1. CASE r.tab = t
      BY <1>2, <3>1 DEF Narrowed
    <3>2. CASE r.tab # t
      BY <1>2, <2>1, <2>2, <2>3, <3>2 DEF Fits
    <3> QED
      BY <3>1, <3>2
  <2> QED
    BY <2>1, <2>2, <2>3, <2>4 DEF Fits
<1>10. KeptWhereAsked'
  <2> SUFFICES ASSUME NEW u \in Tabs, \A v \in Tabs \ {u} : ~tabs'[v].open
               PROVE  stores' = [x \in {"local"} \cup Tabs |->
                         IF x = (IF stay' THEN "local" ELSE u) THEN {tabs'[u].session} ELSE {}]
    BY DEF KeptWhereAsked, Alone
  <2>1. u = t
    BY <1>2
  <2>2. Alone(t)
    BY <1>2, <2>1 DEF Alone
  <2>3. \A v \in Tabs \ {t} : stores[v] = {}
    BY <2>2, AuthAssumption DEF Inductive, KeptWhereAsked
  <2>4. \A v \in Tabs \ {t} : stores'[v] = {}
    BY <1>5, <1>6, <2>3
  <2> QED
    BY <1>2, <1>6, <2>1, <2>4, AuthAssumption
<1>11. NoneReturns
  <2> SUFFICES ASSUME NEW n \in DOMAIN issued, Held(n)'
               PROVE  Held(n)
    BY DEF NoneReturns
  <2>1. n # 0
    BY DEF Inductive, Rest
  <2>2. CASE \E u \in Tabs : tabs'[u].session.token = n
    <3>1. PICK u \in Tabs : tabs'[u].session.token = n
      BY <2>2
    <3>2. CASE u = t
      BY <1>2, <2>1, <3>1, <3>2
    <3>3. CASE u # t
      BY <1>2, <3>1, <3>3 DEF Held
    <3> QED
      BY <3>2, <3>3
  <2>3. CASE \E x \in DOMAIN stores' : \E y \in stores'[x] : y.token = n
    <3>0. PICK x \in {"local"} \cup Tabs : \E y \in stores'[x] : y.token = n
      BY <1>6, <2>3
    <3>1. PICK y \in stores'[x] : y.token = n
      BY <3>0
    <3>2. y = s \/ y \in stores[x]
      BY <1>5, <1>6, <3>1
    <3>3. DOMAIN stores = {"local"} \cup Tabs
      BY DEF Inductive, StoresKeep
    <3>4. CASE y = s
      BY <2>1, <3>1, <3>4
    <3>5. CASE y \in stores[x]
      BY <3>1, <3>3, <3>5 DEF Held
    <3> QED
      BY <3>2, <3>4, <3>5
  <2>4. CASE \E r \in requests' : r.kind \in Signing /\ r.got.token = n
    BY <1>8, <2>4 DEF Held
  <2> QED
    BY <2>2, <2>3, <2>4 DEF Held
<1> QED
  BY <1>4, <1>7, <1>9, <1>10, <1>11 DEF Inductive

\* The tabs keep their sessions, the new requests fit.
TabsStay ==
  /\ tabs' \in [Tabs -> TabRec]
  /\ \A u \in Tabs : /\ tabs'[u].session = tabs[u].session
                     /\ tabs'[u].open = tabs[u].open
                     /\ tabs'[u].probed \in 0..Len(issued')

NewFit ==
  \A r \in requests' : r \in requests \/
    /\ Fits(r)'
    /\ r.kind \in Signing /\ r.got.token \in DOMAIN issued => Held(r.got.token)

\* Nobody gets another session, and nothing is stored.
LEMMA QuietStep ==
  ASSUME Inductive, Rest', IssuedGrows, TabsStay, NewFit, UNCHANGED <<stores, stay>>
  PROVE  Inductive' /\ NoneReturns
<1>1. /\ Len(issued) \in Nat /\ Len(issued') \in Nat /\ Len(issued) <= Len(issued')
      /\ \A s : Sound(s) => Sound(s)'
  BY SoundStays DEF Inductive, Rest
<1>2. TabsKeep'
  <2> SUFFICES ASSUME NEW u \in Tabs
               PROVE  Keeps(tabs[u])'
    BY DEF TabsKeep, TabsStay
  <2>1. Keeps(tabs[u]) /\ tabs'[u] \in TabRec
    BY DEF Inductive, TabsKeep, TabsStay
  <2> QED
    BY <1>1, <2>1 DEF Keeps, TabsStay
<1>3. StoresKeep'
  BY <1>1 DEF Inductive, StoresKeep
<1>4. RequestsFit'
  <2> SUFFICES ASSUME NEW r \in requests, r \in requests'
               PROVE  Fits(r)'
    BY DEF RequestsFit, NewFit
  <2>1. Fits(r)
    BY DEF Inductive, RequestsFit
  <2>2. r.tab \in Tabs /\ Sound(r.got)'
    BY <1>1, <2>1 DEF Fits, RequestRec
  <2>3. tabs'[r.tab].open /\ tabs'[r.tab].session = tabs[r.tab].session
    BY <2>1, <2>2 DEF Fits, TabsStay
  <2> QED
    BY <1>1, <2>1, <2>2, <2>3 DEF Fits
<1>5. KeptWhereAsked'
  <2>1. ASSUME NEW t \in Tabs, Alone(t)'
        PROVE  stores = [x \in {"local"} \cup Tabs |->
                 IF x = (IF stay THEN "local" ELSE t) THEN {tabs'[t].session} ELSE {}]
    <3>1. Alone(t) /\ tabs'[t].session = tabs[t].session
      BY <2>1 DEF Alone, TabsStay
    <3>2. stores = [x \in {"local"} \cup Tabs |->
             IF x = (IF stay THEN "local" ELSE t) THEN {tabs[t].session} ELSE {}]
      BY <3>1 DEF Inductive, KeptWhereAsked
    <3> QED
      BY <3>1, <3>2, Zenon
  <2> QED
    BY <2>1, Zenon DEF KeptWhereAsked
<1>6. NoneReturns
  <2> SUFFICES ASSUME NEW n \in DOMAIN issued, Held(n)'
               PROVE  Held(n)
    BY DEF NoneReturns
  <2>1. CASE \E u \in Tabs : tabs'[u].session.token = n
    BY <2>1 DEF Held, TabsStay
  <2>2. CASE \E x \in DOMAIN stores' : \E y \in stores'[x] : y.token = n
    BY <2>2 DEF Held
  <2>3. CASE \E r \in requests' : r.kind \in Signing /\ r.got.token = n
    BY <2>3 DEF Held, NewFit
  <2> QED
    BY <2>1, <2>2, <2>3 DEF Held
<1> QED
  BY <1>2, <1>3, <1>4, <1>5, <1>6 DEF Inductive

\* The preference is set, and the sign-in is asked for.
LEMMA LoginStep ==
  ASSUME Inductive, Rest', NEW t \in Tabs, NEW u \in Users, NEW keep \in BOOLEAN,
         SubmitLogin(t, u, keep)
  PROVE  Inductive' /\ NoneReturns
<1> DEFINE r == NewRequest(t, "login", u, 0)
<1>1. /\ tabs[t].open /\ tabs[t].session.token = 0
      /\ stay' = keep /\ stores' = MoveStored(stores, t, keep)
      /\ requests' = requests \cup {r}
      /\ tabs' = tabs /\ issued' = issued
  BY DEF SubmitLogin, Ask, SignedIn, server
<1>2. /\ stores \in [{"local"} \cup Tabs -> SUBSET SessionRec]
      /\ \A x \in {"local"} \cup Tabs :
           /\ \A s \in stores[x] : Sound(s)
           /\ \A s, v \in stores[x] : s = v
  BY DEF Inductive, StoresKeep
<1>3. \A s : Sound(s) <=> Sound(s)'
  BY <1>1 DEF Sound
<1>4. TabsKeep'
  BY <1>1 DEF Inductive, TabsKeep, Keeps, Sound
<1>5. /\ stores' \in [{"local"} \cup Tabs -> SUBSET SessionRec]
      /\ \A x \in {"local"} \cup Tabs :
           stores'[x] = {} \/ \E y \in {"local"} \cup Tabs : stores'[x] = stores[y]
  BY <1>1, <1>2, AuthAssumption DEF MoveStored
<1>6. StoresKeep'
  <2> SUFFICES ASSUME NEW x \in {"local"} \cup Tabs
               PROVE  /\ \A s \in stores'[x] : Sound(s)'
                      /\ \A s, v \in stores'[x] : s = v
    BY <1>5 DEF StoresKeep
  <2> QED
    BY <1>2, <1>3, <1>5
<1>7. /\ r \in RequestRec /\ r.tab = t /\ r.kind = "login" /\ r.got = Nobody
      /\ r.who = u /\ Nobody.token = 0 /\ Sound(Nobody)
  BY NobodyIsSound, AuthAssumption DEF Inductive, NewRequest, RequestRec, Signing
<1> HIDE DEF r
<1>8. RequestsFit'
  <2> SUFFICES ASSUME NEW q \in requests'
               PROVE  Fits(q)'
    BY DEF RequestsFit
  <2>1. CASE q \in requests
    BY <1>1, <1>3, <2>1 DEF Inductive, RequestsFit, Fits
  <2>2. CASE q = r
    BY <1>1, <1>3, <1>7, <2>2 DEF Fits, Signing
  <2> QED
    BY <1>1, <2>1, <2>2
<1>9. KeptWhereAsked'
  <2> SUFFICES ASSUME NEW v \in Tabs, \A w \in Tabs \ {v} : ~tabs[w].open
               PROVE  stores' = [x \in {"local"} \cup Tabs |->
                         IF x = (IF keep THEN "local" ELSE v) THEN {tabs[v].session} ELSE {}]
    BY <1>1, ZenonT(60) DEF KeptWhereAsked, Alone
  <2>1. v = t
    BY <1>1
  <2>2. Alone(t)
    BY <2>1 DEF Alone
  <2>3. stores = [x \in {"local"} \cup Tabs |->
            IF x = (IF stay THEN "local" ELSE t) THEN {tabs[t].session} ELSE {}]
    BY <2>2 DEF Inductive, KeptWhereAsked
  <2>4. stay \in BOOLEAN
    BY DEF Inductive, Rest
  <2>5. /\ stores["local"] = (IF stay THEN {tabs[t].session} ELSE {})
        /\ stores[t] = (IF stay THEN {} ELSE {tabs[t].session})
        /\ \A x \in Tabs \ {t} : stores[x] = {}
    BY <2>3, AuthAssumption
  <2>6. /\ stores'["local"] = (IF keep THEN {tabs[t].session} ELSE {})
        /\ stores'[t] = (IF keep THEN {} ELSE {tabs[t].session})
        /\ \A x \in Tabs \ {t} : stores'[x] = {}
    BY <1>1, <1>2, <2>4, <2>5, AuthAssumption DEF MoveStored
  <2> QED
    BY <1>5, <2>1, <2>6, AuthAssumption
<1>10. NoneReturns
  <2> SUFFICES ASSUME NEW n \in DOMAIN issued, Held(n)'
               PROVE  Held(n)
    BY DEF NoneReturns
  <2>1. n # 0
    BY DEF Inductive, Rest
  <2>2. CASE \E v \in Tabs : tabs'[v].session.token = n
    BY <1>1, <2>2 DEF Held
  <2>3. CASE \E x \in DOMAIN stores' : \E y \in stores'[x] : y.token = n
    BY <1>2, <1>5, <2>3 DEF Held
  <2>4. CASE \E q \in requests' : q.kind \in Signing /\ q.got.token = n
    BY <1>1, <1>7, <2>1, <2>4 DEF Held
  <2> QED
    BY <2>2, <2>3, <2>4 DEF Held
<1> QED
  BY <1>4, <1>6, <1>8, <1>9, <1>10 DEF Inductive
-----------------------------------------------------------------------------
(* The actions.                                                            *)

\* A request that is cancelled, or whose tab has a new document, is not
\* listened to.
LEMMA CancelledIs ==
  ASSUME Inductive, NEW t, NEW rs \in SUBSET requests, requests' = Cancelled(rs, t),
         NEW token
  PROVE  Narrowed(t, token)
<1> SUFFICES ASSUME NEW r \in requests'
             PROVE  /\ \E q \in requests : r = q \/ r = [q EXCEPT !.live = FALSE]
                    /\ r.tab = t /\ r.kind = "me" /\ r.live => r.token = token
  BY DEF Narrowed
<1>1. PICK q \in rs : r = IF q.tab = t /\ q.kind = "me" THEN [q EXCEPT !.live = FALSE] ELSE q
  BY DEF Cancelled
<1>2. q \in RequestRec
  BY DEF Inductive, RequestsFit, Fits
<1>3. [q EXCEPT !.live = FALSE].live = FALSE
  BY <1>2 DEF RequestRec
<1> QED
  BY <1>1, <1>3

\* So is none of a tab whose document is gone.
LEMMA DroppedIs ==
  ASSUME NEW t, requests' = {r \in requests : r.tab # t}, NEW token
  PROVE  Narrowed(t, token)
BY DEF Narrowed

\* A tab whose session is replaced, the rest of it forgotten or kept.
LEMMA ClearedTab ==
  ASSUME NEW c \in TabRec, NEW s \in SessionRec
  PROVE  LET m == [c EXCEPT !.session = s, !.probed = 0, !.resetting = TRUE] IN
         m \in TabRec /\ m.open = c.open /\ m.session = s /\ m.probed = 0
<1>1. 0 \in 0..MaxTokens
  BY AuthAssumption
<1> QED
  BY <1>1 DEF TabRec

\* setSession leaves the rest of the tab alone.
LEMMA SessionChanged ==
  ASSUME NEW c \in TabRec, NEW s \in SessionRec
  PROVE  LET m == [c EXCEPT !.session = s] IN
         m \in TabRec /\ m.open = c.open /\ m.session = s /\ m.probed = c.probed
BY DEF TabRec

\* The same, with the token that was asked about.
LEMMA SessionProbed ==
  ASSUME NEW c \in TabRec, NEW s \in SessionRec, NEW n \in 0..MaxTokens
  PROVE  LET m == [c EXCEPT !.session = s, !.probed = n] IN
         m \in TabRec /\ m.open = c.open /\ m.session = s /\ m.probed = n
BY DEF TabRec

\* updateProfile changes the name and nothing else.
LEMMA NameChanged ==
  ASSUME NEW s \in SessionRec
  PROVE  LET l == [s EXCEPT !.name = "chosen"] IN
         l \in SessionRec /\ l.token = s.token /\ l.who = s.who
BY DEF SessionRec

\* A probe that failed only makes its token known.
LEMMA ProbedChanged ==
  ASSUME NEW c \in TabRec, NEW n \in 0..MaxTokens
  PROVE  LET m == [c EXCEPT !.probed = n] IN
         m \in TabRec /\ m.session = c.session /\ m.open = c.open /\ m.probed = n
BY DEF TabRec

\* A list only fills the stores.
LEMMA CacheChanged ==
  ASSUME NEW c \in TabRec, NEW u \in Users \cup {NoUser}
  PROVE  LET m == [c EXCEPT !.cache = u] IN
         m \in TabRec /\ m.session = c.session /\ m.open = c.open /\ m.probed = c.probed
BY DEF TabRec

\* resetClientState only empties them.
LEMMA ResetChanged ==
  ASSUME NEW c \in TabRec
  PROVE  LET m == [c EXCEPT !.resetting = FALSE, !.cache = NoUser] IN
         m \in TabRec /\ m.session = c.session /\ m.open = c.open /\ m.probed = c.probed
BY DEF TabRec

\* clearSession, in this document or with a new one.
LEMMA ClearKeeps ==
  ASSUME Inductive, Rest', NEW t \in Tabs, NEW rs \in SUBSET requests, tabs[t].open,
         clearSession(t, rs), UNCHANGED <<stay, issued>>
  PROVE  Inductive' /\ NoneReturns
<1> DEFINE m == [tabs[t] EXCEPT !.session = Nobody, !.probed = 0, !.resetting = TRUE]
<1>1. tabs[t] \in TabRec
  BY DEF Inductive, TabsKeep
<1>2. Nobody \in SessionRec /\ Sound(Nobody) /\ Nobody.token = 0
  BY NobodyIsSound DEF Inductive
<1>3. m \in TabRec /\ m.open = tabs[t].open /\ m.session = Nobody /\ m.probed = 0
  BY <1>1, <1>2, ClearedTab
<1>4. tabs' = [tabs EXCEPT ![t] = m] /\ stores' = setItem(stores, stay, t, Nobody)
  BY DEF clearSession, Put, Ended
<1> HIDE DEF m
<1>5. Keeps(m)
  <2>1. 0 \in 0..Len(issued)
    BY DEF Inductive, Rest
  <2> QED
    BY <1>2, <1>3, <2>1 DEF Keeps
<1>6. Narrowed(t, Nobody.token)
  BY CancelledIs DEF clearSession
<1> QED
  BY <1>2, <1>3, <1>4, <1>5, <1>6, SessionStep

\* A document that is loaded anew, with a sound session.
LEMMA FreshTab ==
  ASSUME Rest, NEW s, Sound(s)
  PROVE  Keeps(Tab(s)) /\ Tab(s).open /\ Tab(s).session = s
<1>1. 0 \in 0..Len(issued)
  BY DEF Rest
<1> QED
  BY <1>1, AuthAssumption DEF Keeps, Tab, TabRec, Sound

\* clearSession and redirectToLogin.
LEMMA DismissKeeps ==
  ASSUME Inductive, Rest', NEW t \in Tabs, Dismiss(t, requests), UNCHANGED <<stay, issued>>
  PROVE  Inductive' /\ NoneReturns
<1>1. Nobody \in SessionRec /\ Sound(Nobody) /\ Nobody.token = 0
  BY NobodyIsSound DEF Inductive
<1>2. Keeps(Tab(Nobody)) /\ Tab(Nobody).open /\ Tab(Nobody).session = Nobody
  BY <1>1, FreshTab DEF Inductive
<1>3. /\ tabs' = [tabs EXCEPT ![t] = Tab(Nobody)]
      /\ stores' = setItem(stores, stay, t, Nobody)
  BY DEF Dismiss, Put
<1>4. Narrowed(t, Nobody.token)
  BY DroppedIs DEF Dismiss
<1> QED
  BY <1>1, <1>2, <1>3, <1>4, SessionStep

\* A reload, and a tab opened anew.
LEMMA OpenKeeps ==
  ASSUME Inductive, Rest', NEW t \in Tabs, NEW kept,
         kept = stores \/ kept = [stores EXCEPT ![t] = {}],
         NEW s, s = hydrateSession(getItem(kept, t)),
         tabs' = [tabs EXCEPT ![t] = Tab(s)],
         stores' = setItem(kept, stay, t, s),
         requests' = {r \in requests : r.tab # t},
         UNCHANGED <<stay, issued>>
  PROVE  Inductive' /\ NoneReturns
<1> DEFINE stored == getItem(kept, t)
<1>1. /\ stores \in [{"local"} \cup Tabs -> SUBSET SessionRec]
      /\ \A x \in {"local"} \cup Tabs :
           /\ \A y \in stores[x] : Sound(y)
           /\ \A y, z \in stores[x] : y = z
  BY DEF Inductive, StoresKeep
<1>2. \A x \in {"local"} \cup Tabs : kept[x] \subseteq stores[x]
  <2>1. CASE kept = stores
    BY <2>1
  <2>2. CASE kept = [stores EXCEPT ![t] = {}]
    BY <1>1, <2>2
  <2> QED
    BY <2>1, <2>2
<1>3. PICK x \in {"local"} \cup Tabs : stored \subseteq stores[x]
  BY <1>2 DEF getItem
<1> HIDE DEF stored
<1>4. /\ stored \in SUBSET SessionRec /\ \A y \in stored : Sound(y)
      /\ \A y, z \in stored : y = z
  BY <1>1, <1>3
<1>5. Sound(s) /\ (s = Nobody \/ \E y \in stored : s.token = y.token)
  BY <1>4, HydratedIs DEF Inductive, stored
<1>6. s.token = 0 \/ Held(s.token)
  <2>1. CASE s = Nobody
    BY <2>1, NobodyIsSound DEF Inductive
  <2>2. CASE \E y \in stored : s.token = y.token
    BY <1>1, <1>3, <2>2 DEF Held
  <2> QED
    BY <1>5, <2>1, <2>2
<1>7. Keeps(Tab(s)) /\ Tab(s).open /\ Tab(s).session = s
  BY <1>5, FreshTab DEF Inductive
<1>8. Narrowed(t, s.token)
  BY DroppedIs
<1> QED
  BY <1>6, <1>7, <1>8, SessionStep

\* The sign-in or registration that came.
LEMMA TakeSigningKeeps ==
  ASSUME Inductive, Rest', NEW r \in requests, r.kind \in Signing,
         TakeSigning(r), UNCHANGED <<stay, issued>>
  PROVE  Inductive' /\ NoneReturns
<1> DEFINE t == r.tab
           m == [tabs[t] EXCEPT !.session = r.got]
<1>1. /\ r \in RequestRec /\ Sound(r.got) /\ t \in Tabs /\ tabs[t].open
      /\ r.got \in SessionRec
  BY DEF Inductive, RequestsFit, Fits, RequestRec, Sound
<1>2. Keeps(tabs[t]) /\ tabs[t] \in TabRec
  BY <1>1 DEF Inductive, TabsKeep
<1>3. m \in TabRec /\ m.open = tabs[t].open /\ m.session = r.got /\ m.probed = tabs[t].probed
  BY <1>1, <1>2, SessionChanged
<1>4. /\ tabs' = [tabs EXCEPT ![t] = m] /\ stores' = setItem(stores, stay, t, r.got)
      /\ requests' = Cancelled(requests \ {r}, t)
  BY DEF TakeSigning, Put
<1>5. Held(r.got.token)
  BY DEF Held
<1> HIDE DEF t, m
<1>6. Keeps(m)
  BY <1>1, <1>2, <1>3 DEF Keeps
<1>7. Narrowed(t, r.got.token)
  BY <1>4, CancelledIs
<1> QED
  BY <1>1, <1>3, <1>4, <1>5, <1>6, <1>7, SessionStep

\* The profile that a probe brought.
LEMMA TakeProbeKeeps ==
  ASSUME Inductive, Rest', NEW r \in requests, r.kind = "me", r.live, r.state = "ok",
         TakeProbe(r), UNCHANGED <<stay, issued>>
  PROVE  Inductive' /\ NoneReturns
<1> DEFINE t == r.tab
           old == tabs[t]
           s == IF old.session.who = r.got.who
                THEN [old.session EXCEPT !.role = r.got.role, !.name = r.got.name,
                                         !.token = r.token]
                ELSE r.got
           m == [old EXCEPT !.session = s, !.probed = r.token]
<1>1. /\ r \in RequestRec /\ Sound(r.got) /\ t \in Tabs /\ old.open
      /\ r.token \in 1..Len(issued) /\ r.got.token = r.token
      /\ old.session.token = r.token
  BY DEF Inductive, RequestsFit, Fits, RequestRec, Signing
<1>2. Keeps(old) /\ old \in TabRec /\ Sound(old.session)
  BY <1>1 DEF Inductive, TabsKeep, Keeps
<1>3. /\ tabs' = [tabs EXCEPT ![t] = m] /\ stores' = setItem(stores, stay, t, s)
      /\ requests' = requests \ {r}
  BY DEF TakeProbe, Listens, Put
<1>4. Narrowed(t, r.token)
  <2> SUFFICES ASSUME NEW q \in requests, q.tab = t, q.kind = "me", q.live
               PROVE  q.token = r.token
    BY <1>3 DEF Narrowed
  <2> QED
    BY <1>1 DEF Inductive, RequestsFit, Fits
<1>5. Held(r.token)
  BY <1>1 DEF Held
<1>6. r.got \in SessionRec /\ old.session \in SessionRec /\ r.token \in 0..MaxTokens
  BY <1>1, <1>2 DEF Sound, RequestRec
<1>7. Sound(s) /\ s \in SessionRec /\ s.token = r.token
  <2>1. CASE old.session.who = r.got.who
    <3>0. PICK o \in SessionRec : o = old.session
      BY <1>6
    <3> DEFINE l == [o EXCEPT !.role = r.got.role, !.name = r.got.name, !.token = r.token]
    <3>1. l \in SessionRec /\ l.token = r.token /\ l.who = o.who
      <4>1. r.got \in SessionRec /\ r.token \in 0..MaxTokens
        BY <1>6
      <4> HIDE DEF old, s, m, t
      <4> QED
        BY <3>0, <4>1 DEF SessionRec
    <3>2. s = l /\ o.who = old.session.who
      BY <2>1, <3>0
    <3> HIDE DEF s, l
    <3> QED
      BY <1>1, <1>2, <3>1, <3>2 DEF Sound
  <2>2. CASE old.session.who # r.got.who
    BY <1>1, <1>6, <2>2
  <2> QED
    BY <2>1, <2>2
<1>8. m \in TabRec /\ m.open = old.open /\ m.session = s /\ m.probed = r.token
  BY <1>2, <1>6, <1>7, SessionProbed, ZenonT(60)
<1> HIDE DEF t, old, s, m
<1>9. Keeps(m)
  BY <1>1, <1>7, <1>8 DEF Keeps
<1> QED
  BY <1>1, <1>3, <1>4, <1>5, <1>7, <1>8, <1>9, SessionStep

\* A profile is edited in the page.
LEMMA ProfileKeeps ==
  ASSUME Inductive, Rest', NEW t \in Tabs, updateProfile(t)
  PROVE  Inductive' /\ NoneReturns
<1> DEFINE s == [tabs[t].session EXCEPT !.name = "chosen"]
           m == [tabs[t] EXCEPT !.session = s]
<1>1. /\ Keeps(tabs[t]) /\ tabs[t] \in TabRec /\ Sound(tabs[t].session)
      /\ tabs[t].session \in SessionRec
  BY DEF Inductive, TabsKeep, Keeps, Sound
<1>2. tabs[t].session.token # 0 /\ tabs[t].open
  BY <1>1, NobodyIsSound DEF Inductive, Keeps, updateProfile, Shown, SignedIn
<1>3. s \in SessionRec /\ s.token = tabs[t].session.token /\ s.who = tabs[t].session.who
  BY <1>1, NameChanged
<1>4. /\ tabs' = [tabs EXCEPT ![t] = m] /\ stores' = setItem(stores, stay, t, s)
      /\ requests' = requests /\ stay' = stay /\ issued' = issued
  BY DEF updateProfile, Put, server
<1>5. Sound(s)
  BY <1>1, <1>2, <1>3 DEF Sound
<1>6. m \in TabRec /\ m.open = tabs[t].open /\ m.session = s /\ m.probed = tabs[t].probed
  BY <1>1, <1>3, SessionChanged
<1>7. Held(s.token)
  BY <1>3 DEF Held
<1> HIDE DEF s, m
<1>8. Keeps(m)
  BY <1>1, <1>2, <1>5, <1>6 DEF Keeps
<1>9. Narrowed(t, s.token)
  BY <1>3, <1>4 DEF Narrowed, Inductive, RequestsFit, Fits
<1> QED
  BY <1>2, <1>4, <1>6, <1>7, <1>8, <1>9, SessionStep

\* What is kept beside the session changes, requests may go.
LEMMA FieldKeeps ==
  ASSUME Inductive, Rest', NEW t \in Tabs, NEW m \in TabRec,
         m.session = tabs[t].session, m.open = tabs[t].open,
         m.probed \in 0..Len(issued),
         tabs' = [tabs EXCEPT ![t] = m], requests' \subseteq requests,
         UNCHANGED <<stores, stay, issued>>
  PROVE  Inductive' /\ NoneReturns
<1>1. IssuedGrows /\ NewFit
  BY DEF IssuedGrows, NewFit
<1>2. tabs \in [Tabs -> TabRec] /\ \A u \in Tabs : tabs[u].probed \in 0..Len(issued)
  BY DEF Inductive, TabsKeep, Keeps
<1>3. TabsStay
  BY <1>2 DEF TabsStay
<1> QED
  BY <1>1, <1>3, QuietStep

\* Nothing but requests and the server's tables changes.
LEMMA CallKeeps ==
  ASSUME Inductive, Rest', IssuedGrows, NewFit, UNCHANGED <<tabs, stores, stay>>
  PROVE  Inductive' /\ NoneReturns
<1>1. Len(issued) <= Len(issued') /\ Len(issued) \in Nat /\ Len(issued') \in Nat
  BY SoundStays DEF Inductive, Rest
<1>2. TabsStay
  BY <1>1 DEF TabsStay, Inductive, TabsKeep, Keeps
<1> QED
  BY <1>2, QuietStep

\* A request is sent.
LEMMA AskKeeps ==
  ASSUME Inductive, Rest', NEW q, Fits(q), q.got = Nobody, Ask(q),
         UNCHANGED <<tabs, stores, stay, issued>>
  PROVE  Inductive' /\ NoneReturns
<1>1. Fits(q)'
  BY DEF Fits, Sound
<1>2. IssuedGrows
  BY DEF IssuedGrows
<1>3. NewFit
  <2>1. q.got.token \notin DOMAIN issued
    BY NobodyIsSound DEF Inductive, Rest
  <2> QED
    BY <1>1, <2>1 DEF NewFit, Ask
<1> QED
  BY <1>2, <1>3, CallKeeps

\* A request that a tab sends.
LEMMA RequestFits ==
  ASSUME Inductive, NEW t \in Tabs, tabs[t].open,
         NEW kind \in Signing \cup {"me", "data"}, NEW who \in Users \cup {NoUser},
         NEW token \in 0..MaxTokens,
         kind \in Signing => who \in Users,
         kind \notin Signing => token \in 1..Len(issued) /\ token = tabs[t].session.token
  PROVE  Fits(NewRequest(t, kind, who, token)) /\ NewRequest(t, kind, who, token).got = Nobody
<1>1. Nobody \in SessionRec /\ Sound(Nobody)
  BY NobodyIsSound DEF Inductive
<1>2. NewRequest(t, kind, who, token) \in RequestRec
  BY <1>1 DEF NewRequest, RequestRec
<1> QED
  BY <1>1, <1>2 DEF Fits, NewRequest, Signing

\* RegisterPage sends its form.
LEMMA RegisterKeeps ==
  ASSUME Inductive, Rest', NEW t \in Tabs, NEW u \in Users, SubmitRegister(t, u)
  PROVE  Inductive' /\ NoneReturns
<1>1. /\ tabs[t].open /\ Ask(NewRequest(t, "register", u, 0))
      /\ UNCHANGED <<tabs, stores, stay, issued>>
  BY DEF SubmitRegister, server
<1>2. /\ Fits(NewRequest(t, "register", u, 0))
      /\ NewRequest(t, "register", u, 0).got = Nobody
  BY <1>1, RequestFits, AuthAssumption DEF Signing
<1> QED
  BY <1>1, <1>2, AskKeeps

\* Only an open tab has a session.
LEMMA SignedInOpen ==
  ASSUME Inductive, NEW t \in Tabs, SignedIn(t)
  PROVE  tabs[t].open
BY NobodyIsSound DEF Inductive, TabsKeep, Keeps, SignedIn

\* The guard's probe and a list: sent, unless the token is too old.
LEMMA BearerKeeps ==
  ASSUME Inductive, Rest', NEW t \in Tabs, NEW kind \in {"me", "data"},
         SignedIn(t), UNCHANGED <<stay, issued>>,
         IF tabs[t].session.token \in expired THEN Dismiss(t, requests)
         ELSE /\ Ask(NewRequest(t, kind, NoUser, tabs[t].session.token))
              /\ UNCHANGED <<tabs, stores>>
  PROVE  Inductive' /\ NoneReturns
<1>1. CASE tabs[t].session.token \in expired
  BY <1>1, DismissKeeps
<1>2. CASE tabs[t].session.token \notin expired
  <2>1. Keeps(tabs[t]) /\ Sound(tabs[t].session)
    BY DEF Inductive, TabsKeep, Keeps
  <2>2. tabs[t].session.token \in 1..Len(issued) /\ tabs[t].session.token \in 0..MaxTokens
    BY <2>1 DEF SignedIn, Sound, SessionRec, Inductive, Rest
  <2>3. tabs[t].open
    BY <2>1, NobodyIsSound DEF Inductive, SignedIn, Keeps
  <2> DEFINE q == NewRequest(t, kind, NoUser, tabs[t].session.token)
  <2>4. Fits(q) /\ q.got = Nobody
    BY <2>2, <2>3, RequestFits DEF Signing
  <2>5. Ask(q) /\ UNCHANGED <<tabs, stores, stay, issued>>
    BY <1>2
  <2> HIDE DEF q
  <2> QED
    BY <2>4, <2>5, AskKeeps
<1> QED
  BY <1>1, <1>2

\* A request with its answer.
LEMMA AnswerIs ==
  ASSUME NEW r \in RequestRec, NEW got \in SessionRec
  PROVE  LET a == [r EXCEPT !.state = "ok", !.got = got] IN
         /\ a \in RequestRec /\ a.tab = r.tab /\ a.kind = r.kind /\ a.who = r.who
         /\ a.token = r.token /\ a.got = got /\ a.state = "ok" /\ a.live = r.live
BY DEF RequestRec

\* A request that is refused or lost.
LEMMA NoAnswerIs ==
  ASSUME NEW r \in RequestRec, NEW state \in {"401", "failed"}
  PROVE  LET a == [r EXCEPT !.state = state] IN
         /\ a \in RequestRec /\ a.tab = r.tab /\ a.kind = r.kind /\ a.who = r.who
         /\ a.token = r.token /\ a.got = r.got /\ a.state = state /\ a.live = r.live
BY DEF RequestRec

\* The server answers.
LEMMA ServeKeeps ==
  ASSUME Inductive, Rest', NEW r \in requests, Serve(r)
  PROVE  Inductive' /\ NoneReturns
<1>1. /\ Fits(r) /\ r \in RequestRec /\ r.tab \in Tabs
      /\ UNCHANGED <<tabs, stores, stay>>
  BY DEF Inductive, RequestsFit, Fits, RequestRec, Serve
<1>2. /\ issued \in Seq(Issue) /\ Len(issued) \in Nat
      /\ roles \in [Users -> Roles \cup {"none"}]
  BY DEF Inductive, Rest
<1>3. CASE ServeSigning(r)
  <2> DEFINE role == IF r.kind = "register" THEN "student" ELSE roles[r.who]
             x == [who |-> r.who, role |-> role]
  <2>0. PICK got : got = Session(r.who, role, "given", Len(issued'))
    OBVIOUS
  <2> DEFINE a == [r EXCEPT !.state = "ok", !.got = got]
  <2>1. /\ r.kind \in Signing /\ Len(issued) < MaxTokens
        /\ issued' = Append(issued, x)
        /\ requests' = (requests \ {r}) \cup {a}
    BY <1>3, <2>0 DEF ServeSigning, Answer
  <2>2. r.who \in Users /\ role \in Roles \cup {"none"} /\ x \in Issue
    BY <1>1, <1>2, <2>1 DEF Fits, Issue, Roles
  <2>3. IssuedGrows
    BY <2>1, <2>2 DEF IssuedGrows
  <2>4. /\ Len(issued') = Len(issued) + 1 /\ issued'[Len(issued')] = x
        /\ Len(issued') \in 1..MaxTokens /\ x.who = r.who
    BY <1>2, <2>1, AuthAssumption
  <2>5. got \in SessionRec /\ got.token = Len(issued') /\ got.who = r.who
    <3> HIDE DEF role, x
    <3> QED
      BY <2>0, <2>2, <2>4 DEF Session, SessionRec
  <2> HIDE DEF role
  <2>6. Sound(got)'
    BY <2>4, <2>5 DEF Sound
  <2>7. /\ a \in RequestRec /\ a.tab = r.tab /\ a.kind = r.kind /\ a.who = r.who
        /\ a.token = r.token /\ a.got = got /\ a.state = "ok"
    BY <1>1, <2>5, AnswerIs
  <2> HIDE DEF a
  <2>8. Fits(a)'
    BY <1>1, <2>1, <2>6, <2>7 DEF Fits, Signing
  <2>9. a.got.token \notin DOMAIN issued
    BY <1>2, <2>4, <2>5, <2>7
  <2>10. NewFit
    BY <2>1, <2>8, <2>9 DEF NewFit
  <2> QED
    BY <1>1, <2>3, <2>10, CallKeeps
<1>4. CASE ServeBearer(r)
  <2> DEFINE who == issued[r.token].who
             lost == [r EXCEPT !.state = "401"]
  <2>0. PICK got : got = Session(who, roles[who], "given", r.token)
    OBVIOUS
  <2> DEFINE a == [r EXCEPT !.state = "ok", !.got = got]
  <2>1. /\ r.kind \notin Signing /\ issued' = issued
        /\ requests' = (requests \ {r}) \cup {IF r.token \in revoked THEN lost ELSE a}
    BY <1>4, <2>0 DEF ServeBearer, Answer, server
  <2>2. r.token \in 1..Len(issued) /\ r.token \in 0..MaxTokens
    BY <1>1, <2>1 DEF Fits, RequestRec
  <2>3. who \in Users
    <3>1. issued[r.token] \in Issue
      BY <1>2, <2>2
    <3> QED
      BY <3>1 DEF Issue
  <2>4. got \in SessionRec /\ got.token = r.token /\ got.who = issued[r.token].who
    BY <1>2, <2>0, <2>2, <2>3 DEF Session, SessionRec
  <2> HIDE DEF who
  <2>5. Sound(got)'
    BY <2>1, <2>2, <2>4 DEF Sound
  <2>6. /\ a \in RequestRec /\ a.tab = r.tab /\ a.kind = r.kind /\ a.who = r.who
        /\ a.token = r.token /\ a.got = got /\ a.state = "ok" /\ a.live = r.live
    BY <1>1, <2>4, AnswerIs
  <2>7. /\ lost \in RequestRec /\ lost.tab = r.tab /\ lost.kind = r.kind /\ lost.who = r.who
        /\ lost.token = r.token /\ lost.got = r.got /\ lost.state = "401" /\ lost.live = r.live
    BY <1>1, NoAnswerIs
  <2> HIDE DEF a, lost
  <2>8. Fits(a)'
    BY <1>1, <2>1, <2>2, <2>4, <2>5, <2>6 DEF Fits
  <2>9. Fits(lost)'
    BY <1>1, <2>1, <2>7 DEF Fits, Sound
  <2>10. NewFit
    BY <2>1, <2>6, <2>7, <2>8, <2>9 DEF NewFit
  <2> QED
    BY <1>1, <2>1, <2>10, CallKeeps DEF IssuedGrows
<1>5. CASE Fail(r)
  <2> DEFINE a == [r EXCEPT !.state = "failed"]
  <2>1. issued' = issued /\ requests' = (requests \ {r}) \cup {a}
    BY <1>5 DEF Fail, Answer, server
  <2>2. /\ a \in RequestRec /\ a.tab = r.tab /\ a.kind = r.kind /\ a.who = r.who
        /\ a.token = r.token /\ a.got = r.got /\ a.state = "failed" /\ a.live = r.live
    BY <1>1, NoAnswerIs
  <2> HIDE DEF a
  <2>3. Fits(a)'
    BY <1>1, <2>1, <2>2 DEF Fits, Sound
  <2>4. NewFit
    BY <2>1, <2>2, <2>3 DEF NewFit, Held
  <2> QED
    BY <1>1, <2>1, <2>4, CallKeeps DEF IssuedGrows
<1> QED
  BY <1>3, <1>4, <1>5 DEF Serve

\* The browser takes an answer.
LEMMA TakeKeeps ==
  ASSUME Inductive, Rest', NEW r \in requests, Take(r)
  PROVE  Inductive' /\ NoneReturns
<1>1. /\ Fits(r) /\ r \in RequestRec /\ r.tab \in Tabs /\ tabs[r.tab].open
      /\ UNCHANGED <<stay, issued>>
      /\ Keeps(tabs[r.tab]) /\ tabs[r.tab] \in TabRec
  BY DEF Inductive, RequestsFit, Fits, RequestRec, Take, server, TabsKeep
<1>2. CASE Unauthorized(r)
  BY <1>1, <1>2, ClearKeeps, DismissKeeps DEF Unauthorized
<1>3. CASE r.kind \in Signing /\ TakeSigning(r)
  BY <1>1, <1>3, TakeSigningKeeps
<1>4. CASE requests' \subseteq requests /\ UNCHANGED <<tabs, stores>>
  BY <1>1, <1>4, CallKeeps DEF IssuedGrows, NewFit
<1>5. CASE r.state # "401" /\ r.kind = "me" /\ TakeProbe(r)
  <2>1. CASE ~r.live
    BY <1>4, <1>5, <2>1 DEF TakeProbe, Listens
  <2>2. CASE r.live /\ r.state = "ok"
    BY <1>1, <1>5, <2>2, TakeProbeKeeps
  <2>3. CASE r.live /\ r.state # "ok"
    <3>1. /\ tabs' = [tabs EXCEPT ![r.tab].probed = r.token] /\ stores' = stores
          /\ requests' \subseteq requests
      BY <1>5, <2>3 DEF TakeProbe, Listens
    <3>2. PICK c \in TabRec : c = tabs[r.tab]
      BY <1>1
    <3>3. r.token \in 0..Len(issued) /\ r.token \in 0..MaxTokens
      BY <1>1, <1>5 DEF Fits, RequestRec, Signing, Inductive, Rest
    <3> DEFINE m == [c EXCEPT !.probed = r.token]
    <3>4. m \in TabRec /\ m.session = c.session /\ m.open = c.open /\ m.probed = r.token
      BY <3>2, <3>3, ProbedChanged
    <3>5. tabs' = [tabs EXCEPT ![r.tab] = m]
      BY <3>1, <3>2
    <3> HIDE DEF m
    <3> QED
      BY <1>1, <3>1, <3>2, <3>3, <3>4, <3>5, FieldKeeps
  <2> QED
    BY <2>1, <2>2, <2>3
<1>6. CASE r.state # "401" /\ r.kind = "data" /\ TakeData(r)
  <2>1. PICK c \in TabRec : c = tabs[r.tab]
    BY <1>1
  <2>2. PICK u \in Users \cup {NoUser} : u = IF r.state = "ok" THEN r.got.who ELSE c.cache
    BY <1>1, <2>1 DEF Fits, Sound, SessionRec, TabRec
  <2> DEFINE m == [c EXCEPT !.cache = u]
  <2>3. tabs' = [tabs EXCEPT ![r.tab] = m] /\ requests' \subseteq requests /\ stores' = stores
    BY <1>6, <2>1, <2>2 DEF TakeData
  <2>4. m \in TabRec /\ m.session = c.session /\ m.open = c.open /\ m.probed = c.probed
    BY <2>1, <2>2, CacheChanged
  <2> HIDE DEF m
  <2> QED
    BY <1>1, <2>1, <2>3, <2>4, FieldKeeps DEF Keeps
<1> QED
  <2>1. r.kind \in Signing \/ r.kind = "me" \/ r.kind = "data"
    BY <1>1 DEF RequestRec
  <2>2. CASE r.state = "401"
    BY <1>2, <2>2 DEF Take
  <2>3. CASE r.state # "401" /\ r.kind \in Signing
    BY <1>3, <1>4, <2>3 DEF Take, Signing
  <2>4. CASE r.state # "401" /\ r.kind = "me"
    BY <1>5, <2>4 DEF Take, Signing
  <2>5. CASE r.state # "401" /\ r.kind = "data"
    BY <1>6, <2>5 DEF Take, Signing
  <2> QED
    BY <2>1, <2>2, <2>3, <2>4, <2>5

\* The other stores are reset.
LEMMA ResetKeeps ==
  ASSUME Inductive, Rest', NEW t \in Tabs, ResetStores(t)
  PROVE  Inductive' /\ NoneReturns
<1>1. PICK c \in TabRec : c = tabs[t] /\ c.probed \in 0..Len(issued)
  BY DEF Inductive, TabsKeep, Keeps
<1> DEFINE m == [c EXCEPT !.resetting = FALSE, !.cache = NoUser]
<1>2. /\ tabs' = [tabs EXCEPT ![t] = m] /\ requests' = requests
      /\ UNCHANGED <<stores, stay, issued>>
  BY <1>1 DEF ResetStores, server
<1>3. m \in TabRec /\ m.session = c.session /\ m.open = c.open /\ m.probed = c.probed
  BY <1>1, ResetChanged
<1> HIDE DEF m
<1> QED
  BY <1>1, <1>2, <1>3, FieldKeeps

\* The scalars and the server's tables.
LEMMA RestKeeps ==
  ASSUME Inductive, [Next]_vars
  PROVE  Rest'
<1>1. Rest
  BY DEF Inductive
<1>2. CASE UNCHANGED vars
  BY <1>1, <1>2 DEF Rest, vars, server
<1>3. CASE \E r \in requests : ServeSigning(r) /\ UNCHANGED <<stay, expired, moves>>
  <2>1. PICK r \in requests : ServeSigning(r) /\ UNCHANGED <<stay, expired, moves>>
    BY <1>3
  <2>2. Fits(r)
    BY DEF Inductive, RequestsFit
  <2> DEFINE role == IF r.kind = "register" THEN "student" ELSE roles[r.who]
             x == [who |-> r.who, role |-> role]
  <2>3. r.who \in Users /\ role \in Roles \cup {"none"}
    BY <1>1, <2>1, <2>2 DEF ServeSigning, Fits, Rest, Roles
  <2>4. /\ issued' = Append(issued, x) /\ roles' = [roles EXCEPT ![r.who] = role]
        /\ Len(issued) < MaxTokens /\ revoked' = revoked
    BY <2>1 DEF ServeSigning
  <2>5. x \in Issue
    BY <2>3 DEF Issue
  <2> HIDE DEF role, x
  <2>6. /\ issued' \in Seq(Issue) /\ Len(issued') <= MaxTokens
        /\ DOMAIN issued \subseteq DOMAIN issued'
    BY <1>1, <2>4, <2>5, AuthAssumption DEF Rest
  <2>7. roles' \in [Users -> Roles \cup {"none"}]
    BY <1>1, <2>3, <2>4 DEF Rest
  <2> QED
    BY <1>1, <2>1, <2>4, <2>6, <2>7 DEF Rest
<1>4. CASE \E n \in DOMAIN issued : Expire(n) \/ Revoke(n)
  BY <1>1, <1>4, AuthAssumption DEF Rest, Expire, Revoke, Move, server
<1>5. CASE \E u \in Users : Promote(u)
  BY <1>1, <1>5, AuthAssumption DEF Rest, Promote, Move
<1>6. CASE UNCHANGED <<expired, server>> /\ (stay' = stay \/ stay' \in BOOLEAN)
           /\ (moves' = moves \/ Move)
  BY <1>1, <1>6, AuthAssumption DEF Rest, Move, server
<1>7. CASE \E r \in requests : Serve(r)
  BY <1>3, <1>6, <1>7 DEF Serve, ServeBearer, Fail
<1>8. CASE \E r \in requests : Take(r)
  BY <1>6, <1>8 DEF Take
<1>9. CASE \E t \in Tabs : UserActs(t)
  BY <1>6, <1>9 DEF UserActs, SubmitLogin, SubmitRegister, Load, Reopen, Fetch, SignOut,
                    updateProfile
<1>10. CASE \E t \in Tabs : Effects(t)
  BY <1>6, <1>10 DEF Effects, Probe, Notice, ResetStores
<1> QED
  BY <1>2, <1>4, <1>5, <1>7, <1>8, <1>9, <1>10 DEF Next, Network, Outside

\* The inductive invariant holds in a new browser.
LEMMA InitKeeps == Init => Inductive
<1> SUFFICES ASSUME Init
             PROVE  Inductive
  OBVIOUS
<1>1. Rest
  BY AuthAssumption DEF Init, Rest, Roles
<1>2. Nobody \in SessionRec /\ Sound(Nobody) /\ Nobody.token = 0
  BY <1>1, NobodyIsSound
<1>3. PICK first \in Tabs :
        tabs = [t \in Tabs |-> [Tab(Nobody) EXCEPT !.open = (t = first)]]
  BY DEF Init
<1>4. ASSUME NEW t \in Tabs
      PROVE  tabs[t] \in TabRec /\ tabs[t].session = Nobody /\ tabs[t].probed = 0
  <2>1. PICK b \in BOOLEAN : b = (t = first)
    BY Zenon
  <2>2. tabs[t] = [Tab(Nobody) EXCEPT !.open = b]
    BY <1>3, <2>1
  <2>3. tabs[t] = [open |-> b, session |-> Nobody, probed |-> 0,
                   cache |-> NoUser, resetting |-> FALSE]
    BY <2>2 DEF Tab
  <2>4. 0 \in 0..MaxTokens
    BY AuthAssumption
  <2> QED
    BY <1>2, <2>3, <2>4 DEF TabRec
<1>6. TabsKeep
  <2>1. 0 \in 0..Len(issued)
    BY <1>1 DEF Rest
  <2>2. \A t \in Tabs : Keeps(tabs[t])
    BY <1>2, <1>4, <2>1 DEF Keeps
  <2>3. tabs \in [Tabs -> TabRec]
    BY <1>3, <1>4
  <2> QED
    BY <2>2, <2>3 DEF TabsKeep
<1>7. stores = [x \in {"local"} \cup Tabs |-> IF x = "local" THEN {Nobody} ELSE {}]
  BY DEF Init
<1>8. StoresKeep
  BY <1>2, <1>7 DEF StoresKeep
<1>9. RequestsFit
  BY DEF Init, RequestsFit
<1>10. KeptWhereAsked
  <2>1. stay = TRUE /\ \A t \in Tabs : tabs[t].session = Nobody
    BY <1>4 DEF Init
  <2>2. ASSUME NEW t \in Tabs
        PROVE  stores = [x \in {"local"} \cup Tabs |->
                 IF x = (IF stay THEN "local" ELSE t) THEN {tabs[t].session} ELSE {}]
    BY <1>7, <2>1
  <2> QED
    BY <2>2, Zenon DEF KeptWhereAsked
<1> QED
  BY <1>1, <1>6, <1>8, <1>9, <1>10 DEF Inductive

\* Every step keeps the inductive invariant and brings no token back.
LEMMA StepKeeps ==
  ASSUME Inductive, [Next]_vars
  PROVE  Inductive' /\ NoneReturns
<1>1. Rest'
  BY RestKeeps
<1>2. CASE UNCHANGED <<tabs, stores, stay, requests, issued>>
  BY <1>1, <1>2, CallKeeps DEF IssuedGrows, NewFit
<1>3. CASE \E r \in requests : Serve(r) \/ Take(r)
  BY <1>1, <1>3, ServeKeeps, TakeKeeps
<1>4. CASE Outside
  BY <1>2, <1>4 DEF Outside, Expire, Revoke, Promote, server
<1>5. ASSUME NEW t \in Tabs, UserActs(t)
      PROVE  Inductive' /\ NoneReturns
  <2>1. CASE \E u \in Users, keep \in BOOLEAN : SubmitLogin(t, u, keep)
    BY <1>1, <2>1, LoginStep
  <2>2. CASE \E u \in Users : SubmitRegister(t, u)
    BY <1>1, <2>2, RegisterKeeps
  <2>3. CASE Load(t)
    <3> DEFINE s == hydrateSession(getItem(stores, t))
    <3>1. /\ tabs' = [tabs EXCEPT ![t] = Tab(s)] /\ stores' = setItem(stores, stay, t, s)
          /\ requests' = {r \in requests : r.tab # t} /\ UNCHANGED <<stay, issued>>
      BY <2>3 DEF Load, Put, server
    <3> QED
      BY <1>1, <3>1, OpenKeeps
  <2>4. CASE Reopen(t)
    <3> DEFINE kept == [stores EXCEPT ![t] = {}]
               s == hydrateSession(getItem(kept, t))
    <3>1. /\ tabs' = [tabs EXCEPT ![t] = Tab(s)] /\ stores' = setItem(kept, stay, t, s)
          /\ requests' = {r \in requests : r.tab # t} /\ UNCHANGED <<stay, issued>>
      BY <2>4 DEF Reopen, server
    <3> QED
      BY <1>1, <3>1, OpenKeeps
  <2>5. CASE Fetch(t)
    <3>1. /\ SignedIn(t) /\ UNCHANGED <<stay, issued>>
          /\ IF tabs[t].session.token \in expired THEN Dismiss(t, requests)
             ELSE /\ Ask(NewRequest(t, "data", NoUser, tabs[t].session.token))
                  /\ UNCHANGED <<tabs, stores>>
      BY <2>5 DEF Fetch, Shown, server
    <3> QED
      BY <1>1, <3>1, BearerKeeps
  <2>6. CASE SignOut(t)
    <3>1. SignedIn(t) /\ clearSession(t, requests) /\ UNCHANGED <<stay, issued>>
      BY <2>6 DEF SignOut, Shown, server
    <3> QED
      BY <1>1, <3>1, SignedInOpen, ClearKeeps
  <2>7. CASE updateProfile(t)
    BY <1>1, <2>7, ProfileKeeps
  <2> QED
    BY <1>5, <2>1, <2>2, <2>3, <2>4, <2>5, <2>6, <2>7 DEF UserActs
<1>6. ASSUME NEW t \in Tabs, Effects(t)
      PROVE  Inductive' /\ NoneReturns
  <2>1. CASE Probe(t)
    BY <1>1, <2>1, BearerKeeps DEF Probe, Blank, server
  <2>2. CASE Notice(t)
    <3>1. SignedIn(t) /\ clearSession(t, requests) /\ UNCHANGED <<stay, issued>>
      BY <2>2 DEF Notice, server
    <3> QED
      BY <1>1, <3>1, SignedInOpen, ClearKeeps
  <2>3. CASE ResetStores(t)
    BY <1>1, <2>3, ResetKeeps
  <2> QED
    BY <1>6, <2>1, <2>2, <2>3 DEF Effects
<1> QED
  BY <1>2, <1>3, <1>4, <1>5, <1>6 DEF Next, Network, vars, server

\* So it holds always.
LEMMA Invariance == Spec => []Inductive
<1>1. Inductive /\ [Next]_vars => Inductive'
  BY StepKeeps
<1> QED
  BY <1>1, InitKeeps, PTL DEF Spec

\* What is sound is whole, and a store holds one session at most.
LEMMA TypesFollow == Inductive => TypeOK
<1> SUFFICES ASSUME Inductive
             PROVE  TypeOK
  OBVIOUS
<1>1. ASSUME NEW s, Sound(s)
      PROVE  Whole(s)
  <2>1. s = Session(s.who, s.role, s.name, s.token)
    BY <1>1 DEF Sound, SessionRec, Session
  <2>2. /\ s.who \in Users \cup {NoUser} /\ s.role \in Roles \cup {"none"}
        /\ s.name \in {"none", "given", "chosen"} /\ s.token \in 0..MaxTokens
    BY <1>1 DEF Sound, SessionRec
  <2>3. s \in Sessions
    BY <2>1, <2>2, SMTT(60) DEF Sessions
  <2> QED
    BY <1>1, <2>3 DEF Whole, Sound
<1>2. \A t \in Tabs :
        /\ Whole(tabs[t].session)
        /\ tabs[t].probed \in 0..Len(issued)
        /\ tabs[t].cache \in Users \cup {NoUser}
        /\ {tabs[t].open, tabs[t].resetting} \subseteq BOOLEAN
  BY <1>1 DEF Inductive, TabsKeep, Keeps, TabRec
<1>3. ASSUME NEW x \in {"local"} \cup Tabs
      PROVE  Cardinality(stores[x]) <= 1 /\ \A s \in stores[x] : Whole(s)
  <2>1. \A s \in stores[x] : Sound(s)
    BY DEF Inductive, StoresKeep
  <2>2. CASE stores[x] = {}
    BY <2>2, FS_EmptySet
  <2>3. CASE stores[x] # {}
    <3>1. PICK s \in stores[x] : TRUE
      BY <2>3
    <3>2. stores[x] = {s}
      BY <3>1 DEF Inductive, StoresKeep
    <3>3. Cardinality({s}) = 1
      BY FS_Singleton
    <3> QED
      BY <1>1, <2>1, <3>2, <3>3
  <2> QED
    BY <2>2, <2>3
<1>4. \A r \in requests : r.state \in {"sent", "ok", "401", "failed"} /\ Whole(r.got)
  BY <1>1 DEF Inductive, RequestsFit, Fits, RequestRec
<1> QED
  BY <1>2, <1>3, <1>4 DEF TypeOK, Inductive, Rest

\* What the browser holds of sessions is consistent at every moment
\* (authStore.ts): every session in memory or in a storage belongs to the
\* user its token was signed for, and in a single open tab the session is kept
\* in the place the preference names and nowhere else, whatever was signed in,
\* refused, reloaded, probed or answered late.
THEOREM SessionsConsistent == Spec => []Consistent
<1>1. Inductive => Consistent
  BY TypesFollow DEF Inductive, Consistent
<1> QED
  BY <1>1, Invariance, PTL

\* A session that is nowhere any more does not come back: no answer of a
\* probe, no reload and no other tab brings its token again (ProtectedRoute's
\* cleanup, clearSession and the interceptor of client.ts).
THEOREM NoSessionReturns == Spec => EndedStaysEnded
<1>1. Inductive /\ [Next]_vars => [\A n \in DOMAIN issued : ~Held(n) => ~Held(n)']_vars
  BY StepKeeps DEF NoneReturns
<1> QED
  BY <1>1, Invariance, PTL DEF Spec, EndedStaysEnded
=============================================================================
