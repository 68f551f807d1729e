--------------------------- MODULE RepoServerProofs ---------------------------
(***************************************************************************)
(* The rate limit of the package server for any number of clients and       *)
(* requests, any rate, burst, eviction age and skew of the clock readings   *)
(* that EvictionAssumption admits: buckets with debts, evictions and late   *)
(* readings keep the promise RateLimit states without any of them.          *)
(***************************************************************************)
EXTENDS RepoServer, TLAPS

-----------------------------------------------------------------------------
(* The invariant.                                                           *)

\* What c's bucket would hold at moment 0, had it been filled at Rate since.
Worth(c) == tokens[c] - Rate * lastSeen[c]

\* A reading of the clock on its way to the lock is at most MaxSkew old.
ReadingInv ==
    /\ \A r \in Requests : at[r] = "checking" =>
        /\ key[r] = from[r]
        /\ key[r] \in Addresses
        /\ now[r] <= clock
        /\ clock <= now[r] + MaxSkew
    /\ \A c \in Addresses : lastSeen[c] <= clock
    /\ cutoff <= clock - EvictAfter

\* No bucket owes more than it has earned since the server started.
SolventInv == \A c \in buckets : 0 <= Worth(c) + Rate * clock

\* What was let through since p began is paid for by what the bucket lacks.
SpentInv ==
    \A c \in buckets, p \in Promise!Periods :
        admitted[c][p] > 0 => admitted[c][p] <= Burst - Rate * p[1] - Worth(c)

\* A client without a bucket has earned back all it was ever let through for,
\* even if its next reading of the clock is an old one.
ForgottenInv ==
    \A c \in Addresses \ buckets, p \in Promise!Periods :
        admitted[c][p] > 0 => admitted[c][p] <= Rate * (clock - MaxSkew - p[1])

LimitInv ==
    /\ ServerTypeOK
    /\ ReadingInv
    /\ SolventInv
    /\ SpentInv
    /\ ForgottenInv
    /\ WithinQuota

-----------------------------------------------------------------------------
(* Facts about the constants and the operators.                             *)

LEMMA Constants ==
    /\ Rate \in Nat /\ Burst \in Nat /\ EvictAfter \in Nat
    /\ MaxSkew \in Nat /\ MaxClock \in Nat
    /\ NoHeader \notin Addresses
  BY ServerAssumption

LEMMA RateInt == \A n \in Int : Rate * n \in Int
  BY Constants

LEMMA RateMonotone ==
    ASSUME NEW m \in Int, NEW n \in Int, m <= n
    PROVE  Rate * m <= Rate * n
  BY Constants

LEMMA RateMinus ==
    ASSUME NEW m \in Int, NEW n \in Int
    PROVE  Rate * (m - n) = Rate * m - Rate * n
  BY Constants

LEMMA SmallerInt ==
    ASSUME NEW a \in Int, NEW b \in Int
    PROVE  /\ Smaller(a, b) \in Int
           /\ Smaller(a, b) <= a
           /\ Smaller(a, b) <= b
           /\ Smaller(a, b) \in {a, b}
  BY DEF Smaller

\* A period starts and ends at a reading of the clock, in that order.
LEMMA PeriodEnds ==
    ASSUME NEW p \in Promise!Periods
    PROVE  p[1] \in Readings /\ p[2] \in Readings /\ p[1] <= p[2]
  BY DEF Promise!Periods, Promise!Times, Readings

\* One more request is counted once in each period it lies in.
LEMMA CountedAt ==
    ASSUME ServerTypeOK, NEW c \in Addresses, NEW n \in Readings,
           NEW d \in Addresses, NEW p \in Promise!Periods
    PROVE  Promise!Counted(c, n)[d][p] =
               IF d = c /\ p[1] <= n /\ n <= p[2]
               THEN admitted[d][p] + 1 ELSE admitted[d][p]
  BY DEF Promise!Counted, Promise!Within, ServerTypeOK

LEMMA CountedType ==
    ASSUME ServerTypeOK, NEW c \in Addresses, NEW n \in Readings
    PROVE  Promise!Counted(c, n) \in [Addresses -> [Promise!Periods -> Nat]]
  <1> DEFINE one == [p \in Promise!Periods |->
                        IF Promise!Within(n, p) THEN admitted[c][p] + 1
                                                ELSE admitted[c][p]]
  <1>1. admitted \in [Addresses -> [Promise!Periods -> Nat]]
    BY DEF ServerTypeOK
  <1>2. one \in [Promise!Periods -> Nat]
    BY <1>1
  <1>3. Promise!Counted(c, n) = [admitted EXCEPT ![c] = one]
    BY <1>1 DEF Promise!Counted
  <1> QED
    BY <1>1, <1>2, <1>3

-----------------------------------------------------------------------------
(* What holds of a refilled bucket, whichever way the decision goes.        *)

\* Refilled at r's reading of the clock, the bucket of r's client is worth at
\* least what it has been let through for, and no more than it could hold.
LEMMA RefillPays ==
    ASSUME LimitInv, NEW r \in Requests, at[r] = "checking"
    PROVE  /\ key[r] \in Addresses
           /\ now[r] \in Readings
           /\ Refilled(r) \in Int
           /\ Refilled(r) <= Burst
           /\ 0 <= Refilled(r) - Rate * now[r] + Rate * clock
           /\ \A p \in Promise!Periods : admitted[key[r]][p] > 0 =>
                admitted[key[r]][p]
                    <= Burst - Rate * p[1] - (Refilled(r) - Rate * now[r])
  <1> DEFINE c == key[r]
             n == now[r]
  <1>1. /\ c \in Addresses /\ n \in Readings /\ n <= clock /\ clock <= n + MaxSkew
        /\ clock \in Int /\ n \in Int /\ tokens[c] \in Int /\ lastSeen[c] \in Int
    BY Constants DEF LimitInv, ReadingInv, ServerTypeOK, Readings
  <1>2. Rate * n \in Int /\ Rate * clock \in Int /\ Rate * lastSeen[c] \in Int
    BY <1>1, RateInt
  <1>3. Rate * n <= Rate * clock
    BY <1>1, RateMonotone
  <1>4. CASE c \in buckets
    <2>1. (n - lastSeen[c]) * Rate = Rate * n - Rate * lastSeen[c]
      BY <1>1, Constants
    <2> DEFINE kept == tokens[c] + (n - lastSeen[c]) * Rate
    <2>2. kept \in Int /\ kept = Worth(c) + Rate * n /\ Worth(c) \in Int
      BY <1>1, <1>2, <2>1 DEF Worth
    <2>3. Refilled(r) = Smaller(kept, Burst)
      BY <1>4 DEF Refilled
    <2> HIDE DEF kept
    <2>4. /\ Refilled(r) \in Int /\ Refilled(r) <= Burst /\ Refilled(r) <= kept
          /\ Refilled(r) \in {kept, Burst}
      BY <2>2, <2>3, SmallerInt, Constants
    <2>5. 0 <= Worth(c) + Rate * clock
      BY <1>4 DEF LimitInv, SolventInv
    <2>6. 0 <= Refilled(r) - Rate * n + Rate * clock
      BY <1>2, <1>3, <2>2, <2>4, <2>5, Constants
    <2>7. ASSUME NEW p \in Promise!Periods, admitted[c][p] > 0
          PROVE  admitted[c][p] <= Burst - Rate * p[1] - (Refilled(r) - Rate * n)
      <3>1. admitted[c][p] <= Burst - Rate * p[1] - Worth(c)
        BY <1>4, <2>7 DEF LimitInv, SpentInv
      <3>2. admitted[c][p] \in Int /\ Rate * p[1] \in Int
        BY <1>1, PeriodEnds, RateInt DEF LimitInv, ServerTypeOK, Readings
      <3> QED
        BY <1>2, <2>2, <2>4, <3>1, <3>2, Constants
    <2> QED
      BY <1>1, <2>4, <2>6, <2>7
  <1>5. CASE c \notin buckets
    <2>1. Refilled(r) = Burst
      BY <1>5 DEF Refilled
    <2>2. ASSUME NEW p \in Promise!Periods, admitted[c][p] > 0
          PROVE  admitted[c][p] <= Burst - Rate * p[1] - (Burst - Rate * n)
      <3>1. p[1] \in Int /\ Rate * p[1] \in Int /\ admitted[c][p] \in Int
        BY <1>1, PeriodEnds, RateInt DEF LimitInv, ServerTypeOK, Readings
      <3>2. admitted[c][p] <= Rate * (clock - MaxSkew - p[1])
        BY <1>1, <1>5, <2>2 DEF LimitInv, ForgottenInv
      <3>3. Rate * (clock - MaxSkew - p[1]) <= Rate * (n - p[1])
        BY <1>1, <3>1, RateMonotone, Constants
      <3>4. Rate * (n - p[1]) = Rate * n - Rate * p[1]
        BY <1>1, <3>1, RateMinus
      <3>5. Rate * (clock - MaxSkew - p[1]) \in Int
        BY <1>1, <3>1, RateInt, Constants
      <3> QED
        BY <1>2, <3>1, <3>2, <3>3, <3>4, <3>5, Constants
    <2> QED
      BY <1>1, <1>2, <1>3, <2>1, <2>2, Constants
  <1> QED
    BY <1>4, <1>5

-----------------------------------------------------------------------------
(* The actions that leave the buckets alone.                                *)

\* Nothing a bucket or a quota depends on changed, and no time was lost.
LEMMA SameBuckets ==
    ASSUME LimitInv, ServerTypeOK', ReadingInv', clock <= clock',
           UNCHANGED <<limiterVars, admitted>>
    PROVE  LimitInv'
  <1> USE DEF limiterVars
  <1>1. clock \in Int /\ clock' \in Int
    BY DEF LimitInv, ServerTypeOK, Readings
  <1>2. SolventInv'
    <2> SUFFICES ASSUME NEW c \in buckets
                 PROVE  0 <= Worth(c) + Rate * clock'
      BY DEF SolventInv, Worth
    <2>1. Worth(c) \in Int /\ Rate * clock \in Int /\ Rate * clock' \in Int
      BY <1>1, RateInt, Constants DEF LimitInv, ServerTypeOK, Readings, Worth
    <2>2. Rate * clock <= Rate * clock'
      BY <1>1, RateMonotone
    <2>3. 0 <= Worth(c) + Rate * clock
      BY DEF LimitInv, SolventInv
    <2> QED
      BY <2>1, <2>2, <2>3
  <1>3. SpentInv'
    BY DEF LimitInv, SpentInv, Worth
  <1>4. ForgottenInv'
    <2> SUFFICES ASSUME NEW c \in Addresses \ buckets, NEW p \in Promise!Periods,
                        admitted[c][p] > 0
                 PROVE  admitted[c][p] <= Rate * (clock' - MaxSkew - p[1])
      BY DEF ForgottenInv
    <2>1. p[1] \in Int /\ admitted[c][p] \in Int
      BY PeriodEnds DEF LimitInv, ServerTypeOK, Readings
    <2>2. /\ Rate * (clock - MaxSkew - p[1]) <= Rate * (clock' - MaxSkew - p[1])
          /\ Rate * (clock - MaxSkew - p[1]) \in Int
          /\ Rate * (clock' - MaxSkew - p[1]) \in Int
      BY <1>1, <2>1, RateMonotone, RateInt, Constants
    <2>3. admitted[c][p] <= Rate * (clock - MaxSkew - p[1])
      BY DEF LimitInv, ForgottenInv
    <2> QED
      BY <2>1, <2>2, <2>3
  <1>5. WithinQuota'
    BY DEF LimitInv, WithinQuota
  <1> QED
    BY <1>2, <1>3, <1>4, <1>5 DEF LimitInv

LEMMA ArriveLimit ==
    ASSUME LimitInv, NEW r \in Requests, Arrive(r)
    PROVE  LimitInv'
  <1> USE DEF limiterVars, evictorVars, serverVars
  <1>1. PICK s \in Senders :
            /\ from' = [from EXCEPT ![r] = Origin(s[1], s[2])]
            /\ key' = [key EXCEPT ![r] = ClientIP(s[1], s[2])]
    BY DEF Arrive
  <1>2. s[1] \in Addresses /\ s[2] \in Addresses \cup {NoHeader}
    BY ServerAssumption
  <1>3. Origin(s[1], s[2]) = ClientIP(s[1], s[2]) /\ ClientIP(s[1], s[2]) \in Addresses
    BY <1>2 DEF Origin, ClientIP
  <1>4. from' \in [Requests -> Addresses \cup {NoHeader}]
    BY <1>1, <1>3 DEF LimitInv, ServerTypeOK
  <1>5. key' \in [Requests -> Addresses \cup {NoHeader}]
    BY <1>1, <1>3 DEF LimitInv, ServerTypeOK
  <1>6. now' \in [Requests -> Readings]
    BY DEF Arrive, LimitInv, ServerTypeOK
  <1>7. at' \in [Requests -> {"idle", "checking", "serving", "cut"}]
    BY DEF Arrive, LimitInv, ServerTypeOK
  <1>8. ServerTypeOK'
    BY <1>4, <1>5, <1>6, <1>7 DEF Arrive, LimitInv, ServerTypeOK
  <1>9. ReadingInv'
    <2>1. ASSUME NEW q \in Requests, at'[q] = "checking"
          PROVE  /\ key'[q] = from'[q] /\ key'[q] \in Addresses
                 /\ now'[q] <= clock' /\ clock' <= now'[q] + MaxSkew
      <3>1. CASE q = r
        BY <1>1, <1>3, <3>1, Constants DEF Arrive, LimitInv, ServerTypeOK, Readings
      <3>2. CASE q # r
        BY <1>1, <2>1, <3>2 DEF Arrive, LimitInv, ServerTypeOK, ReadingInv
      <3> QED
        BY <3>1, <3>2
    <2> QED
      BY <2>1 DEF Arrive, LimitInv, ReadingInv
  <1>10. clock <= clock'
    BY DEF Arrive, LimitInv, ServerTypeOK, Readings
  <1> QED
    BY <1>8, <1>9, <1>10, SameBuckets DEF Arrive

LEMMA QuietLimit ==
    ASSUME LimitInv,
           \/ \E r \in Requests : Answer(r)
           \/ Wake \/ Signal \/ Drained \/ Exit \/ UNCHANGED vars
    PROVE  LimitInv'
  <1> USE DEF limiterVars, requestVars, evictorVars, serverVars
  <1>1. UNCHANGED <<clock, limiterVars, from, key, now, admitted>>
    BY DEF Answer, Wake, Signal, Drained, Exit, vars
  <1>2. /\ at' \in [Requests -> {"idle", "checking", "serving", "cut"}]
        /\ \A r \in Requests : at'[r] = "checking" => at[r] = "checking"
    BY DEF Answer, Wake, Signal, Drained, Exit, vars, LimitInv, ServerTypeOK
  <1>3. clock \in Readings /\ cutoff \in Int /\ wakes \in Int
    BY Constants DEF LimitInv, ServerTypeOK
  <1>4. /\ cutoff' \in (-EvictAfter - 1)..(MaxClock - EvictAfter)
        /\ cutoff' <= clock - EvictAfter
    <2>1. cutoff' = cutoff \/ cutoff' = clock - EvictAfter
      BY DEF Answer, Wake, Signal, Drained, Exit, vars
    <2> QED
      BY <1>3, <2>1, Constants DEF LimitInv, ReadingInv, ServerTypeOK, Readings
  <1>5. /\ wakes' = wakes
        /\ server' \in {"listening", "closing", "exited"}
        /\ drain' \in {"off", "draining", "drained", "gaveUp"}
    BY DEF Answer, Wake, Signal, Drained, Exit, vars, LimitInv, ServerTypeOK
  <1>6. ServerTypeOK'
    BY <1>1, <1>2, <1>4, <1>5 DEF LimitInv, ServerTypeOK
  <1>7. ReadingInv'
    BY <1>1, <1>2, <1>4 DEF LimitInv, ReadingInv
  <1>8. clock <= clock'
    BY <1>1, <1>3 DEF Readings
  <1> QED
    BY <1>1, <1>6, <1>7, <1>8, SameBuckets

LEMMA TickLimit ==
    ASSUME LimitInv, Tick
    PROVE  LimitInv'
  <1> USE DEF limiterVars, requestVars, evictorVars, serverVars
  <1>1. clock \in Int /\ clock' \in Readings /\ clock' = clock + 1
    BY Constants DEF Tick, LimitInv, ServerTypeOK, Readings
  <1>2. ServerTypeOK'
    BY <1>1 DEF Tick, LimitInv, ServerTypeOK
  <1>3. ASSUME NEW r \in Requests, at[r] = "checking"
        PROVE  now[r] <= clock' /\ clock' <= now[r] + MaxSkew
    BY <1>1, <1>3, Constants DEF Tick, LimitInv, ServerTypeOK, Readings, ReadingInv
  <1>4. ASSUME NEW c \in Addresses
        PROVE  lastSeen[c] <= clock'
    BY <1>1 DEF LimitInv, ServerTypeOK, Readings, ReadingInv
  <1>5. cutoff <= clock' - EvictAfter
    BY <1>1, Constants DEF LimitInv, ServerTypeOK, ReadingInv
  <1>6. ReadingInv'
    BY <1>3, <1>4, <1>5 DEF Tick, LimitInv, ReadingInv
  <1> QED
    BY <1>1, <1>2, <1>6, SameBuckets DEF Tick

-----------------------------------------------------------------------------
(* Eviction.                                                                *)

LEMMA EvictLimit ==
    ASSUME LimitInv, Evict
    PROVE  LimitInv'
  <1> USE DEF limiterVars, requestVars, evictorVars, serverVars
  <1> DEFINE stale == {c \in buckets : lastSeen[c] < cutoff}
  <1>1. /\ buckets' = buckets \ stale
        /\ tokens' = [c \in Addresses |-> IF c \in stale THEN 0 ELSE tokens[c]]
        /\ lastSeen' = [c \in Addresses |-> IF c \in stale THEN 0 ELSE lastSeen[c]]
        /\ cutoff' = NoCutoff /\ wakes' = clock + EvictAfter
        /\ UNCHANGED <<clock, requestVars, serverVars, admitted>>
    BY DEF Evict
  <1>2. ASSUME NEW c \in stale
        PROVE  c \in buckets /\ c \in Addresses /\ lastSeen[c] < cutoff
    BY DEF LimitInv, ServerTypeOK
  <1> HIDE DEF stale
  <1>3. clock \in Readings /\ clock \in Int /\ 0 <= clock /\ clock <= MaxClock
    BY DEF LimitInv, ServerTypeOK, Readings
  <1>4. ServerTypeOK'
    <2>1. Rate * MaxSkew \in Nat
      BY Constants
    <2>2. tokens' \in [Addresses -> (-Rate * MaxSkew)..Burst]
      <3>1. 0 \in (-Rate * MaxSkew)..Burst
        BY <2>1, Constants
      <3> QED
        BY <1>1, <3>1 DEF LimitInv, ServerTypeOK
    <2>3. lastSeen' \in [Addresses -> Readings]
      <3>1. 0 \in Readings
        BY Constants DEF Readings
      <3> QED
        BY <1>1, <3>1 DEF LimitInv, ServerTypeOK
    <2>4. /\ cutoff' \in (-EvictAfter - 1)..(MaxClock - EvictAfter)
          /\ wakes' \in EvictAfter..(MaxClock + EvictAfter)
      BY <1>1, <1>3, Constants DEF NoCutoff
    <2> QED
      BY <1>1, <2>2, <2>3, <2>4 DEF LimitInv, ServerTypeOK
  <1>5. ReadingInv'
    <2>1. ASSUME NEW c \in Addresses
          PROVE  lastSeen'[c] <= clock
      BY <1>1, <1>3 DEF LimitInv, ReadingInv
    <2>2. cutoff' <= clock - EvictAfter
      BY <1>1, <1>3, Constants DEF NoCutoff
    <2> QED
      BY <1>1, <2>1, <2>2 DEF LimitInv, ReadingInv
  <1>6. ASSUME NEW c \in buckets'
        PROVE  c \in buckets /\ Worth(c)' = Worth(c)
    BY <1>1 DEF Worth, LimitInv, ServerTypeOK
  <1>7. SolventInv'
    BY <1>1, <1>6 DEF LimitInv, SolventInv
  <1>8. SpentInv'
    BY <1>1, <1>6 DEF LimitInv, SpentInv
  <1>9. ForgottenInv'
    <2> SUFFICES ASSUME NEW c \in Addresses, c \notin buckets',
                        NEW p \in Promise!Periods, admitted[c][p] > 0
                 PROVE  admitted[c][p] <= Rate * (clock - MaxSkew - p[1])
      BY <1>1 DEF ForgottenInv
    <2>1. CASE c \notin buckets
      BY <2>1 DEF LimitInv, ForgottenInv
    <2>2. CASE c \in stale
      <3>1. /\ lastSeen[c] \in Int /\ p[1] \in Int /\ tokens[c] \in Int
            /\ admitted[c][p] \in Int /\ cutoff \in Int
        BY PeriodEnds, Constants DEF LimitInv, ServerTypeOK, Readings
      <3>2. lastSeen[c] <= clock - EvictAfter
        BY <1>2, <1>3, <2>2, <3>1, Constants DEF LimitInv, ReadingInv
      <3>3. Rate * lastSeen[c] <= Rate * (clock - EvictAfter)
        BY <1>3, <3>1, <3>2, RateMonotone, Constants
      <3>4. -(Rate * MaxSkew) <= tokens[c]
        <4>1. (-Rate) * MaxSkew = -(Rate * MaxSkew) /\ Rate * MaxSkew \in Int
          BY Constants
        <4>2. tokens[c] \in (-Rate * MaxSkew)..Burst
          BY DEF LimitInv, ServerTypeOK
        <4> QED
          BY <4>1, <4>2, <3>1, Constants
      <3>5. admitted[c][p] <= Burst - Rate * p[1] - (tokens[c] - Rate * lastSeen[c])
        BY <1>2, <2>2 DEF LimitInv, SpentInv, Worth
      <3>6. /\ Rate * (clock - EvictAfter) = Rate * clock - Rate * EvictAfter
            /\ Rate * (EvictAfter - 2 * MaxSkew)
                 = Rate * EvictAfter - 2 * (Rate * MaxSkew)
            /\ Rate * (clock - MaxSkew - p[1])
                 = Rate * clock - Rate * MaxSkew - Rate * p[1]
        BY <1>3, <3>1, Constants
      <3>7. /\ Rate * clock \in Int /\ Rate * EvictAfter \in Int
            /\ Rate * MaxSkew \in Int /\ Rate * p[1] \in Int
            /\ Rate * lastSeen[c] \in Int
        BY <1>3, <3>1, RateInt, Constants
      <3> QED
        BY <3>1, <3>3, <3>4, <3>5, <3>6, <3>7, EvictionAssumption, Constants
    <2> QED
      BY <1>1, <2>1, <2>2
  <1>10. WithinQuota'
    BY <1>1 DEF LimitInv, WithinQuota
  <1> QED
    BY <1>4, <1>5, <1>7, <1>8, <1>9, <1>10 DEF LimitInv

-----------------------------------------------------------------------------
(* The decision, either way.                                                *)

\* r leaves n tokens in its client's bucket, and is no longer in allow.
LEMMA DecisionTypes ==
    ASSUME LimitInv, NEW r \in Requests, at[r] = "checking",
           NEW n \in {Refilled(r), Refilled(r) - 1},
           n = Refilled(r) \/ Refilled(r) >= 1,
           Leaves(r, n), Returns(r),
           NEW to \in {"serving", "idle"}, at' = [at EXCEPT ![r] = to],
           UNCHANGED <<clock, evictorVars, serverVars>>,
           admitted' \in [Addresses -> [Promise!Periods -> Nat]]
    PROVE  ServerTypeOK' /\ ReadingInv'
  <1> USE DEF evictorVars, serverVars
  <1>1. /\ key[r] \in Addresses /\ now[r] \in Readings /\ now[r] \in Int
        /\ clock \in Int /\ now[r] <= clock /\ clock <= now[r] + MaxSkew
        /\ Refilled(r) \in Int /\ Refilled(r) <= Burst
        /\ 0 <= Refilled(r) - Rate * now[r] + Rate * clock
    BY RefillPays DEF LimitInv, ReadingInv, ServerTypeOK, Readings
  <1>2. n \in (-Rate * MaxSkew)..Burst
    <2>1. Rate * clock - Rate * now[r] = Rate * (clock - now[r])
      BY <1>1, RateMinus
    <2>2. Rate * (clock - now[r]) <= Rate * MaxSkew
      <3>1. clock - now[r] <= MaxSkew /\ clock - now[r] \in Int /\ MaxSkew \in Int
        BY <1>1, Constants
      <3> QED
        BY <3>1, RateMonotone
    <2>3. (-Rate) * MaxSkew = -(Rate * MaxSkew) /\ Rate * MaxSkew \in Nat
      BY Constants
    <2>4. Rate * clock \in Int /\ Rate * now[r] \in Int
      BY <1>1, RateInt
    <2>5. n \in Int /\ n <= Burst
      BY <1>1, Constants
    <2>6. -(Rate * MaxSkew) <= n
      <3>1. -(Rate * MaxSkew) <= Refilled(r)
        BY <1>1, <2>1, <2>2, <2>3, <2>4
      <3>2. CASE n = Refilled(r)
        BY <3>1, <3>2
      <3>3. CASE n = Refilled(r) - 1 /\ Refilled(r) >= 1
        BY <1>1, <2>3, <3>3
      <3> QED
        BY <3>2, <3>3
    <2> QED
      BY <2>3, <2>5, <2>6, Constants
  <1>3. tokens' \in [Addresses -> (-Rate * MaxSkew)..Burst]
    BY <1>1, <1>2 DEF Leaves, LimitInv, ServerTypeOK
  <1>4. lastSeen' \in [Addresses -> Readings]
    BY <1>1 DEF Leaves, LimitInv, ServerTypeOK
  <1>5. buckets' \subseteq Addresses
    BY <1>1 DEF Leaves, LimitInv, ServerTypeOK
  <1>6. /\ from' \in [Requests -> Addresses \cup {NoHeader}]
        /\ key' \in [Requests -> Addresses \cup {NoHeader}]
    BY DEF Returns, LimitInv, ServerTypeOK
  <1>7. now' \in [Requests -> Readings]
    BY Constants DEF Returns, LimitInv, ServerTypeOK, Readings
  <1>8. at' \in [Requests -> {"idle", "checking", "serving", "cut"}]
    BY DEF LimitInv, ServerTypeOK
  <1>9. ServerTypeOK'
    BY <1>3, <1>4, <1>5, <1>6, <1>7, <1>8 DEF LimitInv, ServerTypeOK
  <1>10. ASSUME NEW q \in Requests, at'[q] = "checking"
         PROVE  /\ key'[q] = from'[q] /\ key'[q] \in Addresses
                /\ now'[q] <= clock' /\ clock' <= now'[q] + MaxSkew
    <2>1. q # r /\ at[q] = "checking"
      BY <1>10 DEF LimitInv, ServerTypeOK
    <2> QED
      BY <2>1 DEF Returns, LimitInv, ServerTypeOK, ReadingInv
  <1>11. ASSUME NEW c \in Addresses
         PROVE  lastSeen'[c] <= clock'
    BY <1>1 DEF Leaves, LimitInv, ServerTypeOK, ReadingInv
  <1> QED
    BY <1>9, <1>10, <1>11 DEF LimitInv, ReadingInv

\* The buckets of the other clients, and their debts, are as they were.
LEMMA OtherBuckets ==
    ASSUME LimitInv, NEW r \in Requests, at[r] = "checking", NEW n, Leaves(r, n),
           NEW c \in Addresses, c # key[r]
    PROVE  /\ c \in buckets' <=> c \in buckets
           /\ Worth(c)' = Worth(c)
  BY DEF LimitInv, ServerTypeOK, Leaves, Worth

\* The bucket of r's client is there, and worth what the decision left in it.
LEMMA ThisBucket ==
    ASSUME LimitInv, NEW r \in Requests, at[r] = "checking",
           NEW n \in Int, Leaves(r, n),
           NEW c, c = key[r]
    PROVE  /\ c \in Addresses
           /\ c \in buckets'
           /\ Worth(c)' = n - Rate * now[r]
  BY RefillPays DEF LimitInv, ServerTypeOK, Leaves, Worth

LEMMA DenyLimit ==
    ASSUME LimitInv, NEW r \in Requests, Deny(r)
    PROVE  LimitInv'
  <1> SUFFICES ASSUME NEW c, c = key[r],
                      NEW n, n = Refilled(r)
               PROVE  LimitInv'
    OBVIOUS
  <1>1. /\ at[r] = "checking" /\ Leaves(r, n) /\ Returns(r)
        /\ at' = [at EXCEPT ![r] = "idle"]
        /\ UNCHANGED <<clock, evictorVars, serverVars, admitted>>
    BY DEF Deny
  <1>2. /\ n \in Int /\ n <= Burst
        /\ 0 <= n - Rate * now[r] + Rate * clock
        /\ \A p \in Promise!Periods : admitted[c][p] > 0 =>
             admitted[c][p] <= Burst - Rate * p[1] - (n - Rate * now[r])
    BY <1>1, RefillPays
  <1>3. c \in Addresses /\ c \in buckets'
    BY <1>1, <1>2, ThisBucket
  <1>4. Worth(c)' = n - Rate * now[r]
    BY <1>1, <1>2, ThisBucket
  <1>5. ASSUME NEW d \in Addresses, d # c
        PROVE  (d \in buckets' <=> d \in buckets) /\ Worth(d)' = Worth(d)
    BY <1>1, <1>5, OtherBuckets
  <1>6. ServerTypeOK' /\ ReadingInv'
    <2>1. admitted' \in [Addresses -> [Promise!Periods -> Nat]]
      BY <1>1 DEF LimitInv, ServerTypeOK
    <2> QED
      BY <1>1, <2>1, DecisionTypes
  <1>7. SolventInv'
    BY <1>1, <1>2, <1>3, <1>4, <1>5, <1>6 DEF LimitInv, SolventInv, ServerTypeOK
  <1>8. SpentInv'
    BY <1>1, <1>2, <1>3, <1>4, <1>5, <1>6 DEF LimitInv, SpentInv, ServerTypeOK
  <1>9. ForgottenInv'
    BY <1>1, <1>3, <1>5 DEF LimitInv, ForgottenInv
  <1>10. WithinQuota'
    BY <1>1 DEF LimitInv, WithinQuota
  <1> QED
    BY <1>6, <1>7, <1>8, <1>9, <1>10 DEF LimitInv

\* What a request let through leaves behind: the client's bucket lacks a
\* token for it, and in no period is it one too many.
LEMMA AdmitPays ==
    ASSUME LimitInv, NEW r \in Requests, Admit(r), NEW p \in Promise!Periods
    PROVE  LET c == key[r]
               n == now[r]
           IN  /\ admitted'[c][p] > 0 =>
                    admitted'[c][p] <= Burst - Rate * p[1] - (Refilled(r) - 1 - Rate * n)
               /\ p[1] <= n /\ n <= p[2] => admitted[c][p] + 1 <= Promise!Quota(p)
               /\ admitted'[c][p] <= Promise!Quota(p)
  <1> DEFINE c == key[r]
             n == now[r]
             inside == p[1] <= n /\ n <= p[2]
             bound == Burst - Rate * p[1] - (Refilled(r) - Rate * n)
  <1>1. at[r] = "checking" /\ Refilled(r) >= 1 /\ key[r] = from[r]
    BY DEF Admit, LimitInv, ReadingInv
  <1>2. /\ c \in Addresses /\ n \in Readings /\ n \in Int
        /\ Refilled(r) \in Int /\ Refilled(r) <= Burst
        /\ admitted[c][p] > 0 => admitted[c][p] <= bound
    BY <1>1, RefillPays DEF Readings
  <1>3. /\ p[1] \in Int /\ p[2] \in Int /\ p[1] <= p[2]
        /\ Rate * p[1] \in Int /\ Rate * p[2] \in Int /\ Rate * n \in Int
    BY <1>2, PeriodEnds, RateInt DEF Readings
  <1>4. admitted[c][p] \in Nat
    BY <1>2 DEF LimitInv, ServerTypeOK
  <1>5. admitted'[c][p] = IF inside THEN admitted[c][p] + 1 ELSE admitted[c][p]
    BY <1>1, <1>2, CountedAt DEF Admit, LimitInv
  <1>6. Promise!Quota(p) = Burst + (Rate * p[2] - Rate * p[1])
    BY <1>3, RateMinus DEF Promise!Quota
  <1>7. admitted[c][p] <= Promise!Quota(p)
    BY <1>2 DEF LimitInv, WithinQuota
  <1>8. CASE inside
    <2>1. Rate * p[1] <= Rate * n /\ Rate * n <= Rate * p[2]
      BY <1>2, <1>3, <1>8, RateMonotone
    <2>2. admitted[c][p] + 1 <= bound + 1
      BY <1>2, <1>3, <1>4, <2>1, Constants
    <2>3. bound + 1 <= Burst + (Rate * p[2] - Rate * p[1])
      BY <1>1, <1>2, <1>3, <2>1, Constants
    <2> QED
      BY <1>2, <1>3, <1>4, <1>5, <1>6, <1>8, <2>2, <2>3, Constants
  <1>9. CASE ~inside
    BY <1>2, <1>3, <1>4, <1>5, <1>7, <1>9, Constants
  <1> QED
    BY <1>8, <1>9

LEMMA AdmitLimit ==
    ASSUME LimitInv, NEW r \in Requests, Admit(r)
    PROVE  LimitInv'
  <1> SUFFICES ASSUME NEW c, c = key[r],
                      NEW n, n = Refilled(r) - 1
               PROVE  LimitInv'
    OBVIOUS
  <1>1. /\ at[r] = "checking" /\ Refilled(r) >= 1 /\ Leaves(r, n) /\ Returns(r)
        /\ at' = [at EXCEPT ![r] = "serving"]
        /\ admitted' = Promise!Counted(c, now[r])
        /\ UNCHANGED <<clock, evictorVars, serverVars>>
    BY DEF Admit, LimitInv, ReadingInv
  <1>2. /\ c \in Addresses /\ now[r] \in Readings /\ n \in Int
        /\ Refilled(r) \in Int
    BY <1>1, RefillPays
  <1>3. c \in buckets'
    BY <1>1, <1>2, ThisBucket
  <1>4. Worth(c)' = n - Rate * now[r]
    BY <1>1, <1>2, ThisBucket
  <1>5. ASSUME NEW d \in Addresses, d # c
        PROVE  /\ d \in buckets' <=> d \in buckets
               /\ Worth(d)' = Worth(d)
               /\ \A p \in Promise!Periods : admitted'[d][p] = admitted[d][p]
    BY <1>1, <1>2, <1>5, OtherBuckets, CountedAt DEF LimitInv
  <1>6. ServerTypeOK' /\ ReadingInv'
    <2>1. admitted' \in [Addresses -> [Promise!Periods -> Nat]]
      BY <1>1, <1>2, CountedType DEF LimitInv
    <2> QED
      BY <1>1, <2>1, DecisionTypes
  <1>7. 0 <= n - Rate * now[r] + Rate * clock
    <2>1. now[r] \in Int /\ clock \in Int /\ now[r] <= clock
      BY <1>1 DEF LimitInv, ServerTypeOK, ReadingInv, Readings
    <2>2. Rate * now[r] <= Rate * clock /\ Rate * now[r] \in Int /\ Rate * clock \in Int
      BY <2>1, RateMonotone, RateInt
    <2> QED
      BY <1>1, <1>2, <2>2
  <1>8. \A p \in Promise!Periods :
            /\ admitted'[c][p] > 0 =>
                 admitted'[c][p] <= Burst - Rate * p[1] - (n - Rate * now[r])
            /\ admitted'[c][p] <= Promise!Quota(p)
    BY AdmitPays
  <1>9. SolventInv'
    BY <1>1, <1>3, <1>4, <1>5, <1>6, <1>7 DEF LimitInv, SolventInv, ServerTypeOK
  <1>10. SpentInv'
    BY <1>3, <1>4, <1>5, <1>6, <1>8 DEF LimitInv, SpentInv, ServerTypeOK
  <1>11. ForgottenInv'
    BY <1>1, <1>3, <1>5 DEF LimitInv, ForgottenInv
  <1>12. WithinQuota'
    BY <1>5, <1>8 DEF LimitInv, WithinQuota
  <1> QED
    BY <1>6, <1>9, <1>10, <1>11, <1>12 DEF LimitInv

-----------------------------------------------------------------------------
(* The invariant and what follows from it.                                  *)

LEMMA InitLimit == ServerInit => LimitInv
  <1> SUFFICES ASSUME ServerInit
               PROVE  LimitInv
    OBVIOUS
  <1>1. admitted = [c \in Addresses |-> [p \in Promise!Periods |-> 0]]
    BY DEF ServerInit, Promise!Init
  <1>2. 0 \in (-Rate * MaxSkew)..Burst /\ 0 \in Readings
    <2>1. Rate * MaxSkew \in Nat /\ (-Rate) * MaxSkew = -(Rate * MaxSkew)
      BY Constants
    <2> QED
      BY <2>1, Constants DEF Readings
  <1>3. ServerTypeOK
    BY <1>1, <1>2, Constants DEF ServerInit, ServerTypeOK, NoCutoff
  <1>4. ReadingInv
    BY <1>2, Constants DEF ServerInit, ReadingInv, NoCutoff, Readings
  <1>5. SolventInv /\ SpentInv /\ ForgottenInv
    BY <1>1 DEF ServerInit, SolventInv, SpentInv, ForgottenInv
  <1>6. WithinQuota
    <2> SUFFICES ASSUME NEW p \in Promise!Periods
                 PROVE  0 <= Promise!Quota(p)
      BY <1>1 DEF WithinQuota
    <2>1. p[2] - p[1] \in Nat
      BY PeriodEnds, Constants DEF Readings
    <2> QED
      BY <2>1, Constants DEF Promise!Quota
  <1> QED
    BY <1>3, <1>4, <1>5, <1>6 DEF LimitInv

LEMMA NextLimit == LimitInv /\ [ServerNext]_vars => LimitInv'
  <1> SUFFICES ASSUME LimitInv, [ServerNext]_vars
               PROVE  LimitInv'
    OBVIOUS
  <1>1. ASSUME NEW r \in Requests, Handle(r)
        PROVE  LimitInv'
    BY <1>1, ArriveLimit, AdmitLimit, DenyLimit, QuietLimit DEF Handle
  <1>2. CASE Wake \/ Signal \/ Drained \/ Exit \/ UNCHANGED vars
    BY <1>2, QuietLimit
  <1> QED
    BY <1>1, <1>2, EvictLimit, TickLimit DEF ServerNext

\* The variables keep their types: no bucket is ever in debt by more than the
\* tokens of one MaxSkew, and none holds more than a burst.
THEOREM ServerTypeCorrect == ServerSpec => []ServerTypeOK
  <1>1. LimitInv => ServerTypeOK
    BY DEF LimitInv
  <1> QED
    BY <1>1, InitLimit, NextLimit, PTL DEF ServerSpec

\* In no period is a client let through more often than its burst and rate
\* allow, in spite of evictions and of readings that reach the lock late.
THEOREM QuotasHold == ServerSpec => []WithinQuota
  <1>1. LimitInv => WithinQuota
    BY DEF LimitInv
  <1> QED
    BY <1>1, InitLimit, NextLimit, PTL DEF ServerSpec

\* A step of the server lets one request through, within its quota, or none.
LEMMA StepKeepsPromise ==
    LimitInv /\ [ServerNext]_vars => [Promise!Next]_admitted
  <1> SUFFICES ASSUME LimitInv, [ServerNext]_vars
               PROVE  Promise!Next \/ UNCHANGED admitted
    OBVIOUS
  <1>1. ASSUME NEW r \in Requests, Admit(r)
        PROVE  Promise!Next
    <2>1. at[r] = "checking" /\ key[r] = from[r]
      BY <1>1 DEF Admit, LimitInv, ReadingInv
    <2>2. key[r] \in Addresses /\ now[r] \in Promise!Times
      BY <2>1, RefillPays DEF Promise!Times, Readings
    <2>3. ASSUME NEW p \in Promise!Periods, Promise!Within(now[r], p)
          PROVE  admitted[key[r]][p] < Promise!Quota(p)
      <3>1. admitted[key[r]][p] + 1 <= Promise!Quota(p)
        BY <1>1, <2>3, AdmitPays DEF Promise!Within
      <3>2. admitted[key[r]][p] \in Nat /\ Promise!Quota(p) \in Int
        BY <2>2, PeriodEnds, RateInt, Constants
           DEF LimitInv, ServerTypeOK, Promise!Quota, Readings
      <3> QED
        BY <3>1, <3>2
    <2>4. Promise!LetThrough(key[r], now[r])
      BY <1>1, <2>1, <2>3 DEF Admit, Promise!LetThrough
    <2> QED
      BY <2>2, <2>4 DEF Promise!Next
  <1>2. ASSUME NEW r \in Requests, Arrive(r) \/ Deny(r) \/ Answer(r)
        PROVE  UNCHANGED admitted
    BY <1>2 DEF Arrive, Deny, Answer
  <1>3. CASE Wake \/ Evict \/ Signal \/ Drained \/ Exit \/ Tick \/ UNCHANGED vars
    BY <1>3 DEF Wake, Evict, Signal, Drained, Exit, Tick, vars
  <1> QED
    BY <1>1, <1>2, <1>3 DEF ServerNext, Handle

\* The server with its buckets, evictions and concurrent requests implements
\* the rate limit that counts requests by period.
THEOREM ServerImplementsRateLimit == ServerSpec => KeepsPromise
  <1>1. ServerInit => Promise!Init
    BY DEF ServerInit
  <1> QED
    BY <1>1, InitLimit, NextLimit, StepKeepsPromise,
       PTL DEF ServerSpec, KeepsPromise, Promise!Spec
=============================================================================
