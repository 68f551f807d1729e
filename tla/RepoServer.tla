------------------------------ MODULE RepoServer ------------------------------
(***************************************************************************)
(* The package server, src/tools/cmd/zrpkg-server: requests handled at the  *)
(* same time by goroutines that share one token bucket per client address   *)
(* behind a mutex (ratelimit.go), the goroutine that forgets idle buckets,  *)
(* and the way the server stops when it is signalled (main.go).             *)
(*                                                                          *)
(* Time is a whole number of the units Rate is given in, tokens are whole:  *)
(* the code's fractions only make a bucket reach 1 between two units.       *)
(* MaxSkew is how long a goroutine may take from reading the clock to       *)
(* holding the mutex.                                                       *)
(***************************************************************************)
EXTENDS Integers

CONSTANTS
    Addresses,      \* client addresses
    Loopback,       \* the addresses of them that are the machine itself
    NoHeader,       \* a request without X-Real-IP
    TrustProxy,     \* the flag -trust-proxy
    Senders,        \* who sends requests: the peer, and X-Real-IP or NoHeader
    Requests,       \* goroutines: requests handled at the same time
    Rate, Burst,    \* the flags -rate-limit and -rate-burst
    EvictAfter,     \* evictAfter
    MaxSkew,        \* bound: from reading the clock to taking the lock
    MaxClock        \* bound: the last moment

ASSUME ServerAssumption ==
    /\ Loopback \subseteq Addresses
    /\ NoHeader \notin Addresses
    /\ TrustProxy \in BOOLEAN
    /\ Senders \subseteq Addresses \X (Addresses \cup {NoHeader})
    /\ Rate \in Nat
    /\ Burst \in Nat
    /\ EvictAfter \in Nat
    /\ MaxSkew \in Nat
    /\ MaxClock \in Nat

\* An idle bucket is full again before it is forgotten, whatever the order
\* in which readings of the clock reached it: with the flags' defaults a
\* bucket of 20 refills at 5 a second, and is kept for ten minutes.
ASSUME EvictionAssumption == Burst <= Rate * (EvictAfter - 2 * MaxSkew)

VARIABLES
    clock,
    buckets,        \* the addresses that have a bucket
    tokens,         \* bucket.tokens
    lastSeen,       \* bucket.lastSeen
    at,             \* how far each goroutine is
    from,           \* history: whose request it handles
    key,            \* the address that request is limited under
    now,            \* its reading of the clock
    cutoff,         \* what the evicting goroutine is about to forget, or NoCutoff
    wakes,          \* when its sleep ends
    server,         \* main()
    drain,          \* the goroutine that calls Shutdown
    admitted        \* history: requests let through, see RateLimit

limiterVars == <<buckets, tokens, lastSeen>>
requestVars == <<at, from, key, now>>
evictorVars == <<cutoff, wakes>>
serverVars == <<server, drain>>
vars == <<clock, limiterVars, requestVars, evictorVars, serverVars, admitted>>

Promise == INSTANCE RateLimit WITH Clients <- Addresses

-----------------------------------------------------------------------------
NoCutoff == -EvictAfter - 1
Readings == 0..MaxClock

\* clientIP: the direct peer, or what a trusted proxy says in X-Real-IP.
ClientIP(peer, real) ==
    IF TrustProxy /\ peer \in Loopback /\ real # NoHeader THEN real ELSE peer

\* Who the request is from: only a proxy that is trusted speaks for others.
Origin(peer, real) ==
    IF peer \in Loopback /\ TrustProxy
    THEN IF real = NoHeader THEN peer ELSE real
    ELSE peer

Smaller(a, b) == IF a <= b THEN a ELSE b

RefilledUncapped(r) ==
    IF key[r] \in buckets
    THEN tokens[key[r]] + (now[r] - lastSeen[key[r]]) * Rate
    ELSE Burst

RefilledForwardOnly(r) ==
    IF key[r] \in buckets /\ now[r] < lastSeen[key[r]]
    THEN tokens[key[r]]
    ELSE Smaller(RefilledUncapped(r), Burst)

\* allow up to the decision: the bucket of r's client as it is once the time
\* since it was last looked at is paid for.  The time is negative when a
\* later reading got to the lock first.
Refilled(r) ==
    IF key[r] \in buckets
    THEN Smaller(tokens[key[r]] + (now[r] - lastSeen[key[r]]) * Rate, Burst)
    ELSE Burst

\* The bucket is there from now on, with n tokens left in it.
Leaves(r, n) ==
    /\ buckets' = buckets \cup {key[r]}
    /\ tokens' = [tokens EXCEPT ![key[r]] = n]
    /\ lastSeen' = [lastSeen EXCEPT ![key[r]] = now[r]]

\* allow is done with its arguments.
Returns(r) ==
    /\ from' = [from EXCEPT ![r] = NoHeader]
    /\ key' = [key EXCEPT ![r] = NoHeader]
    /\ now' = [now EXCEPT ![r] = 0]

-----------------------------------------------------------------------------
\* limit: a request arrives, and the clock is read before the lock is taken.
Arrive(r) ==
    /\ server = "listening"
    /\ at[r] = "idle"
    /\ \E s \in Senders :
        /\ from' = [from EXCEPT ![r] = Origin(s[1], s[2])]
        /\ key' = [key EXCEPT ![r] = ClientIP(s[1], s[2])]
    /\ now' = [now EXCEPT ![r] = clock]
    /\ at' = [at EXCEPT ![r] = "checking"]
    /\ UNCHANGED <<clock, limiterVars, evictorVars, serverVars, admitted>>

\* allow takes a token, and the wrapped handler runs.
Admit(r) ==
    /\ at[r] = "checking"
    /\ Refilled(r) >= 1
    /\ Leaves(r, Refilled(r) - 1)
    /\ admitted' = Promise!Counted(from[r], now[r])
    /\ at' = [at EXCEPT ![r] = "serving"]
    /\ Returns(r)
    /\ UNCHANGED <<clock, evictorVars, serverVars>>

\* allow finds the bucket empty: 429, and the handler does not run.
Deny(r) ==
    /\ at[r] = "checking"
    /\ Refilled(r) < 1
    /\ Leaves(r, Refilled(r))
    /\ at' = [at EXCEPT ![r] = "idle"]
    /\ Returns(r)
    /\ UNCHANGED <<clock, evictorVars, serverVars, admitted>>

\* repoHandler answers: a method or a name that is not served, or the file.
Answer(r) ==
    /\ at[r] = "serving"
    /\ at' = [at EXCEPT ![r] = "idle"]
    /\ UNCHANGED <<clock, limiterVars, from, key, now, evictorVars, serverVars,
                   admitted>>

WakeAtOnce ==
    /\ cutoff = NoCutoff
    /\ clock >= wakes
    /\ cutoff' = clock
    /\ UNCHANGED <<clock, limiterVars, requestVars, wakes, serverVars, admitted>>

\* evictStale wakes up and computes the cutoff.
Wake ==
    /\ cutoff = NoCutoff
    /\ clock >= wakes
    /\ cutoff' = clock - EvictAfter
    /\ UNCHANGED <<clock, limiterVars, requestVars, wakes, serverVars, admitted>>

\* evictOlderThan, and evictStale goes to sleep again.
Evict ==
    /\ cutoff # NoCutoff
    /\ LET stale == {c \in buckets : lastSeen[c] < cutoff}
       IN  /\ buckets' = buckets \ stale
           /\ tokens' = [c \in Addresses |-> IF c \in stale THEN 0 ELSE tokens[c]]
           /\ lastSeen' = [c \in Addresses |-> IF c \in stale THEN 0 ELSE lastSeen[c]]
    /\ cutoff' = NoCutoff
    /\ wakes' = clock + EvictAfter
    /\ UNCHANGED <<clock, requestVars, serverVars, admitted>>

\* SIGINT or SIGTERM: the goroutine calls Shutdown, which closes the listeners.
Signal ==
    /\ server = "listening"
    /\ server' = "closing"
    /\ drain' = "draining"
    /\ UNCHANGED <<clock, limiterVars, requestVars, evictorVars, admitted>>

\* Shutdown returns once no request is being handled, or after shutdownTimeout.
Drained ==
    /\ drain = "draining"
    /\ server # "exited"
    /\ \/ /\ \A r \in Requests : at[r] = "idle"
          /\ drain' = "drained"
       \/ drain' = "gaveUp"
    /\ UNCHANGED <<clock, limiterVars, requestVars, evictorVars, server, admitted>>

\* ListenAndServe returns as soon as Shutdown was called, and main with it:
\* the process is gone, and so is every request it was still answering.
Exit ==
    /\ server = "closing"
    /\ server' = "exited"
    /\ at' = [r \in Requests |-> IF at[r] = "idle" THEN "idle" ELSE "cut"]
    /\ UNCHANGED <<clock, limiterVars, from, key, now, evictorVars, drain, admitted>>

\* Time passes, but no goroutine takes longer than MaxSkew to get the lock.
Tick ==
    /\ clock < MaxClock
    /\ \A r \in Requests : at[r] = "checking" => clock < now[r] + MaxSkew
    /\ clock' = clock + 1
    /\ UNCHANGED <<limiterVars, requestVars, evictorVars, serverVars, admitted>>

-----------------------------------------------------------------------------
ServerInit ==
    /\ clock = 0
    /\ buckets = {}
    /\ tokens = [c \in Addresses |-> 0]
    /\ lastSeen = [c \in Addresses |-> 0]
    /\ at = [r \in Requests |-> "idle"]
    /\ from = [r \in Requests |-> NoHeader]
    /\ key = [r \in Requests |-> NoHeader]
    /\ now = [r \in Requests |-> 0]
    /\ cutoff = NoCutoff
    /\ wakes = EvictAfter
    /\ server = "listening"
    /\ drain = "off"
    /\ Promise!Init

Handle(r) == Arrive(r) \/ Admit(r) \/ Deny(r) \/ Answer(r)

ServerNext ==
    \/ \E r \in Requests : server # "exited" /\ Handle(r)
    \/ server # "exited" /\ (Wake \/ Evict)
    \/ Signal
    \/ Drained
    \/ Exit
    \/ Tick

ServerSpec == ServerInit /\ [][ServerNext]_vars

-----------------------------------------------------------------------------
\* Every variable has its type; in particular a bucket is in debt by no more
\* than the tokens of one MaxSkew, and no reading of the clock is older.
ServerTypeOK ==
    /\ clock \in Readings
    /\ buckets \subseteq Addresses
    /\ tokens \in [Addresses -> (-Rate * MaxSkew)..Burst]
    /\ lastSeen \in [Addresses -> Readings]
    /\ at \in [Requests -> {"idle", "checking", "serving", "cut"}]
    /\ from \in [Requests -> Addresses \cup {NoHeader}]
    /\ key \in [Requests -> Addresses \cup {NoHeader}]
    /\ now \in [Requests -> Readings]
    /\ cutoff \in (-EvictAfter - 1)..(MaxClock - EvictAfter)
    /\ wakes \in EvictAfter..(MaxClock + EvictAfter)
    /\ server \in {"listening", "closing", "exited"}
    /\ drain \in {"off", "draining", "drained", "gaveUp"}
    /\ admitted \in [Addresses -> [Promise!Periods -> Nat]]

\* No client is let through more often in any period than a burst and the
\* sustained rate allow, although buckets are forgotten and come back full
\* (evictOlderThan), and readings of the clock reach the mutex out of order
\* (limit reads it before allow locks).
WithinQuota ==
    \A c \in Addresses, p \in Promise!Periods : admitted[c][p] <= Promise!Quota(p)

\* Every request let through is one RateLimit lets through.
KeepsPromise == Promise!Spec

\* When the server is gone, no request was cut off unless shutdownTimeout ran
\* out first (main.go:113-116, "Draining in flight downloads on the way out").
DrainsInFlight ==
    server = "exited" => drain = "gaveUp" \/ \A r \in Requests : at[r] # "cut"
=============================================================================
