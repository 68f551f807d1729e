------------------------------- MODULE RateLimit -------------------------------
(***************************************************************************)
(* What the package server's rate limit promises a client address: in any   *)
(* period it is let through at most a burst and as many requests as the     *)
(* sustained rate allows in that time (the flags -rate-limit and            *)
(* -rate-burst of src/tools/cmd/zrpkg-server/main.go).                      *)
(*                                                                          *)
(* Nothing is said here of buckets, of when they are forgotten, or of the   *)
(* order in which requests reach the lock.                                  *)
(***************************************************************************)
EXTENDS Integers

CONSTANTS
    Clients,    \* addresses requests are counted under
    Rate,       \* requests per unit of time, sustained
    Burst,      \* requests at once
    MaxClock    \* bound: the last moment

VARIABLE
    admitted    \* per client and period, the requests let through in it

-----------------------------------------------------------------------------
Times == 0..MaxClock

\* A period, from its first moment to its last.
Periods == {p \in Times \X Times : p[1] <= p[2]}

Within(n, p) == p[1] <= n /\ n <= p[2]

Quota(p) == Burst + Rate * (p[2] - p[1])

\* One more request of c at n, in every period n lies in.
Counted(c, n) ==
    [admitted EXCEPT ![c] =
        [p \in Periods |-> IF Within(n, p) THEN @[p] + 1 ELSE @[p]]]

-----------------------------------------------------------------------------
Init == admitted = [c \in Clients |-> [p \in Periods |-> 0]]

\* A request is let through only when no period it falls into is used up.
LetThrough(c, n) ==
    /\ \A p \in Periods : Within(n, p) => admitted[c][p] < Quota(p)
    /\ admitted' = Counted(c, n)

Next == \E c \in Clients, n \in Times : LetThrough(c, n)

Spec == Init /\ [][Next]_admitted
=============================================================================
