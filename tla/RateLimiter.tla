----------------------------- MODULE RateLimiter -----------------------------
(***************************************************************************)
(* The way of a request that presents an API key through the middleware,   *)
(* and the counters of the rate limiter in Redis, next to a dashboard that *)
(* creates and deletes keys.                                               *)
(*                                                                         *)
(* A request is a chain of steps, one per SQL statement or Redis command,  *)
(* that interleaves with the others and may stop anywhere.  Time passes in *)
(* ticks; Window ticks are the limiter's minute.                           *)
(***************************************************************************)
EXTENDS Integers

CONSTANTS Keys,         \* ids of API keys
          Clients,      \* requests that may be in flight
          Limit,        \* requests a key may make per window
          Window,       \* ticks in a window
          CounterBound  \* bound on the counter of a key

ASSUME LimiterAssumption ==
    Limit \in Nat \ {0} /\ Window \in Nat \ {0} /\ CounterBound \in Nat

VARIABLES live,      \* keys in the table
          counter,   \* rate_limit:<key> in Redis, 0: no such entry
          ttl,       \* ticks until the entry expires, 0: it does not
          recent,    \* recent[k][a]: requests of k that Allow let through in this tick and the
                \* a ticks before it
          unarmed,   \* keys whose EXPIRE was never executed
          client     \* the requests

limiterVars == <<live, counter, ttl, recent, unarmed, client>>

NoKey      == "none"
Ages       == 0..(Window - 1)
IdleClient == [at |-> "idle", key |-> NoKey]

\* Counters and requests stay within their domains.
LimiterTypeOK ==
    /\ live \subseteq Keys
    /\ counter \in [Keys -> 0..CounterBound]
    /\ ttl \in [Keys -> 0..Window]
    /\ recent \in [Keys -> [Ages -> Nat]]
    /\ unarmed \subseteq Keys
    /\ client \in [Clients -> [at: {"idle", "count", "expire", "touch", "next"},
                               key: Keys \cup {NoKey}]]

LimiterInit ==
    /\ live = {}
    /\ counter = [k \in Keys |-> 0]
    /\ ttl = [k \in Keys |-> 0]
    /\ recent = [k \in Keys |-> [a \in Ages |-> 0]]
    /\ unarmed = {}
    /\ client = [c \in Clients |-> IdleClient]

\* Request c is at step `here` and goes on with `there`.
GoOn(c, here, there) ==
    /\ client[c].at = here
    /\ client' = [client EXCEPT ![c] = IF there = "idle" THEN IdleClient
                                       ELSE [client[c] EXCEPT !.at = there]]

----------------------------------------------------------------------------

\* apikey.Service.Create and Delete; an id is never used again.
CreateKey(k) ==
    /\ k \notin live
    /\ counter[k] = 0 /\ k \notin unarmed
    /\ \A c \in Clients : client[c].key # k
    /\ live' = live \cup {k}
    /\ UNCHANGED <<counter, ttl, recent, unarmed, client>>

DeleteKey(k) ==
    /\ k \in live
    /\ live' = live \ {k}
    /\ UNCHANGED <<counter, ttl, recent, unarmed, client>>

\* The middleware finds the key by its prefix; hash, status, expiry and scope are good:
\* Create stores every key active, without expiry and with the scope.
Authenticate(c, k) ==
    /\ client[c].at = "idle"
    /\ k \in live
    /\ client' = [client EXCEPT ![c] = [at |-> "count", key |-> k]]
    /\ UNCHANGED <<live, counter, ttl, recent, unarmed>>

\* Mutated form: the entry is armed when the limit is reached.
Incr_ArmsAtLimit(c) ==
    \E k \in Keys :
        /\ client[c].key = k
        /\ counter[k] < CounterBound
        /\ LET n == counter[k] + 1
           IN  /\ GoOn(c, "count", IF n = Limit THEN "expire" ELSE IF n <= Limit THEN "touch" ELSE "idle")
               /\ counter' = [counter EXCEPT ![k] = n]
               /\ recent' = IF n <= Limit THEN [recent EXCEPT ![k] = [a \in Ages |-> recent[k][a] + 1]] ELSE recent
        /\ UNCHANGED <<live, ttl, unarmed>>

\* Allow, first command: INCR.  A count of 1 arms the entry, a count above the limit
\* answers 429.
Incr(c) ==
    \E k \in Keys :
        /\ client[c].key = k
        /\ counter[k] < CounterBound
        /\ LET n == counter[k] + 1
           IN  /\ GoOn(c, "count", IF n = 1 THEN "expire" ELSE IF n <= Limit THEN "touch" ELSE "idle")
               /\ counter' = [counter EXCEPT ![k] = n]
               /\ recent' = IF n <= Limit THEN [recent EXCEPT ![k] = [a \in Ages |-> recent[k][a] + 1]] ELSE recent
        /\ UNCHANGED <<live, ttl, unarmed>>

\* Allow, second command: EXPIRE, which does nothing when there is no entry.
Expire(c) ==
    \E k \in Keys :
        /\ client[c].key = k
        /\ GoOn(c, "expire", "touch")
        /\ ttl' = IF counter[k] > 0 THEN [ttl EXCEPT ![k] = Window] ELSE ttl
        /\ UNCHANGED <<live, counter, recent, unarmed>>

\* TouchAPIKeyLastUsed, for which a deleted key is no error; then the handler.
TouchAPIKeyLastUsed(c) ==
    /\ GoOn(c, "touch", "next")
    /\ UNCHANGED <<live, counter, ttl, recent, unarmed>>

ServeHTTP(c) ==
    /\ GoOn(c, "next", "idle")
    /\ UNCHANGED <<live, counter, ttl, recent, unarmed>>

\* A statement or command fails, the client goes away or the process dies.
Stop(c) ==
    /\ client[c].at # "idle"
    /\ GoOn(c, client[c].at, "idle")
    /\ unarmed' = IF client[c].at = "expire" THEN unarmed \cup {client[c].key} ELSE unarmed
    /\ UNCHANGED <<live, counter, ttl, recent>>

\* Time passes; an entry whose time is up disappears.
Tick ==
    /\ ttl' = [k \in Keys |-> IF ttl[k] > 0 THEN ttl[k] - 1 ELSE 0]
    /\ counter' = [k \in Keys |-> IF ttl[k] = 1 THEN 0 ELSE counter[k]]
    /\ recent' = [k \in Keys |-> [a \in Ages |-> IF a = 0 THEN 0 ELSE recent[k][a - 1]]]
    /\ UNCHANGED <<live, unarmed, client>>

LimiterNext ==
    \/ \E k \in Keys : CreateKey(k) \/ DeleteKey(k)
    \/ \E c \in Clients :
        \/ \E k \in Keys : Authenticate(c, k)
        \/ Incr(c)
        \/ Expire(c)
        \/ TouchAPIKeyLastUsed(c)
        \/ ServeHTTP(c)
        \/ Stop(c)
    \/ Tick

LimiterSpec == LimiterInit /\ [][LimiterNext]_limiterVars

----------------------------------------------------------------------------
(* Properties. *)

\* INCR and EXPIRE are two commands.  A counter that does not expire, which blocks its
\* key for ever once the limit is reached, is either about to get its EXPIRE from the
\* request that made it, or that request stopped between the two.
CounterExpires ==
    \A k \in Keys : counter[k] > 0 /\ ttl[k] = 0 =>
        \/ k \in unarmed
        \/ \E c \in Clients : client[c].at = "expire" /\ client[c].key = k

\* The limiter counts fixed windows that start with a key's first request, wherever the
\* EXPIRE of that request falls: no span of one window sees more than twice the limit.
AdmissionRate ==
    \A k \in Keys : recent[k][Window - 1] <= 2 * Limit

\* What the middleware promises of every key.
LimiterSound == CounterExpires /\ AdmissionRate
=============================================================================
